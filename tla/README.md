# Verification of go-box-sdk

TLA+ models of the Box Go SDK, the TLC configurations that check them on small
instances, and TLAPS proofs of their main properties. Paths are relative to
`src/`. Every definition that stands for code is listed in `PROJECT.json`
("map") with the lines it stands for.

## 1. Inventory

The SDK is a client library. An application builds one authentication object
and one `NetworkSession`, wraps both in a `Client`, and calls its managers from
as many goroutines as it likes. A manager call is one `Fetch` of the network
client; a chunked upload is a sequence of them. `Fetch` asks the authentication
object for a header on every attempt and for a refresh after a 401. The
authentication object in turn uses the network client, without authentication,
to reach the token endpoint.

    application goroutines
        |  manager calls                     | RetrieveToken, RevokeToken, login
        v                                    v
    managers --Fetch--> network client --> authentication object (storage + mutex)
                            |  ^             |
                            |  +-------------+  RequestAccessToken, RevokeAccessToken
                            v
                      transport, Box service

| Component | State | Operations | Correct when |
|---|---|---|---|
| Authentication objects: `box/ccg.go`, `jwt.go`, `oauth.go`, `developer_token.go`, `token_storage.go` | a token storage and a refresh mutex, shared by goroutines | RetrieveToken, RetrieveAuthorizationHeader, RefreshToken, DownscopeToken, RevokeToken, GetTokensAuthorizationCodeGrant | waiters reuse a refresh; an older token never replaces a younger one; a single-use refresh token is presented once; a revoked token leaves the storage; the mutex is always released |
| Authorization manager: `managers/authorization.go` | none | RequestAccessToken, RevokeAccessToken | one exchange per call |
| Network client: `networking/client.go`, `fetch.go` | per call: options, two counters, an open body, a timeout context | Fetch | requests are bounded; bodies and contexts are released on every exit and not before; the object's token stays on its origin; cancellation ends the call |
| Retry strategy: `networking/retries.go` | none | ShouldRetry, RetryAfter | gives up when its budget is used, and not earlier |
| Chunked uploads: `managers/chunked_uploads.go`, `internal/utils/chunks.go`, `hash.go` | per upload: position in the stream, byte range, digest, parts | UploadBigFile and the session calls | a commit asks for the announced bytes, each once, in order, as the service stored them |
| Downloads: `managers/downloads.go` | per call: the open body | DownloadFile, GetDownloadFileURL | what is handed over is content that only its caller and its deadline cut off; nothing is left behind once it is closed; asking for the URL does not go there |
| Uploads: `managers/uploads.go` | per call: the prepared body, the attempt | UploadFile, UploadFileVersion, UploadWithPreflightCheck | each call takes effect once, with the whole content, on the version its condition names, and its answer is true |
| Resource managers: `managers/files.go`, `folders.go`, `managers.go` | none | GetFileByID, CreateFolder, GetFolderByID, GetFolderItems, DeleteFolderByID; merging of parameters and headers | as for uploads; parameters and headers merge with the right precedence |
| Session: `networking/session.go`, `config.go`, `baseurls.go` | header map, interceptors, pointers, shared between copies | With* builders | a session looks as it was built, whatever is derived from it |
| Facade: `box/client.go` | one authentication object, one session | With* helpers | those of its session |
| Serialization, errors, logging, keys: `serialization`, `schemas`, `errors`, `internal` | none | conversions | - |

The hard behaviours are: several goroutines in one authentication object, with a
mutex that is held across a network exchange and with steps that bypass it
(RetrieveToken, RevokeToken, the OAuth login); answers of the service that are
lost, refused or empty; a retry loop with two budgets, redirects that reset
both, a caller who may cancel and a deadline that may pass at any point; many
calls that send rejected tokens while others refresh; requests that are sent
again and served late; sessions that share what they point to; a long sequence
of dependent requests whose sizes the service chooses. `PROJECT.json` lists them
line by line under "hazards", with the properties that would notice each going
wrong.

## 2. Modules

| Module | Contents |
|---|---|
| `TokenCell` | what RefreshToken promises the goroutines that share an object, and the proof that this is enough |
| `Authentication` | the four authentication types, their callers and the token endpoint |
| `RefreshWaiters` | `Authentication`, observed: who waits while another goroutine refreshes |
| `MCRefreshWaiters` | the symmetry set for TLC |
| `AuthenticationProofs` | the theorems about both, among them that the object implements `TokenCell` |
| `FetchLoop` | one call of Fetch: attempts, retries, redirects, resources, cancellation |
| `FetchLoopProofs` | its theorems |
| `Downloads` | DownloadFile, GetDownloadFileURL and a plain Fetch, over `FetchLoop` |
| `DownloadsProofs` | its theorems, with those of `FetchLoopProofs` carried over |
| `AuthorizedFetch` | many calls of Fetch over one object of `Authentication` |
| `AuthorizedFetchProofs` | its theorems |
| `ResourceStore` | what the calls on one file or folder name promise |
| `ResourceCalls` | the calls of the upload, file and folder managers, their retries, and the service |
| `MCResourceCalls` | its symmetry set for TLC |
| `ResourceCallsProofs` | its theorems, among them that it implements `ResourceStore` |
| `Sessions` | sessions, clients and their builders on a heap, and the headers of an attempt |
| `SessionsProofs` | its theorems |
| `AtomicUpload` | what a chunked upload promises |
| `ChunkedUpload` | UploadBigFile, its chunk iterator and the upload session |
| `MCChunkedUpload` | the announced sizes for TLC |
| `ChunkedUploadProofs` | its theorems, among them that it implements `AtomicUpload` |

### 2.1 Authentication

One object of any of the four types (`method`), used by the goroutines
`Callers`. `storage` is the `TokenStorage`, `mu` the goroutines that hold the
mutex (a set, so that mutual exclusion can be false in a wrong model). `pc`,
`call`, `before`, `cred`, `tok`, `resends` are the positions and local
variables of the goroutines. `minted`, `consumed`, `revoked` are the service.
`installed` and `unconfirmed` are history variables that only properties read.

A step of a goroutine is what it does between two points where something else
may come in between: one access to the storage (which has a lock of its own),
one operation on the mutex, one exchange with the service. The steps of
RefreshToken are `ReadBefore`, `AcquireLock`, the re-read (`UseRefreshed`, or
`SendCredentials`, `SignAndSend`, `PresentRefreshToken` by type),
`RequestAccessToken`, `Store`, `Unlock`; those of RevokeToken are `RevokeGet`,
`RevokeThenClear` or `RevokeRefused`, `Clear`; those of the login
are in `Login`. `CcgStep`, `JwtStep`, `OAuthStep` and `DeveloperStep` say which
type has which.

A token is the number of the grant that minted it. So "younger" is "larger",
and the access token and the refresh token of one grant are one value. What a
token expires to is not modelled: the SDK does not look at expiry before it
sends a token. The network client appears as the possibility that an exchange
is sent again after its answer was lost (`AnswerLost`). A nil token after a 200
without a JSON object (`GrantedNull`) is stored and returned as the code does,
and reading its `AccessToken` is a panic, a state of its own.

`RefreshWaiters` adds three history variables to the object and changes no step
of it. `refreshed` is the goroutine that has stored its new token and not yet
unlocked; `overtaken` are those that waited for the mutex at that Store, `late`
those that came to wait between it and the Unlock. A goroutine waits from its read
of `before`. Both sets lose a goroutine when it is served, and all when the
storage is cleared: then there is nothing left to share.

`TokenCell` is the same from outside: a cell with a token, and a refresh that is
asked for, resolved at one instant and answered. At that instant it joins what
another goroutine has put there, or puts a new token there, or fails. The mapping
`Cell` reads `stage` from `pc`: "asked" from the read of `before` (`Asked`) to
the step that finds a refreshed token or stores a new one, "done" until the mutex
is released. `installed` is the cell's `past`, `before` what was seen at the
call; a retrieval, an exchange that stores nothing and the wait for the mutex
are stutters, `Clear` and `LoginStore` are the cell's `Set`.

### 2.2 FetchLoop

The recursion of `do` is a loop: `Prepare`, then `Send`, an `Answer`
(`TransportFails`, `Receive`, `ReadFails`), a decision (`Retry`, `RefreshFails`,
`FollowRedirect`, `RedirectWithoutLocation`, `ReturnResponse`, `ReturnError`)
and after a retry `Wake` or `SleepCancelled`. `attempt` and `exceptions` are the
two counters, with the arithmetic of ShouldRetry; a redirect sets both back.
`bodyOpen` and `timer` are the resources of an attempt: its response body, and
its timeout context, which is "off" when there is none or it was cancelled, and
otherwise "running" or "expired". `DeadlinePasses` is the clock. It may strike
at any point between `Send` and the release of the context, also while the
caller reads a stream it was handed; before the answer, it lets only
`TransportFails` and `ReadFails` happen. The server answers with any status of
`Statuses`, any Retry-After among absent, zero and positive, and any Location:
an origin, a relative or malformed URL, or none. A URL is its origin, which is
what the loop looks at. The authentication object is an environment that may
fail to give a header or to refresh. A call may have an Authorization header
besides: in its options, where the object's token replaces it, or in its
session, where it replaces the token (`Presented`). Both are there for every
attempt, while a redirect to another origin drops the object. `home`, `sent` and
`authSentTo` are history variables; `sent` stops counting one beyond the limit
the property allows.

Abstracted: the contents of headers, parameters and bodies, the length of a
wait (only whether there is one matters), interceptors (they end or continue
the call as the other steps do), the fields of an error.

### 2.3 ChunkedUpload

One call of UploadBigFile. The content of a chunk is where in the stream it was
read, [start, size], and stands for its SHA1; the whole-file digest is the
sequence of contents folded into it. So a wrong digest, an omitted, repeated or
shifted byte is a visible difference, and SHA1 is taken to be injective.
`emitted` (the iterator), `lastIndex` (the byte ranges) and `fileHash` are kept
apart as in the code. The session's part size and part count are any integers:
zero, negative, too few, or with a product that overflows (`Wrapped`, for an
int of any width). `make` with a size it cannot have, and an answer that
decodes to nil and is dereferenced, end in "panic".

The service (external: modelled from what the code relies on) stores the part
that arrives last at an offset, whole or damaged, and answers with what it
stored or with wrong fields; its count of the parts may lag; it puts the listed
parts together once, at any time after the commit request, also after it has
answered 202 and the call has failed. Nothing relies on the service checking
the digests that are sent to it. The resends of the network client need no
step: a chunk that is sent again ends at the same offset.

`AtomicUpload` has three actions on the outside of that: request, assemble,
return (or fail). The refinement mapping calls the file "whole" only if its
contents cover the announced bytes; any other contents map to a value the
abstract specification never has.

### 2.4 Downloads

A call over `FetchLoop`: the options DownloadFile and GetDownloadFileURL fix, or
those of any other call (`kind`), and one step after Fetch has returned that
hands something to the caller (`handed`). `GiveStream` and `NotReady` are the
two ends of DownloadFile, `GiveURL` and `NoLocation` those of
GetDownloadFileURL. After a 202 the caller gets a nil reader and the response is
dropped with its body open; OnlyNotReadyLeaks says exactly that this is the only
such case. All variables and steps of `FetchLoop` are part of the run, so its
properties are checked here, over every kind of call.

### 2.5 AuthorizedFetch

The composition of Fetch with the object: `Authentication` is extended
unchanged, and a goroutine is either inside a call of the object (`Proceed`) or
at a point of the retry loop. `HeaderReturns` and `RefreshReturns` are the last
step of the object's call and the loop's step after it in one, since nothing
comes in between for others to see. The service (external) accepts a token
unless it has expired or was revoked, and may answer any request with a 429 or
5xx (`Unavailable`). What `FetchLoop` has besides - exceptions, redirects,
bodies - is left there: it does not touch the token. A goroutine makes one call
of Fetch, or calls the object directly; a loop over two calls keeps nothing
from the first one.

### 2.6 ResourceCalls and ResourceStore

One name in a folder, of a file or of a folder, and the calls on it. `history`
is the sequence of effects on the name: position is version, and so etag; an
item is named by the position of its creation. `Arguments` are the calls of the
managers, one operator for each; a condition is a version the item has had, or
none. `UploadWithPreflightCheck` is two Fetches in a row (`phase`).
`GetFolderItems` is a read without a condition. A folder's creation and
deletion are retried as an upload is, which is why they are in one module.

The retry loop is that of `FetchLoop` without what concerns the transport only;
its statuses are the classes a call can tell apart, and any answer may have a
body that does not decode, decodes to nil, or cannot be read. A 202 with
Retry-After, which `FetchLoop` has, is left out: these endpoints do not send it.
A request stays in `inflight` until the service takes it, whether or not anyone
still waits for the answer, and is served once; a lost answer is the same as one
nobody waits for. The service is external and does what the managers rely on: a
name is taken once, If-Match is honoured, a refusal has no effect.

`ResourceStore` is what an application may count on: an effect comes at any
time after its call began, "done" is said only of a call that took effect,
"refused" only of one that never will; of an "unknown" one nothing is promised.
The mapping (`Told`) reads the third of them from `doubtful`, a history
variable: an error after an exception, a 5xx, an unreadable body or one that
does not decode does not tell the caller whether the call took effect. That is
the point of AnswersAreTrue: of every other error it does.

### 2.7 Sessions

The heap of the builders: header maps, the arrays behind the interceptor
slices, sessions. The first map is the application's own, which it may change
at any time (`Edit`) and which it passes to WithAdditionalHeaders and to calls.
`WithField` is any of the builders that set one pointer; pointers are values,
"default" or "custom". A client is its session. A call copies its explicit
headers when it starts (`prepareParams`), and each attempt reads the session
anew. A header key is a name and a spelling; the request knows names only, and
`Presentable` has all the values the random order of a Go map can lead to.
`built` and `asked` are history variables.

## 3. Runs

| Run | Shows | Size |
|---|---|---|
| `auth_storage` | four types, three goroutines, refresh, revocation, login: RefreshReturnsFresh, WaitersShareRefresh, RevokedStaysOut, NoReuse, StoredGrantUsable, TokenNeverGoesBack | 1.6 M states |
| `auth_progress` | all types, two goroutines, fair: EveryCallReturns, RefreshIsAtomic, CallsRunOut | 0.1 M |
| `downloads` | fair; a plain Fetch and both downloads, two origins: AttemptBound, GivesUpOnlyWhenExhausted, NothingLeaks, OnlyCallerOrDeadlineCutsOff, TokenStaysHome, OnlyNotReadyLeaks, StreamIsContent, LocationNotVisited, OnlyRedirectsProlong, CancelReturns, DownloadReturns | 0.9 M |
| `authorized_fetch` | fair; two goroutines, all types: NoRejectedResent, GivesUpOnlyOnDeadTokens, AttemptsRunOut, EveryFetchReturns | 0.1 M |
| `chunked_upload` | fair: CommitIsWholeFile, VerifiedIsStored, CommitHasAllParts, UploadIsAtomic, UploadRunsOut, UploadReturns | 7 k |
| `resource_calls` | two calls on one name: OncePerCall, NoLostUpdate, AnswersAreTrue | 0.6 M |
| `sessions` | three sessions, one call with any number of attempts: LooksAsBuilt, PrecedenceKept | 0.6 M |
| `auth_blocked_caller`, `auth_revoke_race`, `auth_header_home`, `fetch_attempts`, `header_precedence` | statements of the repository that its code does not keep (section 6) | - |

Each passing run also checks the type invariant of its module.

Bounds, and why they are enough:

- Three goroutines in `auth_storage`: one holds the mutex, one waits for it
  with a stale `before`, one acts beside both (revokes or logs in). The
  goroutines are interchangeable, so the safety run uses symmetry; the liveness
  runs do not. Downscoping is a retrieval followed by an exchange that stores
  nothing; it is left to the liveness run.
- `MaxTokens` = 3 grants, one of which may be there at the start: an old token,
  its successor and the successor's successor. The service refuses when they
  are used up, which it may do anyway.
- `MaxResends` = 1: a lost answer and a second try. More repeat it.
- `downloads`: one status of each class the loop distinguishes, two origins, so
  that a redirect can leave, stay and return, three attempts and one exception:
  the first, a middle and the last attempt, and both sides of each limit. The
  proofs are for any budget; `fetch_attempts` has the defaults. A call has an
  Authorization header of its own in its options or none; one in the session
  hides the token, and is in the proofs and in `auth_header_home`.
- `authorized_fetch`: two goroutines, one of which may refresh while the other
  carries the token it replaces; three attempts, two tokens that expire and one
  outage, so that the attempts can be used up in every mixture; no lost
  answers, which `auth_storage` has.
- `resource_calls`: two calls, each of any operation: every pair is in it. Two
  attempts and one exception make up to three requests of one call, with both
  ways of getting a further one.
- `sessions`: three sessions are an original, a copy and a copy of the copy or
  a sibling, the least for two copies to meet in one array. One spelling: with
  two, PrecedenceKept fails, which is `header_precedence`.
- Files of 0 to 5 bytes, streams of 0 to 6, part sizes -3 to 5 and counts -3 to
  6 over an int of 4 bits: every relation between them that the code tells
  apart occurs, an exact last part, a short one, none, an overflow to either
  side, an allocation that is refused.

Deadlock is not checked, because the systems may stop: a Fetch, an upload and a
call end, a goroutine need not make another call, no session has to be derived,
and a panic is final. That nothing stops half-way is what the liveness
properties say.

Fairness. `Authentication`: a goroutine that can go on does (the Go scheduler),
an exchange ends in an answer or an error (the network client's retries are
bounded, which `FetchLoop` shows), and a goroutine that waits for the mutex gets
it in the end: strong fairness of `AcquireLock`, since a Go mutex hands itself
to its longest waiter once that has waited a millisecond. No call has to be
made. `AuthorizedFetch`: the same, and a request is answered. `Downloads`: the
loop goes on; the transport ends an exchange, by an error if nothing else; the
manager returns when Fetch has. Neither a cancellation nor the closing of a
stream is assumed. DownloadReturns says "unless it is redirected for ever",
because nothing limits redirects. `ChunkedUpload`: the call goes on; the service
need not assemble the file.

## 4. Proofs

TLAPS checks these for every value of the constants; the assumptions on the
constants are the `ASSUME`s of the modules (types, and that the values that
stand for no URL are not origins). A theorem that needs more says so in its own
ASSUME, and the text below says why.

### 4.1 The authentication object

`AuthenticationProofs`: TypeCorrect, Fresh, RevokedLeaves, GrantSurvives,
SingleUse, NeverBack. The properties of the runs are not
inductive: they speak of a goroutine with a token in hand and not of how it came
by it. The invariant `IInv` adds that the mutex has at most one holder and who
it is (`MutexInv`), what the histories have to do with the service and the
storage (`HistoryInv`), what a goroutine holds at each position (`HandInv`), and
for the types whose storage only RefreshToken fills, that the youngest token
is in the storage or in the hand of the holder (`YoungestInv`). Each step is
treated by what it changes; `OthersUnmoved` disposes of the other goroutines.

Waiters. WaitersJoin: a goroutine that waited when another one stored a new token
makes no request, whichever type the object is. `WaitInv` says why: it waits or
re-reads, and the storage holds something else than what it had read, as no token
is stored twice (`NewToken`). It holds beside logins and revocations; only a
cleared storage ends it. Nothing of the kind can be said of a goroutine in
`late`: it has read the token that was just stored (section 6, 1).

Atomicity. RefreshAtomic proves that the object of every type implements
`TokenCell`: reading `before` outside of the mutex, comparing it under the mutex
and storing after an exchange amount to one compare-and-swap. The proof goes by
the kind of step: most are stutters (`QuietMaps`), `UseRefreshed` is Join,
`Store` is Replace, a failed refresh is Fail. Replace must put a token there that
never was in the cell (`HistoryInv`), and where nobody logs in a younger one, over
a token that is still the one seen: that is where the mutex and `YoungestInv` are
used.
`TokenCell` has its own invariant, `CellInv`, and theorem CellGivesNew: whatever
is joined or put there is not what was seen at the call. RefreshGivesNew combines
the two and holds of the object.

How far it goes wrong. The two findings of section 6 that concern the object,
and the nil token, have theorems that delimit them, each from a further invariant:

- NilOnlyFromNullAnswer (`NoNilInv`): if no 200 lacks its JSON object, no call
  returns nil without an error and none panics. (`ReturnsToken` itself is
  not checked by a run: it fails with one such answer.)
- ClearsNoOlder, ClearsRevokedAlone (`ClearInv`): what RevokeToken clears
  unrevoked is younger than what it had revoked, and with one goroutine it
  clears what it revoked. Both assume that no answer is null, as in the previous
  item: a stored nil reads like an empty storage.
- OneRequestEach, SingleFetchAlone (`ColdInv`): goroutines that do nothing but
  retrieve (`Retrieving`) are granted together no more tokens than they are, if
  no answer is lost or null. `ColdInv` counts: the grants and the goroutines
  that may still ask for one (`Waiting`) are no more than all. Nobody joins
  `Waiting` once a token is stored.

Progress. CallsEnd: with every step of a call `Remaining` gets smaller, a
natural number. LockHeldByWorker: who waits for the mutex waits for another
goroutine that is at work inside it. Together they are what EveryCallReturns
rests on besides fairness.

`AuthorizedFetchProofs`: FetchTypeCorrect, RetryBringsAnother, NoWastedAttempt.
FetchUsesObject says that the composition, seen from the object, behaves as
`Authentication` allows, so that every theorem about the object holds of it;
FetchRefreshAtomic is the case of RefreshAtomic. The composition's contribution
is `StorageMoves`: no token comes into the storage twice. Hence
`ReplacedInv`: the storage holds a token that a call was rejected for only while
that call is refreshing it, and then it is the `before` of that refresh -
although RefreshToken never learns which token was rejected. `CountInv` counts
the attempts by the rejected tokens, which are dead and distinct, and outages.
FetchRunsOut: every step of a call ends it, ends an attempt that counts, or
leaves fewer steps of the attempt (`AttemptLeft`, which contains the object's
`Remaining`).

### 4.2 Fetch and the downloads

`FetchLoopProofs`: TypeCorrect, RequestsBounded, BudgetUsed, NoLeak,
StreamUncut, TokenKeptHome. `CountInv` relates both counters to the
requests sent on a hop: each exception buys one more request than the
attempts, and only MaxRetriesOnException of them are retried. `ResourceInv` says
what is open at each point, and that the context of an open body was not
cancelled: what is left to cut the body off is the caller and the deadline.
`AuthInv` says that a call which still carries its authentication object is still
at home. It says nothing of a header the call brings along, for which the same is
false (section 6, 3).

HopEnds: with every step but a followed redirect `HopLeft` gets smaller, which
is four steps for every request the hop has left and those of the current one.
It is never negative because of RequestsBounded: the bound on the requests is
what makes the loop end.
CancelEnds: once the context is cancelled, `CancelLeft` gets smaller with every
step, redirects included. An answer that was in hand when the context was
cancelled may be one redirect, to one more hop; that hop gets no answer.

`DownloadsProofs`: DownloadsRunFetch, DownloadTypeCorrect, OnlyThe202Leaks,
StreamsAreContent, LocationStaysHome, DownloadHopEnds. Every step of a download
is a step of `FetchLoop` or leaves it alone, so `IInv` of `FetchLoopProofs`
holds. `KindInv` adds what the options of the call entail for its response,
`HandInv` what the caller holds at each point.

### 4.3 Chunked uploads

`ChunkedUploadProofs`: TypeCorrect, CommitIsWhole, VerifiedStays, Refinement.
`DigestInv` says that the digest covers the stream up to `lastIndex`, which is
up to `emitted` except for the chunk on its way; `PartsInv` that the parts are
the contents of the digest at their offsets; `StoredInv` that no two parts of
the session share an offset, so that the service finds the part that was
verified. `PartSizeInv` excludes parts of no size, which would overlap: the
product of zero and anything is too small for a file that is not empty, however
wide the integers. Refinement maps every step to a step of `AtomicUpload` or to
none, from the same invariant.

`CommitIsComplete` is a counting argument. `CountInv` says that before the last
chunk every part has the announced size, so the parts so far times that size
are the bytes read, and there are no more parts than the announced count; a
commit comes only when the listing, which is never ahead of the parts, has
reached that count. It needs that the product did not wrap around into a number
that looks sufficient (`WrappedIsSmall`): a wrapped product is never larger than the
true one, so what suffices wrapped suffices in truth.

UploadEnds: every step of the call leaves less in `UploadLeft`. The loop over
the chunks ends because no chunk is empty, which is `PartSizeInv` again: without
the assertion of the sizes a part size of zero would read nothing for ever.

### 4.4 Resource calls

`ResourceCallsProofs`: TypeCorrect, EffectOnce, ConditionKept, Refinement.
`HistoryInv` is the shape of a name's life: creations and deletions alternate,
an item does not return, an effect is what its call asked for on the version it
named. EffectOnce follows from it alone: a second effect of one call would need
its version, or its absence, to come back. `FlightInv` says that a write in
flight whose call is not in doubt is the one that is waited for, `AnswerInv`
that what was confirmed took effect and the reverse, up to doubt. Refinement
maps `Perform` to `Apply` and the step that returns to what the caller is told.

From these follow what an application relies on: VersionHasOneWinner (of the
calls that name one version at most one is told that it succeeded),
NameHasOneCreator (the same for creations, where nothing is deleted),
RefusalIsFinal (a call that failed without doubt does not take effect
afterwards) and ContentIsWhole (an attempt that follows another one still sends
the whole content).

EffectsWithinBudget bounds the calls that EffectOnce exempts: an unconditional
call takes effect at most MaxAttempts + MaxRetriesOnException times, also when
requests are served after the call has returned. `BudgetInv` bounds the counters
as `CountInv` of `FetchLoopProofs` does; `Accounted` says that the effects of a call
and its requests in flight are no more than the requests it has sent.

### 4.5 Sessions

`SessionsProofs`: SessionsKeepTheirLook, and PrecedenceOfOneSpelling under the
assumption `OneSpelling`, without which it is false. `HeapInv` says that
sessions point to existing objects and never to the application's map; the heap
only grows otherwise (`Grows`), so what a session points to stays. `SentInv`
then has every attempt built from the same headers.

### 4.6 Model-checked only

The liveness properties EveryCallReturns, EveryFetchReturns, CancelReturns,
DownloadReturns and UploadReturns: fairness and ENABLED are out of the prover's
reach. What is proved for each of them is its safety half: a measure in the
natural numbers that every step makes smaller (CallsEnd, FetchRunsOut,
CancelEnds, HopEnds, UploadEnds). What is left to TLC is that there is a step to
take as long as the call has not returned, and that fairness makes it be taken.
The counterexamples of section 6 are TLC's as well.

## 5. Not modelled

- Calls on an upload session by its ID: single requests for applications that
  run a session themselves. UploadBigFile keeps its session to itself.
- A damaged duplicate of a chunk that arrives after the chunk was verified. The
  code could not notice; it sends the part list and the digest with the commit
  so that the service can.
- Serialization, schemas, errors, logging, the signing of assertions, key
  parsing: conversions without state. That signing may fail, and that a body
  may decode to nil, is in `Authentication`.

- Interceptors are code of the application: what they do to a request or a
  response is theirs. That the client runs those of its session, in order, is
  part of PrecedenceKept.
- The building of URLs and parameters; the length of a wait and of a timeout: a
  timer may fire, a deadline may pass, at any time.
- Standalone calls of PreflightFileUploadCheck: a read, modelled as the first
  request of UploadWithPreflightCheck.
- Order among unconditional uploads of versions: a late one replaces a newer
  one. The code asks for no order, and OncePerCall and NoLostUpdate exempt these.
- What a caller changes behind pointers it handed to a session (BaseURLs,
  ProxyConfig, TimeoutConfig): "shallow copy" promises nothing about it.

## 6. Where the code departs from what the repository says

1. `auth_blocked_caller`: "a caller that blocks while another goroutine refreshes
   returns that fresh token without issuing a second request" (`box/ccg.go:59`,
   and likewise `box/jwt.go:129`). A caller that reads `before`
   when the other has stored its token and not yet unlocked blocks with the new
   token as `before`, and requests again. The same happens without blocking to one
   that reads `before` later still, having found the storage empty or its token
   rejected. In the run both callers only want the header from an empty storage,
   where `box/concurrency_test.go:71` expects one request. What does hold is
   WaitersShareRefresh, of a caller that had read `before` ahead of the Store, and
   that there are no more grants than goroutines (OneRequestEach).
2. `auth_revoke_race`: RevokeToken clears whatever the storage holds when the
   service has answered, which may be a younger token that was not revoked
   (`box/ccg.go:154-168`). What does hold is RevokedStaysOut, and that it is not
   an older one (ClearsNoOlder).
3. `auth_header_home`: the client is said to strip "the auth header and query
   params on cross-origin redirects" (`networking/client.go:39`). It drops the
   authentication object and the parameters (`client.go:342`); an Authorization
   header in the options or the session of the call is sent to the other origin.
   What does hold is TokenStaysHome.
4. `fetch_attempts`: "up to 5 attempts" (`networking/retries.go:18`) become 7
   when transport exceptions follow retried statuses. What does hold is
   AttemptBound.
5. `header_precedence`: with two spellings of one header name ("as-user" in a
   call, "As-User" in the session) the precedence that `buildHeaders` documents
   (`networking/client.go:410`) does not hold: both keys survive in the map, and
   whichever is traversed last is sent (`client.go:243`). What does hold is
   PrecedenceKept where each name has one spelling.

## 7. Plan

Done: `Authentication` and `TokenCell`, `FetchLoop`, `ChunkedUpload` and
`AtomicUpload`, `Downloads`, `AuthorizedFetch`, `ResourceCalls` and
`ResourceStore`, `Sessions`, each with its proofs. Open, in this order:

1. A refinement from `AuthorizedFetch` to the authorization steps of
   `FetchLoop`, so that its abstract refresh is shown to be the object's.
2. A bound on what a burst of 401s costs. It is not one refresh for each token
   that died: a goroutine that reads `before` only after another has refreshed
   finds the new token unchanged under the mutex and replaces it, although it was
   never rejected. The bound is per 401 and needs the grants counted by caller.
