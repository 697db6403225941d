--------------------------- MODULE Authentication ---------------------------
(***************************************************************************)
(* One Box authentication object (box/ccg.go, jwt.go, oauth.go,            *)
(* developer_token.go) shared by many goroutines.  The object is a token   *)
(* storage and a mutex; the goroutines call RetrieveToken, RefreshToken,   *)
(* DownscopeToken, RevokeToken and the OAuth authorization-code login; the *)
(* token endpoint of the Box service answers, refuses, or has its answer   *)
(* lost.  A step of a goroutine is what it does between two points where   *)
(* another goroutine, or the service, can come in between: one access to   *)
(* the storage, one operation on the mutex, one exchange with the service. *)
(*                                                                         *)
(* A token is the number of the grant that minted it, so a larger number   *)
(* is a younger token.  Its access token and its refresh token are not     *)
(* told apart: the n-th grant returns both.                                *)
(***************************************************************************)
EXTENDS Integers, FiniteSets

CONSTANTS
    Callers,      \* the goroutines that share the authentication object
    Methods,      \* the authentication methods to consider
    Calls,        \* the calls the goroutines make
    Faults,       \* what may go wrong in an exchange with the service
    MaxTokens,    \* bound: grants the token endpoint makes
    MaxResends    \* bound: re-sends of one exchange by the network client

AllMethods == {"ccg", "jwt", "oauth", "developer"}
AllCalls   == {"retrieve", "header", "refresh", "downscope", "revoke", "login"}
AllFaults  == {"reject",    \* the service refuses a request it could grant
               "lost",      \* a request or its answer is lost on the way
               "null",      \* 200 whose body does not decode to a token
               "sign"}      \* the JWT assertion cannot be signed

ASSUME ParametersAssumption ==
    /\ Methods \subseteq AllMethods
    /\ Calls \subseteq AllCalls
    /\ Faults \subseteq AllFaults
    /\ MaxTokens \in Nat \ {0}
    /\ MaxResends \in Nat

None   == 0       \* a nil *AccessToken; also the "" held in `before`
Failed == -1      \* the outcome of a call that returns an error

Token  == 1 .. MaxTokens

VARIABLES
    method,       \* which of the four types the object is
    storage,      \* the TokenStorage: a token or None
    mu,           \* the goroutines that hold the mutex, {} when it is free
    pc,           \* where each goroutine is
    call,         \* the call it is making
    before,       \* RefreshToken's local `before`
    cred,         \* the refresh token it presents to the endpoint
    tok,          \* the token (None, Failed) it carries to its next step
    resends,      \* re-sends of the exchange under way
    minted,       \* the service: grants made so far
    consumed,     \* the service: refresh tokens already exchanged
    revoked,      \* the service: tokens revoked
    installed,    \* history: every token that was ever in the storage
    unconfirmed   \* history: tokens exchanged or revoked at the service by a
                  \* request whose answer the object never used

object   == <<storage, mu>>
locals   == <<before, cred, tok, resends>>
service  == <<minted, consumed, revoked>>
history  == <<installed, unconfirmed>>
vars == <<method, object, pc, call, locals, service, history>>

Critical  == {"recheck", "request", "store", "unlock"}
Locations == Critical \cup
    {"idle", "retrieve", "before", "lock", "exchange", "revokeGet",
     "revokeCall", "clear", "loginCall", "loginStore", "panicked"}

TypeOK ==
    /\ method \in Methods
    /\ storage \in Token \cup {None}
    /\ mu \subseteq Callers
    /\ pc \in [Callers -> Locations]
    /\ call \in [Callers -> Calls \cup {"none"}]
    /\ before \in [Callers -> Token \cup {None}]
    /\ cred \in [Callers -> Token \cup {None}]
    /\ tok \in [Callers -> Token \cup {None, Failed}]
    /\ resends \in [Callers -> 0 .. MaxResends]
    /\ minted \in 0 .. MaxTokens
    /\ consumed \subseteq Token
    /\ revoked \subseteq Token
    /\ installed \subseteq Token
    /\ unconfirmed \subseteq Token
-----------------------------------------------------------------------------
(* The object as the New* constructors leave it: an empty storage, or one   *)
(* that already holds a token (a developer token, or a storage the          *)
(* application passes in the Config).                                       *)
InitialToken == IF method = "developer" THEN {1} ELSE {None, 1}

Init ==
    /\ method \in Methods
    /\ storage \in InitialToken
    /\ mu = {}
    /\ pc = [c \in Callers |-> "idle"]
    /\ call = [c \in Callers |-> "none"]
    /\ before = [c \in Callers |-> None]
    /\ cred = [c \in Callers |-> None]
    /\ tok = [c \in Callers |-> None]
    /\ resends = [c \in Callers |-> 0]
    /\ minted = storage
    /\ consumed = {}
    /\ revoked = {}
    /\ installed = {storage} \ {None}
    /\ unconfirmed = {}
-----------------------------------------------------------------------------
(* Moving a goroutine.                                                      *)
At(c, l) == pc[c] = l
Goto(c, l) == pc' = [pc EXCEPT ![c] = l]

\* RefreshToken has returned and its local variables are gone.
Forget(c) ==
    /\ before' = [before EXCEPT ![c] = None]
    /\ cred' = [cred EXCEPT ![c] = None]
    /\ tok' = [tok EXCEPT ![c] = None]
    /\ resends' = [resends EXCEPT ![c] = 0]

\* The call is over.
Leave(c, l) ==
    /\ Goto(c, l)
    /\ call' = [call EXCEPT ![c] = "none"]
    /\ Forget(c)

Return(c) == Leave(c, "idle")

(* What the call does with the outcome t of RetrieveToken or RefreshToken:  *)
(* RetrieveAuthorizationHeader reads t.AccessToken, a nil pointer panics;   *)
(* DownscopeToken checks for nil and goes on to exchange t.                 *)
HeaderOf(c, t) ==
    Leave(c, IF t = None THEN "panicked" ELSE "idle")

DownscopeOf(c, t) ==
    IF t \in {None, Failed}
    THEN Return(c)
    ELSE Goto(c, "exchange") /\ Forget(c) /\ UNCHANGED call

Deliver(c, t) ==
    \/ call[c] = "header" /\ HeaderOf(c, t)
    \/ call[c] = "downscope" /\ DownscopeOf(c, t)
    \/ call[c] \notin {"header", "downscope"} /\ Return(c)

(* The storage operations; each is one critical section of its own mutex.   *)
\* Mutant: a token that is already cached is kept.
StoreIfAbsent(t) ==
    /\ storage' = IF storage = None THEN t ELSE storage
    /\ installed' = installed \cup ({t} \ {None})

StoreToken(t) ==
    /\ storage' = t
    /\ installed' = installed \cup ({t} \ {None})

\* Mutant: RevokeToken forgets to clear.
KeepStorage == storage' = storage

ClearStorage == storage' = None
-----------------------------------------------------------------------------
(* A goroutine makes a call.                                                *)
EntryOf(o) ==
    CASE o = "refresh" -> "before"
      [] o = "revoke"  -> "revokeGet"
      [] o = "login"   -> "loginCall"
      [] OTHER         -> "retrieve"

Begin(c, o) ==
    /\ At(c, "idle")
    /\ o = "login" => method = "oauth"
    /\ call' = [call EXCEPT ![c] = o]
    /\ Goto(c, EntryOf(o))
    /\ UNCHANGED <<method, object, locals, service, history>>

Start(c) == \E o \in Calls : Begin(c, o)

(* RetrieveToken of CCG and JWT: the cached token, or a refresh if absent.  *)
RetrieveOrRefresh(c) ==
    /\ At(c, "retrieve")
    /\ \/ storage # None /\ Deliver(c, storage)
       \/ storage = None /\ Goto(c, "before") /\ UNCHANGED <<call, locals>>
    /\ UNCHANGED <<method, object, service, history>>

(* RetrieveToken of OAuth and developer tokens: absent is an error.         *)
RetrieveOrFail(c) ==
    /\ At(c, "retrieve")
    /\ \/ storage # None /\ Deliver(c, storage)
       \/ storage = None /\ Return(c)
    /\ UNCHANGED <<method, object, service, history>>
-----------------------------------------------------------------------------
(* RefreshToken of CCG, JWT and OAuth.                                      *)
ReadBefore(c) ==
    /\ At(c, "before")
    /\ before' = [before EXCEPT ![c] = storage]
    /\ Goto(c, "lock")
    /\ UNCHANGED <<method, object, call, cred, tok, resends, service, history>>

\* Mutant: the refresh does not lock.
LockIgnored == TRUE

LockFree == mu = {}

AcquireLock(c) ==
    /\ At(c, "lock")
    /\ LockFree
    /\ mu' = mu \cup {c}
    /\ Goto(c, "recheck")
    /\ UNCHANGED <<method, storage, call, locals, service, history>>

\* Mutants: no re-read under the lock; a re-read that does not compare.
NeverRefreshed(c) == FALSE
AnyTokenRefreshed(c) == storage # None

Refreshed(c) == storage # None /\ storage # before[c]

\* Another goroutine refreshed while this one waited: return its token.
UseRefreshed(c) ==
    /\ At(c, "recheck")
    /\ Refreshed(c)
    /\ tok' = [tok EXCEPT ![c] = storage]
    /\ Goto(c, "unlock")
    /\ UNCHANGED <<method, object, call, before, cred, resends, service, history>>

\* CCG: the client credentials are sent; they can be sent any number of times.
SendCredentials(c) ==
    /\ At(c, "recheck")
    /\ ~Refreshed(c)
    /\ Goto(c, "request")
    /\ UNCHANGED <<method, object, call, locals, service, history>>

\* JWT: a new assertion is signed, which may fail, and sent.
SignAndSend(c) ==
    /\ At(c, "recheck")
    /\ ~Refreshed(c)
    /\ \/ Goto(c, "request") /\ UNCHANGED tok
       \/ /\ "sign" \in Faults
          /\ tok' = [tok EXCEPT ![c] = Failed]
          /\ Goto(c, "unlock")
    /\ UNCHANGED <<method, object, call, before, cred, resends, service, history>>

\* OAuth: the refresh token re-read under the lock is presented ("" if none).
PresentedToken(c) == storage

PresentRefreshToken(c) ==
    /\ At(c, "recheck")
    /\ ~Refreshed(c)
    /\ cred' = [cred EXCEPT ![c] = PresentedToken(c)]
    /\ Goto(c, "request")
    /\ UNCHANGED <<method, object, call, before, tok, resends, service, history>>
-----------------------------------------------------------------------------
(* The token endpoint, reached through AuthorizationManager and the network *)
(* client, which sends the same body again when an exchange fails in        *)
(* transport.  A refresh token is good for one exchange; credentials,       *)
(* assertions and authorization codes may always be granted.                *)
CanMint == minted < MaxTokens

Usable(c) ==
    method = "oauth" /\ At(c, "request") => cred[c] \notin consumed \cup {None}

Grants(c) == CanMint /\ Usable(c)

Mint(c) ==
    /\ minted' = minted + 1
    /\ consumed' = consumed \cup ({cred[c]} \ {None})
    /\ UNCHANGED revoked

\* The goroutine waits for the answer of the endpoint at `from` and goes on
\* to store the token at `to`.
Exchanging(c, from, to) == At(c, from) /\ Goto(c, to) /\ UNCHANGED call

Granted(c, from, to) ==
    /\ Exchanging(c, from, to)
    /\ Grants(c)
    /\ Mint(c)
    /\ tok' = [tok EXCEPT ![c] = minted']
    /\ UNCHANGED <<method, object, before, cred, resends, history>>

\* Decode yields a nil token for a body that is no JSON object; the grant
\* behind it is spent.
GrantedNull(c, from, to) ==
    /\ "null" \in Faults
    /\ Exchanging(c, from, to)
    /\ Grants(c)
    /\ Mint(c)
    /\ tok' = [tok EXCEPT ![c] = None]
    /\ unconfirmed' = unconfirmed \cup ({cred[c]} \ {None})
    /\ UNCHANGED <<method, object, before, cred, resends, installed>>

\* The grant is made but its answer is lost; the client sends again.
AnswerLost(c, from) ==
    /\ "lost" \in Faults
    /\ At(c, from)
    /\ Grants(c)
    /\ resends[c] < MaxResends
    /\ Mint(c)
    /\ resends' = [resends EXCEPT ![c] = @ + 1]
    /\ unconfirmed' = unconfirmed \cup ({cred[c]} \ {None})
    /\ UNCHANGED <<method, object, pc, call, before, cred, tok, installed>>

\* The service refuses, or the client gives up on a transport that fails.
Refuses(c) == ~Usable(c) \/ ~CanMint \/ {"reject", "lost"} \cap Faults # {}

\* Mutant: the error is not looked at before the Store.
StoreAnyway == "store"

\* Mutant: a refused refresh starts over.
StartOver == "recheck"

AfterRefusal == "unlock"

RefreshRefused(c) ==
    /\ Exchanging(c, "request", AfterRefusal)
    /\ Refuses(c)
    /\ tok' = [tok EXCEPT ![c] = Failed]
    /\ UNCHANGED <<method, object, before, cred, resends, service, history>>

RequestAccessToken(c) ==
    \/ Granted(c, "request", "store")
    \/ GrantedNull(c, "request", "store")
    \/ AnswerLost(c, "request")
    \/ RefreshRefused(c)

Store(c) ==
    /\ At(c, "store")
    /\ StoreToken(tok[c])
    /\ Goto(c, "unlock")
    /\ UNCHANGED <<method, mu, call, locals, service, unconfirmed>>

\* The deferred Unlock, and the return of the token or the error.
\* Mutant: the error path returns without unlocking.
ReleasedOnSuccess(c) == IF tok[c] = Failed THEN mu ELSE mu \ {c}

Released(c) == mu \ {c}

Unlock(c) ==
    /\ At(c, "unlock")
    /\ mu' = Released(c)
    /\ Deliver(c, tok[c])
    /\ UNCHANGED <<method, storage, service, history>>

RefreshUnderLock(c) ==
    \/ ReadBefore(c) \/ AcquireLock(c) \/ UseRefreshed(c)
    \/ RequestAccessToken(c) \/ Store(c) \/ Unlock(c)

\* A developer token cannot be refreshed.
RefreshFails(c) ==
    /\ At(c, "before")
    /\ Return(c)
    /\ UNCHANGED <<method, object, service, history>>
-----------------------------------------------------------------------------
(* DownscopeToken: the exchange returns a token that is not stored.         *)
Exchange(c) ==
    /\ At(c, "exchange")
    /\ Return(c)
    /\ UNCHANGED <<method, object, service, history>>

(* RevokeToken: read the token, have the service revoke it, and clear the   *)
(* storage (not OAuth).  The answer of the service may be lost.             *)
RevokeGet(c) ==
    /\ At(c, "revokeGet")
    /\ \/ storage = None /\ Return(c)
       \/ /\ storage # None
          /\ tok' = [tok EXCEPT ![c] = storage]
          /\ Goto(c, "revokeCall")
          /\ UNCHANGED <<call, before, cred, resends>>
    /\ UNCHANGED <<method, object, service, history>>

Revoke(c) == revoked' = revoked \cup {tok[c]} /\ UNCHANGED <<minted, consumed>>

RevokeRefused(c) ==
    /\ At(c, "revokeCall")
    /\ \/ UNCHANGED <<service, unconfirmed>>
       \/ Revoke(c) /\ unconfirmed' = unconfirmed \cup {tok[c]}
    /\ {"reject", "lost"} \cap Faults # {}
    /\ Return(c)
    /\ UNCHANGED <<method, object, installed>>

RevokeThenClear(c) ==
    /\ At(c, "revokeCall")
    /\ Revoke(c)
    /\ Goto(c, "clear")
    /\ UNCHANGED <<method, object, call, locals, history>>

Clear(c) ==
    /\ At(c, "clear")
    /\ ClearStorage
    /\ Return(c)
    /\ UNCHANGED <<method, mu, service, history>>

RevokeAndClear(c) ==
    RevokeGet(c) \/ RevokeRefused(c) \/ RevokeThenClear(c) \/ Clear(c)

RevokeOnly(c) ==
    /\ At(c, "revokeCall")
    /\ Revoke(c)
    /\ Return(c)
    /\ UNCHANGED <<method, object, history>>

(* GetTokensAuthorizationCodeGrant of OAuth: exchange a code and store the  *)
(* token, without the mutex.                                                *)
LoginRefused(c) ==
    /\ At(c, "loginCall")
    /\ Refuses(c)
    /\ Return(c)
    /\ UNCHANGED <<method, object, service, history>>

LoginStore(c) ==
    /\ At(c, "loginStore")
    /\ StoreToken(tok[c])
    /\ Return(c)
    /\ UNCHANGED <<method, mu, service, unconfirmed>>
Login(c) ==
    \/ Granted(c, "loginCall", "loginStore")
    \/ GrantedNull(c, "loginCall", "loginStore")
    \/ AnswerLost(c, "loginCall")
    \/ LoginRefused(c)
    \/ LoginStore(c)
-----------------------------------------------------------------------------
(* The methods of the four types.                                           *)
CcgStep(c) ==
    /\ method = "ccg"
    /\ \/ RetrieveOrRefresh(c) \/ RefreshUnderLock(c) \/ SendCredentials(c)
       \/ Exchange(c) \/ RevokeAndClear(c)

JwtStep(c) ==
    /\ method = "jwt"
    /\ \/ RetrieveOrRefresh(c) \/ RefreshUnderLock(c) \/ SignAndSend(c)
       \/ Exchange(c) \/ RevokeAndClear(c)

OAuthStep(c) ==
    /\ method = "oauth"
    /\ \/ RetrieveOrFail(c) \/ RefreshUnderLock(c) \/ PresentRefreshToken(c)
       \/ Exchange(c) \/ RevokeGet(c) \/ RevokeRefused(c) \/ RevokeOnly(c)
       \/ Login(c)

DeveloperStep(c) ==
    /\ method = "developer"
    /\ RetrieveOrFail(c) \/ RefreshFails(c) \/ Exchange(c) \/ RevokeAndClear(c)

Step(c) == CcgStep(c) \/ JwtStep(c) \/ OAuthStep(c) \/ DeveloperStep(c)

Next == \E c \in Callers : Start(c) \/ Step(c)

Spec == Init /\ [][Next]_vars

(* A goroutine that is not blocked goes on, an exchange ends in an answer   *)
(* or an error, and the mutex starves nobody (a Go mutex hands itself to    *)
(* the longest waiter after a millisecond).  Nobody has to make a call.     *)
Fairness ==
    \A c \in Callers : WF_vars(Step(c)) /\ SF_vars(AcquireLock(c))

FairSpec == Spec /\ Fairness
-----------------------------------------------------------------------------
(* Properties.                                                              *)

\* Types whose storage is filled by RefreshToken only.
Unattended == method # "oauth"

\* The refresh of CCG and JWT never puts an older token, or one that was
\* revoked or cleared, back into the storage: a token that comes into the
\* storage is younger than all that were ever there (the mutex of ccg.go:67,
\* jwt.go:137 is held from the re-read to the Store).
TokenNeverGoesBack ==
    [][Unattended /\ storage' \notin {storage, None} =>
         \A t \in installed : t < storage']_vars

\* RefreshToken returns a token younger than the one the caller found when it
\* called, its own or that of the goroutine it waited for; an OAuth login
\* aside, which stores without the mutex (ccg.go:58, oauth.go:107).
RefreshReturnsFresh ==
    \A c \in Callers : Unattended /\ At(c, "unlock") /\ tok[c] \in Token =>
        tok[c] > before[c]

\* A refresh token that was exchanged is not presented again, unless the
\* answer to the exchange was lost or no token (oauth.go:39, 119).
NoReuse ==
    \A c \in Callers : At(c, "request") /\ cred[c] \in consumed =>
        cred[c] \in unconfirmed

\* The refresh token of the stored pair is good, unless the answer to its
\* exchange was lost, or the holder of the mutex has its successor in hand
\* and is about to store it.  Otherwise the session would be locked out.
StoredGrantUsable ==
    storage \in consumed \ unconfirmed =>
        \E c \in mu : At(c, "store") /\ cred[c] = storage

\* A token the service has revoked at the request of CCG, JWT or developer
\* RevokeToken leaves the storage: it is there only while a goroutine that
\* revoked it is about to clear, or when the answer was lost.
RevokedStaysOut ==
    Unattended /\ storage \in revoked \ unconfirmed =>
        \E c \in Callers : At(c, "clear") /\ tok[c] = storage

(* RefreshToken as TokenCell has it: a goroutine has asked when it has read  *)
(* `before`, and is done when all that is left to do is to unlock.           *)
Asked == {"lock", "recheck", "request", "store"}

RefreshStage(c) ==
    IF pc[c] \in Asked THEN "asked" ELSE IF At(c, "unlock") THEN "done" ELSE "idle"

Cell == INSTANCE TokenCell WITH
    attended <- method = "oauth",
    cell <- storage,
    past <- installed,
    stage <- [c \in Callers |-> RefreshStage(c)],
    seen <- [c \in Callers |-> IF RefreshStage(c) = "idle" THEN None ELSE before[c]],
    got <- [c \in Callers |-> IF At(c, "unlock") THEN tok[c] ELSE None]

\* RefreshToken is atomic for all who share the object: whatever the
\* interleaving with other refreshes, revocations and lost answers, it takes
\* effect in one step that joins, replaces or fails (ccg.go:62-90, jwt.go:132,
\* oauth.go:112).
RefreshIsAtomic == Cell!Spec

\* Every call returns (or panics): the mutex is released on every path.
EveryCallReturns ==
    \A c \in Callers : pc[c] # "idle" ~> pc[c] \in {"idle", "panicked"}

(* The steps ahead of a goroutine at each place, re-sends aside.            *)
StepsAhead ==
    [retrieve |-> 8, before |-> 7, lock |-> 6, recheck |-> 5, request |-> 4, store |-> 3,
     unlock |-> 2, exchange |-> 1, revokeGet |-> 3, revokeCall |-> 2, clear |-> 1,
     loginCall |-> 2, loginStore |-> 1, idle |-> 0, panicked |-> 0]

Remaining(c) == StepsAhead[pc[c]] * (MaxResends + 1) - resends[c]

\* A call comes closer to its end with every step it takes: no path through
\* RefreshToken leads back, and the token request is re-sent a bounded number
\* of times, so that a call ends unless it waits for the mutex or the service
\* for ever (ccg.go:62-90, networking/retries.go:41).
CallsRunOut ==
    [][\A c \in Callers : pc[c] # "idle" /\ <<pc[c], resends[c]>>' # <<pc[c], resends[c]>> =>
         Remaining(c)' \in 0 .. Remaining(c) - 1]_vars

\* "All callers must collapse onto a single token request"
\* (box/concurrency_test.go:71), of callers that only retrieve.
SingleFetch == minted <= 1

\* "RevokeToken revokes the current token and clears it from storage"
\* (box/ccg.go:154): what it clears is what was revoked.
ClearsWhatWasRevoked ==
    [][storage # None /\ storage' = None => storage \in revoked]_vars

\* "RetrieveToken returns a valid access token" (networking/auth.go:14), and
\* so does the refresh it falls back to: no nil token without an error.
ReturnsToken == \A c \in Callers : At(c, "unlock") => tok[c] # None
=============================================================================
