----------------------------- MODULE FetchLoop ------------------------------
(***************************************************************************)
(* One call of BoxNetworkClient.Fetch (networking/client.go): the body is  *)
(* prepared once, then attempts follow one another - retries after a       *)
(* transport exception or a status the retry strategy accepts, redirects   *)
(* that may leave the origin - until a response or an error is returned.   *)
(* The recursion of `do` is a loop here.  The server, the transport, the   *)
(* authentication object, the cancellation of the caller's context and the *)
(* clock are the environment.                                              *)
(*                                                                         *)
(* A URL is its origin (scheme and host): that is all the loop looks at.   *)
(***************************************************************************)
EXTENDS Integers

CONSTANTS
    OwnHeaders,             \* where calls may have an Authorization of their own
    Origins,                \* origins a request can be sent to
    Statuses,               \* status codes the servers answer with
    MaxAttempts,            \* BoxRetryStrategy.MaxAttempts
    MaxRetriesOnException   \* BoxRetryStrategy.MaxRetriesOnException

AllOwnHeaders ==
    {"none",      \* nowhere: the authentication object's, if any, is the only one
     "options",   \* in FetchOptions.Headers
     "session"}   \* in NetworkSession.AdditionalHeaders

ASSUME StrategyAssumption ==
    /\ OwnHeaders \subseteq AllOwnHeaders
    /\ MaxAttempts \in Nat
    /\ MaxRetriesOnException \in Nat
    /\ Statuses \subseteq 100 .. 599
    /\ {"relative", "malformed", "absent"} \cap Origins = {}

\* A Location header may also be relative (it parses, with no origin), not
\* parse at all, or be absent.
Urls      == Origins \cup {"relative", "malformed"}
Locations == Urls \cup {"absent"}
Delays    == {"absent", "zero", "positive"}     \* the Retry-After header

Options ==
    [url : Urls, auth : BOOLEAN, header : OwnHeaders, follow : BOOLEAN,
     timed : BOOLEAN, format : {"json", "binary", "no_content"}, sendable : BOOLEAN]

Responses == [status : Statuses, retryAfter : Delays, location : Locations]
Exception == [status |-> 0, retryAfter |-> "absent", location |-> "absent"]

VARIABLES
    pc,           \* where the call is
    options,      \* FetchOptions, the part the loop depends on
    attempt,      \* attemptNumber
    exceptions,   \* numRetriesOnException
    response,     \* fetchResponse of the last attempt
    bodyOpen,     \* the response body of the last attempt is not closed
    timer,        \* the timeout context of the last attempt: none or cancelled
                  \* ("off"), its deadline ahead, or its deadline past
    cancelled,    \* the caller has cancelled its context
    result,       \* what the call returned
    home,         \* history: the origin the call was made for
    sent,         \* history: requests handed to the transport on this hop
    authSentTo    \* history: whose Authorization header was sent, and where

resources == <<bodyOpen, timer>>
history   == <<home, authSentTo>>
vars == <<pc, options, attempt, exceptions, response, resources, cancelled,
          result, history, sent>>

Results ==
    {"none", "response", "stream", "api_error", "exception", "error", "cancelled"}

TypeOK ==
    /\ pc \in {"prepare", "attempt", "waiting", "decide", "sleep", "done"}
    /\ options \in Options
    /\ attempt \in Nat
    /\ exceptions \in Nat
    /\ response \in Responses \cup {Exception}
    /\ bodyOpen \in BOOLEAN
    /\ timer \in {"off", "running", "expired"}
    /\ cancelled \in BOOLEAN
    /\ result \in Results
    /\ home \in Origins
    /\ sent \in Nat
    /\ authSentTo \subseteq {"token", "header"} \X Origins

Init ==
    /\ pc = "prepare"
    /\ options \in Options
    /\ options.url \in Origins
    /\ attempt = 1
    /\ exceptions = 0
    /\ response = Exception
    /\ bodyOpen = FALSE
    /\ timer = "off"
    /\ cancelled = FALSE
    /\ result = "none"
    /\ home = options.url
    /\ sent = 0
    /\ authSentTo = {}
-----------------------------------------------------------------------------
Finish(r) == pc' = "done" /\ result' = r

\* Mutant: the body is closed, the context is not cancelled.
ReleaseBodyOnly == bodyOpen' = FALSE /\ UNCHANGED timer

\* releaseBody: close the body if it is open, cancel the attempt's context.
ReleaseBody == bodyOpen' = FALSE /\ timer' = "off"

(* The BeforeRequest interceptors and prepareRequest, which reads the body  *)
(* into memory; a body that cannot be encoded or read ends the call.        *)
Prepare ==
    /\ pc = "prepare"
    /\ \/ options.sendable /\ pc' = "attempt" /\ UNCHANGED result
       \/ ~options.sendable /\ Finish("error")
    /\ UNCHANGED <<options, attempt, exceptions, response, resources, cancelled,
                   history, sent>>

(* The start of an attempt.  buildHeaders asks the authentication object    *)
(* for the Authorization header, which may fail.                            *)
AuthHeaderFails ==
    /\ pc = "attempt"
    /\ options.auth
    /\ Finish("error")
    /\ UNCHANGED <<options, attempt, exceptions, response, resources, cancelled,
                   history, sent>>

BuildRequestFails ==
    /\ pc = "attempt"
    /\ options.url = "malformed"
    /\ Finish("error")
    /\ UNCHANGED <<options, attempt, exceptions, response, resources, cancelled,
                   history, sent>>

\* The most requests a hop should need; the count stops one beyond it.
RequestLimit == (IF MaxAttempts = 0 THEN 1 ELSE MaxAttempts) + MaxRetriesOnException
Counted == IF sent <= RequestLimit THEN sent + 1 ELSE sent

(* buildHeaders: the Authorization header of the request.  The session's is  *)
(* written over the authentication object's token, and that over the one in *)
(* the options (all spelled alike: see Sessions for names that are not).    *)
Presented ==
    IF options.header = "session" THEN {"header"}
    ELSE IF options.auth THEN {"token"}
    ELSE IF options.header = "options" THEN {"header"} ELSE {}

\* A URL without an origin gets nowhere.
Destination == {options.url} \cap Origins

Send ==
    /\ pc = "attempt"
    /\ options.url # "malformed"
    /\ pc' = "waiting"
    /\ timer' = IF options.timed THEN "running" ELSE "off"
    /\ sent' = Counted
    /\ authSentTo' = authSentTo \cup (Presented \X Destination)
    /\ UNCHANGED <<options, attempt, exceptions, response, bodyOpen, cancelled,
                   result, home>>

(* HTTPClient.Do returns an error: the transport failed, the timeout fired, *)
(* the context was cancelled, or the URL has no scheme to speak.            *)
\* Mutant: the budget is counted down, against a limit that counts up.
CountExceptionDown == exceptions - 1

CountException == exceptions + 1

TransportFails ==
    /\ pc = "waiting"
    /\ exceptions' = CountException
    /\ response' = Exception
    /\ timer' = "off"
    /\ pc' = "decide"
    /\ UNCHANGED <<options, attempt, bodyOpen, cancelled, result, history, sent>>

(* HTTPClient.Do returns a response.  The body is closed unread when        *)
(* redirects are not followed, stays open for a binary response, and is     *)
(* read whole otherwise.  A context that was cancelled, or whose deadline    *)
(* is past, lets no response through.                                       *)
\* Mutant: the request is built without the caller's context.
AnsweredRegardless == pc = "waiting" /\ options.url \in Origins

Answered ==
    pc = "waiting" /\ options.url \in Origins /\ ~cancelled /\ timer # "expired"
Streams  == options.follow /\ options.format = "binary"

\* Mutant: the context is cancelled when Do has returned.
KeepOpenCancelled == bodyOpen' = TRUE /\ timer' = "off"

KeepOpen == bodyOpen' = TRUE /\ UNCHANGED timer

Receive ==
    /\ Answered
    /\ response' \in Responses
    /\ IF Streams THEN KeepOpen ELSE ReleaseBody
    /\ pc' = "decide"
    /\ UNCHANGED <<options, attempt, exceptions, cancelled, result, history, sent>>

\* Reading the body fails, by the deadline for one: the call ends, without a
\* retry.
ReadFails ==
    /\ pc = "waiting"
    /\ options.url \in Origins
    /\ options.follow
    /\ ~Streams
    /\ ReleaseBody
    /\ Finish("error")
    /\ UNCHANGED <<options, attempt, exceptions, response, cancelled, history, sent>>
-----------------------------------------------------------------------------
(* BoxRetryStrategy.ShouldRetry.                                            *)
IsException == response.status = 0
AttemptForRetry == IF IsException THEN exceptions ELSE attempt

RetryableStatus ==
    \/ response.status = 202 /\ response.retryAfter # "absent"
    \/ response.status >= 500
    \/ response.status = 429

\* Mutant: off by one, the last attempt is never made.
AttemptsLeftEarly == AttemptForRetry + 1 < MaxAttempts

AttemptsLeft == AttemptForRetry < MaxAttempts

RetryOnException == IsException /\ AttemptForRetry <= MaxRetriesOnException
RetryOnStatus    == ~IsException /\ AttemptsLeft /\ RetryableStatus
RefreshFirst     == ~IsException /\ AttemptsLeft /\ response.status = 401
                    /\ options.auth
ShouldRetry == RetryOnException \/ RetryOnStatus \/ RefreshFirst

\* A retry; after a 401 RefreshToken has returned a token.
Retry ==
    /\ pc = "decide"
    /\ ShouldRetry
    /\ ReleaseBody
    /\ pc' = "sleep"
    /\ UNCHANGED <<options, attempt, exceptions, response, cancelled, result,
                   history, sent>>

\* After a 401 RefreshToken fails, and its error ends the call.
RefreshFails ==
    /\ pc = "decide"
    /\ RefreshFirst
    /\ ReleaseBody
    /\ Finish("error")
    /\ UNCHANGED <<options, attempt, exceptions, response, cancelled, history, sent>>

(* RetryAfter and sleepContext: no wait for a Retry-After of zero, else the *)
(* timer or the cancellation, whichever comes first.                        *)
\* Mutants: the recursive call does not count the attempt, or forgets the
\* exceptions so far.
SameAttempt == attempt
ForgetExceptions == 0

NextAttempt == attempt + 1
NextExceptions == exceptions

Wake ==
    /\ pc = "sleep"
    /\ pc' = "attempt"
    /\ attempt' = NextAttempt
    /\ exceptions' = NextExceptions
    /\ response' = Exception
    /\ UNCHANGED <<options, resources, cancelled, result, history, sent>>

SleepCancelled ==
    /\ pc = "sleep"
    /\ cancelled
    /\ response.retryAfter # "zero"
    /\ Finish("cancelled")
    /\ UNCHANGED <<options, attempt, exceptions, response, resources, cancelled,
                   history, sent>>
-----------------------------------------------------------------------------
(* No retry: follow a redirect, return the response, or return an error.    *)
Settled == pc = "decide" /\ ~ShouldRetry
\* Mutant: a redirect is followed whether or not the options ask for it.
AnyRedirection == response.status \in 300 .. 399

Redirection == response.status \in 300 .. 399 /\ options.follow
Success == response.status \in 200 .. 399 /\ ~Redirection

RedirectWithoutLocation ==
    /\ Settled
    /\ Redirection
    /\ response.location = "absent"
    /\ ReleaseBody
    /\ Finish("error")
    /\ UNCHANGED <<options, attempt, exceptions, response, cancelled, history, sent>>

SameOrigin(a, b) == a = b /\ a # "malformed"
\* Mutant: the authentication object stays in the copied options.
AuthKept(location) == options.auth

AuthAt(location) == options.auth /\ SameOrigin(location, options.url)

FollowRedirect ==
    /\ Settled
    /\ Redirection
    /\ response.location # "absent"
    /\ ReleaseBody
    /\ options' = [options EXCEPT !.url = response.location,
                                  !.auth = AuthAt(response.location)]
    /\ attempt' = 1
    /\ exceptions' = 0
    /\ sent' = 0
    /\ response' = Exception
    /\ pc' = "attempt"
    /\ UNCHANGED <<cancelled, result, history>>

\* A binary response is returned with its body open (cancelReadCloser).
ReturnResponse ==
    /\ Settled
    /\ Success
    /\ Finish(IF bodyOpen THEN "stream" ELSE "response")
    /\ UNCHANGED <<options, attempt, exceptions, response, resources, cancelled,
                   history, sent>>

ReturnError ==
    /\ Settled
    /\ ~Success
    /\ ~Redirection
    /\ ReleaseBody
    /\ Finish(IF IsException THEN "exception" ELSE "api_error")
    /\ UNCHANGED <<options, attempt, exceptions, response, cancelled, history, sent>>

(* The caller closes the stream it was given, or cancels its context; the   *)
(* deadline of an attempt passes, also while the caller reads the stream.   *)
CloseStream ==
    /\ result = "stream"
    /\ bodyOpen
    /\ ReleaseBody
    /\ UNCHANGED <<pc, options, attempt, exceptions, response, cancelled, result,
                   history, sent>>

Cancel ==
    /\ ~cancelled
    /\ pc # "done" \/ bodyOpen
    /\ cancelled' = TRUE
    /\ UNCHANGED <<pc, options, attempt, exceptions, response, resources, result,
                   history, sent>>

DeadlinePasses ==
    /\ timer = "running"
    /\ timer' = "expired"
    /\ UNCHANGED <<pc, options, attempt, exceptions, response, bodyOpen, cancelled,
                   result, history, sent>>
-----------------------------------------------------------------------------
Attempt == AuthHeaderFails \/ BuildRequestFails \/ Send
Answer  == TransportFails \/ Receive \/ ReadFails
Decide  == \/ Retry \/ RefreshFails \/ RedirectWithoutLocation \/ FollowRedirect
           \/ ReturnResponse \/ ReturnError
Sleep   == Wake \/ SleepCancelled

Step == Prepare \/ Attempt \/ Answer \/ Decide \/ Sleep
Next == Step \/ CloseStream \/ Cancel \/ DeadlinePasses

Spec == Init /\ [][Next]_vars
-----------------------------------------------------------------------------
(* Properties.                                                              *)

\* Retries end: on one hop the transport is handed at most MaxAttempts plus
\* MaxRetriesOnException requests, however exceptions and statuses alternate
\* (the two counters of client.go:315 and retries.go:40-49).
AttemptBound == sent <= RequestLimit

\* The retry strategy does not give up early: an error is returned for a
\* status that is retried only after MaxAttempts requests (and a 202 that asks
\* to come back later is returned as a success no earlier), for an exception
\* only when MaxRetriesOnException others were retried (retries.go:39).
GivesUpOnlyWhenExhausted ==
    /\ result \in {"api_error", "response", "stream"} /\ RetryableStatus =>
           sent >= MaxAttempts
    /\ result = "exception" =>
           exceptions = MaxRetriesOnException + 1 /\ sent >= exceptions

\* Nothing is left behind: between attempts, and when the call has ended with
\* anything but a stream, the response body is closed and the timeout context
\* cancelled (the exits of client.go:219-388).
NothingLeaks ==
    pc \in {"prepare", "attempt", "sleep"} \/ (pc = "done" /\ result # "stream") =>
        ~bodyOpen /\ timer = "off"

Readable == ~cancelled /\ (options.timed => timer = "running")
CutOff   == cancelled \/ timer = "expired"

\* The client itself never cuts off a body that is still open, neither after
\* deciding on it nor by returning it: it can be read until the caller cancels
\* its context or the deadline set for the attempt passes, which goes on while
\* the caller reads (client.go:235, 276, 353).
OnlyCallerOrDeadlineCutsOff == bodyOpen => Readable \/ CutOff

\* The token of the authentication object goes to the origin the call was made
\* for and to no other, however many redirects lead away from it and back, and
\* whatever other Authorization headers the call has (client.go:340-347).
TokenStaysHome == \A s \in authSentTo : s[1] = "token" => s[2] = home

\* "follows redirects manually (stripping the auth header and query params on
\* cross-origin redirects)" (client.go:39-40): no other origin is ever sent an
\* Authorization header.
AuthStaysHome == \A s \in authSentTo : s[2] = home

\* Cancelling the context ends the call, even in the midst of endless retries
\* and redirects (client.go:235, 328).
CancelReturns == cancelled ~> pc = "done"

\* What is left of a hop: four steps for each request it may still make, and
\* the steps from here to the next one.
Stage == [done |-> 0, attempt |-> 1, sleep |-> 2, decide |-> 3, waiting |-> 4,
          prepare |-> 5]
HopLeft == 4 * (RequestLimit - sent) + Stage[pc]

\* Why a call ends without a deadline: each step of `do` but a redirect that is
\* followed leaves less of the hop, so that no alternation of exceptions, 401s,
\* 202s and 5xx keeps it going and only redirects can (client.go:315-347).
OnlyRedirectsProlong ==
    [][pc' # pc => FollowRedirect \/ HopLeft' \in 0 .. (HopLeft - 1)]_vars

\* "up to 5 attempts" (networking/retries.go:18).
AtMostMaxAttempts == sent <= MaxAttempts
=============================================================================
