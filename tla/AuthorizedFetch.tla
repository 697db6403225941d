--------------------------- MODULE AuthorizedFetch ---------------------------
(***************************************************************************)
(* Several calls of Fetch over one authentication object: each attempt     *)
(* asks the object for the Authorization header (networking/client.go:424) *)
(* and a 401 makes the retry strategy refresh the token before the next    *)
(* attempt (networking/retries.go:59).  The object, the goroutines and the *)
(* token endpoint are Authentication; this module adds what a call of      *)
(* Fetch keeps of them and a service that rejects tokens that have died.   *)
(*                                                                         *)
(* Of the retry loop only what authorization depends on is here: FetchLoop *)
(* has the rest.  A request is answered, rejected with a 401, or fails in  *)
(* a way that is retried.                                                  *)
(***************************************************************************)
EXTENDS Authentication

CONSTANTS
    MaxAttempts,  \* BoxRetryStrategy.MaxAttempts
    MaxExpiries,  \* bound: tokens that expire
    MaxOutages    \* bound: answers that are a 429 or a 5xx

ASSUME FetchAssumption ==
    /\ MaxAttempts \in Nat \ {0}
    /\ MaxExpiries \in Nat
    /\ MaxOutages \in Nat
    /\ {"header", "refresh"} \subseteq Calls

VARIABLES
    phase,        \* where the call of Fetch is, or how the last one ended
    attempt,      \* attemptNumber
    carried,      \* the token of the request under way
    rejected,     \* history: the tokens this call got a 401 for
    expired,      \* the service: tokens that have expired
    outages       \* the service: retryable failures so far

fetches == <<phase, attempt, carried, rejected>>
fvars   == <<vars, fetches, expired, outages>>

Active == {"header", "send", "refresh", "backoff"}
Ended  == {"ok", "unauthorized", "error", "panicked"}

\* The tokens the service does not accept.
Dead == expired \cup revoked

FetchTypeOK ==
    /\ TypeOK
    /\ phase \in [Callers -> {"none", "direct"} \cup Active \cup Ended]
    /\ attempt \in [Callers -> 1 .. MaxAttempts]
    /\ carried \in [Callers -> Token \cup {None}]
    /\ rejected \in [Callers -> SUBSET Token]
    /\ expired \subseteq Token
    /\ outages \in 0 .. MaxOutages

FetchInit ==
    /\ Init
    /\ phase = [c \in Callers |-> "none"]
    /\ attempt = [c \in Callers |-> 1]
    /\ carried = [c \in Callers |-> None]
    /\ rejected = [c \in Callers |-> {}]
    /\ expired = {}
    /\ outages = 0
-----------------------------------------------------------------------------
In(c, p) == phase[c] = p
Enter(c, p) == phase' = [phase EXCEPT ![c] = p]

\* buildHeaders, which runs on every attempt.
AskForHeader(c) == Begin(c, "header") /\ Enter(c, "header")

(* A call of Fetch begins with the header of its first attempt.  A goroutine *)
(* makes one call: it keeps nothing between calls, so that a second one is   *)
(* that of another goroutine.                                                *)
Fetch(c) ==
    /\ In(c, "none")
    /\ AskForHeader(c)
    /\ UNCHANGED <<attempt, carried, rejected, expired, outages>>

(* Others call the object themselves.                                       *)
CallDirectly(c) ==
    /\ In(c, "none")
    /\ \E o \in Calls \ {"header"} : Begin(c, o)
    /\ Enter(c, "direct")
    /\ UNCHANGED <<attempt, carried, rejected, expired, outages>>

(* A step inside RetrieveAuthorizationHeader or RefreshToken.               *)
Proceed(c) ==
    /\ phase[c] \in {"header", "refresh", "direct"}
    /\ Step(c)
    /\ call'[c] # "none" \/ In(c, "direct")
    /\ UNCHANGED <<fetches, expired, outages>>

\* What the call of the object that ends in this step returns: the token read
\* from the storage, that of the refresh, or an error.
Outcome(c) ==
    CASE At(c, "retrieve") /\ storage # None -> storage
      [] At(c, "unlock")                     -> tok[c]
      [] OTHER                               -> Failed

(* The header is there and the request is sent with it; an error, or the    *)
(* panic of a nil token, ends the call (client.go:427).                     *)
HeaderReturns(c) ==
    /\ In(c, "header")
    /\ Step(c)
    /\ call'[c] = "none"
    /\ \/ /\ Outcome(c) \in Token
          /\ carried' = [carried EXCEPT ![c] = Outcome(c)]
          /\ Enter(c, "send")
       \/ /\ Outcome(c) = Failed /\ Enter(c, "error") /\ UNCHANGED carried
       \/ /\ Outcome(c) = None /\ Enter(c, "panicked") /\ UNCHANGED carried
    /\ UNCHANGED <<attempt, rejected, expired, outages>>
-----------------------------------------------------------------------------
(* The service looks at the token and answers.                              *)
Accept(c) ==
    /\ In(c, "send")
    /\ carried[c] \notin Dead
    /\ Enter(c, "ok")
    /\ UNCHANGED <<vars, attempt, carried, rejected, expired, outages>>

\* Mutant: one attempt fewer than configured.
MoreAttemptsEarly(c) == attempt[c] + 1 < MaxAttempts

MoreAttempts(c) == attempt[c] < MaxAttempts

\* Mutant: attempts are not counted.
AgainForFree(c) == attempt' = attempt

NextNumber(c) == attempt' = [attempt EXCEPT ![c] = @ + 1]

\* Mutant: a 401 is retried as a 5xx is, without a refresh.
RetryWithoutRefresh(c) ==
    /\ Enter(c, "backoff")
    /\ NextNumber(c)
    /\ UNCHANGED vars

\* ShouldRetry calls RefreshToken.
RefreshForRetry(c) ==
    /\ Begin(c, "refresh")
    /\ Enter(c, "refresh")
    /\ UNCHANGED attempt

\* 401: refresh if attempts are left, and otherwise return the error.
Unauthorized(c) ==
    /\ In(c, "send")
    /\ carried[c] \in Dead
    /\ rejected' = [rejected EXCEPT ![c] = @ \cup {carried[c]}]
    /\ \/ MoreAttempts(c) /\ RefreshForRetry(c)
       \/ ~MoreAttempts(c) /\ Enter(c, "unauthorized") /\ UNCHANGED <<vars, attempt>>
    /\ UNCHANGED <<carried, expired, outages>>

\* 429 or 5xx: the next attempt after a wait, or the error.
Unavailable(c) ==
    /\ In(c, "send")
    /\ outages < MaxOutages
    /\ outages' = outages + 1
    /\ \/ /\ MoreAttempts(c)
          /\ NextNumber(c)
          /\ Enter(c, "backoff")
       \/ ~MoreAttempts(c) /\ Enter(c, "error") /\ UNCHANGED attempt
    /\ UNCHANGED <<vars, carried, rejected, expired>>

(* RefreshToken returns: its error is that of the call; a token, and a nil  *)
(* token as well, lead to the next attempt (retries.go:60-63).              *)
RefreshReturns(c) ==
    /\ In(c, "refresh")
    /\ Step(c)
    /\ call'[c] = "none"
    /\ \/ Outcome(c) = Failed /\ Enter(c, "error") /\ UNCHANGED attempt
       \/ /\ Outcome(c) # Failed
          /\ Enter(c, "backoff")
          /\ NextNumber(c)
    /\ UNCHANGED <<carried, rejected, expired, outages>>

NextAttempt(c) ==
    /\ In(c, "backoff")
    /\ AskForHeader(c)
    /\ UNCHANGED <<attempt, carried, rejected, expired, outages>>

(* A token dies of age, used or not.                                        *)
Expire ==
    /\ Cardinality(expired) < MaxExpiries
    /\ \E t \in 1 .. minted : t \notin expired /\ expired' = expired \cup {t}
    /\ UNCHANGED <<vars, fetches, outages>>
-----------------------------------------------------------------------------
Answer(c)    == Accept(c) \/ Unauthorized(c) \/ Unavailable(c)
FetchStep(c) == \/ Proceed(c) \/ HeaderReturns(c) \/ RefreshReturns(c)
                \/ Answer(c) \/ NextAttempt(c)

FetchNext ==
    \/ \E c \in Callers : \/ Fetch(c) \/ CallDirectly(c)
                          \/ FetchStep(c)
    \/ Expire

FetchSpec == FetchInit /\ [][FetchNext]_fvars

(* As in Authentication; the service answers, and a backoff ends.           *)
FairFetchSpec ==
    /\ FetchSpec
    /\ \A c \in Callers :
         /\ WF_fvars(FetchStep(c))
         /\ SF_fvars(Proceed(c) /\ AcquireLock(c))
-----------------------------------------------------------------------------
(* Properties.                                                              *)

\* A call never sends a token again that it got a 401 for: the refresh brings
\* another one, although it compares the storage with what it finds there and
\* not with the token that was rejected (retries.go:60, ccg.go:63), and
\* whatever other calls refresh, revoke or log in at the same time.
NoRejectedResent ==
    \A c \in Callers : In(c, "send") => carried[c] \notin rejected[c]

\* A call returns a 401 only when as many tokens have died, or requests have
\* failed, as it had attempts: no attempt is wasted on a token that another
\* call has replaced (retries.go:48, 59).
GivesUpOnlyOnDeadTokens ==
    \A c \in Callers : In(c, "unauthorized") =>
        Cardinality(Dead) + outages >= MaxAttempts

(* Within an attempt the header is asked for, the request is sent, and after *)
(* a 401 the token is refreshed; the steps of the object inside are counted. *)
Parts == [backoff |-> 3, header |-> 2, send |-> 1, refresh |-> 0]

AttemptLeft(c) ==
    (IF In(c, "header") \/ In(c, "refresh") THEN Remaining(c) ELSE 0)
    + Parts[phase[c]] * (8 * (MaxResends + 1) + 1)

\* Every step of a call of Fetch, those it spends in the object included, ends
\* it, ends its attempt with a number that counts, or leaves fewer of the
\* attempt: a token that is rejected again and again does not keep it going
\* (retries.go:48, 59, client.go:424).
AttemptsRunOut ==
    [][\A c \in Callers :
         /\ phase[c] \in Active
         /\ <<phase[c], pc[c], resends[c]>>' # <<phase[c], pc[c], resends[c]>>
         => \/ phase'[c] \in Ended
            \/ attempt'[c] = attempt[c] + 1 /\ attempt'[c] <= MaxAttempts
            \/ attempt'[c] = attempt[c] /\ AttemptLeft(c)' \in 0 .. AttemptLeft(c) - 1]_fvars

\* Every call of Fetch ends, although its attempts wait for one another at the
\* mutex of the object (ccg.go:67).
EveryFetchReturns ==
    \A c \in Callers : phase[c] \in Active ~> phase[c] \in Ended
=============================================================================
