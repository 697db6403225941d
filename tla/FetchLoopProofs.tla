-------------------------- MODULE FetchLoopProofs ---------------------------
(***************************************************************************)
(* Theorems about FetchLoop, for any retry budget, origins and statuses.   *)
(* Each safety property has an inductive strengthening of its own: CountInv*)
(* relates the two counters of `do` to the requests sent, ResourceInv says *)
(* what is open at each point and that a timeout context which is given up *)
(* is so with its body, and AuthInv that a call which still carries its    *)
(* authentication object has not left its origin.                          *)
(***************************************************************************)
EXTENDS FetchLoop, TLAPS

Base == IF MaxAttempts = 0 THEN 1 ELSE MaxAttempts

\* Each exception buys one more request than Base, and at most
\* MaxRetriesOnException of them are retried.
CountInv ==
    /\ pc = "prepare" => attempt = 1 /\ exceptions = 0 /\ sent = 0
    /\ pc = "attempt" => sent + 1 = attempt
    /\ pc \in {"waiting", "decide", "sleep"} => sent = attempt
    /\ pc \in {"attempt", "waiting"} =>
         /\ exceptions <= MaxRetriesOnException
         /\ attempt <= Base + exceptions
         /\ exceptions < attempt
    /\ pc = "decide" =>
         /\ exceptions <= attempt
         /\ IF IsException
              THEN exceptions <= MaxRetriesOnException + 1 /\ attempt < Base + exceptions
              ELSE exceptions <= MaxRetriesOnException /\ attempt <= Base + exceptions
    /\ pc = "sleep" =>
         /\ exceptions <= MaxRetriesOnException
         /\ attempt < Base + exceptions
         /\ exceptions <= attempt
    /\ pc = "done" => sent <= Base + MaxRetriesOnException
    /\ pc = "done" <=> result # "none"

\* Both the context of an exchange under way and that of an open body are there
\* for as long as the options ask for a timeout.
ResourceInv ==
    /\ pc = "waiting" => ~bodyOpen
    /\ pc = "waiting" \/ bodyOpen => (options.timed <=> timer # "off")
    /\ pc = "decide" /\ ~bodyOpen => timer = "off"

AuthInv ==
    /\ options.auth => options.url = home
    /\ TokenStaysHome

IInv ==
    /\ TypeOK
    /\ CountInv
    /\ ResourceInv
    /\ NothingLeaks
    /\ OnlyCallerOrDeadlineCutsOff
    /\ AuthInv
    /\ GivesUpOnlyWhenExhausted

LEMMA BaseInNat == Base \in Nat /\ Base >= 1 /\ MaxAttempts <= Base
BY StrategyAssumption DEF Base

\* A response is told from an exception by its status.
LEMMA StatusNotZero == \A r \in Responses : r.status \in 100 .. 599
BY StrategyAssumption DEF Responses

LEMMA TypeStep == TypeOK /\ [Next]_vars => TypeOK'
<1> SUFFICES ASSUME TypeOK, [Next]_vars PROVE TypeOK'
    OBVIOUS
<1> USE DEF TypeOK, Results, Finish, resources, history
<1>1. CASE Prepare
    BY <1>1 DEF Prepare
<1>2. CASE Attempt
    <2>1. Presented \X Destination \subseteq {"token", "header"} \X Origins
        BY DEF Presented, Destination
    <2>2. CASE Send
        BY <2>1, <2>2 DEF Send, Counted, RequestLimit
    <2> QED BY <1>2, <2>2 DEF Attempt, AuthHeaderFails, BuildRequestFails
<1>3. CASE Answer
    <2>1. CASE TransportFails
        <3>1. exceptions' \in Nat
            BY <2>1 DEF TransportFails, CountException
        <3>2. response' \in Responses \cup {Exception}
            BY <2>1 DEF TransportFails
        <3> QED BY <2>1, <3>1, <3>2 DEF TransportFails
    <2>2. CASE Receive
        BY <2>2 DEF Receive, KeepOpen, ReleaseBody
    <2>3. CASE ReadFails
        BY <2>3 DEF ReadFails, ReleaseBody
    <2> QED BY <1>3, <2>1, <2>2, <2>3 DEF Answer
<1>4. CASE Decide
    <2>1. CASE Retry \/ RefreshFails \/ RedirectWithoutLocation
        BY <2>1 DEF Retry, RefreshFails, RedirectWithoutLocation, ReleaseBody
    <2>2. CASE FollowRedirect
        <3>1. response \in Responses
            BY <2>2, StrategyAssumption
               DEF FollowRedirect, Redirection, Exception
        <3>2. response.location \in Urls /\ AuthAt(response.location) \in BOOLEAN
            BY <2>2, <3>1
               DEF FollowRedirect, Responses, AuthAt, SameOrigin, Options, Urls, Locations
        <3> QED BY <2>2, <3>2 DEF FollowRedirect, ReleaseBody, Options
    <2>3. CASE ReturnResponse \/ ReturnError
        BY <2>3 DEF ReturnResponse, ReturnError, ReleaseBody
    <2> QED BY <1>4, <2>1, <2>2, <2>3 DEF Decide
<1>5. CASE Sleep
    BY <1>5 DEF Sleep, Wake, SleepCancelled, NextExceptions, NextAttempt
<1>6. CASE CloseStream \/ Cancel \/ DeadlinePasses
    BY <1>6 DEF CloseStream, Cancel, DeadlinePasses, ReleaseBody
<1>7. CASE UNCHANGED vars
    BY <1>7 DEF vars
<1> QED BY <1>1, <1>2, <1>3, <1>4, <1>5, <1>6, <1>7 DEF Next, Step

LEMMA CountStep == TypeOK /\ CountInv /\ [Next]_vars => CountInv'
<1> SUFFICES ASSUME TypeOK, CountInv, [Next]_vars PROVE CountInv'
    OBVIOUS
<1> USE BaseInNat, StrategyAssumption
        DEF TypeOK, CountInv, Results, Finish, resources, history, IsException
<1>1. CASE Prepare
    BY <1>1 DEF Prepare
<1>2. CASE Attempt
    BY <1>2 DEF Attempt, AuthHeaderFails, BuildRequestFails, Send, Counted, RequestLimit, Base
<1>3. CASE TransportFails
    BY <1>3 DEF TransportFails, CountException, Exception
<1>4. CASE Receive
    <2>1. response'.status # 0
        BY <1>4, StatusNotZero DEF Receive
    <2> QED BY <1>4, <2>1 DEF Receive, Answered
<1>5. CASE ReadFails
    BY <1>5 DEF ReadFails, Answered
<1>6. CASE Retry
    BY <1>6 DEF Retry, ShouldRetry, RetryOnException, RetryOnStatus, RefreshFirst,
                AttemptsLeft, AttemptForRetry
<1>7. CASE RefreshFails \/ RedirectWithoutLocation \/ ReturnResponse \/ ReturnError
    BY <1>7 DEF RefreshFails, RedirectWithoutLocation, ReturnResponse, ReturnError,
                Settled
<1>8. CASE FollowRedirect
    BY <1>8 DEF FollowRedirect, Settled
<1>9. CASE Sleep
    BY <1>9 DEF Sleep, Wake, SleepCancelled, NextExceptions, NextAttempt
<1>10. CASE CloseStream \/ Cancel \/ DeadlinePasses
    BY <1>10 DEF CloseStream, Cancel, DeadlinePasses
<1>11. CASE UNCHANGED vars
    BY <1>11 DEF vars
<1> QED
    BY <1>1, <1>2, <1>3, <1>4, <1>5, <1>6, <1>7, <1>8, <1>9, <1>10, <1>11
       DEF Next, Step, Answer, Decide

LEMMA ResourceStep ==
    TypeOK /\ CountInv /\ ResourceInv /\ NothingLeaks /\ OnlyCallerOrDeadlineCutsOff /\ [Next]_vars
        => (ResourceInv /\ NothingLeaks /\ OnlyCallerOrDeadlineCutsOff)'
<1> SUFFICES ASSUME TypeOK, CountInv, ResourceInv, NothingLeaks, OnlyCallerOrDeadlineCutsOff,
                    [Next]_vars
             PROVE  (ResourceInv /\ NothingLeaks /\ OnlyCallerOrDeadlineCutsOff)'
    OBVIOUS
<1> USE DEF TypeOK, ResourceInv, NothingLeaks, OnlyCallerOrDeadlineCutsOff, Readable,
            CutOff, Finish, resources, history
<1>1. CASE Prepare
    BY <1>1 DEF Prepare, CountInv
<1>2. CASE Attempt
    BY <1>2 DEF Attempt, AuthHeaderFails, BuildRequestFails, Send
<1>3. CASE TransportFails
    BY <1>3 DEF TransportFails
<1>4. CASE Receive
    BY <1>4 DEF Receive, Answered, KeepOpen, ReleaseBody
<1>5. CASE ReadFails
    BY <1>5 DEF ReadFails, ReleaseBody
<1>6. CASE Retry \/ RefreshFails \/ RedirectWithoutLocation \/ FollowRedirect
    BY <1>6 DEF Retry, RefreshFails, RedirectWithoutLocation, FollowRedirect,
                ReleaseBody
<1>7. CASE ReturnResponse \/ ReturnError
    BY <1>7 DEF ReturnResponse, ReturnError, ReleaseBody, Settled
<1>8. CASE Sleep
    BY <1>8 DEF Sleep, Wake, SleepCancelled
<1>9. CASE CloseStream \/ Cancel \/ DeadlinePasses
    BY <1>9 DEF CloseStream, Cancel, DeadlinePasses, ReleaseBody, CountInv
<1>10. CASE UNCHANGED vars
    BY <1>10 DEF vars
<1> QED
    BY <1>1, <1>2, <1>3, <1>4, <1>5, <1>6, <1>7, <1>8, <1>9, <1>10
       DEF Next, Step, Answer, Decide

LEMMA AuthStep == TypeOK /\ AuthInv /\ [Next]_vars => AuthInv'
<1> SUFFICES ASSUME TypeOK, AuthInv, [Next]_vars PROVE AuthInv'
    OBVIOUS
<1> USE DEF TypeOK, AuthInv, history
<1>1. CASE Send
    <2>1. "token" \in Presented => options.auth
        BY DEF Presented
    <2> QED BY <1>1, <2>1 DEF Send, Destination, TokenStaysHome
<1>2. CASE FollowRedirect
    BY <1>2 DEF FollowRedirect, AuthAt, SameOrigin, Options, TokenStaysHome
<1>3. CASE UNCHANGED <<options, history>>
    BY <1>3 DEF TokenStaysHome
<1> QED
    BY <1>1, <1>2, <1>3
       DEF Next, Step, Prepare, Attempt, AuthHeaderFails, BuildRequestFails, Answer,
           TransportFails, Receive, ReadFails, Decide, Retry, RefreshFails,
           RedirectWithoutLocation, ReturnResponse, ReturnError, Sleep, Wake,
           SleepCancelled, CloseStream, Cancel, DeadlinePasses, vars

LEMMA ExhaustedStep ==
    TypeOK /\ CountInv /\ GivesUpOnlyWhenExhausted /\ [Next]_vars
        => GivesUpOnlyWhenExhausted'
<1> SUFFICES ASSUME TypeOK, CountInv, GivesUpOnlyWhenExhausted, [Next]_vars
             PROVE  GivesUpOnlyWhenExhausted'
    OBVIOUS
<1> USE StrategyAssumption
        DEF TypeOK, CountInv, GivesUpOnlyWhenExhausted, Finish, RetryableStatus
<1>1. CASE ReturnResponse \/ ReturnError
    BY <1>1 DEF ReturnResponse, ReturnError, Settled, ShouldRetry, RetryOnException,
                RetryOnStatus, AttemptsLeft, AttemptForRetry, IsException, Success,
                Redirection
<1>2. CASE CloseStream \/ Cancel \/ DeadlinePasses \/ UNCHANGED vars
    BY <1>2 DEF CloseStream, Cancel, DeadlinePasses, vars
<1>3. CASE result' \in {"none", "error", "cancelled"}
    BY <1>3
<1> QED
    BY <1>1, <1>2, <1>3
       DEF Next, Step, Prepare, Attempt, AuthHeaderFails, BuildRequestFails, Send,
           Answer, TransportFails, Receive, Answered, ReadFails, Decide, Retry,
           RefreshFails, RedirectWithoutLocation, FollowRedirect, Settled, Sleep,
           Wake, SleepCancelled

LEMMA InductiveInit == Init => IInv
<1> SUFFICES ASSUME Init PROVE IInv
    OBVIOUS
<1>1. TypeOK
    BY DEF Init, TypeOK, Options, Results
<1>2. CountInv /\ GivesUpOnlyWhenExhausted
    BY DEF Init, CountInv, GivesUpOnlyWhenExhausted
<1>3. ResourceInv /\ NothingLeaks /\ OnlyCallerOrDeadlineCutsOff /\ AuthInv
    BY DEF Init, ResourceInv, NothingLeaks, OnlyCallerOrDeadlineCutsOff, AuthInv,
           TokenStaysHome
<1> QED BY <1>1, <1>2, <1>3 DEF IInv

LEMMA Invariance == Spec => []IInv
<1>1. IInv /\ [Next]_vars => IInv'
    BY TypeStep, CountStep, ResourceStep, AuthStep, ExhaustedStep DEF IInv
<1> QED BY <1>1, InductiveInit, PTL DEF Spec

LEMMA WithinLimit == IInv => AttemptBound
BY StrategyAssumption
   DEF IInv, TypeOK, CountInv, AttemptBound, RequestLimit, Base, IsException

\* The variables keep their types, whatever the servers answer.
THEOREM TypeCorrect == Spec => []TypeOK
BY Invariance, PTL DEF IInv

\* The number of requests on one hop, for every retry budget.
THEOREM RequestsBounded == Spec => []AttemptBound
BY WithinLimit, Invariance, PTL

\* No body and no timeout context outlives its attempt.
THEOREM NoLeak == Spec => []NothingLeaks
BY Invariance, PTL DEF IInv

\* The client cuts no open body off: only the caller's cancellation and the
\* deadline of the attempt do, at whatever moment they come.
THEOREM StreamUncut == Spec => []OnlyCallerOrDeadlineCutsOff
BY Invariance, PTL DEF IInv

\* No other origin is ever sent the token of the authentication object; of an
\* Authorization header the call brings along this cannot be said.
THEOREM TokenKeptHome == Spec => []TokenStaysHome
BY Invariance, PTL DEF IInv, AuthInv

\* The budget is used up before an error that can be retried is returned.
THEOREM BudgetUsed == Spec => []GivesUpOnlyWhenExhausted
BY Invariance, PTL DEF IInv

\* What a step other than a redirect does to the place and to the requests sent.
LEMMA Places ==
    TypeOK /\ Next /\ ~FollowRedirect =>
        \/ pc' = pc /\ sent' = sent
        \/ pc = "attempt" /\ pc' = "waiting" /\ sent' = Counted
        \/ Stage[pc'] < Stage[pc] /\ sent' = sent
<1> SUFFICES ASSUME TypeOK, Next, ~FollowRedirect
             PROVE  \/ pc' = pc /\ sent' = sent
                    \/ pc = "attempt" /\ pc' = "waiting" /\ sent' = Counted
                    \/ Stage[pc'] < Stage[pc] /\ sent' = sent
    OBVIOUS
<1> USE DEF Stage, Finish
<1>1. CASE Prepare
    BY <1>1 DEF Prepare
<1>2. CASE Attempt
    BY <1>2 DEF Attempt, AuthHeaderFails, BuildRequestFails, Send
<1>3. CASE Answer
    BY <1>3 DEF Answer, TransportFails, Receive, ReadFails, Answered
<1>4. CASE Decide
    BY <1>4 DEF Decide, Retry, RefreshFails, RedirectWithoutLocation, ReturnResponse,
                ReturnError, Settled
<1>5. CASE Sleep
    BY <1>5 DEF Sleep, Wake, SleepCancelled
<1>6. CASE CloseStream \/ Cancel \/ DeadlinePasses
    BY <1>6 DEF CloseStream, Cancel, DeadlinePasses
<1> QED BY <1>1, <1>2, <1>3, <1>4, <1>5, <1>6 DEF Next, Step

LEMMA HopStep ==
    IInv /\ IInv' /\ [Next]_vars =>
        [pc' # pc => FollowRedirect \/ HopLeft' \in 0 .. (HopLeft - 1)]_vars
<1>a. UNCHANGED vars => pc' = pc
    BY DEF vars
<1> SUFFICES ASSUME IInv, IInv', Next, pc' # pc, ~FollowRedirect
             PROVE  HopLeft' \in 0 .. (HopLeft - 1)
    BY <1>a
<1>b. AttemptBound /\ AttemptBound'
    BY WithinLimit, PTL
<1>1. /\ sent <= RequestLimit /\ sent' <= RequestLimit
      /\ RequestLimit \in Nat /\ sent \in Nat /\ sent' \in Nat
    BY <1>b, StrategyAssumption DEF AttemptBound, IInv, TypeOK, RequestLimit
<1>2. Stage[pc] \in 0 .. 5 /\ Stage[pc'] \in 0 .. 5
    BY DEF IInv, TypeOK, Stage
<1>3. CASE pc = "attempt" /\ pc' = "waiting" /\ sent' = Counted
    <2>1. sent' = sent + 1
        BY <1>1, <1>3 DEF Counted
    <2>2. Stage[pc] = 1 /\ Stage[pc'] = 4
        BY <1>3 DEF Stage
    <2> QED BY <1>1, <2>1, <2>2 DEF HopLeft, RequestLimit
<1>4. CASE Stage[pc'] < Stage[pc] /\ sent' = sent
    BY <1>1, <1>2, <1>4 DEF HopLeft, RequestLimit
<1> QED BY <1>3, <1>4, Places DEF IInv

\* Nothing but redirects keeps a call going, for every retry budget.
THEOREM HopEnds == Spec => OnlyRedirectsProlong
BY Invariance, HopStep, PTL DEF Spec, OnlyRedirectsProlong
-----------------------------------------------------------------------------
(* Once the context is cancelled no response comes any more: a redirect     *)
(* that was received before is still followed, and the hop it leads to is   *)
(* the last.                                                                *)
AnswerInHand == pc = "decide" /\ ~IsException

CancelLeft == HopLeft + (IF AnswerInHand THEN 4 * RequestLimit + 6 ELSE 0)

CancelRunsOut == [][cancelled /\ pc' # pc => CancelLeft' \in 0 .. (CancelLeft - 1)]_vars

LEMMA HopSize == IInv => HopLeft \in 0 .. 4 * RequestLimit + 5 /\ RequestLimit \in Nat
<1> SUFFICES ASSUME IInv
             PROVE  HopLeft \in 0 .. 4 * RequestLimit + 5 /\ RequestLimit \in Nat
    OBVIOUS
<1>1. AttemptBound
    BY WithinLimit
<1>2. sent \in 0 .. RequestLimit /\ RequestLimit \in Nat
    BY <1>1, StrategyAssumption DEF IInv, TypeOK, AttemptBound, RequestLimit
<1>3. Stage[pc] \in 0 .. 5
    BY DEF IInv, TypeOK, Stage
<1> HIDE DEF RequestLimit
<1> QED BY <1>2, <1>3 DEF HopLeft

LEMMA CancelCases ==
    IInv => /\ AnswerInHand => CancelLeft = HopLeft + 4 * RequestLimit + 6
            /\ ~AnswerInHand => CancelLeft = HopLeft
BY HopSize DEF CancelLeft

LEMMA CancelStep ==
    IInv /\ IInv' /\ [Next]_vars =>
        [cancelled /\ pc' # pc => CancelLeft' \in 0 .. (CancelLeft - 1)]_vars
<1>a. UNCHANGED vars => pc' = pc
    BY DEF vars
<1> SUFFICES ASSUME IInv, IInv', Next, pc' # pc, cancelled
             PROVE  CancelLeft' \in 0 .. (CancelLeft - 1)
    BY <1>a
<1>1. HopLeft \in 0 .. 4 * RequestLimit + 5 /\ RequestLimit \in Nat
    BY HopSize
<1>c. (~AnswerInHand => CancelLeft = HopLeft)'
    BY CancelCases, PTL
<1>b. (HopLeft \in 0 .. 4 * RequestLimit + 5)'
    BY HopSize, PTL
<1>3. RequestLimit' = RequestLimit
    BY DEF RequestLimit
<1>2. HopLeft' \in 0 .. 4 * RequestLimit + 5
    BY <1>b, <1>3
<1>4. CASE FollowRedirect
    <2>1. pc = "decide" /\ pc' = "attempt" /\ ~IsException
        BY <1>4, StrategyAssumption
           DEF FollowRedirect, Settled, Redirection, IsException
    <2>2. sent' = 0 /\ Stage[pc'] = 1
        BY <1>4, <2>1 DEF FollowRedirect, Stage
    <2>3. HopLeft' = 4 * RequestLimit + 1
        BY <1>1, <1>3, <2>2 DEF HopLeft
    <2>4. AnswerInHand /\ ~AnswerInHand'
        BY <2>1 DEF AnswerInHand
    <2>5. CancelLeft = HopLeft + 4 * RequestLimit + 6 /\ CancelLeft' = HopLeft'
        BY <1>c, <2>4, CancelCases
    <2> QED BY <1>1, <2>3, <2>5
<1>5. CASE ~FollowRedirect
    <2>1. HopLeft' \in 0 .. (HopLeft - 1)
        BY <1>5, <1>a, HopStep
    <2>2. pc' = "decide" => IsException'
        <3>1. SUFFICES ASSUME pc' = "decide" PROVE IsException'
            OBVIOUS
        <3>2. TransportFails
            BY <3>1
               DEF Next, Step, Prepare, Attempt, AuthHeaderFails, BuildRequestFails, Send,
                   Answer, Receive, Answered, ReadFails, Decide, Retry, RefreshFails,
                   RedirectWithoutLocation, FollowRedirect, ReturnResponse, ReturnError,
                   Sleep, Wake, SleepCancelled, CloseStream, Cancel, DeadlinePasses,
                   Finish
        <3> QED BY <3>2 DEF TransportFails, Exception, IsException
    <2>3. CancelLeft' = HopLeft'
        BY <1>c, <2>2 DEF AnswerInHand
    <2>4. CancelLeft >= HopLeft /\ CancelLeft \in Int
        BY <1>1, CancelCases
    <2> HIDE DEF HopLeft
    <2> QED BY <1>1, <2>1, <2>3, <2>4
<1> QED BY <1>4, <1>5

\* Cancelling the context leaves a call a bounded number of steps, even in the
\* midst of endless redirects (client.go:235, 328): what CancelReturns needs
\* fairness for is only that these are taken.
THEOREM CancelEnds == Spec => CancelRunsOut
BY Invariance, CancelStep, PTL DEF Spec, CancelRunsOut
=============================================================================
