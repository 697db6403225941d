------------------------ MODULE AuthorizedFetchProofs ------------------------
(***************************************************************************)
(* Theorems about AuthorizedFetch, for any number of calls of Fetch over   *)
(* one authentication object of any type.                                  *)
(*                                                                         *)
(* The object is Authentication unchanged, so its invariant carries over   *)
(* (ObjectInvariance).  What it contributes is that no token comes into    *)
(* the storage twice (StorageMoves): a call that found its rejected token  *)
(* replaced, or has waited for it to be replaced, never meets it again.    *)
(***************************************************************************)
EXTENDS AuthorizedFetch, AuthenticationProofs, FiniteSetTheorems

Refreshing == {"before", "lock", "recheck", "request", "store", "unlock"}

\* Where the object is with a call that Fetch makes of it.
PlaceInv ==
    \A c \in Callers :
        /\ In(c, "refresh") => call[c] = "refresh" /\ pc[c] \in Refreshing
        /\ In(c, "header") => call[c] = "header" /\ pc[c] \in Refreshing \cup {"retrieve"}

\* What a call has sent, and what a refresh returns, was in the storage once.
SentInv ==
    \A c \in Callers :
        /\ rejected[c] \subseteq installed
        /\ pc[c] = "unlock" => tok[c] \in installed \cup {None, Failed}
        /\ In(c, "send") => carried[c] \in installed
        /\ phase[c] \in {"none", "direct"} => rejected[c] = {}

\* The storage holds a rejected token of a call only while that call is in the
\* refresh that will replace it, and knows it as the token to replace.
ReplacedInv ==
    \A c \in Callers : phase[c] \in Active =>
        /\ storage \in rejected[c] =>
             /\ In(c, "refresh")
             /\ pc[c] \in {"lock", "recheck", "request", "store"} => before[c] = storage
             /\ pc[c] = "unlock" => tok[c] = Failed
        /\ In(c, "header") /\ pc[c] = "unlock" => tok[c] \notin rejected[c]

\* Every attempt is accounted for by a dead token or an outage.
CountInv ==
    \A c \in Callers :
        /\ rejected[c] \subseteq Dead
        /\ phase[c] \in {"none", "direct"} => attempt[c] = 1
        /\ phase[c] \in {"header", "send", "backoff"} =>
               attempt[c] <= Cardinality(rejected[c]) + outages + 1
        /\ phase[c] \in {"refresh", "unauthorized"} =>
               attempt[c] <= Cardinality(rejected[c]) + outages
        /\ In(c, "refresh") => attempt[c] < MaxAttempts
        /\ In(c, "unauthorized") => attempt[c] = MaxAttempts

FetchTyped == FetchTypeOK /\ PlaceInv /\ SentInv

JInv == IInv /\ FetchTyped /\ ReplacedInv /\ NoRejectedResent /\ CountInv
-----------------------------------------------------------------------------
(* The object inside.                                                       *)
Mine(c) == Fetch(c) \/ CallDirectly(c) \/ FetchStep(c)

LEMMA ObjectStep ==
    ASSUME NEW c \in Callers, Mine(c)
    PROVE  MethodOf(c) \/ UNCHANGED vars
<1>1. \A o \in Calls : Begin(c, o) => MethodOf(c)
    BY StepCases DEF Start
<1> QED
    BY <1>1, StepCases, FetchAssumption
       DEF Mine, Fetch, CallDirectly, FetchStep, Proceed, HeaderReturns,
           RefreshReturns, Answer, Accept, Unauthorized, RefreshForRetry,
           Unavailable, NextAttempt, AskForHeader

LEMMA ObjectNext == [FetchNext]_fvars => [Next]_vars
<1>1. ASSUME NEW c \in Callers, NEW o \in Calls, Begin(c, o)
      PROVE  Next
    BY <1>1 DEF Next, Start
<1>2. ASSUME NEW c \in Callers, Step(c)
      PROVE  Next
    BY <1>2 DEF Next
<1>3. ASSUME NEW c \in Callers, Mine(c)
      PROVE  Next \/ UNCHANGED vars
    BY <1>1, <1>2, <1>3, FetchAssumption
       DEF Mine, Fetch, CallDirectly, FetchStep, Proceed, HeaderReturns,
           RefreshReturns, Answer, Accept, Unauthorized, RefreshForRetry,
           Unavailable, NextAttempt, AskForHeader
<1> QED BY <1>3 DEF Mine, FetchNext, Expire, fvars

LEMMA ObjectInvariance == FetchSpec => []IInv
<1>1. FetchInit => IInv
    BY InductiveInit DEF FetchInit
<1>2. IInv /\ [FetchNext]_fvars => IInv'
    BY ObjectNext, InductiveStep
<1> QED BY <1>1, <1>2, PTL DEF FetchSpec

\* A token comes into the storage once.
LEMMA StorageMoves ==
    ASSUME IInv, NEW c \in Callers, MethodOf(c) \/ UNCHANGED vars
    PROVE  /\ storage' \in {storage, None} \/ storage' \notin installed
           /\ installed \subseteq installed'
<1> USE DEF IInv, Shared, object, service, history
<1>1. CASE UNCHANGED vars
    BY <1>1 DEF vars
<1>2. CASE Store(c) \/ LoginStore(c)
    <2>1. storage' = tok[c] /\ AtStore(c)
        BY <1>2 DEF Store, LoginStore, StoreToken, AtStore, At
    <2>2. installed \subseteq installed'
        BY <1>2 DEF Store, LoginStore, StoreToken
    <2> QED BY <2>1, <2>2 DEF HandInv
<1>3. CASE Clear(c)
    BY <1>3 DEF Clear, ClearStorage
<1> QED BY <1>1, <1>2, <1>3, SharedChanges

\* A step of one goroutine is not a call of another.
LEMMA OthersCall ==
    ASSUME Typed, NEW c \in Callers, MethodOf(c), NEW d \in Callers \ {c}
    PROVE  call'[d] = call[d]
<1> USE DEF Typed, TypeOK
<1>1. CASE Start(c)
    BY <1>1 DEF Start, Begin
<1>2. CASE RetrieveOrRefresh(c) \/ RetrieveOrFail(c) \/ Unlock(c)
    BY <1>2, DeliverEffect
       DEF RetrieveOrRefresh, RetrieveOrFail, Unlock, Return, Leave
<1>3. CASE RefreshFails(c) \/ Exchange(c) \/ LoginRefused(c) \/ LoginStore(c)
           \/ RevokeGet(c) \/ RevokeRefused(c) \/ Clear(c) \/ RevokeOnly(c)
    BY <1>3 DEF RefreshFails, Exchange, LoginRefused, LoginStore, RevokeGet,
                RevokeRefused, Clear, RevokeOnly, Return, Leave
<1>4. ASSUME NEW from, NEW to,
             \/ Granted(c, from, to) \/ GrantedNull(c, from, to)
             \/ AnswerLost(c, from)
      PROVE  call' = call
    BY <1>4 DEF Granted, GrantedNull, AnswerLost, Exchanging
<1>5. CASE \/ ReadBefore(c) \/ AcquireLock(c) \/ UseRefreshed(c) \/ SendCredentials(c)
           \/ SignAndSend(c) \/ PresentRefreshToken(c) \/ RefreshRefused(c)
           \/ Store(c) \/ RevokeThenClear(c)
    BY <1>5 DEF ReadBefore, AcquireLock, UseRefreshed, SendCredentials, SignAndSend,
                PresentRefreshToken, RefreshRefused, Exchanging, Store,
                RevokeThenClear
<1> QED BY <1>1, <1>2, <1>3, <1>4, <1>5 DEF MethodOf

\* A step inside RefreshToken, or inside the RetrieveToken of a header, that
\* does not end the call.
Inside(c) ==
    \/ /\ RetrieveOrRefresh(c) \/ AcquireLock(c) \/ SendCredentials(c)
          \/ PresentRefreshToken(c) \/ AnswerLost(c, "request")
          \/ Granted(c, "request", "store") \/ GrantedNull(c, "request", "store")
       /\ pc'[c] # "unlock"
    \/ ReadBefore(c) \/ UseRefreshed(c) \/ SignAndSend(c) \/ RefreshRefused(c)
    \/ Store(c)

LEMMA StaysInside ==
    ASSUME Typed, NEW c \in Callers, Step(c), call'[c] # "none",
           call[c] \in {"header", "refresh"},
           pc[c] \in Refreshing \cup {"retrieve"}
    PROVE  /\ Inside(c)
           /\ call'[c] = call[c]
           /\ pc'[c] \in Refreshing
<1> USE DEF Typed, TypeOK, Refreshing, At, Goto
<1>1. MethodOf(c)
    BY StepCases
<1>2. CASE RetrieveOrRefresh(c) \/ RetrieveOrFail(c) \/ Unlock(c)
    <2>1. ~ \E t : Deliver(c, t)
        BY DEF Deliver, HeaderOf, DownscopeOf, Return, Leave
    <2> QED BY <1>2, <2>1 DEF RetrieveOrRefresh, RetrieveOrFail, Unlock, Return,
               Leave, Inside
<1>3. CASE RefreshFails(c)
    BY <1>3 DEF RefreshFails, Return, Leave
<1>4. CASE \/ Start(c) \/ Exchange(c) \/ RevokeGet(c) \/ RevokeRefused(c)
           \/ RevokeThenClear(c) \/ Clear(c) \/ RevokeOnly(c) \/ LoginRefused(c)
           \/ LoginStore(c) \/ AnswerLost(c, "loginCall")
           \/ Granted(c, "loginCall", "loginStore")
           \/ GrantedNull(c, "loginCall", "loginStore")
    BY <1>4 DEF Start, Begin, Exchange, RevokeGet, RevokeRefused, RevokeThenClear,
                Clear, RevokeOnly, LoginRefused, LoginStore, AnswerLost, Granted,
                GrantedNull, Exchanging
<1>5. CASE \/ AcquireLock(c) \/ SendCredentials(c) \/ PresentRefreshToken(c)
           \/ AnswerLost(c, "request") \/ Granted(c, "request", "store")
           \/ GrantedNull(c, "request", "store")
    BY <1>5 DEF AcquireLock, SendCredentials, PresentRefreshToken, AnswerLost,
                Granted, GrantedNull, Exchanging, Inside
<1>6. CASE \/ ReadBefore(c) \/ UseRefreshed(c) \/ SignAndSend(c)
           \/ RefreshRefused(c) \/ Store(c)
    BY <1>6 DEF ReadBefore, UseRefreshed, SignAndSend, RefreshRefused, AfterRefusal,
                Store, Exchanging, Inside
<1> QED BY <1>1, <1>2, <1>3, <1>4, <1>5, <1>6 DEF MethodOf
-----------------------------------------------------------------------------
(* What a step leaves alone.                                                *)
LEMMA OthersKept ==
    ASSUME JInv, NEW c \in Callers, Mine(c), NEW d \in Callers \ {c}
    PROVE  /\ pc'[d] = pc[d] /\ call'[d] = call[d] /\ before'[d] = before[d]
           /\ tok'[d] = tok[d]
           /\ phase'[d] = phase[d] /\ attempt'[d] = attempt[d]
           /\ carried'[d] = carried[d] /\ rejected'[d] = rejected[d]
<1>1. /\ pc'[d] = pc[d] /\ call'[d] = call[d] /\ before'[d] = before[d]
      /\ tok'[d] = tok[d]
    <2>1. CASE UNCHANGED vars
        BY <2>1 DEF vars, locals
    <2>2. CASE MethodOf(c)
        BY <2>2, OthersUnmoved, OthersCall DEF JInv, IInv, Shared
    <2> QED BY <2>1, <2>2, ObjectStep
<1>2. /\ phase'[d] = phase[d] /\ attempt'[d] = attempt[d]
      /\ carried'[d] = carried[d] /\ rejected'[d] = rejected[d]
    BY DEF NextNumber, JInv, FetchTyped, FetchTypeOK, Mine, Fetch, CallDirectly, FetchStep,
           Proceed, HeaderReturns, RefreshReturns, Answer, Accept, Unauthorized,
           RefreshForRetry, Unavailable, NextAttempt, AskForHeader, Enter, In, fetches
<1> QED BY <1>1, <1>2

LEMMA TypeStep ==
    ASSUME JInv, IInv', NEW c \in Callers, Mine(c)
    PROVE  FetchTypeOK'
<1> USE DEF JInv, FetchTyped, FetchTypeOK, Active, Ended, In, Enter
<1>1. TypeOK'
    BY DEF IInv, Shared, Typed
<1>2. CASE Fetch(c) \/ CallDirectly(c) \/ Proceed(c) \/ NextAttempt(c) \/ Accept(c)
    BY <1>1, <1>2 DEF Fetch, CallDirectly, Proceed, NextAttempt, Accept, AskForHeader,
                      fetches
<1>3. CASE HeaderReturns(c)
    BY <1>1, <1>3 DEF HeaderReturns
<1>4. \A n \in 1 .. MaxAttempts : n < MaxAttempts => n + 1 \in 1 .. MaxAttempts
    BY FetchAssumption
<1>5. CASE RefreshReturns(c)
    <2>1. attempt' \in [Callers -> 1 .. MaxAttempts]
        BY <1>4, <1>5 DEF NextNumber, RefreshReturns, CountInv
    <2> QED BY <1>1, <1>5, <2>1 DEF RefreshReturns
<1>6. CASE Unauthorized(c)
    <2>1. carried[c] \in Token
        BY <1>6 DEF Unauthorized, SentInv, IInv, Shared, Typed, TypeOK
    <2>2. rejected' \in [Callers -> SUBSET Token]
        BY <1>6, <2>1 DEF Unauthorized
    <2> QED BY <1>1, <1>6, <2>2 DEF Unauthorized, RefreshForRetry
<1>7. CASE Unavailable(c)
    <2>1. outages' \in 0 .. MaxOutages
        BY <1>7, FetchAssumption DEF Unavailable
    <2>2. attempt' \in [Callers -> 1 .. MaxAttempts]
        BY <1>4, <1>7 DEF NextNumber, Unavailable, MoreAttempts
    <2> QED BY <1>1, <1>7, <2>1, <2>2 DEF Unavailable
<1> QED BY <1>2, <1>3, <1>5, <1>6, <1>7 DEF Mine, FetchStep, Answer

LEMMA PlaceStep ==
    ASSUME JInv, NEW c \in Callers, Mine(c)
    PROVE  PlaceInv'
<1> SUFFICES ASSUME NEW d \in Callers
             PROVE  /\ In(d, "refresh")' => call'[d] = "refresh" /\ pc'[d] \in Refreshing
                    /\ In(d, "header")' => /\ call'[d] = "header"
                                           /\ pc'[d] \in Refreshing \cup {"retrieve"}
    BY DEF PlaceInv
<1> USE DEF JInv, FetchTyped, FetchTypeOK, TypeOK, PlaceInv, In, Enter
<1>1. CASE d # c
    BY <1>1, OthersKept
<1>2. CASE d = c
    <2>1. CASE Proceed(c)
        <3>1. Typed
            BY DEF IInv, Shared
        <3>2. CASE phase[c] \in {"header", "refresh"}
            <4>1. call'[c] = call[c] /\ pc'[c] \in Refreshing
                BY <2>1, <3>1, <3>2, StaysInside DEF Proceed
            <4> QED BY <1>2, <2>1, <3>2, <4>1 DEF Proceed, fetches
        <3> QED BY <1>2, <2>1, <3>2 DEF Proceed, fetches
    <2>2. CASE Fetch(c) \/ CallDirectly(c) \/ NextAttempt(c)
        BY <1>2, <2>2 DEF Fetch, CallDirectly, NextAttempt, AskForHeader, Begin, EntryOf,
                          Goto
    <2>3. CASE Unauthorized(c)
        BY <1>2, <2>3 DEF Unauthorized, RefreshForRetry, Begin, EntryOf, Goto, Refreshing
    <2>4. CASE HeaderReturns(c) \/ RefreshReturns(c) \/ Accept(c) \/ Unavailable(c)
        BY <1>2, <2>4 DEF HeaderReturns, RefreshReturns, Accept, Unavailable
    <2> QED BY <2>1, <2>2, <2>3, <2>4 DEF Mine, FetchStep, Answer
<1> QED BY <1>1, <1>2

LEMMA SentStep ==
    ASSUME JInv, IInv', NEW c \in Callers, Mine(c)
    PROVE  SentInv'
<1> SUFFICES ASSUME NEW d \in Callers
             PROVE  /\ rejected'[d] \subseteq installed'
                    /\ pc'[d] = "unlock" => tok'[d] \in installed' \cup {None, Failed}
                    /\ In(d, "send")' => carried'[d] \in installed'
                    /\ phase'[d] \in {"none", "direct"} => rejected'[d] = {}
    BY DEF SentInv
<1> USE DEF JInv, FetchTyped, FetchTypeOK, SentInv, In, Enter
<1>0. installed \subseteq installed'
    BY StorageMoves, ObjectStep
<1>1. CASE d # c
    BY <1>0, <1>1, OthersKept
<1>2. CASE d = c
    <2>1. ASSUME pc'[c] = "unlock" PROVE tok'[c] \in installed' \cup {None, Failed}
        <3>1. CASE UNCHANGED vars
            BY <1>0, <2>1, <3>1 DEF vars, locals
        <3>2. CASE MethodOf(c)
            <4>1. UseRefreshed(c) \/ SignAndSend(c) \/ RefreshRefused(c) \/ Store(c)
                BY <2>1, <3>2, Arrivals DEF IInv, Shared
            <4>2. CASE UseRefreshed(c)
                BY <1>0, <4>2 DEF UseRefreshed, IInv, Shared, HistoryInv, Typed, TypeOK
            <4>3. CASE SignAndSend(c) \/ RefreshRefused(c)
                BY <2>1, <4>3 DEF SignAndSend, RefreshRefused, Exchanging, Goto, IInv,
                                  Shared, Typed, TypeOK
            <4>4. CASE Store(c)
                BY <4>4 DEF Store, StoreToken, locals
            <4> QED BY <4>1, <4>2, <4>3, <4>4
        <3> QED BY <3>1, <3>2, ObjectStep
    <2>2. CASE HeaderReturns(c)
        <3>1. Outcome(c) \in Token => Outcome(c) \in installed
            BY <2>2, ParametersAssumption
               DEF Outcome, At, Token, None, Failed, IInv, Shared, HistoryInv
        <3> QED BY <1>0, <1>2, <2>1, <2>2, <3>1 DEF HeaderReturns
    <2>3. CASE Unauthorized(c)
        BY <1>0, <1>2, <2>1, <2>3 DEF Unauthorized, RefreshForRetry
    <2>4. CASE Fetch(c) \/ CallDirectly(c) \/ Proceed(c) \/ NextAttempt(c) \/ Accept(c)
        BY <1>0, <1>2, <2>1, <2>4
           DEF Fetch, CallDirectly, Proceed, NextAttempt, Accept, AskForHeader, fetches
    <2>5. CASE RefreshReturns(c) \/ Unavailable(c)
        BY <1>0, <1>2, <2>1, <2>5 DEF RefreshReturns, Unavailable
    <2> QED BY <2>2, <2>3, <2>4, <2>5 DEF Mine, FetchStep, Answer
<1> QED BY <1>1, <1>2

LEMMA ResentStep ==
    ASSUME JInv, NEW c \in Callers, Mine(c)
    PROVE  NoRejectedResent'
<1> SUFFICES ASSUME NEW d \in Callers, In(d, "send")'
             PROVE  carried'[d] \notin rejected'[d]
    BY DEF NoRejectedResent
<1> USE DEF JInv, FetchTyped, FetchTypeOK, NoRejectedResent, In, Enter
<1>1. CASE d # c
    BY <1>1, OthersKept
<1>2. CASE d = c
    <2>1. CASE HeaderReturns(c)
        <3>1. Outcome(c) \in Token => Outcome(c) \notin rejected[c]
            BY <2>1, ParametersAssumption
               DEF HeaderReturns, Outcome, At, Token, None, Failed, ReplacedInv, Active
        <3> QED BY <1>2, <2>1, <3>1 DEF HeaderReturns
    <2>2. CASE Fetch(c) \/ CallDirectly(c) \/ Proceed(c) \/ NextAttempt(c)
        BY <1>2, <2>2
           DEF Fetch, CallDirectly, Proceed, NextAttempt, AskForHeader, fetches
    <2>3. CASE Answer(c) \/ RefreshReturns(c)
        BY <1>2, <2>3 DEF Answer, Accept, Unauthorized, RefreshForRetry, Unavailable,
                          RefreshReturns
    <2> QED BY <2>1, <2>2, <2>3 DEF Mine, FetchStep
<1> QED BY <1>1, <1>2

LEMMA ReplacedStep ==
    ASSUME JInv, IInv', NEW c \in Callers, Mine(c)
    PROVE  ReplacedInv'
<1> DEFINE Goal(d) ==
        /\ storage' \in rejected'[d] =>
             /\ In(d, "refresh")'
             /\ pc'[d] \in {"lock", "recheck", "request", "store"} => before'[d] = storage'
             /\ pc'[d] = "unlock" => tok'[d] = Failed
        /\ In(d, "header")' /\ pc'[d] = "unlock" => tok'[d] \notin rejected'[d]
<1> SUFFICES ASSUME NEW d \in Callers, phase'[d] \in Active
             PROVE  Goal(d)
    BY DEF ReplacedInv
<1> USE DEF JInv, FetchTyped, FetchTypeOK, In, Enter, Active
<1>1. rejected[d] \subseteq installed /\ None \notin rejected[d]
    BY ParametersAssumption DEF SentInv, Token, None
<1>2. storage' \in rejected[d] => storage' = storage
    BY <1>1, StorageMoves, ObjectStep
<1>3. CASE d # c
    BY <1>2, <1>3, OthersKept DEF ReplacedInv
<1>4. CASE d = c
    <2>1. CASE Proceed(c)
        <3>1. /\ phase'[c] = phase[c] /\ rejected'[c] = rejected[c]
              /\ phase[c] \in {"header", "refresh"}
            BY <1>4, <2>1 DEF Proceed, fetches
        <3>2. Inside(c)
            BY <2>1, <3>1, StaysInside DEF Proceed, PlaceInv, IInv, Shared
        <3> USE DEF IInv, Shared, Typed, TypeOK, At, Goto, object, locals
        <3>3. CASE /\ RetrieveOrRefresh(c) \/ AcquireLock(c) \/ SendCredentials(c)
                      \/ PresentRefreshToken(c) \/ AnswerLost(c, "request")
                      \/ Granted(c, "request", "store")
                      \/ GrantedNull(c, "request", "store")
                   /\ pc'[c] # "unlock"
            <4>1. CASE RetrieveOrRefresh(c)
                BY <1>4, <2>1, <3>1, <3>3, <4>1
                   DEF RetrieveOrRefresh, Deliver, HeaderOf, DownscopeOf, Return, Leave,
                       Proceed, PlaceInv, ReplacedInv
            <4>2. CASE AcquireLock(c) \/ SendCredentials(c) \/ PresentRefreshToken(c)
                BY <1>4, <3>1, <3>3, <4>2
                   DEF AcquireLock, SendCredentials, PresentRefreshToken, ReplacedInv
            <4>3. CASE \/ AnswerLost(c, "request") \/ Granted(c, "request", "store")
                       \/ GrantedNull(c, "request", "store")
                BY <1>4, <3>1, <3>3, <4>3
                   DEF AnswerLost, Granted, GrantedNull, Exchanging, ReplacedInv
            <4> QED BY <3>3, <4>1, <4>2, <4>3
        <3>4. CASE ReadBefore(c)
            BY <1>4, <3>1, <3>4 DEF ReadBefore, ReplacedInv
        <3>5. CASE UseRefreshed(c)
            BY <1>4, <3>1, <3>5 DEF UseRefreshed, Refreshed, ReplacedInv
        <3>6. CASE SignAndSend(c) \/ RefreshRefused(c)
            <4>1. CASE SignAndSend(c)
                BY <1>1, <1>4, <3>1, <4>1, ParametersAssumption
                   DEF SignAndSend, ReplacedInv, Failed, Token
            <4>2. CASE RefreshRefused(c)
                BY <1>1, <1>4, <3>1, <4>2, ParametersAssumption
                   DEF RefreshRefused, AfterRefusal, Exchanging, ReplacedInv, Failed, Token
            <4> QED BY <3>6, <4>1, <4>2
        <3>7. CASE Store(c)
            <4>1. tok[c] \notin installed \/ tok[c] = None
                BY <3>7 DEF Store, HandInv, AtStore
            <4> QED BY <1>1, <1>4, <3>1, <3>7, <4>1 DEF Store, StoreToken
        <3> QED BY <3>2, <3>3, <3>4, <3>5, <3>6, <3>7 DEF Inside
    <2>2. CASE Fetch(c) \/ CallDirectly(c)
        BY <1>4, <2>2, <1>2
           DEF Fetch, CallDirectly, AskForHeader, Begin, EntryOf, Goto, SentInv,
               IInv, Shared, Typed, TypeOK
    <2>3. CASE NextAttempt(c)
        BY <1>4, <2>3, <1>2
           DEF NextAttempt, AskForHeader, Begin, EntryOf, Goto, object, ReplacedInv,
               IInv, Shared, Typed, TypeOK
    <2>4. CASE HeaderReturns(c) \/ Accept(c) \/ Unavailable(c)
        BY <1>4, <2>4, <1>2 DEF HeaderReturns, Accept, Unavailable, ReplacedInv
    <2>5. CASE RefreshReturns(c)
        <3>1. Outcome(c) = Failed \/ storage \notin rejected[c]
            BY <2>5 DEF RefreshReturns, Outcome, At, ReplacedInv, PlaceInv, Refreshing
        <3> QED BY <1>4, <2>5, <3>1, <1>2 DEF RefreshReturns
    <2>6. CASE Unauthorized(c)
        BY <1>4, <2>6 DEF Unauthorized, RefreshForRetry, Begin, EntryOf, Goto,
                          IInv, Shared, Typed, TypeOK
    <2> QED BY <2>1, <2>2, <2>3, <2>4, <2>5, <2>6 DEF Mine, FetchStep, Answer
<1> QED BY <1>3, <1>4
-----------------------------------------------------------------------------
LEMMA DeadGrows ==
    ASSUME NEW c \in Callers, Mine(c)
    PROVE  Dead \subseteq Dead'
<1>1. revoked \subseteq revoked'
    <2>1. CASE UNCHANGED vars
        BY <2>1 DEF vars, service
    <2>2. CASE Start(c) \/ RetrieveOrRefresh(c) \/ RetrieveOrFail(c) \/ ReadBefore(c)
               \/ AcquireLock(c) \/ UseRefreshed(c) \/ SendCredentials(c)
               \/ SignAndSend(c) \/ PresentRefreshToken(c)
        BY <2>2 DEF Start, Begin, RetrieveOrRefresh, RetrieveOrFail, ReadBefore,
                    AcquireLock, UseRefreshed, SendCredentials, SignAndSend,
                    PresentRefreshToken, service
    <2>3. ASSUME NEW from, NEW to,
                 \/ Granted(c, from, to) \/ GrantedNull(c, from, to)
                 \/ AnswerLost(c, from)
          PROVE  revoked' = revoked
        BY <2>3 DEF Granted, GrantedNull, AnswerLost, Mint
    <2>4. CASE RefreshRefused(c) \/ Store(c) \/ Unlock(c) \/ RefreshFails(c)
               \/ Exchange(c) \/ RevokeGet(c) \/ Clear(c) \/ LoginRefused(c)
               \/ LoginStore(c)
        BY <2>4 DEF RefreshRefused, Store, Unlock, RefreshFails, Exchange, RevokeGet,
                    Clear, LoginRefused, LoginStore, service
    <2>5. CASE RevokeRefused(c) \/ RevokeThenClear(c) \/ RevokeOnly(c)
        BY <2>5 DEF RevokeRefused, RevokeThenClear, RevokeOnly, Revoke, service
    <2> QED BY <2>1, <2>2, <2>3, <2>4, <2>5, ObjectStep DEF MethodOf
<1>2. expired' = expired
    BY DEF Mine, Fetch, CallDirectly, FetchStep, Proceed, HeaderReturns,
           RefreshReturns, Answer, Accept, Unauthorized, Unavailable, NextAttempt
<1> QED BY <1>1, <1>2 DEF Dead

LEMMA TokensFinite ==
    ASSUME NEW S \in SUBSET Token
    PROVE  IsFiniteSet(S) /\ Cardinality(S) \in Nat
<1>1. IsFiniteSet(Token)
    BY FS_Interval, ParametersAssumption DEF Token
<1> QED BY <1>1, FS_Subset, FS_CardinalityType

\* The attempts a call has made, given the rejections and the outages so far.
Accounted(ph, n, r, k) ==
    /\ ph \in {"none", "direct"} => n = 1
    /\ ph \in {"header", "send", "backoff"} => n <= r + k + 1
    /\ ph \in {"refresh", "unauthorized"} => n <= r + k
    /\ ph = "refresh" => n < MaxAttempts
    /\ ph = "unauthorized" => n = MaxAttempts

LEMMA CountStep ==
    ASSUME JInv, FetchTypeOK', NEW c \in Callers, Mine(c)
    PROVE  CountInv'
<1> DEFINE R(d)  == Cardinality(rejected[d])
           RR(d) == Cardinality(rejected'[d])
<1> SUFFICES ASSUME NEW d \in Callers
             PROVE  /\ rejected'[d] \subseteq Dead'
                    /\ Accounted(phase'[d], attempt'[d], RR(d), outages')
    BY DEF CountInv, Accounted, In
<1> USE DEF JInv, FetchTyped, FetchTypeOK, In, Enter
<1>1. /\ attempt[d] \in 1 .. MaxAttempts /\ MaxAttempts \in Nat
      /\ R(d) \in Nat /\ outages \in Nat
    BY TokensFinite, FetchAssumption
<1>2. rejected[d] \subseteq Dead /\ Accounted(phase[d], attempt[d], R(d), outages)
    BY DEF CountInv, Accounted
<1>3. Dead \subseteq Dead'
    BY DeadGrows
<1>4. outages' = outages \/ (outages' = outages + 1 /\ Unavailable(c))
    BY DEF Mine, Fetch, CallDirectly, FetchStep, Proceed, HeaderReturns,
           RefreshReturns, Answer, Accept, Unauthorized, Unavailable, NextAttempt
<1>5. CASE d # c
    <2>1. /\ phase'[d] = phase[d] /\ attempt'[d] = attempt[d]
          /\ rejected'[d] = rejected[d]
        BY <1>5, OthersKept
    <2>2. \A n, r, k, j \in Nat : j >= k /\ Accounted(phase[d], n, r, k)
                                    => Accounted(phase[d], n, r, j)
        BY DEF Accounted
    <2>3. outages' \in Nat /\ outages' >= outages
        BY <1>1, <1>4
    <2> QED BY <1>1, <1>2, <1>3, <2>1, <2>2, <2>3
<1>6. CASE d = c
    <2>1. CASE Unauthorized(c)
        <3>1. /\ rejected'[c] = rejected[c] \cup {carried[c]}
              /\ carried[c] \notin rejected[c] /\ carried[c] \in Dead
              /\ phase[c] = "send" /\ attempt' = attempt /\ outages' = outages
            BY <2>1 DEF Unauthorized, RefreshForRetry, NoRejectedResent
        <3>2. RR(c) = R(c) + 1
            BY <3>1, TokensFinite, FS_AddElement
        <3>3. \/ phase'[c] = "refresh" /\ attempt[c] < MaxAttempts
              \/ phase'[c] = "unauthorized" /\ ~ (attempt[c] < MaxAttempts)
            BY <2>1 DEF Unauthorized, RefreshForRetry, MoreAttempts
        <3>4. attempt[c] <= R(c) + outages + 1
            BY <1>2, <1>6, <3>1 DEF Accounted
        <3>5. attempt[c] <= RR(c) + outages
            BY <1>1, <1>6, <3>2, <3>4
        <3>6. phase'[c] = "unauthorized" => attempt[c] = MaxAttempts
            BY <1>1, <1>6, <3>3
        <3> QED BY <1>2, <1>3, <1>6, <3>1, <3>3, <3>5, <3>6 DEF Accounted
    <2>2. CASE Fetch(c) \/ CallDirectly(c) \/ Proceed(c) \/ NextAttempt(c) \/ Accept(c)
        <3>1. /\ attempt' = attempt /\ rejected' = rejected /\ outages' = outages
              /\ \/ phase' = phase
                 \/ phase[c] = "none" /\ phase'[c] \in {"header", "direct"}
                 \/ phase[c] = "backoff" /\ phase'[c] = "header"
                 \/ phase'[c] = "ok"
            BY <2>2 DEF Fetch, CallDirectly, Proceed, NextAttempt, Accept, AskForHeader,
                        fetches
        <3>2. phase[c] = "none" => attempt[c] <= R(c) + outages + 1
            BY <1>1, <1>2, <1>6 DEF Accounted
        <3> QED BY <1>2, <1>3, <1>6, <3>1, <3>2 DEF Accounted
    <2>3. CASE HeaderReturns(c)
        BY <1>2, <1>3, <1>6, <2>3 DEF HeaderReturns, Accounted
    <2>4. CASE RefreshReturns(c)
        <3>1. attempt[c] + 1 <= R(c) + outages + 1
            BY <1>1, <1>2, <1>6, <2>4 DEF RefreshReturns, Accounted
        <3> QED BY <1>2, <1>3, <1>6, <2>4, <3>1 DEF NextNumber, RefreshReturns, Accounted
    <2>5. CASE Unavailable(c)
        <3>1. attempt[c] + 1 <= R(c) + (outages + 1) + 1
            BY <1>1, <1>2, <1>6, <2>5 DEF Unavailable, Accounted
        <3> QED BY <1>2, <1>3, <1>6, <2>5, <3>1 DEF NextNumber, Unavailable, Accounted
    <2> QED BY <2>1, <2>2, <2>3, <2>4, <2>5 DEF Mine, FetchStep, Answer
<1> QED BY <1>5, <1>6

LEMMA ExpireStep == JInv /\ Expire => JInv'
<1> SUFFICES ASSUME JInv, Expire PROVE JInv'
    OBVIOUS
<1>1. /\ UNCHANGED <<vars, phase, attempt, carried, rejected, outages>>
      /\ \E t \in 1 .. minted : expired' = expired \cup {t}
    BY DEF Expire, fetches
<1>2. IInv'
    BY <1>1, InductiveStep DEF JInv
<1>3. expired' \subseteq Token /\ expired \subseteq expired'
    BY <1>1, ParametersAssumption
       DEF JInv, FetchTyped, FetchTypeOK, TypeOK, Token
<1>4. /\ UNCHANGED <<pc, call, before, tok, storage, installed, revoked>>
    BY <1>1 DEF vars, object, locals, service, history
<1>5. FetchTypeOK' /\ PlaceInv' /\ SentInv' /\ ReplacedInv' /\ NoRejectedResent'
    BY <1>1, <1>2, <1>3, <1>4
       DEF JInv, IInv, Shared, Typed, FetchTyped, FetchTypeOK, PlaceInv, SentInv,
           ReplacedInv, NoRejectedResent, In
<1>6. CountInv'
    BY <1>1, <1>3, <1>4 DEF JInv, CountInv, In, Dead
<1> QED BY <1>2, <1>5, <1>6 DEF JInv, FetchTyped
-----------------------------------------------------------------------------
(* The inductive invariant, and the theorems.                               *)
LEMMA JInit == FetchInit => JInv
<1> SUFFICES ASSUME FetchInit PROVE JInv
    OBVIOUS
<1>1. IInv
    BY InductiveInit DEF FetchInit
<1>2. FetchTypeOK
    BY <1>1, FetchAssumption
       DEF FetchInit, FetchTypeOK, IInv, Shared, Typed, Token, None
<1>3. PlaceInv /\ SentInv /\ ReplacedInv /\ NoRejectedResent
    BY DEF FetchInit, Init, PlaceInv, SentInv, ReplacedInv, NoRejectedResent, In, Active
<1>4. CountInv
    BY DEF FetchInit, CountInv, In
<1> QED BY <1>1, <1>2, <1>3, <1>4 DEF JInv, FetchTyped

LEMMA JStep == JInv /\ [FetchNext]_fvars => JInv'
<1> SUFFICES ASSUME JInv, [FetchNext]_fvars PROVE JInv'
    OBVIOUS
<1>1. IInv'
    BY ObjectNext, InductiveStep DEF JInv
<1>2. CASE \E c \in Callers : Mine(c)
    <2>1. PICK c \in Callers : Mine(c)
        BY <1>2
    <2> QED BY <1>1, <2>1, TypeStep, PlaceStep, SentStep, ReplacedStep, ResentStep,
               CountStep DEF JInv, FetchTyped
<1>3. CASE Expire
    BY <1>3, ExpireStep
<1>4. CASE UNCHANGED fvars
    <2>1. UNCHANGED <<vars, phase, attempt, carried, rejected, expired, outages>>
        BY <1>4 DEF fvars, fetches
    <2>2. UNCHANGED <<pc, call, before, tok, storage, installed, revoked>>
        BY <2>1 DEF vars, object, locals, service, history
    <2>3. FetchTypeOK' /\ PlaceInv' /\ SentInv' /\ ReplacedInv' /\ NoRejectedResent'
        BY <1>1, <2>1, <2>2
           DEF JInv, IInv, Shared, Typed, FetchTyped, FetchTypeOK, PlaceInv, SentInv,
               ReplacedInv, NoRejectedResent, In
    <2>4. CountInv'
        BY <2>1, <2>2 DEF JInv, CountInv, In, Dead
    <2> QED BY <1>1, <2>3, <2>4 DEF JInv, FetchTyped
<1> QED BY <1>2, <1>3, <1>4 DEF FetchNext, Mine

LEMMA JInvariance == FetchSpec => []JInv
BY JInit, JStep, PTL DEF FetchSpec

\* The variables keep their types.
THEOREM FetchTypeCorrect == FetchSpec => []FetchTypeOK
BY JInvariance, PTL DEF JInv, FetchTyped

\* No call sends a token again that it got a 401 for, however many calls share
\* the object, whatever its type and whatever else is done with it.
THEOREM RetryBringsAnother == FetchSpec => []NoRejectedResent
BY JInvariance, PTL DEF JInv

\* A call that returns a 401 has met as many dead tokens and outages as it had
\* attempts.
THEOREM NoWastedAttempt == FetchSpec => []GivesUpOnlyOnDeadTokens
<1>1. JInv => GivesUpOnlyOnDeadTokens
    <2> SUFFICES ASSUME JInv, NEW c \in Callers, In(c, "unauthorized")
                 PROVE  Cardinality(Dead) + outages >= MaxAttempts
        BY DEF GivesUpOnlyOnDeadTokens
    <2> USE DEF JInv, FetchTyped, FetchTypeOK
    <2>1. Dead \subseteq Token
        BY DEF Dead, TypeOK
    <2>2. rejected[c] \subseteq Dead /\ rejected[c] \subseteq Token
        BY DEF CountInv
    <2>3. Cardinality(rejected[c]) <= Cardinality(Dead)
        BY <2>1, <2>2, TokensFinite, FS_Subset
    <2>4. MaxAttempts <= Cardinality(rejected[c]) + outages
        BY DEF CountInv, In
    <2>5. Cardinality(rejected[c]) \in Nat /\ Cardinality(Dead) \in Nat
        BY <2>1, <2>2, TokensFinite
    <2> QED BY <2>3, <2>4, <2>5, FetchAssumption
<1> QED BY <1>1, JInvariance, PTL
-----------------------------------------------------------------------------
(* The object inside Fetch is the object: what holds of Authentication      *)
(* holds of it when Fetch and the retry strategy are its callers.           *)

\* Fetch uses the object through its calls only.
THEOREM FetchUsesObject == FetchSpec => Spec
<1>1. FetchInit => Init
    BY DEF FetchInit
<1> QED BY <1>1, ObjectNext, PTL DEF FetchSpec, Spec

\* The refreshes that answer a 401 are atomic, with one another and with those
\* that applications ask for.
THEOREM FetchRefreshAtomic == FetchSpec => RefreshIsAtomic
BY FetchUsesObject, RefreshAtomic, PTL
-----------------------------------------------------------------------------
(* A call of Fetch runs out of attempts, and an attempt out of steps.       *)
LEMMA InsideRunsOut ==
    ASSUME IInv, NEW c \in Callers, Step(c), pc[c] # "idle"
    PROVE  Remaining(c)' \in 0 .. Remaining(c) - 1
BY StepCases, RunOutStep DEF IInv, Shared

LEMMA RemainingBound ==
    ASSUME Typed, NEW c \in Callers
    PROVE  /\ Remaining(c) \in Int /\ Remaining(c) <= 8 * (MaxResends + 1)
           /\ pc[c] \notin {"idle", "panicked"} => Remaining(c) >= 1
<1>1. MaxResends \in Nat /\ resends[c] \in 0 .. MaxResends /\ pc[c] \in Locations
    BY ParametersAssumption DEF Typed, TypeOK
<1>2. /\ StepsAhead[pc[c]] \in 0 .. 8
      /\ pc[c] \notin {"idle", "panicked"} => StepsAhead[pc[c]] >= 1
    BY <1>1 DEF StepsAhead, Locations, Critical
<1>3. \A n \in 0 .. 8 : /\ n * (MaxResends + 1) <= 8 * (MaxResends + 1)
                         /\ n >= 1 => n * (MaxResends + 1) >= MaxResends + 1
    BY <1>1
<1>4. StepsAhead[pc[c]] * (MaxResends + 1) \in Int
    BY <1>1, <1>2
<1> QED BY <1>1, <1>2, <1>3, <1>4 DEF Remaining

LEMMA AttemptStep ==
    ASSUME JInv, IInv', FetchTypeOK', NEW c \in Callers, Mine(c), phase[c] \in Active
    PROVE  \/ phase'[c] \in Ended
           \/ attempt'[c] = attempt[c] + 1 /\ attempt'[c] <= MaxAttempts
           \/ attempt'[c] = attempt[c] /\ AttemptLeft(c)' \in 0 .. AttemptLeft(c) - 1
<1> DEFINE K == 8 * (MaxResends + 1) + 1
<1>1. K \in Nat /\ K > 0
    BY ParametersAssumption
<1>2. /\ Remaining(c) \in Int /\ Remaining(c) < K
      /\ Remaining(c)' \in Int /\ Remaining(c)' < K
      /\ pc'[c] \notin {"idle", "panicked"} => Remaining(c)' >= 1
    <2>1. /\ Remaining(c) \in Int /\ Remaining(c) <= 8 * (MaxResends + 1)
        BY RemainingBound DEF JInv, IInv, Shared
    <2>2. (Typed => /\ Remaining(c) \in Int /\ Remaining(c) <= 8 * (MaxResends + 1)
                    /\ pc[c] \notin {"idle", "panicked"} => Remaining(c) >= 1)'
        BY RemainingBound, PTL
    <2> QED BY <2>1, <2>2, ParametersAssumption DEF IInv, Shared
<1>3. /\ attempt[c] \in 1 .. MaxAttempts /\ attempt'[c] \in 1 .. MaxAttempts
      /\ \A p : Enter(c, p) => phase'[c] = p
    BY DEF JInv, FetchTyped, FetchTypeOK, Enter
<1>4. AttemptLeft(c) = (IF phase[c] \in {"header", "refresh"} THEN Remaining(c) ELSE 0)
                       + Parts[phase[c]] * K
    BY DEF AttemptLeft, In
<1>5. AttemptLeft(c)' = (IF phase'[c] \in {"header", "refresh"} THEN Remaining(c)' ELSE 0)
                        + Parts[phase'[c]] * K
    BY DEF AttemptLeft, In
<1> HIDE DEF K
<1>6. CASE Proceed(c)
    <2>1. /\ phase[c] \in {"header", "refresh"} /\ phase' = phase /\ attempt' = attempt
          /\ Step(c)
        BY <1>6 DEF Proceed, fetches, Active
    <2>2. pc[c] # "idle"
        BY <2>1 DEF JInv, FetchTyped, PlaceInv, In, Refreshing
    <2>3. Remaining(c)' \in 0 .. Remaining(c) - 1
        BY <2>1, <2>2, InsideRunsOut DEF JInv
    <2> QED BY <1>1, <1>2, <1>4, <1>5, <2>1, <2>3 DEF Parts
<1>7. CASE HeaderReturns(c)
    <2>1. phase[c] = "header" /\ Step(c) /\ attempt' = attempt
          /\ phase'[c] \in {"send", "error", "panicked"}
        BY <1>3, <1>7 DEF HeaderReturns, In
    <2>2. pc[c] # "idle"
        BY <2>1 DEF JInv, FetchTyped, PlaceInv, In, Refreshing
    <2>3. Remaining(c)' \in 0 .. Remaining(c) - 1
        BY <2>1, <2>2, InsideRunsOut DEF JInv
    <2> QED BY <1>1, <1>2, <1>4, <1>5, <2>1, <2>3 DEF Parts, Ended
<1>8. CASE Accept(c)
    BY <1>3, <1>8 DEF Accept, Ended
<1>9. CASE Unauthorized(c)
    <2>1. CASE MoreAttempts(c) /\ RefreshForRetry(c)
        <3>1. /\ phase[c] = "send" /\ phase'[c] = "refresh" /\ attempt' = attempt
              /\ pc'[c] = "before"
            BY <1>3, <1>9, <2>1 DEF Unauthorized, RefreshForRetry, In, Begin, EntryOf, Goto,
               JInv, IInv, Shared, Typed, TypeOK
        <3> QED BY <1>1, <1>2, <1>4, <1>5, <3>1 DEF Parts
    <2>2. CASE Enter(c, "unauthorized")
        BY <1>3, <2>2 DEF Ended
    <2> QED BY <1>9, <2>1, <2>2 DEF Unauthorized
<1>10. CASE RefreshReturns(c) \/ Unavailable(c)
    <2>1. phase'[c] = "error" \/ NextNumber(c)
        BY <1>3, <1>10 DEF RefreshReturns, Unavailable
    <2> QED BY <1>3, <2>1 DEF NextNumber, Ended, JInv, FetchTyped, FetchTypeOK
<1>11. CASE NextAttempt(c)
    <2>1. /\ phase[c] = "backoff" /\ phase'[c] = "header" /\ attempt' = attempt
          /\ pc'[c] = "retrieve"
        BY <1>3, <1>11 DEF NextAttempt, AskForHeader, In, Begin, EntryOf, Goto,
           JInv, IInv, Shared, Typed, TypeOK
    <2> QED BY <1>1, <1>2, <1>4, <1>5, <2>1 DEF Parts
<1>12. ~ Fetch(c) /\ ~ CallDirectly(c)
    BY DEF Fetch, CallDirectly, In, Active
<1> QED BY <1>6, <1>7, <1>8, <1>9, <1>10, <1>11, <1>12 DEF Mine, FetchStep, Answer

\* A call of Fetch takes a bounded number of steps: MaxAttempts attempts, each of
\* a bounded number of its own and the object's.
THEOREM FetchRunsOut == FetchSpec => AttemptsRunOut
<1> DEFINE A ==
    \A c \in Callers :
         /\ phase[c] \in Active
         /\ <<phase[c], pc[c], resends[c]>>' # <<phase[c], pc[c], resends[c]>>
         => \/ phase'[c] \in Ended
            \/ attempt'[c] = attempt[c] + 1 /\ attempt'[c] <= MaxAttempts
            \/ attempt'[c] = attempt[c] /\ AttemptLeft(c)' \in 0 .. AttemptLeft(c) - 1
<1>1. JInv /\ JInv' /\ [FetchNext]_fvars => [A]_fvars
    <2> SUFFICES ASSUME JInv, JInv', FetchNext, NEW d \in Callers, phase[d] \in Active,
                        <<phase[d], pc[d], resends[d]>>' # <<phase[d], pc[d], resends[d]>>
                 PROVE  \/ phase'[d] \in Ended
                        \/ attempt'[d] = attempt[d] + 1 /\ attempt'[d] <= MaxAttempts
                        \/ /\ attempt'[d] = attempt[d]
                           /\ AttemptLeft(d)' \in 0 .. AttemptLeft(d) - 1
        OBVIOUS
    <2>1. ~ Expire
        BY DEF Expire, vars, fetches, locals
    <2>2. PICK c \in Callers : Mine(c)
        BY <2>1 DEF FetchNext, Mine
    <2>3. d = c
        <3> SUFFICES ASSUME d # c PROVE FALSE
            OBVIOUS
        <3>1. phase'[d] = phase[d] /\ pc'[d] = pc[d]
            BY <2>2, OthersKept
        <3>2. resends'[d] = resends[d]
            <4>1. CASE UNCHANGED vars
                BY <4>1 DEF vars, locals
            <4>2. CASE MethodOf(c)
                BY <4>2, OthersUnmoved DEF JInv, IInv, Shared
            <4> QED BY <2>2, <4>1, <4>2, ObjectStep
        <3> QED BY <3>1, <3>2
    <2> QED BY <2>2, <2>3, AttemptStep DEF JInv, FetchTyped
<1> QED BY <1>1, JInvariance, PTL DEF FetchSpec, AttemptsRunOut
=============================================================================
