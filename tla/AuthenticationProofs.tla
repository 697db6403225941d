------------------------ MODULE AuthenticationProofs ------------------------
(***************************************************************************)
(* Theorems about Authentication, and about RefreshWaiters, which observes *)
(* it, for any number of goroutines, tokens and re-sends and any choice of *)
(* methods, calls and faults.                                              *)
(*                                                                         *)
(* The safety invariants are not inductive one by one.  What carries them  *)
(* is the mutual exclusion of the refresh (MutexInv), the fact that what a *)
(* goroutine is about to store was never stored before (HandInv), and that *)
(* everything the service has consumed or revoked once was stored          *)
(* (HistoryInv).                                                           *)
(***************************************************************************)
EXTENDS RefreshWaiters, FiniteSetTheorems, TLAPS

AtStore(c) == pc[c] \in {"store", "loginStore"}

\* What a goroutine carries to a Store is not an error, what it revokes or
\* clears is a token.
CarriesInv ==
    \A c \in Callers :
        /\ AtStore(c) => tok[c] # Failed
        /\ pc[c] \in {"revokeCall", "clear"} => tok[c] \in Token

Typed == TypeOK /\ CarriesInv

\* The mutex is held by the one goroutine in the critical section.
MutexInv ==
    /\ \A c \in Callers : c \in mu <=> pc[c] \in Critical
    /\ \A c, d \in mu : c = d

\* The steps a goroutine takes, with the methods that take them.
MethodOf(c) ==
    \/ Start(c)
    \/ RetrieveOrRefresh(c)
    \/ RetrieveOrFail(c)
    \/ ReadBefore(c)
    \/ AcquireLock(c)
    \/ UseRefreshed(c)
    \/ SendCredentials(c)
    \/ SignAndSend(c)
    \/ PresentRefreshToken(c)
    \/ Granted(c, "request", "store")
    \/ GrantedNull(c, "request", "store")
    \/ AnswerLost(c, "request")
    \/ RefreshRefused(c)
    \/ Store(c)
    \/ Unlock(c)
    \/ RefreshFails(c)
    \/ Exchange(c)
    \/ RevokeGet(c)
    \/ RevokeRefused(c)
    \/ RevokeThenClear(c)
    \/ Clear(c)
    \/ method = "oauth" /\ RevokeOnly(c)
    \/ method = "oauth" /\ Granted(c, "loginCall", "loginStore")
    \/ method = "oauth" /\ GrantedNull(c, "loginCall", "loginStore")
    \/ method = "oauth" /\ AnswerLost(c, "loginCall")
    \/ LoginRefused(c)
    \/ method = "oauth" /\ LoginStore(c)

LEMMA StepCases ==
    ASSUME NEW c \in Callers, Start(c) \/ Step(c)
    PROVE  MethodOf(c)
BY DEF MethodOf, Step, CcgStep, JwtStep, OAuthStep, DeveloperStep,
       RefreshUnderLock, RequestAccessToken, RevokeAndClear, Login

LEMMA MethodFixed ==
    ASSUME NEW c \in Callers, MethodOf(c)
    PROVE  method' = method
    BY DEF MethodOf, Start, Begin, RetrieveOrRefresh, RetrieveOrFail, ReadBefore,
           AcquireLock, UseRefreshed, SendCredentials, SignAndSend,
           PresentRefreshToken, Granted, GrantedNull, AnswerLost, RefreshRefused, AfterRefusal,
           Store, Unlock, RefreshFails, Exchange, RevokeGet, RevokeRefused,
           RevokeThenClear, Clear, RevokeOnly, LoginRefused, LoginStore

\* The end of a call, or of the RetrieveToken inside it, in one formula.
LEMMA LeaveEffect ==
    ASSUME NEW c \in Callers, NEW l, Leave(c, l)
    PROVE  /\ pc' = [pc EXCEPT ![c] = l]
           /\ call' = [call EXCEPT ![c] = "none"]
           /\ Forget(c)
BY DEF Leave, Goto

LEMMA DeliverEffect ==
    ASSUME NEW c \in Callers, NEW t, Deliver(c, t)
    PROVE  /\ \E l \in {"idle", "exchange", "panicked"} :
                  pc' = [pc EXCEPT ![c] = l]
           /\ call' \in {call, [call EXCEPT ![c] = "none"]}
           /\ Forget(c)
BY DEF Deliver, HeaderOf, DownscopeOf, Return, Leave, Goto

LEMMA TypedInit == Init => Typed
BY ParametersAssumption
   DEF Init, Typed, TypeOK, CarriesInv, AtStore, InitialToken, Token, None,
       Failed, Locations, Critical

LEMMA TypedStep ==
    ASSUME Typed, NEW c \in Callers, MethodOf(c)
    PROVE  Typed'
<1> USE DEF Typed, TypeOK, CarriesInv, AtStore, Locations, Critical, None,
        Failed, At, Goto, object, locals, service, history
<1>0. 0 \in 0 .. MaxResends
    BY ParametersAssumption
<1>1. CASE Start(c)
    BY <1>1 DEF Start, Begin, EntryOf
<1>2. CASE RetrieveOrRefresh(c)
    BY <1>0, <1>2, DeliverEffect DEF RetrieveOrRefresh, Forget
<1>3. CASE RetrieveOrFail(c)
    BY <1>0, <1>3, DeliverEffect DEF RetrieveOrFail, Return, Leave, Forget
<1>4. CASE ReadBefore(c) \/ AcquireLock(c) \/ UseRefreshed(c)
    BY <1>4 DEF ReadBefore, AcquireLock, UseRefreshed, Refreshed
<1>5. CASE SendCredentials(c) \/ SignAndSend(c) \/ PresentRefreshToken(c)
    BY <1>5 DEF SendCredentials, SignAndSend, PresentRefreshToken, PresentedToken
<1>6. ASSUME NEW from, NEW to, to \in {"store", "loginStore"},
             Granted(c, from, to) \/ GrantedNull(c, from, to)
      PROVE  Typed'
    <2>1. minted' = minted + 1 /\ minted' \in Token
        BY <1>6, ParametersAssumption
           DEF Granted, GrantedNull, Grants, CanMint, Mint, Token
    <2>2. minted' # Failed /\ minted' \in 0 .. MaxTokens
        BY <2>1, ParametersAssumption DEF Token
    <2>3. CASE Granted(c, from, to)
        BY <1>6, <2>1, <2>2, <2>3 DEF Granted, Exchanging, Mint
    <2>4. CASE GrantedNull(c, from, to)
        <3>1. TypeOK'
            BY <1>6, <2>1, <2>2, <2>4 DEF GrantedNull, Exchanging, Mint
        <3>2. CarriesInv'
            BY <1>6, <2>4 DEF GrantedNull, Exchanging
        <3> QED BY <3>1, <3>2
    <2> QED BY <1>6, <2>3, <2>4
<1>7. ASSUME NEW from, AnswerLost(c, from)
      PROVE  Typed'
    <2>1. minted' \in 0 .. MaxTokens
        BY <1>7, ParametersAssumption DEF AnswerLost, Grants, CanMint, Mint
    <2>2. resends' \in [Callers -> 0 .. MaxResends]
        BY <1>7, ParametersAssumption DEF AnswerLost
    <2> QED BY <1>7, <2>1, <2>2 DEF AnswerLost, Mint
<1>8. CASE RefreshRefused(c)
    BY <1>8 DEF RefreshRefused, AfterRefusal, Exchanging
<1>9. CASE Store(c)
    BY <1>9 DEF Store, StoreToken
<1>10. CASE Unlock(c)
    BY <1>0, <1>10, DeliverEffect DEF Unlock, Released, Forget
<1>11. CASE RefreshFails(c) \/ Exchange(c) \/ LoginRefused(c)
    BY <1>0, <1>11 DEF RefreshFails, Exchange, LoginRefused, Return, Leave, Forget
<1>12. CASE RevokeGet(c)
    BY <1>0, <1>12 DEF RevokeGet, Return, Leave, Forget
<1>13. CASE RevokeRefused(c) \/ RevokeOnly(c)
    BY <1>0, <1>13 DEF RevokeRefused, RevokeOnly, Revoke, Return, Leave, Forget
<1>14. CASE RevokeThenClear(c)
    BY <1>14 DEF RevokeThenClear, Revoke
<1>15. CASE Clear(c)
    BY <1>0, <1>15 DEF Clear, ClearStorage, Return, Leave, Forget
<1>16. CASE LoginStore(c)
    BY <1>0, <1>16 DEF LoginStore, StoreToken, Return, Leave, Forget
<1> HIDE DEF Typed
<1> QED
    BY <1>1, <1>2, <1>3, <1>4, <1>5, <1>6, <1>7, <1>8, <1>9, <1>10, <1>11,
       <1>12, <1>13, <1>14, <1>15, <1>16 DEF MethodOf
-----------------------------------------------------------------------------
LEMMA MutexStep ==
    ASSUME Typed, MutexInv, NEW c \in Callers, MethodOf(c)
    PROVE  MutexInv'
<1> USE DEF Typed, TypeOK, MutexInv, Critical, At, Goto, object
<1>1. CASE AcquireLock(c)
    BY <1>1 DEF AcquireLock, LockFree
<1>2. CASE Unlock(c)
    BY <1>2, DeliverEffect DEF Unlock, Released
<1>3. CASE Start(c)
    BY <1>3 DEF Start, Begin, EntryOf
<1>4. CASE RetrieveOrRefresh(c) \/ RetrieveOrFail(c)
    BY <1>4, DeliverEffect DEF RetrieveOrRefresh, RetrieveOrFail, Return, Leave
<1>5. CASE ReadBefore(c) \/ UseRefreshed(c) \/ SendCredentials(c)
           \/ SignAndSend(c) \/ PresentRefreshToken(c)
    BY <1>5 DEF ReadBefore, UseRefreshed, SendCredentials, SignAndSend,
                PresentRefreshToken
<1>6. ASSUME NEW from, NEW to,
             <<from, to>> \in {<<"request", "store">>, <<"loginCall", "loginStore">>},
             Granted(c, from, to) \/ GrantedNull(c, from, to)
      PROVE  MutexInv'
    BY <1>6 DEF Granted, GrantedNull, Exchanging
<1>7. ASSUME NEW from, AnswerLost(c, from)
      PROVE  MutexInv'
    BY <1>7 DEF AnswerLost
<1>8. CASE RefreshRefused(c) \/ Store(c)
    BY <1>8 DEF RefreshRefused, AfterRefusal, Exchanging, Store
<1>9. CASE RefreshFails(c) \/ Exchange(c) \/ LoginRefused(c) \/ LoginStore(c)
    BY <1>9 DEF RefreshFails, Exchange, LoginRefused, LoginStore, Return, Leave
<1>10. CASE RevokeGet(c) \/ RevokeRefused(c) \/ RevokeThenClear(c) \/ Clear(c)
            \/ RevokeOnly(c)
    BY <1>10 DEF RevokeGet, RevokeRefused, RevokeThenClear, Clear, RevokeOnly,
                 Return, Leave
<1> QED
    BY <1>1, <1>2, <1>3, <1>4, <1>5, <1>6, <1>7, <1>8, <1>9, <1>10 DEF MethodOf
-----------------------------------------------------------------------------
\* What a goroutine remembers, and what the service has used up, was stored.
HistoryInv ==
    /\ storage \in installed \cup {None}
    /\ installed \subseteq 1 .. minted
    /\ consumed \subseteq installed
    /\ revoked \subseteq installed
    /\ \A c \in Callers :
         /\ before[c] \in installed \cup {None}
         /\ cred[c] \in installed \cup {None}
         /\ pc[c] \in {"revokeCall", "clear"} => tok[c] \in installed
         /\ pc[c] \notin {"request", "store", "unlock"} => cred[c] = None

\* What a goroutine is about to store was minted, was never stored, and is in
\* no other hand.
HandInv ==
    \A c \in Callers : AtStore(c) /\ tok[c] # None =>
        /\ tok[c] \in (1 .. minted) \ installed
        /\ \A d \in Callers \ {c} : AtStore(d) => tok[d] # tok[c]

LEMMA HistoryStep ==
    ASSUME Typed, HistoryInv, HandInv, NEW c \in Callers, MethodOf(c)
    PROVE  HistoryInv'
<1> USE DEF Typed, TypeOK, HistoryInv, None, At, Goto, object, locals, service,
        history
<1>1. CASE Start(c)
    BY <1>1 DEF Start, Begin, EntryOf
<1>2. CASE RetrieveOrRefresh(c) \/ RetrieveOrFail(c)
    <2>1. \/ /\ Forget(c)
             /\ \E l \in {"idle", "exchange", "panicked"} : pc' = [pc EXCEPT ![c] = l]
          \/ pc[c] = "retrieve" /\ Goto(c, "before") /\ UNCHANGED locals
        BY <1>2, DeliverEffect DEF RetrieveOrRefresh, RetrieveOrFail, Return, Leave
    <2>2. UNCHANGED <<object, service, history>>
        BY <1>2 DEF RetrieveOrRefresh, RetrieveOrFail
    <2> QED BY <2>1, <2>2 DEF Forget
<1>3. CASE ReadBefore(c) \/ AcquireLock(c) \/ UseRefreshed(c)
    BY <1>3 DEF ReadBefore, AcquireLock, UseRefreshed, Refreshed
<1>4. CASE SendCredentials(c) \/ SignAndSend(c) \/ PresentRefreshToken(c)
    BY <1>4 DEF SendCredentials, SignAndSend, PresentRefreshToken, PresentedToken
<1>5. ASSUME NEW from, NEW to,
             <<from, to>> \in {<<"request", "store">>, <<"loginCall", "loginStore">>},
             Granted(c, from, to) \/ GrantedNull(c, from, to)
      PROVE  HistoryInv'
    <2>1. 1 .. minted \subseteq 1 .. minted'
        BY <1>5, ParametersAssumption DEF Granted, GrantedNull, Mint
    <2>2. CASE Granted(c, from, to)
        BY <1>5, <2>1, <2>2 DEF Granted, Exchanging, Mint
    <2>3. CASE GrantedNull(c, from, to)
        BY <1>5, <2>1, <2>3 DEF GrantedNull, Exchanging, Mint
    <2> QED BY <1>5, <2>2, <2>3
<1>6. ASSUME NEW from, from \in {"request", "loginCall"}, AnswerLost(c, from)
      PROVE  HistoryInv'
    <2>1. 1 .. minted \subseteq 1 .. minted'
        BY <1>6, ParametersAssumption DEF AnswerLost, Mint
    <2> QED BY <1>6, <2>1 DEF AnswerLost, Mint
<1>7. CASE RefreshRefused(c)
    BY <1>7 DEF RefreshRefused, AfterRefusal, Exchanging
<1>8. CASE Store(c) \/ LoginStore(c)
    <2>1. tok[c] \in installed' \cup {None} /\ installed \subseteq installed'
        BY <1>8 DEF Store, LoginStore, StoreToken
    <2>2. installed' \subseteq 1 .. minted
        <3>1. AtStore(c)
            BY <1>8 DEF Store, LoginStore, AtStore
        <3>2. tok[c] # None => tok[c] \in 1 .. minted
            BY <3>1 DEF HandInv
        <3> QED BY <1>8, <3>2 DEF Store, LoginStore, StoreToken
    <2>3. CASE Store(c)
        BY <2>1, <2>2, <2>3 DEF Store, StoreToken
    <2>4. CASE LoginStore(c)
        BY <2>1, <2>2, <2>4 DEF LoginStore, StoreToken, Return, Leave, Forget
    <2> QED BY <1>8, <2>3, <2>4
<1>9. CASE Unlock(c)
    BY <1>9, DeliverEffect DEF Unlock, Forget
<1>10. CASE RefreshFails(c) \/ Exchange(c) \/ LoginRefused(c)
    BY <1>10 DEF RefreshFails, Exchange, LoginRefused, Return, Leave, Forget
<1>11. CASE RevokeGet(c)
    BY <1>11 DEF RevokeGet, Return, Leave, Forget
<1>12. CASE Clear(c)
    BY <1>12 DEF Clear, ClearStorage, Return, Leave, Forget
<1>13. CASE RevokeRefused(c) \/ RevokeOnly(c)
    <2>1. /\ revoked' \in {revoked, revoked \cup {tok[c]}}
          /\ tok[c] \in installed
          /\ UNCHANGED <<object, minted, consumed, installed>>
        BY <1>13 DEF RevokeRefused, RevokeOnly, Revoke
    <2>2. pc' = [pc EXCEPT ![c] = "idle"] /\ Forget(c)
        BY <1>13 DEF RevokeRefused, RevokeOnly, Return, Leave
    <2> QED BY <2>1, <2>2 DEF Forget
<1>14. CASE RevokeThenClear(c)
    BY <1>14 DEF RevokeThenClear, Revoke
<1> QED
    BY <1>1, <1>2, <1>3, <1>4, <1>5, <1>6, <1>7, <1>8, <1>9, <1>10, <1>11,
       <1>12, <1>13, <1>14 DEF MethodOf

LEMMA HandStep ==
    ASSUME Typed, HistoryInv, HandInv, NEW c \in Callers, MethodOf(c)
    PROVE  HandInv'
<1> USE DEF Typed, TypeOK, HandInv, AtStore, None, At, Goto, object, locals,
        service, history
<1>1. CASE Start(c)
    BY <1>1 DEF Start, Begin, EntryOf
<1>2. CASE RetrieveOrRefresh(c) \/ RetrieveOrFail(c)
    <2>1. /\ \E l \in Locations \ {"store", "loginStore"} : pc' = [pc EXCEPT ![c] = l]
          /\ tok' \in {tok, [tok EXCEPT ![c] = None]}
        BY <1>2, DeliverEffect
           DEF RetrieveOrRefresh, RetrieveOrFail, Return, Leave, Forget, Locations
    <2>2. UNCHANGED <<minted, installed>>
        BY <1>2 DEF RetrieveOrRefresh, RetrieveOrFail
    <2> QED BY <2>1, <2>2
<1>3. CASE ReadBefore(c) \/ AcquireLock(c) \/ UseRefreshed(c)
    BY <1>3 DEF ReadBefore, AcquireLock, UseRefreshed
<1>4. CASE SendCredentials(c) \/ SignAndSend(c) \/ PresentRefreshToken(c)
    BY <1>4 DEF SendCredentials, SignAndSend, PresentRefreshToken
<1>5. ASSUME NEW from, NEW to,
             <<from, to>> \in {<<"request", "store">>, <<"loginCall", "loginStore">>},
             Granted(c, from, to)
      PROVE  HandInv'
    <2>1. minted' = minted + 1 /\ minted \in Nat
        BY <1>5, ParametersAssumption DEF Granted, Mint
    <2>2. minted' \in (1 .. minted') \ installed
        BY <2>1 DEF HistoryInv
    <2>3. \A d \in Callers : AtStore(d) => tok[d] # minted'
        BY <2>1, ParametersAssumption
    <2>4. /\ pc' = [pc EXCEPT ![c] = to] /\ tok' = [tok EXCEPT ![c] = minted']
          /\ installed' = installed
        BY <1>5 DEF Granted, Exchanging
    <2> QED BY <1>5, <2>1, <2>2, <2>3, <2>4
<1>6. ASSUME NEW from, NEW to, GrantedNull(c, from, to)
      PROVE  HandInv'
    <2>1. 1 .. minted \subseteq 1 .. minted'
        BY <1>6, ParametersAssumption DEF GrantedNull, Mint
    <2> QED BY <1>6, <2>1 DEF GrantedNull, Exchanging
<1>7. ASSUME NEW from, from \in {"request", "loginCall"}, AnswerLost(c, from)
      PROVE  HandInv'
    <2>1. 1 .. minted \subseteq 1 .. minted'
        BY <1>7, ParametersAssumption DEF AnswerLost, Mint
    <2> QED BY <1>7, <2>1 DEF AnswerLost
<1>8. CASE RefreshRefused(c)
    BY <1>8 DEF RefreshRefused, AfterRefusal, Exchanging
<1>9. CASE Store(c)
    BY <1>9 DEF Store, StoreToken
<1>10. CASE LoginStore(c)
    BY <1>10 DEF LoginStore, StoreToken, Return, Leave, Forget
<1>11. CASE Unlock(c)
    <2>1. /\ \E l \in Locations \ {"store", "loginStore"} : pc' = [pc EXCEPT ![c] = l]
          /\ tok' = [tok EXCEPT ![c] = None]
        BY <1>11, DeliverEffect DEF Unlock, Forget, Locations
    <2> QED BY <1>11, <2>1 DEF Unlock
<1>12. CASE RefreshFails(c) \/ Exchange(c) \/ LoginRefused(c)
    BY <1>12 DEF RefreshFails, Exchange, LoginRefused, Return, Leave, Forget
<1>13. CASE RevokeGet(c) \/ Clear(c)
    BY <1>13 DEF RevokeGet, Clear, Return, Leave, Forget
<1>14. CASE RevokeRefused(c) \/ RevokeOnly(c) \/ RevokeThenClear(c)
    BY <1>14 DEF RevokeRefused, RevokeOnly, RevokeThenClear, Revoke, Return,
                 Leave, Forget
<1> QED
    BY <1>1, <1>2, <1>3, <1>4, <1>5, <1>6, <1>7, <1>8, <1>9, <1>10, <1>11,
       <1>12, <1>13, <1>14 DEF MethodOf
-----------------------------------------------------------------------------
\* Without logins the stored token is the youngest ever stored, and what a
\* refresh is about to store is younger.
YoungestInv ==
    Unattended =>
        /\ \A c \in Callers : pc[c] \notin {"loginCall", "loginStore"}
        /\ storage # None => \A t \in installed : t <= storage
        /\ \A c \in Callers : At(c, "store") /\ tok[c] # None =>
             \A t \in installed : t < tok[c]

Shared == Typed /\ MutexInv /\ HistoryInv /\ HandInv

LEMMA YoungestStep ==
    ASSUME Shared, YoungestInv, NEW c \in Callers, MethodOf(c)
    PROVE  YoungestInv'
<1> SUFFICES ASSUME Unattended' PROVE YoungestInv'
    BY DEF YoungestInv
<1> USE DEF Shared, Typed, TypeOK, YoungestInv, Unattended, None, At, Goto,
        object, locals, service, history
<1>0. method' = method
    BY MethodFixed
<1>1. CASE Start(c)
    BY <1>0, <1>1 DEF Start, Begin, EntryOf
<1>2. CASE RetrieveOrRefresh(c) \/ RetrieveOrFail(c)
    <2>1. /\ \E l \in {"idle", "exchange", "panicked", "before"} :
                pc' = [pc EXCEPT ![c] = l]
          /\ tok' \in {tok, [tok EXCEPT ![c] = None]}
          /\ UNCHANGED <<storage, installed>>
        BY <1>2, DeliverEffect
           DEF RetrieveOrRefresh, RetrieveOrFail, Return, Leave, Forget
    <2> QED BY <1>0, <2>1
<1>3. CASE ReadBefore(c) \/ AcquireLock(c) \/ UseRefreshed(c)
    BY <1>0, <1>3 DEF ReadBefore, AcquireLock, UseRefreshed
<1>4. CASE SendCredentials(c) \/ SignAndSend(c) \/ PresentRefreshToken(c)
    BY <1>0, <1>4 DEF SendCredentials, SignAndSend, PresentRefreshToken
<1>5. CASE Granted(c, "request", "store")
    <2>1. \A t \in installed : t < minted'
        BY <1>5, ParametersAssumption DEF Granted, Mint, HistoryInv
    <2> QED BY <1>0, <1>5, <2>1 DEF Granted, Exchanging
<1>6. CASE GrantedNull(c, "request", "store") \/ AnswerLost(c, "request")
           \/ RefreshRefused(c)
    BY <1>0, <1>6 DEF GrantedNull, AnswerLost, RefreshRefused, AfterRefusal, Exchanging
<1>7. CASE Store(c)
    <2>1. \A d \in Callers \ {c} : pc[d] # "store"
        BY <1>7 DEF Store, MutexInv, Critical
    <2>2. storage' # None => \A t \in installed' : t <= storage'
        BY <1>0, <1>7 DEF Store, StoreToken, Token
    <2>3. \A d \in Callers : pc'[d] \notin {"store", "loginCall", "loginStore"}
        BY <1>0, <1>7, <2>1 DEF Store
    <2> QED BY <2>2, <2>3
<1>8. CASE Unlock(c)
    <2>1. /\ \E l \in {"idle", "exchange", "panicked"} : pc' = [pc EXCEPT ![c] = l]
          /\ tok' = [tok EXCEPT ![c] = None]
          /\ UNCHANGED <<storage, installed>>
        BY <1>8, DeliverEffect DEF Unlock, Forget
    <2> QED BY <1>0, <2>1
<1>9. CASE RefreshFails(c) \/ Exchange(c) \/ LoginRefused(c)
    BY <1>0, <1>9 DEF RefreshFails, Exchange, LoginRefused, Return, Leave, Forget
<1>10. CASE RevokeGet(c)
    BY <1>0, <1>10 DEF RevokeGet, Return, Leave, Forget
<1>11. CASE Clear(c)
    BY <1>0, <1>11 DEF Clear, ClearStorage, Return, Leave, Forget
<1>12. CASE RevokeRefused(c) \/ RevokeThenClear(c)
    BY <1>0, <1>12 DEF RevokeRefused, RevokeThenClear, Return, Leave, Forget
<1> QED
    BY <1>0, <1>1, <1>2, <1>3, <1>4, <1>5, <1>6, <1>7, <1>8, <1>9, <1>10, <1>11,
       <1>12 DEF MethodOf
-----------------------------------------------------------------------------
\* A step of one goroutine leaves the place and the variables of the others.
LEMMA OthersUnmoved ==
    ASSUME Typed, NEW c \in Callers, MethodOf(c), NEW d \in Callers \ {c}
    PROVE  /\ method' = method
           /\ pc'[d] = pc[d]
           /\ before'[d] = before[d]
           /\ cred'[d] = cred[d]
           /\ tok'[d] = tok[d]
           /\ resends'[d] = resends[d]
<1> USE DEF Typed, TypeOK, Goto, locals
<1>1. CASE Start(c) \/ ReadBefore(c) \/ AcquireLock(c) \/ UseRefreshed(c)
    BY <1>1 DEF Start, Begin, ReadBefore, AcquireLock, UseRefreshed
<1>2. CASE RetrieveOrRefresh(c)
    BY <1>2, DeliverEffect DEF RetrieveOrRefresh, Forget
<1>3. CASE RetrieveOrFail(c)
    BY <1>3, DeliverEffect DEF RetrieveOrFail, Return, Leave, Forget
<1>4. CASE SendCredentials(c) \/ SignAndSend(c) \/ PresentRefreshToken(c)
    BY <1>4 DEF SendCredentials, SignAndSend, PresentRefreshToken
<1>5. ASSUME NEW from, NEW to,
             \/ Granted(c, from, to) \/ GrantedNull(c, from, to)
             \/ AnswerLost(c, from)
      PROVE  /\ method' = method /\ pc'[d] = pc[d] /\ before'[d] = before[d]
             /\ cred'[d] = cred[d] /\ tok'[d] = tok[d] /\ resends'[d] = resends[d]
    BY <1>5 DEF Granted, GrantedNull, AnswerLost, Exchanging
<1>6. CASE RefreshRefused(c) \/ Store(c)
    BY <1>6 DEF RefreshRefused, AfterRefusal, Exchanging, Store
<1>7. CASE Unlock(c)
    BY <1>7, DeliverEffect DEF Unlock, Forget
<1>8. CASE RefreshFails(c) \/ Exchange(c) \/ LoginRefused(c) \/ LoginStore(c)
    BY <1>8 DEF RefreshFails, Exchange, LoginRefused, LoginStore, Return, Leave,
                Forget
<1>9. CASE RevokeGet(c) \/ RevokeRefused(c) \/ RevokeThenClear(c) \/ Clear(c)
           \/ RevokeOnly(c)
    BY <1>9 DEF RevokeGet, RevokeRefused, RevokeThenClear, Clear, RevokeOnly,
                Return, Leave, Forget
<1> QED
    BY <1>1, <1>2, <1>3, <1>4, <1>5, <1>6, <1>7, <1>8, <1>9 DEF MethodOf

\* The steps after which a goroutine is about to return from RefreshToken, and
\* those after which it waits for the endpoint.
LEMMA Arrivals ==
    ASSUME Typed, NEW c \in Callers, MethodOf(c)
    PROVE  /\ pc'[c] = "unlock" =>
                UseRefreshed(c) \/ SignAndSend(c) \/ RefreshRefused(c) \/ Store(c)
           /\ pc'[c] = "request" =>
                \/ SendCredentials(c) \/ SignAndSend(c) \/ PresentRefreshToken(c)
                \/ AnswerLost(c, "request")
           /\ pc'[c] = "clear" => RevokeThenClear(c)
<1> USE DEF Typed, TypeOK, At, Goto
<1>1. CASE Start(c) \/ ReadBefore(c) \/ AcquireLock(c)
    BY <1>1 DEF Start, Begin, EntryOf, ReadBefore, AcquireLock
<1>2. CASE RetrieveOrRefresh(c) \/ RetrieveOrFail(c) \/ Unlock(c)
    BY <1>2, DeliverEffect DEF RetrieveOrRefresh, RetrieveOrFail, Unlock, Return,
                               Leave
<1>3. CASE SendCredentials(c) \/ PresentRefreshToken(c)
    BY <1>3 DEF SendCredentials, PresentRefreshToken
<1>4. ASSUME NEW from, NEW to,
             <<from, to>> \in {<<"request", "store">>, <<"loginCall", "loginStore">>},
             Granted(c, from, to) \/ GrantedNull(c, from, to)
      PROVE  pc'[c] \notin {"unlock", "request", "clear"}
    BY <1>4 DEF Granted, GrantedNull, Exchanging
<1>5. CASE AnswerLost(c, "loginCall")
    BY <1>5 DEF AnswerLost
<1>6. CASE RefreshFails(c) \/ Exchange(c) \/ LoginRefused(c) \/ LoginStore(c)
    BY <1>6 DEF RefreshFails, Exchange, LoginRefused, LoginStore, Return, Leave
<1>7. CASE RevokeGet(c) \/ RevokeRefused(c) \/ Clear(c) \/ RevokeOnly(c)
    BY <1>7 DEF RevokeGet, RevokeRefused, Clear, RevokeOnly, Return, Leave
<1>8. CASE \/ AnswerLost(c, "request") \/ UseRefreshed(c) \/ SignAndSend(c)
           \/ RefreshRefused(c) \/ Store(c) \/ RevokeThenClear(c)
    BY <1>8 DEF AnswerLost, UseRefreshed, SignAndSend, RefreshRefused, AfterRefusal, Store,
                RevokeThenClear, Exchanging
<1> QED
    BY <1>1, <1>2, <1>3, <1>4, <1>5, <1>6, <1>7, <1>8 DEF MethodOf

LEMMA FreshStep ==
    ASSUME Shared, YoungestInv, RefreshReturnsFresh,
           NEW c \in Callers, MethodOf(c)
    PROVE  RefreshReturnsFresh'
<1> SUFFICES ASSUME NEW d \in Callers, Unattended',
                    At(d, "unlock")', tok'[d] \in Token
             PROVE  tok'[d] > before'[d]
    BY DEF RefreshReturnsFresh
<1> USE DEF Shared, Typed, TypeOK, At, Goto, locals
<1>1. CASE d # c
    BY <1>1, OthersUnmoved DEF RefreshReturnsFresh, Unattended
<1>2. CASE d = c /\ UseRefreshed(c)
    <2>1. Unattended /\ tok'[c] = storage /\ before'[c] = before[c]
        BY <1>2 DEF UseRefreshed, Unattended
    <2>2. storage \in Token /\ storage # before[c] /\ storage # None
        BY <1>2 DEF UseRefreshed, Refreshed
    <2>3. before[c] <= storage
        BY <2>1, <2>2, ParametersAssumption
           DEF YoungestInv, HistoryInv, Token, None
    <2> QED BY <1>2, <2>1, <2>2, <2>3, ParametersAssumption DEF Token, None
<1>3. CASE d = c /\ (SignAndSend(c) \/ RefreshRefused(c))
    BY <1>3, ParametersAssumption
       DEF SignAndSend, RefreshRefused, AfterRefusal, Exchanging, Failed, Token
<1>4. CASE d = c /\ Store(c)
    <2>1. Unattended /\ tok'[c] = tok[c] /\ before'[c] = before[c]
        BY <1>4 DEF Store, Unattended
    <2>2. tok[c] \in Token /\ before[c] \in installed \cup {None}
        BY <1>4, <2>1 DEF HistoryInv
    <2> QED
        BY <1>4, <2>1, <2>2, ParametersAssumption
           DEF YoungestInv, Store, Token, None
<1> QED BY <1>1, <1>2, <1>3, <1>4, Arrivals
-----------------------------------------------------------------------------
\* The steps that change the storage and the records of the service.
LEMMA SharedChanges ==
    ASSUME NEW c \in Callers, MethodOf(c)
    PROVE  /\ \/ storage' = storage /\ installed' = installed
              \/ Store(c)
              \/ method = "oauth" /\ LoginStore(c)
              \/ Clear(c)
           /\ \/ revoked' = revoked
              \/ RevokeRefused(c)
              \/ RevokeThenClear(c)
              \/ method = "oauth"
           /\ \/ consumed' = consumed
              \/ Granted(c, "request", "store")
              \/ GrantedNull(c, "request", "store")
              \/ AnswerLost(c, "request")
              \/ Granted(c, "loginCall", "loginStore")
              \/ GrantedNull(c, "loginCall", "loginStore")
              \/ AnswerLost(c, "loginCall")
           /\ unconfirmed \subseteq unconfirmed'
           /\ revoked \subseteq revoked'
<1> USE DEF object, service, history
<1>1. CASE Start(c) \/ RetrieveOrRefresh(c) \/ RetrieveOrFail(c) \/ ReadBefore(c)
           \/ AcquireLock(c) \/ UseRefreshed(c) \/ SendCredentials(c)
           \/ SignAndSend(c) \/ PresentRefreshToken(c)
    BY <1>1 DEF Start, Begin, RetrieveOrRefresh, RetrieveOrFail, ReadBefore, AcquireLock,
                UseRefreshed, SendCredentials, SignAndSend, PresentRefreshToken
<1>2. ASSUME NEW from, NEW to,
             \/ Granted(c, from, to) \/ GrantedNull(c, from, to)
             \/ AnswerLost(c, from)
      PROVE  /\ storage' = storage /\ installed' = installed /\ revoked' = revoked
             /\ unconfirmed \subseteq unconfirmed'
    BY <1>2 DEF Granted, GrantedNull, AnswerLost, Mint
<1>3. CASE RefreshRefused(c) \/ RefreshFails(c) \/ Exchange(c) \/ RevokeGet(c)
           \/ LoginRefused(c) \/ Unlock(c)
    BY <1>3 DEF RefreshRefused, AfterRefusal, RefreshFails, Exchange, RevokeGet, LoginRefused,
                Unlock
<1>4. CASE Store(c) \/ Clear(c) \/ (method = "oauth" /\ LoginStore(c))
    BY <1>4 DEF Store, Clear, LoginStore
<1>5. CASE \/ RevokeRefused(c) \/ RevokeThenClear(c)
           \/ (method = "oauth" /\ RevokeOnly(c))
    BY <1>5 DEF RevokeRefused, RevokeThenClear, RevokeOnly, Revoke
<1> QED BY <1>1, <1>2, <1>3, <1>4, <1>5 DEF MethodOf

LEMMA RevokedStep ==
    ASSUME Shared, RevokedStaysOut, YoungestInv, NEW c \in Callers, MethodOf(c)
    PROVE  RevokedStaysOut'
<1> SUFFICES ASSUME Unattended', storage' \in revoked', storage' \notin unconfirmed'
             PROVE  \E d \in Callers : At(d, "clear")' /\ tok'[d] = storage'
    BY DEF RevokedStaysOut
<1> USE DEF Shared, Typed, TypeOK, At, Goto, locals, object, service
<1>0. Unattended
    BY MethodFixed DEF Unattended
<1>1. ~ Store(c)
    <2> SUFFICES ASSUME Store(c) PROVE FALSE
        OBVIOUS
    <2>1. storage' = tok[c] /\ revoked' = revoked /\ AtStore(c)
        BY DEF Store, StoreToken, AtStore
    <2>2. revoked \subseteq installed /\ installed \subseteq Token
        BY DEF HistoryInv
    <2>3. tok[c] # None
        BY <2>1, <2>2, ParametersAssumption DEF Token, None
    <2> QED BY <2>1, <2>2, <2>3 DEF HandInv
<1>2. ~ Clear(c)
    BY ParametersAssumption DEF Clear, ClearStorage, Token, None
<1>3. storage' = storage
    BY <1>0, <1>1, <1>2, SharedChanges DEF Unattended
<1>4. CASE RevokeThenClear(c) /\ storage = tok[c]
    BY <1>3, <1>4 DEF RevokeThenClear
<1>5. CASE storage \in revoked
    <2>1. PICK d \in Callers : pc[d] = "clear" /\ tok[d] = storage
        BY <1>0, <1>3, <1>5, SharedChanges DEF RevokedStaysOut
    <2>2. d # c
        <3> SUFFICES ASSUME d = c PROVE FALSE
            OBVIOUS
        <3> QED
            BY <1>2, <2>1 DEF MethodOf, Start, Begin, RetrieveOrRefresh, RetrieveOrFail,
               ReadBefore, AcquireLock, UseRefreshed, SendCredentials, SignAndSend,
               PresentRefreshToken, Granted, GrantedNull, AnswerLost, Exchanging,
               RefreshRefused, AfterRefusal, Store, Unlock, RefreshFails, Exchange, RevokeGet,
               RevokeRefused, RevokeThenClear, RevokeOnly, LoginRefused, LoginStore
    <2> QED BY <1>3, <2>1, <2>2, OthersUnmoved
<1>6. CASE RevokeRefused(c) /\ storage \notin revoked
    BY <1>3, <1>6 DEF RevokeRefused, Revoke
<1> QED
    BY <1>0, <1>3, <1>4, <1>5, <1>6, SharedChanges
       DEF RevokeThenClear, Revoke, Unattended
-----------------------------------------------------------------------------
LEMMA GrantUsableStep ==
    ASSUME Shared, StoredGrantUsable, NEW c \in Callers, MethodOf(c)
    PROVE  StoredGrantUsable'
<1> SUFFICES ASSUME storage' \in consumed', storage' \notin unconfirmed'
             PROVE  \E d \in mu' : At(d, "store")' /\ cred'[d] = storage'
    BY DEF StoredGrantUsable
<1> USE DEF Shared, Typed, TypeOK, At, Goto, object, service, history
<1>1. ~ Store(c) /\ ~ LoginStore(c)
    <2> SUFFICES ASSUME Store(c) \/ LoginStore(c) PROVE FALSE
        OBVIOUS
    <2>1. storage' = tok[c] /\ consumed' = consumed /\ AtStore(c)
        BY DEF Store, LoginStore, StoreToken, AtStore
    <2>2. consumed \subseteq installed /\ installed \subseteq Token
        BY DEF HistoryInv
    <2>3. tok[c] # None
        BY <2>1, <2>2, ParametersAssumption DEF Token, None
    <2> QED BY <2>1, <2>2, <2>3 DEF HandInv
<1>2. ~ Clear(c)
    BY ParametersAssumption DEF Clear, ClearStorage, Token, None
<1>3. storage' = storage
    BY <1>1, <1>2, SharedChanges
<1>4. CASE storage \in consumed
    <2>1. PICK d \in mu : pc[d] = "store" /\ cred[d] = storage
        BY <1>3, <1>4, SharedChanges DEF StoredGrantUsable
    <2>2. d # c
        <3> SUFFICES ASSUME d = c PROVE FALSE
            OBVIOUS
        <3> QED
            BY <1>1, <2>1 DEF MethodOf, Start, Begin, RetrieveOrRefresh, RetrieveOrFail,
               ReadBefore, AcquireLock, UseRefreshed, SendCredentials, SignAndSend,
               PresentRefreshToken, Granted, GrantedNull, AnswerLost, Exchanging,
               RefreshRefused, AfterRefusal, Clear, Unlock, RefreshFails, Exchange, RevokeGet,
               RevokeRefused, RevokeThenClear, RevokeOnly, LoginRefused
    <2>3. d \in mu'
        <3>1. pc'[d] = "store"
            BY <2>1, <2>2, OthersUnmoved
        <3> QED BY <3>1, <2>1, MutexStep DEF MutexInv, Critical
    <2> QED BY <1>3, <2>1, <2>2, <2>3, OthersUnmoved
<1>5. CASE storage \notin consumed
    <2>1. storage = cred[c] /\ storage # None
        BY <1>3, <1>5, SharedChanges, ParametersAssumption
           DEF Granted, GrantedNull, AnswerLost, Mint, Token, None
    <2>2. \/ Granted(c, "request", "store") \/ Granted(c, "loginCall", "loginStore")
        BY <1>3, <1>5, <2>1, SharedChanges DEF GrantedNull, AnswerLost
    <2>3. Granted(c, "request", "store")
        BY <2>1, <2>2 DEF Granted, Exchanging, HistoryInv
    <2>4. c \in mu /\ mu' = mu /\ pc'[c] = "store" /\ cred'[c] = cred[c]
        BY <2>3 DEF Granted, Exchanging, MutexInv, Critical
    <2> QED BY <1>3, <2>1, <2>4
<1> QED BY <1>4, <1>5

LEMMA NoReuseStep ==
    ASSUME Shared, StoredGrantUsable, NoReuse, NEW c \in Callers, MethodOf(c)
    PROVE  NoReuse'
<1> SUFFICES ASSUME NEW d \in Callers, At(d, "request")', cred'[d] \in consumed'
             PROVE  cred'[d] \in unconfirmed'
    BY DEF NoReuse
<1> USE DEF Shared, Typed, TypeOK, At, Goto, object, locals, service, history
<1>0. cred'[d] # None
    BY TypedStep, ParametersAssumption DEF Token, None
<1>1. CASE d # c
    <2>1. pc[d] = "request" /\ cred'[d] = cred[d]
        BY <1>1, OthersUnmoved
    <2>2. c \notin mu
        BY <1>1, <2>1 DEF MutexInv, Critical
    <2>3. pc[c] # "request"
        BY <2>2 DEF MutexInv, Critical
    <2>4. consumed' = consumed
        <3>1. CASE pc[c] = "loginCall"
            <4>1. cred[c] = None
                BY <3>1 DEF HistoryInv
            <4> QED BY <2>3, <4>1, SharedChanges DEF Granted, GrantedNull, AnswerLost,
                       Mint, Exchanging
        <3> QED BY <2>3, <3>1, SharedChanges DEF Granted, GrantedNull, AnswerLost,
                   Exchanging
    <2> QED BY <2>1, <2>4, SharedChanges DEF NoReuse
<1>2. CASE d = c
    <2>1. CASE SendCredentials(c) \/ SignAndSend(c)
        <3>1. cred'[c] = None
            BY <2>1 DEF SendCredentials, SignAndSend, HistoryInv
        <3> QED BY <1>0, <1>2, <3>1
    <2>2. CASE PresentRefreshToken(c)
        <3>1. cred'[c] = storage /\ c \in mu /\ pc[c] = "recheck"
            BY <2>2 DEF PresentRefreshToken, PresentedToken, MutexInv, Critical
        <3>2. consumed' = consumed /\ unconfirmed' = unconfirmed
            BY <2>2 DEF PresentRefreshToken
        <3> QED BY <1>2, <3>1, <3>2 DEF StoredGrantUsable, MutexInv
    <2>3. CASE AnswerLost(c, "request")
        BY <1>0, <1>2, <2>3 DEF AnswerLost, Mint
    <2> QED BY <1>2, <2>1, <2>2, <2>3, Arrivals
<1> QED BY <1>1, <1>2
-----------------------------------------------------------------------------
(* The inductive invariant, and the theorems.                               *)
IInv ==
    /\ Shared
    /\ YoungestInv
    /\ RefreshReturnsFresh
    /\ RevokedStaysOut
    /\ StoredGrantUsable
    /\ NoReuse

LEMMA InductiveInit == Init => IInv
<1> SUFFICES ASSUME Init PROVE IInv
    OBVIOUS
<1> USE DEF Init, At, None
<1>1. Typed
    BY TypedInit
<1>2. MutexInv /\ HandInv /\ RefreshReturnsFresh
    BY DEF MutexInv, HandInv, RefreshReturnsFresh, Critical, AtStore
<1>3. storage \in {0, 1}
    BY DEF InitialToken
<1>4. HistoryInv /\ YoungestInv
    BY <1>3 DEF HistoryInv, YoungestInv
<1>5. RevokedStaysOut /\ StoredGrantUsable /\ NoReuse
    BY DEF RevokedStaysOut, StoredGrantUsable, NoReuse
<1> QED BY <1>1, <1>2, <1>4, <1>5 DEF IInv, Shared

LEMMA InductiveStep == IInv /\ [Next]_vars => IInv'
<1> SUFFICES ASSUME IInv, [Next]_vars PROVE IInv'
    OBVIOUS
<1>1. CASE Next
    <2>1. PICK c \in Callers : MethodOf(c)
        BY <1>1, StepCases DEF Next
    <2>2. Shared'
        BY <2>1, TypedStep, MutexStep, HistoryStep, HandStep DEF IInv, Shared
    <2> QED
        BY <2>1, <2>2, YoungestStep, FreshStep, RevokedStep, GrantUsableStep,
           NoReuseStep DEF IInv
<1>2. CASE UNCHANGED vars
    BY <1>2 DEF vars, object, locals, service, history, IInv, Shared, Typed, TypeOK,
       CarriesInv, MutexInv, HistoryInv, HandInv, YoungestInv, RefreshReturnsFresh,
       RevokedStaysOut, StoredGrantUsable, NoReuse, AtStore, At, Unattended
<1> QED BY <1>1, <1>2

LEMMA Invariance == Spec => []IInv
BY InductiveInit, InductiveStep, PTL DEF Spec

\* The variables keep their types, whatever the service does.
THEOREM TypeCorrect == Spec => []TypeOK
BY Invariance, PTL DEF IInv, Shared, Typed

\* RefreshToken of CCG and JWT returns a token younger than the one it found.
THEOREM Fresh == Spec => []RefreshReturnsFresh
BY Invariance, PTL DEF IInv

\* A token revoked by RevokeToken leaves the storage for good.
THEOREM RevokedLeaves == Spec => []RevokedStaysOut
BY Invariance, PTL DEF IInv

\* The stored OAuth pair can be refreshed, or its successor is about to be
\* stored, or an answer was lost.
THEOREM GrantSurvives == Spec => []StoredGrantUsable
BY Invariance, PTL DEF IInv

\* An exchanged refresh token is not presented again.
THEOREM SingleUse == Spec => []NoReuse
BY Invariance, PTL DEF IInv

-----------------------------------------------------------------------------
(* Waiters.  No token is stored twice, so what is stored while a goroutine  *)
(* waits differs from the token it had read, and its re-read will tell.     *)
WaitInv ==
    \A c \in overtaken :
        c \in Callers /\ pc[c] \in {"lock", "recheck"} /\ Refreshed(c)

\* The steps of a goroutine that waits for the mutex, or has just got it.
LEMMA WaiterCases ==
    ASSUME Typed, NEW c \in Callers, MethodOf(c), pc[c] \in {"lock", "recheck"}
    PROVE  /\ before'[c] = before[c]
           /\ pc'[c] = "request" => ~Refreshed(c)
<1> USE DEF At, locals
<1>1. \/ AcquireLock(c) \/ UseRefreshed(c) \/ SendCredentials(c) \/ SignAndSend(c)
      \/ PresentRefreshToken(c)
    BY DEF MethodOf, Start, Begin, RetrieveOrRefresh, RetrieveOrFail, ReadBefore, Granted,
           GrantedNull, AnswerLost, RefreshRefused, Exchanging, Store, Unlock,
           RefreshFails, Exchange, RevokeGet, RevokeRefused, RevokeThenClear, Clear,
           RevokeOnly, LoginRefused, LoginStore
<1>2. CASE AcquireLock(c) \/ UseRefreshed(c)
    BY <1>2 DEF AcquireLock, UseRefreshed, Goto, Typed, TypeOK
<1>3. CASE SendCredentials(c) \/ SignAndSend(c) \/ PresentRefreshToken(c)
    BY <1>3 DEF SendCredentials, SignAndSend, PresentRefreshToken
<1> QED BY <1>1, <1>2, <1>3

\* What comes into the storage was never there before.
LEMMA NewToken ==
    ASSUME Shared, NEW c \in Callers, MethodOf(c), storage' # None
    PROVE  storage' = storage \/ storage' \notin installed
<1>1. CASE Store(c)
    BY <1>1 DEF Store, StoreToken, Shared, HandInv, AtStore, At
<1>2. CASE LoginStore(c)
    BY <1>2 DEF LoginStore, StoreToken, Shared, HandInv, AtStore, At
<1>3. CASE Clear(c)
    BY <1>3 DEF Clear, ClearStorage
<1> QED BY <1>1, <1>2, <1>3, SharedChanges

LEMMA WaitStep ==
    ASSUME Shared, WaitInv, NEW c \in Callers, MethodOf(c), Observe
    PROVE  WaitInv'
<1> SUFFICES ASSUME NEW d \in overtaken'
             PROVE  d \in Callers /\ pc'[d] \in {"lock", "recheck"} /\ Refreshed(d)'
    BY DEF WaitInv
<1>1. d \in Callers /\ pc'[d] \in {"lock", "recheck", "request"} /\ storage' # None
    BY DEF Observe, Unserved
<1>2. Typed /\ before[d] \in installed \cup {None}
    BY <1>1 DEF Shared, HistoryInv
<1>3. CASE d \in overtaken
    <2>1. pc[d] \in {"lock", "recheck"} /\ Refreshed(d)
        BY <1>3 DEF WaitInv
    <2>2. before'[d] = before[d] /\ pc'[d] # "request"
        BY <1>1, <1>2, <2>1, WaiterCases, OthersUnmoved
    <2>3. storage' # before[d]
        BY <1>1, <1>2, <2>1, NewToken DEF Refreshed
    <2> QED BY <1>1, <2>2, <2>3 DEF Refreshed
<1>4. CASE d \notin overtaken
    <2>1. PICK e \in Callers : Stores(e)
        BY <1>4 DEF Observe
    <2>2. pc[d] = "lock" /\ pc[e] = "store" /\ tok[e] # None /\ pc'[e] = "unlock"
        BY <1>4, <2>1 DEF Observe, Stores, At
    <2>3. e = c
        BY <1>2, <2>2, OthersUnmoved
    <2>4. Store(c)
        BY <1>2, <2>2, <2>3, Arrivals
           DEF UseRefreshed, SignAndSend, RefreshRefused, Exchanging, At
    <2>5. storage' = tok[c] /\ tok[c] \notin installed
        BY <2>2, <2>3, <2>4 DEF Store, StoreToken, Shared, HandInv, AtStore
    <2>6. pc'[d] = "lock" /\ before'[d] = before[d]
        BY <1>1, <1>2, <2>2, <2>3, OthersUnmoved
    <2> QED BY <1>1, <1>2, <2>5, <2>6 DEF Refreshed
<1> QED BY <1>3, <1>4

\* A goroutine that waited when another one stored a new token makes no request
\* of its own, whichever type the object is, for any number of goroutines; one
\* that came later may (the run auth_blocked_caller).
THEOREM WaitersJoin == WaitSpec => []WaitersShareRefresh
<1>1. WaitSpec => Spec
    <2>1. WaitInit => Init
        BY DEF WaitInit
    <2>2. [WaitNext]_wvars => [Next]_vars
        BY DEF WaitNext, wvars
    <2> QED BY <2>1, <2>2, PTL DEF WaitSpec, Spec
<1>2. WaitInit => WaitInv
    BY DEF WaitInit, WaitInv
<1>3. IInv /\ WaitInv /\ [WaitNext]_wvars => WaitInv'
    <2> SUFFICES ASSUME IInv, WaitInv, [WaitNext]_wvars PROVE WaitInv'
        OBVIOUS
    <2>1. CASE WaitNext
        <3>1. PICK c \in Callers : MethodOf(c)
            BY <2>1, StepCases DEF WaitNext, Next
        <3> QED BY <2>1, <3>1, WaitStep DEF IInv, WaitNext
    <2>2. CASE UNCHANGED wvars
        BY <2>2 DEF wvars, vars, observed, object, locals, WaitInv, Refreshed
    <2> QED BY <2>1, <2>2
<1>4. WaitInv => WaitersShareRefresh
    BY DEF WaitInv, WaitersShareRefresh, At
<1> QED BY <1>1, <1>2, <1>3, <1>4, Invariance, PTL DEF WaitSpec
-----------------------------------------------------------------------------
\* The storage of CCG, JWT and developer tokens never goes back.
THEOREM NeverBack == Spec => TokenNeverGoesBack
<1> DEFINE Younger == Unattended /\ storage' \notin {storage, None} =>
                          \A t \in installed : t < storage'
<1>1. IInv /\ [Next]_vars => [Younger]_vars
    <2> SUFFICES ASSUME IInv, Next PROVE Younger
        BY DEF vars
    <2>1. PICK c \in Callers : MethodOf(c)
        BY StepCases DEF Next
    <2>2. CASE Unattended /\ storage' \notin {storage, None}
        <3>1. Store(c)
            BY <2>1, <2>2, SharedChanges DEF Clear, ClearStorage, Unattended
        <3> QED BY <2>2, <3>1 DEF Store, StoreToken, IInv, YoungestInv, At
    <2> QED BY <2>2
<1> QED BY <1>1, Invariance, PTL DEF Spec, TokenNeverGoesBack
-----------------------------------------------------------------------------
(* RefreshToken implements TokenCell.  One step of a refresh is its atomic  *)
(* step: the re-read under the lock that finds another token                *)
(* (UseRefreshed), the Store, or the error.  What makes the Store a legal   *)
(* replacement is SeenInv: from the re-read to the Store the storage holds  *)
(* the token the goroutine found when it called, or none.                   *)
SeenInv ==
    \A c \in Callers : Unattended /\ pc[c] \in {"request", "store"} /\ storage # None =>
        storage = before[c]

CInv == IInv /\ SeenInv

\* A Store is reached from the exchange only.
LEMMA LeavesForStore ==
    ASSUME Typed, NEW c \in Callers, MethodOf(c), AtStore(c)'
    PROVE  \/ Granted(c, "request", "store") \/ GrantedNull(c, "request", "store")
           \/ Granted(c, "loginCall", "loginStore")
           \/ GrantedNull(c, "loginCall", "loginStore")
<1> USE DEF Typed, TypeOK, At, Goto, AtStore
<1>1. ~ (Start(c) \/ ReadBefore(c) \/ AcquireLock(c) \/ UseRefreshed(c))
    BY DEF Start, Begin, EntryOf, ReadBefore, AcquireLock, UseRefreshed
<1>2. ~ (RetrieveOrRefresh(c) \/ RetrieveOrFail(c) \/ Unlock(c))
    BY DeliverEffect DEF RetrieveOrRefresh, RetrieveOrFail, Unlock, Return, Leave
<1>3. ~ (SendCredentials(c) \/ SignAndSend(c) \/ PresentRefreshToken(c))
    BY DEF SendCredentials, SignAndSend, PresentRefreshToken
<1>4. ~ (AnswerLost(c, "loginCall") \/ AnswerLost(c, "request"))
    BY DEF AnswerLost
<1>5. ~ (RefreshRefused(c) \/ RefreshFails(c) \/ Exchange(c) \/ LoginRefused(c)
         \/ LoginStore(c) \/ Store(c))
    BY DEF RefreshRefused, AfterRefusal, Exchanging, RefreshFails, Exchange,
           LoginRefused, LoginStore, Store, Return, Leave
<1>6. ~ (RevokeGet(c) \/ RevokeRefused(c) \/ RevokeThenClear(c) \/ Clear(c)
         \/ RevokeOnly(c))
    BY DEF RevokeGet, RevokeRefused, RevokeThenClear, Clear, RevokeOnly, Return,
           Leave
<1> QED BY <1>1, <1>2, <1>3, <1>4, <1>5, <1>6 DEF MethodOf

LEMMA SeenStep ==
    ASSUME IInv, SeenInv, NEW c \in Callers, MethodOf(c)
    PROVE  SeenInv'
<1> SUFFICES ASSUME NEW d \in Callers, Unattended', storage' # None,
                    pc'[d] \in {"request", "store"}
             PROVE  storage' = before'[d]
    BY DEF SeenInv
<1> USE DEF IInv, Shared, Typed, TypeOK, At, Goto, locals, object
<1>0. Unattended
    BY MethodFixed DEF Unattended
<1>1. CASE d # c
    <2>1. pc[d] \in {"request", "store"} /\ before'[d] = before[d]
        BY <1>1, OthersUnmoved
    <2>2. ~ Store(c)
        BY <1>1, <2>1 DEF Store, MutexInv, Critical
    <2>3. storage' = storage
        BY <1>0, <2>2, SharedChanges DEF Clear, ClearStorage, Unattended
    <2> QED BY <1>0, <2>1, <2>3 DEF SeenInv
<1>2. CASE d = c /\ pc'[c] = "request"
    <2>1. CASE SendCredentials(c) \/ SignAndSend(c)
        BY <1>2, <2>1 DEF SendCredentials, SignAndSend, Refreshed
    <2>2. CASE PresentRefreshToken(c)
        BY <1>2, <2>2 DEF PresentRefreshToken, Refreshed
    <2>3. CASE AnswerLost(c, "request")
        BY <1>0, <1>2, <2>3 DEF AnswerLost, SeenInv
    <2> QED BY <1>2, <2>1, <2>2, <2>3, Arrivals
<1>3. CASE d = c /\ pc'[c] = "store"
    <2>1. Granted(c, "request", "store") \/ GrantedNull(c, "request", "store")
        BY <1>3, LeavesForStore DEF AtStore, Granted, GrantedNull, Exchanging
    <2> QED BY <1>0, <1>3, <2>1 DEF Granted, GrantedNull, Exchanging, SeenInv
<1> QED BY <1>1, <1>2, <1>3
-----------------------------------------------------------------------------
(* The mapping, step by step.                                               *)
SeenAt(c) == IF RefreshStage(c) = "idle" THEN None ELSE before[c]
GotAt(c)  == IF At(c, "unlock") THEN tok[c] ELSE None

stages == [c \in Callers |-> RefreshStage(c)]
seens  == [c \in Callers |-> SeenAt(c)]
gots   == [c \in Callers |-> GotAt(c)]

\* A step of one goroutine is a step of its own refresh, or of none.
LEMMA CellFrame ==
    ASSUME Typed, NEW c \in Callers, MethodOf(c)
    PROVE  /\ stages' = [stages EXCEPT ![c] = RefreshStage(c)']
           /\ seens' = [seens EXCEPT ![c] = SeenAt(c)']
           /\ gots' = [gots EXCEPT ![c] = GotAt(c)']
<1>1. \A d \in Callers \ {c} :
        pc'[d] = pc[d] /\ before'[d] = before[d] /\ tok'[d] = tok[d]
    BY OthersUnmoved
<1> QED BY <1>1 DEF stages, seens, gots, SeenAt, GotAt, RefreshStage, At

\* Steps that leave the storage and the refresh of their goroutine alone.
LEMMA StutterMaps ==
    ASSUME NEW c \in Callers, Typed, MethodOf(c), UNCHANGED <<storage, installed>>,
           RefreshStage(c)' = RefreshStage(c), SeenAt(c)' = SeenAt(c),
           GotAt(c)' = GotAt(c)
    PROVE  UNCHANGED Cell!cvars
<1>1. stages' = stages /\ seens' = seens /\ gots' = gots
    BY CellFrame DEF stages, seens, gots
<1> QED BY <1>1, MethodFixed DEF Cell!cvars, stages, seens, gots, SeenAt, GotAt

\* Steps outside RefreshToken that leave the storage alone.
LEMMA QuietMaps ==
    ASSUME NEW c \in Callers, Typed, MethodOf(c), UNCHANGED <<storage, installed>>,
           RefreshStage(c) = "idle", RefreshStage(c)' = "idle"
    PROVE  UNCHANGED Cell!cvars
<1>1. SeenAt(c) = None /\ SeenAt(c)' = None
    BY DEF SeenAt
<1>2. GotAt(c) = None /\ GotAt(c)' = None
    BY DEF GotAt, RefreshStage, Asked
<1> QED BY <1>1, <1>2, StutterMaps

\* Revocations and logins.
LEMMA SetMaps ==
    ASSUME NEW c \in Callers, Typed, MethodOf(c), NEW t \in Token \cup {None},
           storage' = t, installed' = installed \cup ({t} \ {None}),
           t = None \/ (method = "oauth" /\ t \notin installed),
           RefreshStage(c) = "idle", RefreshStage(c)' = "idle"
    PROVE  Cell!Next
<1>1. SeenAt(c) = None /\ SeenAt(c)' = None
    BY DEF SeenAt
<1>2. GotAt(c) = None /\ GotAt(c)' = None
    BY DEF GotAt, RefreshStage, Asked
<1>3. stages' = stages /\ seens' = seens /\ gots' = gots
    BY <1>1, <1>2, CellFrame DEF stages, seens, gots
<1>4. Cell!Set(t)
    BY <1>3, MethodFixed
       DEF Cell!Set, Cell!New, Cell!Put, stages, seens, gots, SeenAt, GotAt
<1> QED BY <1>4 DEF Cell!Next

\* The step at which a refresh takes effect.
LEMMA ResolveMaps ==
    ASSUME NEW c \in Callers, Typed, MethodOf(c),
           pc[c] \in Asked, pc'[c] = "unlock", before' = before
    PROVE  /\ stages[c] = "asked" /\ stages' = [stages EXCEPT ![c] = "done"]
           /\ seens[c] = before[c] /\ seens' = seens
           /\ gots' = [gots EXCEPT ![c] = tok'[c]]
<1>1. /\ RefreshStage(c) = "asked" /\ RefreshStage(c)' = "done"
      /\ SeenAt(c) = before[c] /\ SeenAt(c)' = before[c]
      /\ GotAt(c)' = tok'[c]
    BY DEF RefreshStage, SeenAt, GotAt, At, Asked
<1> QED BY <1>1, CellFrame DEF stages, seens, gots

LEMMA CellInit == Init => Cell!Init
<1> SUFFICES ASSUME Init PROVE Cell!Init
    OBVIOUS
<1>1. storage \in Token \cup {None}
    BY TypedInit DEF Typed, TypeOK
<1>2. \A c \in Callers : pc[c] = "idle"
    BY DEF Init
<1>3. stages = [c \in Callers |-> "idle"]
    BY <1>2 DEF stages, RefreshStage, Asked, At
<1>4. seens = [c \in Callers |-> None] /\ gots = [c \in Callers |-> None]
    BY <1>2 DEF seens, gots, SeenAt, GotAt, RefreshStage, Asked, At
<1> QED
    BY <1>1, <1>3, <1>4 DEF Cell!Init, Init, stages, seens, gots, SeenAt, GotAt

LEMMA CellStep ==
    ASSUME CInv, NEW c \in Callers, MethodOf(c)
    PROVE  [Cell!Next]_Cell!cvars
<1>0. Typed
    BY DEF CInv, IInv, Shared
<1> USE DEF TypeOK, At, Goto, object, locals, history
<1> DEFINE quiet == /\ UNCHANGED <<storage, installed>>
                    /\ RefreshStage(c) = "idle" /\ RefreshStage(c)' = "idle"
<1> USE DEF Asked
<1>1. CASE Start(c)
    <2>1. quiet
        BY <1>0, <1>1 DEF Typed, RefreshStage, Start, Begin, EntryOf
    <2> QED BY <1>0, <2>1, QuietMaps
<1>2. CASE RetrieveOrRefresh(c) \/ RetrieveOrFail(c)
    <2>1. quiet
        BY <1>0, <1>2, DeliverEffect
        DEF Typed, RefreshStage, RetrieveOrRefresh, RetrieveOrFail, Return, Leave
    <2> QED BY <1>0, <2>1, QuietMaps
<1>3. CASE RefreshFails(c) \/ Exchange(c) \/ LoginRefused(c)
    <2>1. quiet
        BY <1>0, <1>3 DEF Typed, RefreshStage, RefreshFails, Exchange, LoginRefused, Return, Leave
    <2> QED BY <1>0, <2>1, QuietMaps
<1>4. CASE RevokeGet(c) \/ RevokeRefused(c) \/ RevokeThenClear(c)
           \/ (method = "oauth" /\ RevokeOnly(c))
    <2>1. quiet
        BY <1>0, <1>4 DEF Typed, RefreshStage, RevokeGet, RevokeRefused, RevokeThenClear,
                    RevokeOnly, Return, Leave
    <2> QED BY <1>0, <2>1, QuietMaps
<1>5. CASE method = "oauth" /\ (\/ Granted(c, "loginCall", "loginStore")
                                \/ GrantedNull(c, "loginCall", "loginStore")
                                \/ AnswerLost(c, "loginCall"))
    <2>1. quiet
        BY <1>0, <1>5 DEF Typed, RefreshStage, Granted, GrantedNull, AnswerLost, Exchanging
    <2> QED BY <1>0, <2>1, QuietMaps
<1>6. CASE ReadBefore(c)
    <2>1. /\ RefreshStage(c) = "idle" /\ RefreshStage(c)' = "asked"
          /\ SeenAt(c)' = storage /\ GotAt(c) = None /\ GotAt(c)' = None
          /\ UNCHANGED <<storage, installed>>
        BY <1>0, <1>6 DEF Typed, ReadBefore, RefreshStage, SeenAt, GotAt
    <2>2. /\ stages[c] = "idle" /\ stages' = [stages EXCEPT ![c] = "asked"]
          /\ seens' = [seens EXCEPT ![c] = storage]
          /\ gots' = gots
        BY <2>1, <1>0, CellFrame DEF stages, seens, gots
    <2>3. Cell!Ask(c)
        BY <2>1, <2>2, MethodFixed DEF Cell!Ask, stages, seens, gots, SeenAt, GotAt
    <2> QED BY <2>3 DEF Cell!Next
<1>7. CASE \/ AcquireLock(c) \/ SendCredentials(c) \/ PresentRefreshToken(c)
           \/ (SignAndSend(c) /\ pc'[c] = "request")
           \/ Granted(c, "request", "store") \/ GrantedNull(c, "request", "store")
           \/ AnswerLost(c, "request")
    <2>1. /\ pc[c] \in Asked /\ pc'[c] \in Asked /\ before' = before
          /\ UNCHANGED <<storage, installed>>
        BY <1>0, <1>7 DEF Typed, AcquireLock, SendCredentials, PresentRefreshToken, SignAndSend,
                    Granted, GrantedNull, AnswerLost, Exchanging
    <2>2. /\ RefreshStage(c)' = RefreshStage(c)
          /\ SeenAt(c)' = SeenAt(c) /\ GotAt(c)' = GotAt(c)
        BY <2>1 DEF RefreshStage, SeenAt, GotAt
    <2> QED BY <1>0, <2>1, <2>2, StutterMaps
<1>8. CASE UseRefreshed(c)
    <2>1. /\ pc[c] \in Asked /\ pc'[c] = "unlock" /\ before' = before
          /\ tok'[c] = storage /\ storage \notin {None, before[c]}
          /\ UNCHANGED <<storage, installed>>
        BY <1>0, <1>8 DEF Typed, UseRefreshed, Refreshed
    <2>2. Cell!Join(c)
        BY <1>0, <2>1, ResolveMaps, MethodFixed
           DEF Cell!Join, Cell!Resolve, stages, seens, gots, SeenAt, GotAt
    <2> QED BY <2>2 DEF Cell!Next
<1>9. CASE RefreshRefused(c) \/ (SignAndSend(c) /\ pc'[c] # "request")
    <2>1. /\ pc[c] \in Asked /\ pc'[c] = "unlock" /\ before' = before
          /\ tok'[c] = Failed
          /\ UNCHANGED <<storage, installed>>
        BY <1>0, <1>9 DEF Typed, RefreshRefused, AfterRefusal, Exchanging, SignAndSend
    <2>2. Cell!Fail(c)
        BY <1>0, <2>1, ResolveMaps, MethodFixed
           DEF Cell!Fail, Cell!Resolve, stages, seens, gots, SeenAt, GotAt
    <2> QED BY <2>2 DEF Cell!Next
<1>10. CASE Store(c)
    <2>1. /\ pc[c] = "store" /\ pc'[c] = "unlock" /\ before' = before
          /\ tok'[c] = tok[c] /\ storage' = tok[c]
          /\ installed' = installed \cup ({tok[c]} \ {None})
        BY <1>0, <1>10 DEF Typed, Store, StoreToken
    <2>2. tok[c] \in Token \cup {None}
        BY <1>0, <2>1 DEF Typed, CarriesInv, AtStore
    <2>3. method = "oauth" \/ storage \in {None, before[c]}
        BY <2>1 DEF CInv, SeenInv, Unattended
    <2>4. Cell!New(tok[c]) \/ tok[c] = None
        BY <2>1, <2>2 DEF CInv, IInv, Shared, Cell!New, HandInv, YoungestInv, AtStore, Unattended
    <2>5. Cell!Replace(c, tok[c])
        BY <1>0, <2>1, <2>3, <2>4, ResolveMaps, MethodFixed
           DEF Cell!Replace, Cell!Put, Cell!Resolve, stages, seens, gots, SeenAt, GotAt
    <2> QED BY <2>2, <2>5 DEF Cell!Next
<1>11. CASE Clear(c)
    <2>1. /\ storage' = None /\ installed' = installed \cup ({None} \ {None})
          /\ RefreshStage(c) = "idle" /\ RefreshStage(c)' = "idle"
        BY <1>0, <1>11 DEF Typed, RefreshStage, Clear, ClearStorage, Return, Leave
    <2> QED BY <2>1, <1>0, SetMaps
<1>12. CASE method = "oauth" /\ LoginStore(c)
    <2>1. /\ storage' = tok[c] /\ installed' = installed \cup ({tok[c]} \ {None})
          /\ RefreshStage(c) = "idle" /\ RefreshStage(c)' = "idle" /\ AtStore(c)
        BY <1>0, <1>12 DEF Typed, RefreshStage, LoginStore, StoreToken, Return, Leave, AtStore
    <2>2. tok[c] \in Token \cup {None}
        BY <1>0, <2>1 DEF Typed, CarriesInv
    <2> QED BY <1>12, <2>1, <2>2, <1>0, SetMaps DEF HandInv, CInv, IInv, Shared
<1>13. CASE Unlock(c)
    <2>1. /\ RefreshStage(c) = "done" /\ RefreshStage(c)' = "idle"
          /\ SeenAt(c)' = None /\ GotAt(c)' = None
          /\ UNCHANGED <<storage, installed>>
        BY <1>0, <1>13, DeliverEffect DEF Typed, RefreshStage, Unlock, SeenAt, GotAt
    <2>2. /\ stages[c] = "done" /\ stages' = [stages EXCEPT ![c] = "idle"]
          /\ seens' = [seens EXCEPT ![c] = None]
          /\ gots' = [gots EXCEPT ![c] = None]
        BY <2>1, <1>0, CellFrame DEF stages, seens, gots
    <2>3. Cell!Answer(c)
        BY <2>1, <2>2, MethodFixed DEF Cell!Answer, stages, seens, gots, SeenAt, GotAt
    <2> QED BY <2>3 DEF Cell!Next
<1> QED
    BY <1>1, <1>2, <1>3, <1>4, <1>5, <1>6, <1>7, <1>8, <1>9, <1>10, <1>11, <1>12,
       <1>13 DEF MethodOf

LEMMA CellInvariance == Spec => []CInv
<1>1. Init => SeenInv
    BY DEF Init, SeenInv
<1>2. IInv /\ SeenInv /\ [Next]_vars => SeenInv'
    <2> SUFFICES ASSUME IInv, SeenInv, [Next]_vars PROVE SeenInv'
        OBVIOUS
    <2>1. CASE Next
        BY <2>1, StepCases, SeenStep DEF Next
    <2>2. CASE UNCHANGED vars
        BY <2>2 DEF vars, object, locals, SeenInv, Unattended
    <2> QED BY <2>1, <2>2
<1> QED BY <1>1, <1>2, Invariance, PTL DEF Spec, CInv

\* RefreshToken is atomic: the authentication object implements TokenCell.
THEOREM RefreshAtomic == Spec => RefreshIsAtomic
<1>1. CInv /\ [Next]_vars => [Cell!Next]_Cell!cvars
    <2> SUFFICES ASSUME CInv, [Next]_vars PROVE [Cell!Next]_Cell!cvars
        OBVIOUS
    <2>1. CASE Next
        BY <2>1, StepCases, CellStep DEF Next
    <2>2. CASE UNCHANGED vars
        BY <2>2 DEF vars, object, locals, history, Cell!cvars, RefreshStage, At
    <2> QED BY <2>1, <2>2
<1> QED BY <1>1, CellInit, CellInvariance, PTL DEF Spec, RefreshIsAtomic, Cell!Spec

\* With logins too, RefreshToken never hands back the token its caller found:
\* what it returns was in the storage and is another (CCG, JWT: a younger) one.
THEOREM RefreshGivesNew == Spec => []Cell!GivesNew
<1>1. /\ Token \subseteq Int /\ Failed \notin Token /\ None \in Int
      /\ \A t \in Token : t > None
    BY ParametersAssumption DEF Token, None, Failed
<1>2. Cell!Ordered
    BY <1>1 DEF Cell!Ordered
<1>3. Cell!Spec => []Cell!GivesNew
    BY <1>2, Cell!CellGivesNew
<1> QED BY <1>3, RefreshAtomic, PTL DEF RefreshIsAtomic
-----------------------------------------------------------------------------
(* How far the object goes wrong: what has to happen for a nil token to be  *)
(* returned, for a token to be cleared unrevoked, and for callers that      *)
(* retrieve a token to make more than one request.                          *)

\* Without a 200 answer that is no token, none is stored or returned.
NoNilInv ==
    \A c \in Callers :
        /\ AtStore(c) \/ At(c, "unlock") => tok[c] # None
        /\ ~At(c, "panicked")

\* What the goroutine returns is what another goroutine has stored, an error,
\* or what it has stored itself.
LEMMA PanicCases ==
    ASSUME Typed, NEW c \in Callers, MethodOf(c), pc'[c] = "panicked"
    PROVE  Unlock(c) /\ tok[c] = None
<1> USE DEF Typed, TypeOK, At, Goto
<1>1. ~ (Start(c) \/ ReadBefore(c) \/ AcquireLock(c) \/ UseRefreshed(c))
    BY DEF Start, Begin, EntryOf, ReadBefore, AcquireLock, UseRefreshed
<1>2. ~ (RetrieveOrRefresh(c) \/ RetrieveOrFail(c))
    BY DEF RetrieveOrRefresh, RetrieveOrFail, Deliver, HeaderOf, DownscopeOf, Return,
           Leave
<1>3. ~ (SendCredentials(c) \/ SignAndSend(c) \/ PresentRefreshToken(c))
    BY DEF SendCredentials, SignAndSend, PresentRefreshToken
<1>4. ASSUME NEW from, NEW to,
             <<from, to>> \in {<<"request", "store">>, <<"loginCall", "loginStore">>}
      PROVE  ~ (Granted(c, from, to) \/ GrantedNull(c, from, to) \/ AnswerLost(c, from))
    BY <1>4 DEF Granted, GrantedNull, AnswerLost, Exchanging
<1>5. ~ (RefreshRefused(c) \/ RefreshFails(c) \/ Exchange(c) \/ LoginRefused(c)
         \/ LoginStore(c) \/ Store(c))
    BY DEF RefreshRefused, AfterRefusal, Exchanging, RefreshFails, Exchange,
           LoginRefused, LoginStore, Store, Return, Leave
<1>6. ~ (RevokeGet(c) \/ RevokeRefused(c) \/ RevokeThenClear(c) \/ Clear(c)
         \/ RevokeOnly(c))
    BY DEF RevokeGet, RevokeRefused, RevokeThenClear, Clear, RevokeOnly, Return,
           Leave
<1>7. Unlock(c)
    BY <1>1, <1>2, <1>3, <1>4, <1>5, <1>6 DEF MethodOf
<1> QED BY <1>7 DEF Unlock, Deliver, HeaderOf, DownscopeOf, Return, Leave
LEMMA NoNilStep ==
    ASSUME IInv, NoNilInv, "null" \notin Faults, NEW c \in Callers, MethodOf(c)
    PROVE  NoNilInv'
<1> SUFFICES ASSUME NEW d \in Callers
             PROVE  /\ (AtStore(d) \/ At(d, "unlock"))' => tok'[d] # None
                    /\ ~At(d, "panicked")'
    BY DEF NoNilInv
<1>0. Typed
    BY DEF IInv, Shared
<1>1. CASE d # c
    <2>1. pc'[d] = pc[d] /\ tok'[d] = tok[d]
        BY <1>0, <1>1, OthersUnmoved
    <2> QED BY <2>1 DEF NoNilInv, AtStore, At
<1>2. CASE d = c
    <2>1. ~ Unlock(c) \/ tok[c] # None
        BY DEF Unlock, NoNilInv
    <2>2. pc'[c] # "panicked"
        BY <1>0, <2>1, PanicCases
    <2>3. AtStore(c)' => tok'[c] # None
        <3>1. AtStore(c)' => \/ Granted(c, "request", "store")
                             \/ Granted(c, "loginCall", "loginStore")
            BY <1>0, LeavesForStore DEF GrantedNull
        <3>2. minted \in Nat
            BY <1>0, ParametersAssumption DEF Typed, TypeOK
        <3> QED BY <1>0, <3>1, <3>2 DEF Granted, Mint, Typed, TypeOK, None
    <2>4. pc'[c] = "unlock" => tok'[c] # None
        <3>1. CASE UseRefreshed(c)
            BY <1>0, <3>1 DEF UseRefreshed, Refreshed, Typed, TypeOK
        <3>2. CASE (SignAndSend(c) \/ RefreshRefused(c)) /\ pc'[c] = "unlock"
            BY <1>0, <3>2 DEF SignAndSend, RefreshRefused, AfterRefusal, Exchanging,
               Goto, Typed, TypeOK, None, Failed
        <3>3. CASE Store(c)
            BY <3>3 DEF Store, NoNilInv, AtStore, At, locals
        <3> QED BY <1>0, <3>1, <3>2, <3>3, Arrivals
    <2> QED BY <1>2, <2>2, <2>3, <2>4 DEF At
<1> QED BY <1>1, <1>2

\* Only a 200 answer whose body is no token makes RefreshToken return a nil
\* token without an error, and RetrieveAuthorizationHeader panic on it.
THEOREM NilOnlyFromNullAnswer ==
    ASSUME "null" \notin Faults
    PROVE  Spec => [](ReturnsToken /\ \A c \in Callers : ~At(c, "panicked"))
<1>1. Init => NoNilInv
    BY DEF Init, NoNilInv, AtStore, At
<1>2. IInv /\ NoNilInv /\ [Next]_vars => NoNilInv'
    <2> SUFFICES ASSUME IInv, NoNilInv, [Next]_vars PROVE NoNilInv'
        OBVIOUS
    <2>1. CASE Next
        BY <2>1, StepCases, NoNilStep DEF Next
    <2>2. CASE UNCHANGED vars
        BY <2>2 DEF vars, locals, NoNilInv, AtStore, At
    <2> QED BY <2>1, <2>2
<1>3. NoNilInv => ReturnsToken /\ \A c \in Callers : ~At(c, "panicked")
    BY DEF NoNilInv, ReturnsToken
<1> QED BY <1>1, <1>2, <1>3, Invariance, PTL DEF Spec

\* What a goroutine is about to clear it has had revoked.
ClearInv == \A c \in Callers : At(c, "clear") => tok[c] \in revoked

LEMMA ClearStep ==
    ASSUME IInv, ClearInv, NEW c \in Callers, MethodOf(c)
    PROVE  ClearInv'
<1> SUFFICES ASSUME NEW d \in Callers, pc'[d] = "clear"
             PROVE  tok'[d] \in revoked'
    BY DEF ClearInv, At
<1>0. Typed
    BY DEF IInv, Shared
<1>1. CASE d # c
    BY <1>0, <1>1, OthersUnmoved, SharedChanges DEF ClearInv, At
<1>2. CASE d = c
    BY <1>0, <1>2, Arrivals DEF RevokeThenClear, Revoke, locals
<1> QED BY <1>1, <1>2

\* OAuth's RevokeToken does not clear.
LEMMA OAuthNeverClears ==
    ASSUME NEW c \in Callers, Start(c) \/ Step(c), At(c, "clear")
    PROVE  method # "oauth"
<1> SUFFICES ASSUME OAuthStep(c) PROVE FALSE
    BY DEF Step, CcgStep, JwtStep, DeveloperStep, Start, Begin, At
<1> QED
    BY DEF OAuthStep, RetrieveOrFail, RefreshUnderLock, ReadBefore, AcquireLock,
           UseRefreshed, RequestAccessToken, Granted, GrantedNull, AnswerLost,
           RefreshRefused, Exchanging, Store, Unlock, PresentRefreshToken, Exchange,
           RevokeGet, RevokeRefused, RevokeOnly, Login, LoginRefused, LoginStore, At

\* The step that empties the storage.
LEMMA Clearing ==
    ASSUME IInv, NoNilInv, NEW c \in Callers, Start(c) \/ Step(c),
           storage # None, storage' = None
    PROVE  Unattended /\ At(c, "clear")
<1>1. MethodOf(c)
    BY StepCases
<1>2. ~ Store(c) /\ ~ LoginStore(c)
    BY DEF Store, LoginStore, StoreToken, NoNilInv, AtStore, At
<1>3. At(c, "clear")
    BY <1>1, <1>2, SharedChanges DEF Clear
<1> QED BY <1>3, OAuthNeverClears DEF Unattended

\* The token to revoke is the one in the storage when it is read.
LEMMA Revoking ==
    ASSUME Typed, NEW c \in Callers, MethodOf(c), pc'[c] = "revokeCall"
    PROVE  RevokeGet(c)
<1> USE DEF Typed, TypeOK, At, Goto
<1>1. ~ (Start(c) \/ ReadBefore(c) \/ AcquireLock(c) \/ UseRefreshed(c))
    BY DEF Start, Begin, EntryOf, ReadBefore, AcquireLock, UseRefreshed
<1>2. ~ (RetrieveOrRefresh(c) \/ RetrieveOrFail(c) \/ Unlock(c))
    BY DeliverEffect DEF RetrieveOrRefresh, RetrieveOrFail, Unlock, Return, Leave
<1>3. ~ (SendCredentials(c) \/ SignAndSend(c) \/ PresentRefreshToken(c))
    BY DEF SendCredentials, SignAndSend, PresentRefreshToken
<1>4. ASSUME NEW from, NEW to,
             <<from, to>> \in {<<"request", "store">>, <<"loginCall", "loginStore">>}
      PROVE  ~ (Granted(c, from, to) \/ GrantedNull(c, from, to) \/ AnswerLost(c, from))
    BY <1>4 DEF Granted, GrantedNull, AnswerLost, Exchanging
<1>5. ~ (RefreshRefused(c) \/ RefreshFails(c) \/ Exchange(c) \/ LoginRefused(c)
         \/ LoginStore(c) \/ Store(c))
    BY DEF RefreshRefused, AfterRefusal, Exchanging, RefreshFails, Exchange,
           LoginRefused, LoginStore, Store, Return, Leave
<1>6. ~ (RevokeRefused(c) \/ RevokeThenClear(c) \/ Clear(c) \/ RevokeOnly(c))
    BY DEF RevokeRefused, RevokeThenClear, Clear, RevokeOnly, Return, Leave
<1> QED BY <1>1, <1>2, <1>3, <1>4, <1>5, <1>6 DEF MethodOf

\* What RevokeToken clears without having it revoked is younger than what it
\* revoked: another goroutine has refreshed since it read the token
\* (box/ccg.go:154-168).
ClearsRevokedOrYounger ==
    [][storage # None /\ storage' = None =>
         \/ storage \in revoked
         \/ \E c \in Callers :
               At(c, "clear") /\ tok[c] \in revoked /\ tok[c] < storage]_vars

LEMMA NoNilClearInvariance ==
    ASSUME "null" \notin Faults
    PROVE  Spec => [](IInv /\ NoNilInv /\ ClearInv)
<1>1. Init => NoNilInv /\ ClearInv
    BY DEF Init, NoNilInv, ClearInv, AtStore, At
<1>2. IInv /\ NoNilInv /\ ClearInv /\ [Next]_vars => NoNilInv' /\ ClearInv'
    <2> SUFFICES ASSUME IInv, NoNilInv, ClearInv, [Next]_vars
                 PROVE  NoNilInv' /\ ClearInv'
        OBVIOUS
    <2>1. CASE Next
        BY <2>1, StepCases, NoNilStep, ClearStep DEF Next
    <2>2. CASE UNCHANGED vars
        BY <2>2 DEF vars, locals, service, NoNilInv, ClearInv, AtStore, At
    <2> QED BY <2>1, <2>2
<1> QED BY <1>1, <1>2, Invariance, PTL DEF Spec

\* However many goroutines refresh and revoke, RevokeToken never clears an
\* unrevoked token that was there when it read the storage.
THEOREM ClearsNoOlder ==
    ASSUME "null" \notin Faults
    PROVE  Spec => ClearsRevokedOrYounger
<1> DEFINE A == storage # None /\ storage' = None =>
                  \/ storage \in revoked
                  \/ \E c \in Callers :
                        At(c, "clear") /\ tok[c] \in revoked /\ tok[c] < storage
<1>1. IInv /\ NoNilInv /\ ClearInv /\ [Next]_vars => [A]_vars
    <2> SUFFICES ASSUME IInv, NoNilInv, ClearInv, Next,
                        storage # None, storage' = None, storage \notin revoked
                 PROVE  \E c \in Callers :
                          At(c, "clear") /\ tok[c] \in revoked /\ tok[c] < storage
        OBVIOUS
    <2>1. PICK c \in Callers : Start(c) \/ Step(c)
        BY DEF Next
    <2>2. Unattended /\ At(c, "clear")
        BY <2>1, Clearing
    <2>3. tok[c] \in revoked /\ tok[c] \in installed
        BY <2>2 DEF ClearInv, IInv, Shared, HistoryInv, At
    <2>4. tok[c] <= storage
        BY <2>2, <2>3 DEF IInv, YoungestInv
    <2>5. tok[c] \in Int /\ storage \in Int
        BY <2>3, ParametersAssumption
           DEF IInv, Shared, Typed, TypeOK, Token, None, Failed
    <2>6. tok[c] < storage
        BY <2>3, <2>4, <2>5
    <2> QED BY <2>2, <2>3, <2>6
<1> QED BY <1>1, NoNilClearInvariance, PTL DEF Spec, ClearsRevokedOrYounger

\* Used by one goroutine at a time, RevokeToken clears what it revoked.
THEOREM ClearsRevokedAlone ==
    ASSUME "null" \notin Faults, \A c, d \in Callers : c = d
    PROVE  Spec => ClearsWhatWasRevoked
<1> DEFINE Inv == IInv /\ NoNilInv /\ ClearInv
           Alone == \A c \in Callers :
                      pc[c] \in {"revokeCall", "clear"} => tok[c] = storage
           A == storage # None /\ storage' = None => storage \in revoked
<1>1. Init => Alone
    BY DEF Init
<1>2. Inv /\ Alone /\ [Next]_vars => Alone'
    <2> SUFFICES ASSUME Inv, Alone, Next PROVE Alone'
        BY DEF vars, object, locals
    <2>1. PICK c \in Callers : MethodOf(c)
        BY StepCases DEF Next
    <2>2. Typed
        BY DEF IInv, Shared
    <2> SUFFICES ASSUME pc'[c] \in {"revokeCall", "clear"} PROVE tok'[c] = storage'
        OBVIOUS
    <2>3. CASE pc'[c] = "clear"
        BY <2>1, <2>2, <2>3, Arrivals DEF RevokeThenClear, At, object, locals
    <2>4. CASE pc'[c] = "revokeCall"
        BY <2>1, <2>2, <2>4, Revoking DEF RevokeGet, Return, Leave, Goto, object, Typed, TypeOK
    <2> QED BY <2>3, <2>4
<1>3. Inv /\ Alone /\ [Next]_vars => [A]_vars
    BY Clearing DEF Next, ClearInv, At
<1> QED BY <1>1, <1>2, <1>3, NoNilClearInvariance, PTL DEF Spec, ClearsWhatWasRevoked

\* Goroutines that only retrieve a token, of a service that loses no answer.
Retrieving ==
    /\ Calls \subseteq {"retrieve", "header"}
    /\ {"null", "lost"} \cap Faults = {}
    /\ IsFiniteSet(Callers)
    /\ Callers # {}

\* Those that found the storage empty and may still make a request.
Waiting == {c \in Callers : pc[c] \in {"before", "lock", "recheck", "request"}}

\* Once a token is stored no goroutine joins those waiting, and each of them
\* makes one request at most.
ColdInv ==
    /\ \A c \in Callers : pc[c] \in Critical \cup {"idle", "retrieve", "before", "lock"}
    /\ storage = None => minted = 0 \/ (minted = 1 /\ \E c \in Callers : At(c, "store"))
    /\ storage # None => minted + Cardinality(Waiting) <= Cardinality(Callers)

\* The steps such goroutines take.
LEMMA RetrievingCases ==
    ASSUME Retrieving, Typed, NoNilInv, NEW c \in Callers, Start(c) \/ Step(c),
           pc[c] \in Critical \cup {"idle", "retrieve", "before", "lock"}
    PROVE  /\ pc'[c] \in Critical \cup {"idle", "retrieve", "before", "lock"}
           /\ \/ Granted(c, "request", "store")
              \/ Store(c)
              \/ /\ UNCHANGED <<storage, minted>>
                 /\ pc[c] # "store" /\ pc'[c] # "store"
                 /\ \/ c \in Waiting' => c \in Waiting
                    \/ storage = None
<1> USE DEF Retrieving, Typed, TypeOK, NoNilInv, At, Goto, object, service
<1>1. CASE Start(c)
    BY <1>1 DEF Start, Begin, EntryOf, Waiting
<1>2. CASE RetrieveOrRefresh(c) \/ RetrieveOrFail(c)
    BY <1>2 DEF RetrieveOrRefresh, RetrieveOrFail, Deliver, HeaderOf, DownscopeOf,
                Return, Leave, Waiting
<1>3. CASE ReadBefore(c) \/ AcquireLock(c) \/ UseRefreshed(c)
    BY <1>3 DEF ReadBefore, AcquireLock, UseRefreshed, Waiting, Critical
<1>4. CASE SendCredentials(c) \/ SignAndSend(c) \/ PresentRefreshToken(c)
    BY <1>4 DEF SendCredentials, SignAndSend, PresentRefreshToken, Waiting, Critical
<1>5. CASE Granted(c, "request", "store")
    BY <1>5 DEF Granted, Exchanging, Critical
<1>6. CASE Store(c)
    BY <1>6 DEF Store, Critical
<1>7. CASE Unlock(c)
    BY <1>7 DEF Unlock, Deliver, HeaderOf, DownscopeOf, Return, Leave, Waiting
<1>8. CASE RefreshRefused(c) \/ RefreshFails(c)
    BY <1>8 DEF RefreshRefused, AfterRefusal, Exchanging, RefreshFails, Return, Leave,
                Waiting, Critical
<1>9. ~ (\/ GrantedNull(c, "request", "store") \/ AnswerLost(c, "request")
         \/ Granted(c, "loginCall", "loginStore")
         \/ GrantedNull(c, "loginCall", "loginStore")
         \/ AnswerLost(c, "loginCall"))
    BY DEF GrantedNull, AnswerLost, Granted, Exchanging, Critical
<1>10. ~ (Exchange(c) \/ LoginRefused(c) \/ LoginStore(c) \/ RevokeGet(c)
          \/ RevokeRefused(c) \/ RevokeThenClear(c) \/ Clear(c) \/ RevokeOnly(c))
    BY DEF Exchange, LoginRefused, LoginStore, RevokeGet, RevokeRefused,
           RevokeThenClear, Clear, RevokeOnly, Critical
<1>11. MethodOf(c)
    BY StepCases
<1> QED
    BY <1>1, <1>2, <1>3, <1>4, <1>5, <1>6, <1>7, <1>8, <1>9, <1>10, <1>11 DEF MethodOf

LEMMA ColdStep ==
    ASSUME Retrieving, IInv, NoNilInv, ColdInv, NEW c \in Callers, Start(c) \/ Step(c)
    PROVE  ColdInv'
<1>0. Typed /\ MethodOf(c) /\ minted \in Nat
    BY StepCases, ParametersAssumption DEF IInv, Shared, Typed, TypeOK
<1>1. /\ Waiting \subseteq Callers /\ IsFiniteSet(Waiting)
      /\ Cardinality(Waiting) \in Nat /\ Cardinality(Callers) \in Nat
    BY FS_Subset, FS_CardinalityType DEF Waiting, Retrieving
<1>2. \A d \in Callers \ {c} : pc'[d] = pc[d]
    BY <1>0, OthersUnmoved
<1>3. \A d \in Callers : pc'[d] \in Critical \cup {"idle", "retrieve", "before", "lock"}
    BY <1>0, <1>2, RetrievingCases DEF ColdInv
<1>4. CASE Granted(c, "request", "store")
    <2>1. /\ minted' = minted + 1 /\ storage' = storage
          /\ pc[c] = "request" /\ pc'[c] = "store"
        BY <1>0, <1>4 DEF Granted, Exchanging, Mint, object, At, Goto, Typed, TypeOK
    <2>2. \A d \in Callers \ {c} : pc[d] # "store"
        BY <2>1 DEF IInv, Shared, MutexInv, Critical
    <2>3. CASE storage = None
        BY <1>3, <2>1, <2>2, <2>3 DEF ColdInv, At
    <2>4. CASE storage # None
        <3>1. Waiting' = Waiting \ {c} /\ c \in Waiting
            BY <1>2, <2>1 DEF Waiting
        <3>2. Cardinality(Waiting') = Cardinality(Waiting) - 1
            BY <1>1, <3>1, FS_RemoveElement
        <3> QED BY <1>0, <1>1, <1>3, <2>1, <2>4, <3>2 DEF ColdInv
    <2> QED BY <2>3, <2>4
<1>5. CASE Store(c)
    <2>1. /\ storage' # None /\ minted' = minted
          /\ pc[c] = "store" /\ pc'[c] = "unlock"
        BY <1>0, <1>5 DEF Store, StoreToken, NoNilInv, AtStore, At, Goto, service,
           Typed, TypeOK
    <2>2. Waiting' = Waiting
        BY <1>2, <2>1 DEF Waiting
    <2>3. CASE storage = None
        <3>1. minted <= 1
            BY <2>3 DEF ColdInv
        <3>2. Waiting \subseteq Callers \ {c}
            BY <2>1 DEF Waiting
        <3>3. /\ IsFiniteSet(Callers \ {c})
              /\ Cardinality(Callers \ {c}) = Cardinality(Callers) - 1
            BY FS_RemoveElement DEF Retrieving
        <3>4. Cardinality(Waiting) <= Cardinality(Callers) - 1
            BY <3>2, <3>3, FS_Subset
        <3> QED BY <1>0, <1>1, <1>3, <2>1, <2>2, <3>1, <3>4 DEF ColdInv
    <2>4. CASE storage # None
        BY <1>3, <2>1, <2>2, <2>4 DEF ColdInv
    <2> QED BY <2>3, <2>4
<1>6. CASE /\ UNCHANGED <<storage, minted>>
           /\ pc[c] # "store" /\ pc'[c] # "store"
           /\ \/ c \in Waiting' => c \in Waiting
              \/ storage = None
    <2>1. CASE storage = None
        BY <1>2, <1>3, <1>6, <2>1 DEF ColdInv, At
    <2>2. CASE storage # None
        <3>1. Waiting' \subseteq Waiting
            BY <1>2, <1>6, <2>2 DEF Waiting
        <3>2. Cardinality(Waiting') <= Cardinality(Waiting) /\ Cardinality(Waiting') \in Nat
            BY <1>1, <3>1, FS_Subset, FS_CardinalityType
        <3> QED BY <1>0, <1>1, <1>3, <1>6, <2>2, <3>2 DEF ColdInv
    <2> QED BY <2>1, <2>2
<1> QED BY <1>0, <1>4, <1>5, <1>6, RetrievingCases DEF ColdInv

LEMMA ColdInvariance ==
    ASSUME Retrieving
    PROVE  Spec => []ColdInv
<1>1. Init => ColdInv
    <2> SUFFICES ASSUME Init PROVE ColdInv
        OBVIOUS
    <2>1. Waiting = {} /\ Cardinality(Waiting) = 0
        BY FS_EmptySet DEF Init, Waiting
    <2>2. Cardinality(Callers) \in Nat \ {0}
        BY FS_CardinalityType, FS_EmptySet DEF Retrieving
    <2>3. storage \in {0, 1} /\ minted = storage
        BY DEF Init, InitialToken, None
    <2> QED BY <2>1, <2>2, <2>3 DEF Init, ColdInv, None
<1>2. IInv /\ NoNilInv /\ ColdInv /\ [Next]_vars => ColdInv'
    <2> SUFFICES ASSUME IInv, NoNilInv, ColdInv, [Next]_vars PROVE ColdInv'
        OBVIOUS
    <2>1. CASE Next
        BY <2>1, ColdStep DEF Next
    <2>2. CASE UNCHANGED vars
        BY <2>2 DEF vars, object, service, ColdInv, Waiting, At
    <2> QED BY <2>1, <2>2
<1>3. "null" \notin Faults
    BY DEF Retrieving
<1> QED BY <1>1, <1>2, <1>3, NoNilClearInvariance, PTL DEF Spec

\* Goroutines that retrieve a token from an empty storage are granted no more
\* tokens than they are, however often they call (ccg.go:93, jwt.go:177).
THEOREM OneRequestEach ==
    ASSUME Retrieving
    PROVE  Spec => [](minted <= Cardinality(Callers))
<1>1. ColdInv /\ IInv => minted <= Cardinality(Callers)
    <2> SUFFICES ASSUME ColdInv, IInv PROVE minted <= Cardinality(Callers)
        OBVIOUS
    <2>1. /\ Cardinality(Waiting) \in Nat /\ Cardinality(Callers) \in Nat \ {0}
          /\ minted \in Nat
        BY FS_Subset, FS_CardinalityType, FS_EmptySet, ParametersAssumption
           DEF Waiting, Retrieving, IInv, Shared, Typed, TypeOK
    <2> QED BY <2>1 DEF ColdInv
<1> QED BY <1>1, ColdInvariance, Invariance, PTL

\* One goroutine makes one request.
THEOREM SingleFetchAlone ==
    ASSUME Retrieving, \A c, d \in Callers : c = d
    PROVE  Spec => []SingleFetch
<1>1. Cardinality(Callers) = 1
    <2>1. PICK c : Callers = {c}
        BY DEF Retrieving
    <2> QED BY <2>1, FS_Singleton
<1>2. minted <= Cardinality(Callers) => SingleFetch
    BY <1>1 DEF SingleFetch
<1> QED BY <1>2, OneRequestEach, PTL
-----------------------------------------------------------------------------
(* Every call runs out of steps: the part of EveryCallReturns that needs no *)
(* fairness.                                                                *)
LEMMA RunOutStep ==
    ASSUME Typed, NEW c \in Callers, MethodOf(c), pc[c] # "idle"
    PROVE  Remaining(c)' \in 0 .. Remaining(c) - 1
<1>0. MaxResends \in Nat /\ resends[c] \in 0 .. MaxResends
    BY ParametersAssumption DEF Typed, TypeOK
<1> SUFFICES StepsAhead[pc'[c]] * (MaxResends + 1) - resends'[c]
                \in 0 .. StepsAhead[pc[c]] * (MaxResends + 1) - resends[c] - 1
    BY DEF Remaining
<1> USE DEF StepsAhead, Typed, TypeOK, At, Goto, locals
<1>1. ~ Start(c)
    BY DEF Start, Begin
<1>2. CASE RetrieveOrRefresh(c)
    <2>1. \/ pc'[c] \in {"idle", "exchange", "panicked"} /\ resends'[c] = 0
          \/ pc'[c] = "before" /\ resends' = resends
        BY <1>2, DeliverEffect DEF RetrieveOrRefresh, Forget
    <2>2. pc[c] = "retrieve"
        BY <1>2 DEF RetrieveOrRefresh
    <2> QED BY <1>0, <2>1, <2>2
<1>3. CASE RetrieveOrFail(c)
    <2>1. pc'[c] \in {"idle", "exchange", "panicked"} /\ resends'[c] = 0
        BY <1>3, DeliverEffect DEF RetrieveOrFail, Return, Leave, Forget
    <2>2. pc[c] = "retrieve"
        BY <1>3 DEF RetrieveOrFail
    <2> QED BY <1>0, <2>1, <2>2
<1>4. CASE ReadBefore(c) \/ AcquireLock(c) \/ UseRefreshed(c)
    BY <1>0, <1>4 DEF ReadBefore, AcquireLock, UseRefreshed
<1>5. CASE SendCredentials(c) \/ SignAndSend(c) \/ PresentRefreshToken(c)
    BY <1>0, <1>5 DEF SendCredentials, SignAndSend, PresentRefreshToken
<1>6. ASSUME NEW from, NEW to,
             <<from, to>> \in {<<"request", "store">>, <<"loginCall", "loginStore">>},
             Granted(c, from, to) \/ GrantedNull(c, from, to)
      PROVE  StepsAhead[pc'[c]] * (MaxResends + 1) - resends'[c]
                \in 0 .. StepsAhead[pc[c]] * (MaxResends + 1) - resends[c] - 1
    <2>1. pc[c] = from /\ pc'[c] = to /\ resends'[c] = resends[c]
        BY <1>6 DEF Granted, GrantedNull, Exchanging
    <2> QED BY <1>0, <1>6, <2>1
<1>7. ASSUME NEW from, from \in {"request", "loginCall"}, AnswerLost(c, from)
      PROVE  StepsAhead[pc'[c]] * (MaxResends + 1) - resends'[c]
                \in 0 .. StepsAhead[pc[c]] * (MaxResends + 1) - resends[c] - 1
    <2>1. /\ pc[c] = from /\ pc' = pc /\ resends[c] < MaxResends
          /\ resends'[c] = resends[c] + 1
        BY <1>7 DEF AnswerLost
    <2> QED BY <1>0, <1>7, <2>1
<1>8. CASE RefreshRefused(c) \/ Store(c)
    BY <1>0, <1>8 DEF RefreshRefused, AfterRefusal, Exchanging, Store
<1>9. CASE Unlock(c)
    <2>1. pc'[c] \in {"idle", "exchange", "panicked"} /\ resends'[c] = 0
        BY <1>9, DeliverEffect DEF Unlock, Forget
    <2>2. pc[c] = "unlock"
        BY <1>9 DEF Unlock
    <2> QED BY <1>0, <2>1, <2>2
<1>10. CASE RefreshFails(c) \/ Exchange(c) \/ LoginRefused(c) \/ LoginStore(c)
    BY <1>0, <1>10 DEF RefreshFails, Exchange, LoginRefused, LoginStore, Return, Leave,
       Forget
<1>11. CASE RevokeGet(c) \/ RevokeRefused(c) \/ RevokeThenClear(c) \/ Clear(c)
            \/ RevokeOnly(c)
    BY <1>0, <1>11 DEF RevokeGet, RevokeRefused, RevokeThenClear, Clear, RevokeOnly,
       Return, Leave, Forget
<1> QED
    BY <1>1, <1>2, <1>3, <1>4, <1>5, <1>6, <1>7, <1>8, <1>9, <1>10, <1>11
       DEF MethodOf

\* No call of the object goes on for ever on its own.
THEOREM CallsEnd == Spec => CallsRunOut
<1> DEFINE A ==
        \A c \in Callers : pc[c] # "idle" /\ <<pc[c], resends[c]>>' # <<pc[c], resends[c]>> =>
          Remaining(c)' \in 0 .. Remaining(c) - 1
<1>1. IInv /\ [Next]_vars => [A]_vars
    <2> SUFFICES ASSUME IInv, Next, NEW d \in Callers, pc[d] # "idle",
                        <<pc[d], resends[d]>>' # <<pc[d], resends[d]>>
                 PROVE  Remaining(d)' \in 0 .. Remaining(d) - 1
        OBVIOUS
    <2>1. PICK c \in Callers : MethodOf(c)
        BY StepCases DEF Next
    <2>2. Typed
        BY DEF IInv, Shared
    <2>3. d = c
        BY <2>1, <2>2, OthersUnmoved
    <2> QED BY <2>1, <2>2, <2>3, RunOutStep
<1> QED BY <1>1, Invariance, PTL DEF Spec, CallsRunOut

\* Who waits for the mutex waits for a goroutine that is refreshing, never for
\* itself, for another that waits, or for one that has returned or panicked.
LockInv ==
    \A c \in Callers : At(c, "lock") =>
        LockFree \/ \E d \in Callers \ {c} : mu = {d} /\ pc[d] \in Critical

\* The mutex of RefreshToken is never held by a goroutine that has stopped: each
\* return of it unlocks, and none of its steps waits for the mutex again.
THEOREM LockHeldByWorker == Spec => []LockInv
<1>1. IInv => LockInv
    <2> SUFFICES ASSUME IInv, NEW c \in Callers, At(c, "lock"), ~LockFree
                 PROVE  \E d \in Callers \ {c} : mu = {d} /\ pc[d] \in Critical
        BY DEF LockInv
    <2>1. PICK d \in mu : TRUE
        BY DEF LockFree
    <2>2. d \in Callers /\ mu = {d} /\ pc[d] \in Critical
        BY <2>1 DEF IInv, Shared, Typed, TypeOK, MutexInv
    <2> QED BY <2>2 DEF At, Critical
<1> QED BY <1>1, Invariance, PTL
=============================================================================
