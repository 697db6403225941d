------------------------- MODULE ResourceCallsProofs -------------------------
(***************************************************************************)
(* Proofs about ResourceCalls: however requests are sent again, delayed    *)
(* and answered, a call takes effect at most once where it can be told, a  *)
(* condition is kept, and the answers are those of the abstract store.     *)
(* Then what an application learns from several answers together, and what *)
(* a call may cost that nothing makes idempotent.                          *)
(***************************************************************************)
EXTENDS ResourceCalls, TLAPS, SequenceTheorems, FiniteSetTheorems

-----------------------------------------------------------------------------
(* The invariant.                                                           *)

\* Where a call is, whether it has begun and whether it has returned.
PlaceInv ==
    \A c \in Calls :
        /\ stage[c] = "new" => call[c] = NoCall
        /\ stage[c] # "new" => call[c].op # "none"
        /\ result[c] = "none" <=> stage[c] # "returned"

\* A request in flight asks for what its call asks for.
RequestInv ==
    \A r \in inflight :
        /\ stage[r.by] # "new"
        /\ r.item = call[r.by].item
        /\ r.match = call[r.by].match
        /\ r.op \in {"check", call[r.by].op}
        /\ r.body = "whole"

\* The history alternates between an item's life and its absence.
LifeInv ==
    \A j \in 1 .. Len(history) :
        /\ history[j].op = "create" =>
               history[j].item = j /\ (j > 1 => history[j - 1].op = "delete")
        /\ history[j].op # "create" =>
               /\ j > 1
               /\ history[j - 1].op # "delete"
               /\ history[j].item = history[j - 1].item

\* An item is as old as its creation, and does not return from a deletion.
ItemInv ==
    /\ \A j \in 1 .. Len(history) : history[j].item <= j
    /\ \A i, j \in 1 .. Len(history) :
           i < j /\ history[i].op = "delete" => history[j].item > i

\* An effect is what its call asked for, on the version that it named.
EffectInv ==
    \A i \in 1 .. Len(history) :
        /\ history[i].by = "others" => i = 1
        /\ history[i].by # "others" =>
               /\ stage[history[i].by] # "new"
               /\ history[i].op = call[history[i].by].op
               /\ history[i].op # "create" =>
                      /\ history[i].item = call[history[i].by].item
                      /\ call[history[i].by].match # 0 =>
                             call[history[i].by].match = i - 1

HistoryInv == LifeInv /\ ItemInv /\ EffectInv

\* While nothing is in doubt, a write in flight is the one that is waited for.
FlightInv ==
    \A r \in inflight :
        r.op # "check" /\ r.by \notin doubtful =>
            /\ stage[r.by] = "waiting"
            /\ phase[r.by] = "main"
            /\ attempt[r.by] = r.n

Answered(c) == stage[c] = "decide" /\ phase[c] = "main"
Confirmed(c) ==
    \/ Answered(c) /\ answer[c].status = "ok"
    \/ result[c] \in {"object", "nil"}

\* What is confirmed took effect; what took effect is confirmed or in doubt;
\* an unclear answer leaves a doubt.
AnswerInv ==
    \A c \in Calls :
        /\ Confirmed(c) /\ Store!Writes(call[c]) => Store!TookEffect(c)
        /\ Store!TookEffect(c) => Confirmed(c) \/ c \in doubtful
        /\ Answered(c) /\ Unclear(answer[c]) => c \in doubtful

Inv == TypeOK /\ PlaceInv /\ RequestInv /\ HistoryInv /\ FlightInv /\ AnswerInv
-----------------------------------------------------------------------------
(* The steps of a call that touch neither the service nor its arguments.    *)
Local(c) ==
    \/ Prepared(c) \/ ContentUnreadable(c) \/ HeaderFails(c) \/ TransportFails(c)
    \/ Retry(c) \/ RetryFails(c) \/ FetchFails(c) \/ Finish(c)
    \/ CheckPassed(c) \/ CheckUnusable(c)

LEMMA NextSplit ==
    ASSUME Next
    PROVE  \/ \E c \in Calls : Begin(c) \/ Send(c) \/ Local(c)
           \/ \E r \in inflight : Service(r)
BY DEF Next, Client, Local

LEMMA InitInv == Init => Inv
<1> SUFFICES ASSUME Init PROVE Inv
    OBVIOUS
<1> USE DEF Init, NoCall, Store!NoCall, Store!Histories, Nothing
<1>1. TypeOK
  <2>1. CallTypeOK
      BY DEF CallTypeOK, Answers, Statuses, Bodies
  <2>2. ServiceTypeOK
    <3>1. CASE history = <<>>
        BY <3>1 DEF ServiceTypeOK
    <3>2. CASE history # <<>>
      <4>1. history = <<[by |-> "others", op |-> "create", item |-> 1, body |-> "whole"]>>
          BY <3>2
      <4> QED
          BY <4>1 DEF ServiceTypeOK, Effects
    <3> QED
        BY <3>1, <3>2
  <2> QED
      BY <2>1, <2>2 DEF TypeOK
<1>2. PlaceInv /\ RequestInv /\ FlightInv
    BY DEF PlaceInv, RequestInv, FlightInv
<1>3. HistoryInv
    BY DEF HistoryInv, LifeInv, ItemInv, EffectInv
<1>4. AnswerInv
  <2>1. \A c \in Calls : ~Store!TookEffect(c)
    <3>1. \A i \in 1 .. Len(history) : history[i].by = "others"
      <4>1. CASE history = <<>>
          BY <4>1
      <4>2. CASE history = <<[by |-> "others", op |-> "create", item |-> 1, body |-> "whole"]>>
          BY <4>2
      <4> QED
          BY <4>1, <4>2
    <3> QED
        BY <3>1, CallsAssumption DEF Store!TookEffect
  <2>2. \A c \in Calls : ~Answered(c) /\ ~Confirmed(c)
      BY DEF Answered, Confirmed
  <2> QED
      BY <2>1, <2>2 DEF AnswerInv
<1> QED
    BY <1>1, <1>2, <1>3, <1>4 DEF Inv
-----------------------------------------------------------------------------
(* The history as a sequence, and what a write appends to it.               *)
LEMMA HistoryFacts ==
    ASSUME TypeOK
    PROVE  /\ Len(history) \in Nat
           /\ history # <<>> <=> Len(history) > 0
           /\ \A i \in 1 .. Len(history) : history[i] \in Effects
<1>1. history \in Seq(Effects)
    BY DEF TypeOK, ServiceTypeOK
<1> QED
    BY <1>1, ElementOfSeq, EmptySeq, LenProperties

LEMMA Appended ==
    ASSUME TypeOK, NEW r \in Requests, Perform(r)
    PROVE  LET e == Store!Effect(r.by, r, r.body)
               n == Len(history) IN
           /\ e \in Effects
           /\ e.by = r.by /\ e.op = r.op /\ e.body = r.body
           /\ r.op = "create" => e.item = n + 1 /\ (n > 0 => history[n].op = "delete")
           /\ r.op # "create" => /\ n > 0
                                 /\ history[n].op # "delete"
                                 /\ e.item = history[n].item
                                 /\ e.item = r.item
                                 /\ r.match \in {0, n}
           /\ history' = Append(history, e)
           /\ Len(history') = n + 1
           /\ history'[n + 1] = e
           /\ \A i \in 1 .. n : history'[i] = history[i]
           /\ history' \in Seq(Effects)
<1> DEFINE e == Store!Effect(r.by, r, r.body)
           n == Len(history)
<1>1. n \in Nat /\ (history # <<>> <=> n > 0) /\ (n > 0 => history[n] \in Effects)
    BY HistoryFacts
<1>2. Store!Applicable(r)
    BY DEF Perform
<1>3. /\ r.op = "create" => e.item = n + 1 /\ (n > 0 => history[n].op = "delete")
      /\ r.op # "create" => /\ n > 0
                            /\ history[n].op # "delete"
                            /\ e.item = history[n].item
                            /\ e.item = r.item
                            /\ r.match \in {0, n}
      /\ r.op \in {"create", "update", "delete"}
    BY <1>1, <1>2 DEF Store!Applicable, Store!Effect, Store!Creates, Store!Exists,
       Store!Last, Store!Version
<1>4. e.by = r.by /\ e.op = r.op /\ e.body = r.body
    BY DEF Store!Effect
<1>5. e \in Effects
    BY <1>1, <1>3 DEF Effects, Requests, Store!Effect, Store!Creates, Store!Last,
       Store!Version
<1>6. history' = Append(history, e)
    BY DEF Perform
<1>7. history \in Seq(Effects)
    BY DEF TypeOK, ServiceTypeOK
<1> HIDE DEF e
<1>8. /\ history' \in Seq(Effects)
      /\ Len(history') = n + 1
      /\ history'[n + 1] = e
      /\ \A i \in 1 .. n : history'[i] = history[i]
    BY <1>5, <1>6, <1>7
<1> QED
    BY <1>3, <1>4, <1>5, <1>6, <1>8 DEF e

LEMMA LocalType ==
    ASSUME TypeOK, NEW c \in Calls, Local(c)
    PROVE  TypeOK'
<1>0. UNCHANGED <<service, call>>
    BY DEF Local, Prepared, ContentUnreadable, HeaderFails, TransportFails, Retry,
       RetryFails, FetchFails, Finish, CheckPassed, CheckUnusable
<1>1. ASSUME NEW r \in {"object", "nil", "error", "panic"}, Return(c, r)
      PROVE  /\ stage' \in [Calls -> {"new", "prepare", "send", "waiting", "decide", "returned"}]
             /\ attempt' \in [Calls -> Nat]
             /\ exceptions' \in [Calls -> Nat]
             /\ answer' \in [Calls -> Answers]
             /\ result' \in [Calls -> {"none", "object", "nil", "error", "panic"}]
    BY <1>1 DEF Return, Goto, TypeOK, CallTypeOK, Answers, Statuses, Bodies, Nothing
<1>2. CallTypeOK'
  <2> USE DEF TypeOK, CallTypeOK, service
  <2>1. CASE Prepared(c)
      BY <2>1 DEF Prepared, Goto
  <2>2. CASE TransportFails(c)
      BY <2>2 DEF TransportFails, Goto, Answers, Statuses, Bodies, Nothing
  <2>0. Nothing \in Answers
      BY DEF Answers, Statuses, Bodies, Nothing
  <2>3. CASE Retry(c)
      BY <2>0, <2>3 DEF Retry, Goto, AttemptAfter
  <2>7. CASE CheckPassed(c)
      BY <2>0, <2>7 DEF CheckPassed, Goto
  <2>4. CASE Finish(c)
    <3>1. Decoded(c) \in {"object", "nil", "error", "panic"}
        BY DEF Decoded
    <3> QED
        BY <1>1, <2>4, <3>1 DEF Finish
  <2>5. CASE CheckUnusable(c)
      BY <1>1, <2>5 DEF CheckUnusable
  <2>6. CASE ContentUnreadable(c) \/ HeaderFails(c) \/ RetryFails(c) \/ FetchFails(c)
      BY <1>1, <2>6 DEF ContentUnreadable, HeaderFails, RetryFails, FetchFails
  <2> QED
      BY <2>1, <2>2, <2>3, <2>4, <2>5, <2>6, <2>7 DEF Local
<1>3. ServiceTypeOK'
    BY <1>0 DEF TypeOK, ServiceTypeOK, service
<1> QED
    BY <1>2, <1>3 DEF TypeOK

LEMMA ServiceType ==
    ASSUME TypeOK, NEW r \in inflight, Service(r)
    PROVE  /\ TypeOK'
           /\ r \in Requests
           /\ UNCHANGED <<resource, call, phase, attempt, exceptions, result>>
           /\ inflight' = inflight \ {r}
<1>0. r \in Requests
    BY DEF TypeOK, ServiceTypeOK
<1>1. ASSUME NEW s \in Statuses, NEW b \in Bodies, Reply(r, s, b)
      PROVE  /\ stage' \in [Calls -> {"new", "prepare", "send", "waiting", "decide", "returned"}]
             /\ answer' \in [Calls -> Answers]
             /\ doubtful' \subseteq Calls
  <2>1. [status |-> s, body |-> b] \in Answers
      BY DEF Answers
  <2>2. r.by \in Calls
      BY <1>0 DEF Requests
  <2> QED
      BY <1>1, <2>1, <2>2 DEF Reply, TypeOK, CallTypeOK, Goto
<1>2. \E s \in Statuses, b \in Bodies : Reply(r, s, b)
    BY DEF Service, Perform, Look, Refuse, TurnAway, Statuses, Bodies
<1>3. Serve(r)
    BY DEF Service, Perform, Look, Refuse, TurnAway
<1>4. history' \in Seq(Effects)
  <2>1. CASE Perform(r)
      BY <1>0, <2>1, Appended
  <2>2. CASE ~Perform(r)
      BY <2>2 DEF Service, Look, Refuse, TurnAway, TypeOK, ServiceTypeOK
  <2> QED
      BY <2>1, <2>2
<1>5. CallTypeOK'
    BY <1>1, <1>2, <1>3 DEF TypeOK, CallTypeOK, Serve
<1>6. ServiceTypeOK'
    BY <1>3, <1>4 DEF TypeOK, ServiceTypeOK, Serve
<1> QED
    BY <1>0, <1>3, <1>5, <1>6 DEF TypeOK, Serve

\* What the calls of all managers have in common.
LEMMA ArgumentShape ==
    ASSUME TypeOK, NEW k \in Arguments
    PROVE  k \in [op : {"create", "update", "delete", "get"}, item : 0 .. Version,
                 match : 0 .. Version, checked : BOOLEAN]
<1>1. Version \in Nat
    BY DEF Version, Store!Version, TypeOK, ServiceTypeOK
<1>2. ASSUME NEW b \in BOOLEAN, k \in New(b)
      PROVE  k \in [op : {"create", "update", "delete", "get"}, item : 0 .. Version,
                   match : 0 .. Version, checked : BOOLEAN]
    BY <1>1, <1>2 DEF New
<1>3. ASSUME k \in On("update") \/ k \in On("delete") \/ k \in On("get")
      PROVE  k \in [op : {"create", "update", "delete", "get"}, item : 0 .. Version,
                   match : 0 .. Version, checked : BOOLEAN]
  <2>1. ASSUME NEW o, k \in On(o)
        PROVE  k \in [op : {o}, item : 1 .. Version, match : 0 .. Version,
                     checked : {FALSE}]
      BY <2>1, Zenon DEF On
  <2>2. \/ k \in [op : {"update"}, item : 1 .. Version, match : 0 .. Version,
                  checked : {FALSE}]
        \/ k \in [op : {"delete"}, item : 1 .. Version, match : 0 .. Version,
                  checked : {FALSE}]
        \/ k \in [op : {"get"}, item : 1 .. Version, match : 0 .. Version,
                  checked : {FALSE}]
      BY <1>3, <2>1
  <2>3. 1 .. Version \subseteq 0 .. Version /\ {FALSE} \subseteq BOOLEAN
      BY <1>1
  <2>4. ASSUME NEW o \in {"create", "update", "delete", "get"},
               k \in [op : {o}, item : 1 .. Version, match : 0 .. Version,
                     checked : {FALSE}]
        PROVE  k \in [op : {"create", "update", "delete", "get"}, item : 0 .. Version,
                     match : 0 .. Version, checked : BOOLEAN]
      BY <2>3, <2>4, Zenon
  <2> QED
      BY <2>2, <2>4
<1>4. resource \in {"file", "folder"}
    BY DEF TypeOK, ServiceTypeOK
<1>5. \/ k \in New(TRUE) \/ k \in New(FALSE)
      \/ k \in On("update") \/ k \in On("delete") \/ k \in On("get")
    BY <1>4 DEF Arguments, UploadFile, UploadWithPreflightCheck, UploadFileVersion,
                GetFileByID, CreateFolder, DeleteFolderByID, GetFolderByID, GetFolderItems
<1> QED
    BY <1>2, <1>3, <1>5

LEMMA BeginType ==
    ASSUME TypeOK, NEW c \in Calls, Begin(c)
    PROVE  TypeOK'
<1>1. ASSUME NEW k \in Arguments
      PROVE  k \in [op : {"none", "create", "update", "delete", "get"},
                    item : Nat, match : Nat, checked : BOOLEAN]
    BY ArgumentShape DEF Version, Store!Version, TypeOK, ServiceTypeOK
<1>2. CallTypeOK'
    BY <1>1 DEF TypeOK, CallTypeOK, Begin, Goto
<1> QED
    BY <1>2 DEF TypeOK, ServiceTypeOK, Begin, service

LEMMA SendType ==
    ASSUME TypeOK, NEW c \in Calls, Send(c), call[c].op # "none"
    PROVE  TypeOK'
<1>1. Request(c) \in Requests
    BY DEF Request, Requests, TypeOK, CallTypeOK, MatchHeader, BodyOf
<1>2. CallTypeOK'
    BY DEF TypeOK, CallTypeOK, Send, Goto
<1> QED
    BY <1>1, <1>2 DEF Send, TypeOK, ServiceTypeOK
-----------------------------------------------------------------------------
(* What a local step may do.                                                *)
Framed(c) ==
    /\ UNCHANGED <<resource, history, inflight, call>>
    /\ stage[c] \notin {"new", "returned"} /\ stage'[c] # "new"
    /\ result'[c] = "none" <=> stage'[c] # "returned"
    /\ \A d \in Calls \ {c} :
           /\ stage'[d] = stage[d] /\ phase'[d] = phase[d]
           /\ attempt'[d] = attempt[d] /\ answer'[d] = answer[d]
           /\ result'[d] = result[d]
    /\ doubtful' \in {doubtful, doubtful \cup {c}}
    /\ stage[c] = "waiting" /\ phase[c] = "main" => c \in doubtful'
    /\ Confirmed(c)' => Confirmed(c)
    /\ Confirmed(c) => c \in doubtful' \/ Confirmed(c)'
    /\ Answered(c)' /\ Unclear(answer[c])' => c \in doubtful'

LEMMA LocalFrame ==
    ASSUME TypeOK, PlaceInv, AnswerInv, NEW c \in Calls, Local(c)
    PROVE  Framed(c)
<1> USE DEF TypeOK, CallTypeOK, service, At, Goto, Return, Confirmed, Answered, Framed
<1>1. CASE Prepared(c)
    BY <1>1 DEF Prepared, PlaceInv
<1>2. CASE TransportFails(c)
  <2>1. stage[c] = "waiting" /\ stage'[c] = "decide" /\ UNCHANGED <<phase, result>>
      BY <1>2 DEF TransportFails
  <2>2. result[c] = "none"
      BY <2>1 DEF PlaceInv
  <2>3. phase[c] = "main" => c \in doubtful'
      BY <1>2 DEF TransportFails
  <2>4. doubtful' \in {doubtful, doubtful \cup {c}}
      BY <1>2 DEF TransportFails
  <2>5. answer'[c].status = "exception"
      BY <1>2 DEF TransportFails, Nothing
  <2>6. \A d \in Calls \ {c} :
            /\ stage'[d] = stage[d] /\ phase'[d] = phase[d]
            /\ attempt'[d] = attempt[d] /\ answer'[d] = answer[d]
            /\ result'[d] = result[d]
      BY <1>2 DEF TransportFails
  <2> QED
      BY <1>2, <2>1, <2>2, <2>3, <2>4, <2>5, <2>6 DEF TransportFails
<1>3. CASE Retry(c) \/ CheckPassed(c)
  <2>1. stage[c] = "decide" /\ result[c] = "none"
      BY <1>3 DEF Retry, CheckPassed, Succeeds, Readable, PlaceInv
  <2>2. ~Confirmed(c)
    <3>1. CASE Retry(c)
        BY <2>1, <3>1 DEF Retry, ShouldRetry, Retried
    <3>2. CASE CheckPassed(c)
        BY <2>1, <3>2 DEF CheckPassed, Succeeds
    <3> QED
        BY <1>3, <3>1, <3>2
  <2>3. CASE Retry(c)
      BY <2>1, <2>2, <2>3 DEF Retry
  <2>4. CASE CheckPassed(c)
      BY <2>1, <2>2, <2>4 DEF CheckPassed
  <2> QED
      BY <1>3, <2>3, <2>4
<1>4. ASSUME NEW r \in {"object", "nil", "error", "panic"}, Return(c, r),
             UNCHANGED <<service, call, phase, doubtful>>,
             stage[c] \in {"prepare", "send", "decide"},
             r \in {"object", "nil"} => Confirmed(c),
             r \in {"error", "panic"} /\ Confirmed(c) => c \in doubtful
      PROVE  Framed(c)
    BY <1>4 DEF PlaceInv
<1>5. CASE Finish(c)
  <2>1. stage[c] = "decide" /\ Confirmed(c)
      BY <1>5 DEF Finish, Succeeds, Success, Readable
  <2>2. Decoded(c) = "error" => c \in doubtful
      BY <1>5 DEF Finish, Succeeds, Success, Readable, Decoded, AnswerInv, Unclear
  <2>3. Decoded(c) \in {"object", "nil", "error"}
      BY DEF Decoded
  <2> QED
      BY <1>4, <1>5, <2>1, <2>2, <2>3 DEF Finish
<1>6. CASE CheckUnusable(c)
  <2>1. stage[c] = "decide" /\ phase[c] = "check" /\ result[c] = "none"
      BY <1>6 DEF CheckUnusable, Succeeds, Readable, PlaceInv
  <2> QED
      BY <1>4, <1>6, <2>1 DEF CheckUnusable
<1>7. CASE FetchFails(c)
  <2>1. stage[c] = "decide" /\ result[c] = "none"
      BY <1>7 DEF FetchFails, PlaceInv
  <2>2. Confirmed(c) => c \in doubtful
      BY <1>7, <2>1 DEF FetchFails, Readable, Success, AnswerInv, Unclear
  <2> QED
      BY <1>4, <1>7, <2>1, <2>2 DEF FetchFails
<1>8. CASE RetryFails(c)
  <2>1. stage[c] = "decide" /\ result[c] = "none" /\ answer[c].status # "ok"
      BY <1>8 DEF RetryFails, Readable, ShouldRetry, Retried, PlaceInv
  <2> QED
      BY <1>4, <1>8, <2>1 DEF RetryFails
<1>9. CASE ContentUnreadable(c) \/ HeaderFails(c)
  <2>1. stage[c] \in {"prepare", "send"} /\ result[c] = "none"
      BY <1>9 DEF ContentUnreadable, HeaderFails, PlaceInv
  <2> QED
      BY <1>4, <1>9, <2>1 DEF ContentUnreadable, HeaderFails
<1> QED
    BY <1>1, <1>2, <1>3, <1>5, <1>6, <1>7, <1>8, <1>9 DEF Local
-----------------------------------------------------------------------------
LEMMA LocalInv ==
    ASSUME Inv, NEW c \in Calls, Local(c)
    PROVE  Inv'
<1>0. TypeOK' /\ Framed(c)
    BY LocalType, LocalFrame DEF Inv
<1> USE DEF Inv, Framed
<1>r. \A r \in inflight : r.by \in Calls
    BY DEF TypeOK, ServiceTypeOK, Requests
<1>1. PlaceInv'
    BY <1>0 DEF PlaceInv
<1>2. RequestInv'
    BY <1>0, <1>r DEF RequestInv
<1>3. LifeInv' /\ ItemInv'
    BY <1>0 DEF HistoryInv, LifeInv, ItemInv
<1>4. EffectInv'
  <2>1. \A i \in 1 .. Len(history) : history[i].by \in Calls \cup {"others"}
      BY HistoryFacts DEF Effects
  <2> QED
      BY <1>0, <2>1 DEF HistoryInv, EffectInv
<1>5. FlightInv'
    BY <1>0, <1>r DEF FlightInv
<1>6. AnswerInv'
  <2> SUFFICES ASSUME NEW d \in Calls
               PROVE  /\ Confirmed(d)' /\ Store!Writes(call[d])' => Store!TookEffect(d)'
                      /\ Store!TookEffect(d)' => Confirmed(d)' \/ d \in doubtful'
                      /\ Answered(d)' /\ Unclear(answer[d])' => d \in doubtful'
      BY DEF AnswerInv
  <2>1. (Store!TookEffect(d)' <=> Store!TookEffect(d)) /\ call' = call
      BY <1>0 DEF Store!TookEffect
  <2>2. CASE d = c
      BY <1>0, <2>1, <2>2 DEF AnswerInv, Store!Writes
  <2>3. CASE d # c
      BY <1>0, <2>1, <2>3 DEF AnswerInv, Store!Writes, Confirmed, Answered, Unclear
  <2> QED
      BY <2>2, <2>3
<1> QED
    BY <1>0, <1>1, <1>2, <1>3, <1>4, <1>5, <1>6 DEF HistoryInv

LEMMA BeginInv ==
    ASSUME Inv, NEW c \in Calls, Begin(c)
    PROVE  Inv'
<1> USE DEF Inv
<1>0. TypeOK'
    BY BeginType
<1>1. PICK k \in Arguments :
          /\ call' = [call EXCEPT ![c] = k]
          /\ phase' = [phase EXCEPT ![c] = IF k.checked THEN "check" ELSE "main"]
    BY DEF Begin
<1>2. /\ stage[c] = "new" /\ call[c] = NoCall
      /\ stage' = [stage EXCEPT ![c] = "prepare"]
      /\ UNCHANGED <<resource, history, inflight, attempt, exceptions, answer, result, doubtful>>
    BY DEF Begin, At, Goto, service, PlaceInv
<1>3. k.op # "none" /\ call'[c] = k
    BY <1>1, ArgumentShape DEF TypeOK, CallTypeOK
<1>r. \A r \in inflight : r.by \in Calls \ {c}
    BY <1>2 DEF TypeOK, ServiceTypeOK, Requests, RequestInv
<1>o. \A d \in Calls \ {c} : stage'[d] = stage[d] /\ call'[d] = call[d] /\ phase'[d] = phase[d]
    BY <1>1, <1>2 DEF TypeOK, CallTypeOK
<1>s. stage'[c] = "prepare"
    BY <1>2 DEF TypeOK, CallTypeOK
<1>4. PlaceInv'
    BY <1>2, <1>3, <1>o, <1>s DEF PlaceInv
<1>5. RequestInv' /\ FlightInv'
    BY <1>2, <1>r, <1>o DEF RequestInv, FlightInv
<1>6. LifeInv' /\ ItemInv'
    BY <1>2 DEF HistoryInv, LifeInv, ItemInv
<1>e. \A i \in 1 .. Len(history) : history[i].by \in (Calls \ {c}) \cup {"others"}
    BY <1>2, HistoryFacts DEF Effects, HistoryInv, EffectInv
<1>7. EffectInv'
    BY <1>2, <1>o, <1>e DEF HistoryInv, EffectInv
<1>8. AnswerInv'
  <2> SUFFICES ASSUME NEW d \in Calls
               PROVE  /\ Confirmed(d)' /\ Store!Writes(call[d])' => Store!TookEffect(d)'
                      /\ Store!TookEffect(d)' => Confirmed(d)' \/ d \in doubtful'
                      /\ Answered(d)' /\ Unclear(answer[d])' => d \in doubtful'
      BY DEF AnswerInv
  <2>1. Store!TookEffect(d)' <=> Store!TookEffect(d)
      BY <1>2 DEF Store!TookEffect
  <2>2. CASE d = c
    <3>1. ~Store!TookEffect(c)
        BY <1>e, CallsAssumption DEF Store!TookEffect
    <3>2. ~Answered(c)' /\ ~Confirmed(c)'
        BY <1>2, <1>s DEF Answered, Confirmed, PlaceInv
    <3> QED
        BY <2>1, <2>2, <3>1, <3>2
  <2>3. CASE d # c
      BY <1>2, <1>o, <2>1, <2>3 DEF AnswerInv, Store!Writes, Confirmed, Answered, Unclear
  <2> QED
      BY <2>2, <2>3
<1> QED
    BY <1>0, <1>4, <1>5, <1>6, <1>7, <1>8 DEF HistoryInv

LEMMA SendInv ==
    ASSUME Inv, NEW c \in Calls, Send(c)
    PROVE  Inv'
<1> USE DEF Inv
<1>1. /\ stage[c] = "send" /\ call[c].op # "none"
      /\ stage' = [stage EXCEPT ![c] = "waiting"]
      /\ inflight' = inflight \cup {Request(c)}
      /\ UNCHANGED <<resource, history, call, phase, attempt, exceptions, answer, result, doubtful>>
    BY DEF Send, At, Goto, PlaceInv
<1>2. TypeOK'
    BY <1>1, SendType
<1>r. \A r \in inflight : r.by \in Calls
    BY DEF TypeOK, ServiceTypeOK, Requests
<1>s. stage'[c] = "waiting" /\ \A d \in Calls \ {c} : stage'[d] = stage[d]
    BY <1>1 DEF TypeOK, CallTypeOK
<1>q. LET q == Request(c) IN
      /\ q.by = c /\ q.n = attempt[c] /\ q.item = call[c].item
      /\ q.match = call[c].match /\ q.body = "whole"
      /\ q.op \in {"check", call[c].op}
      /\ q.op # "check" => phase[c] = "main"
    BY DEF Request, MatchHeader, BodyOf, TypeOK, CallTypeOK
<1>3. PlaceInv'
    BY <1>1, <1>s DEF PlaceInv
<1>4. RequestInv'
    BY <1>1, <1>r, <1>s, <1>q DEF RequestInv
<1>5. FlightInv'
    BY <1>1, <1>r, <1>s, <1>q DEF FlightInv
<1>6. LifeInv' /\ ItemInv'
    BY <1>1 DEF HistoryInv, LifeInv, ItemInv
<1>7. EffectInv'
  <2>1. \A i \in 1 .. Len(history) : history[i].by \in Calls \cup {"others"}
      BY HistoryFacts DEF Effects
  <2> QED
      BY <1>1, <1>s, <2>1 DEF HistoryInv, EffectInv
<1>8. AnswerInv'
    BY <1>1, <1>s DEF AnswerInv, Store!TookEffect, Store!Writes, Confirmed, Answered, Unclear
<1> QED
    BY <1>2, <1>3, <1>4, <1>5, <1>6, <1>7, <1>8 DEF HistoryInv
-----------------------------------------------------------------------------
(* A step of the service: an answer that is awaited, or none.               *)
LEMMA ServiceFrame ==
    ASSUME TypeOK, NEW r \in inflight, Service(r)
    PROVE  \/ /\ Awaited(r)
              /\ stage' = [stage EXCEPT ![r.by] = "decide"]
              /\ \A d \in Calls \ {r.by} : answer'[d] = answer[d]
              /\ doubtful' \in {doubtful, doubtful \cup {r.by}}
              /\ r.op # "check" /\ Unclear(answer'[r.by]) => r.by \in doubtful'
              /\ answer'[r.by].status = "ok" => Perform(r) \/ Look(r)
              /\ Perform(r) => answer'[r.by].status = "ok" \/ Unclear(answer'[r.by])
           \/ ~Awaited(r) /\ UNCHANGED <<stage, answer, doubtful>>
<1>0. r.by \in Calls
    BY DEF TypeOK, ServiceTypeOK, Requests
<1>1. CASE ~Awaited(r)
    BY <1>1 DEF Service, Perform, Look, Refuse, TurnAway, Reply
<1>2. CASE Awaited(r)
  <2>1. PICK s \in Statuses, b \in Bodies :
            /\ Reply(r, s, b)
            /\ s = "ok" => Perform(r) \/ Look(r)
            /\ Perform(r) => s \in {"ok", "failed"}
    <3>1. CASE Perform(r)
        BY <3>1 DEF Perform, Statuses, Bodies
    <3>2. CASE Look(r) /\ ~Perform(r)
        BY <3>2 DEF Look, Statuses, Bodies
    <3>3. CASE (Refuse(r) \/ TurnAway(r)) /\ ~Perform(r)
        BY <3>3 DEF Refuse, TurnAway, Statuses, Bodies
    <3> QED
        BY <3>1, <3>2, <3>3 DEF Service
  <2>2. /\ answer' = [answer EXCEPT ![r.by] = [status |-> s, body |-> b]]
        /\ stage' = [stage EXCEPT ![r.by] = "decide"]
        /\ doubtful' = doubtful \cup
               {c \in {r.by} : Unclear([status |-> s, body |-> b]) /\ r.op # "check"}
      BY <1>2, <2>1 DEF Reply, Goto
  <2>3. /\ answer'[r.by] = [status |-> s, body |-> b]
        /\ \A d \in Calls \ {r.by} : answer'[d] = answer[d]
      BY <1>0, <2>2 DEF TypeOK, CallTypeOK
  <2>4. doubtful' \in {doubtful, doubtful \cup {r.by}}
      BY <2>2
  <2>5. r.op # "check" /\ Unclear(answer'[r.by]) => r.by \in doubtful'
      BY <2>2, <2>3
  <2>6. answer'[r.by].status = s
      BY <2>3
  <2>7. s = "failed" => Unclear(answer'[r.by])
      BY <2>6 DEF Unclear
  <2> QED
      BY <1>2, <2>1, <2>2, <2>3, <2>4, <2>5, <2>6, <2>7
<1> QED
    BY <1>1, <1>2

\* Only a write that is performed changes the history.
LEMMA HistoryStep ==
    ASSUME Inv, NEW r \in inflight, Service(r)
    PROVE  LifeInv' /\ ItemInv' /\ EffectInv'
<1> USE DEF Inv, HistoryInv
<1>0. /\ r \in Requests /\ r.by \in Calls
      /\ UNCHANGED <<resource, call, phase, attempt, exceptions, result>>
    BY ServiceType DEF Requests
<1>s. \A d \in Calls : stage[d] # "new" => stage'[d] # "new"
    BY <1>0, ServiceFrame DEF TypeOK, CallTypeOK
<1>h. /\ Len(history) \in Nat
      /\ \A i \in 1 .. Len(history) : history[i] \in Effects
    BY HistoryFacts
<1>1. CASE Perform(r)
  <2> DEFINE n == Len(history)
             e == Store!Effect(r.by, r, r.body)
  <2>1. /\ e \in Effects
        /\ e.by = r.by /\ e.op = r.op /\ e.body = r.body
        /\ r.op = "create" => e.item = n + 1 /\ (n > 0 => history[n].op = "delete")
        /\ r.op # "create" => /\ n > 0
                              /\ history[n].op # "delete"
                              /\ e.item = history[n].item
                              /\ e.item = r.item
                              /\ r.match \in {0, n}
        /\ Len(history') = n + 1
        /\ history'[n + 1] = e
        /\ \A i \in 1 .. n : history'[i] = history[i]
      BY <1>0, <1>1, Appended
  <2> HIDE DEF e
  <2>2. LifeInv'
    <3> SUFFICES ASSUME NEW j \in 1 .. n + 1
                 PROVE  /\ history'[j].op = "create" =>
                              /\ history'[j].item = j
                              /\ j > 1 => history'[j - 1].op = "delete"
                        /\ history'[j].op # "create" =>
                              /\ j > 1
                              /\ history'[j - 1].op # "delete"
                              /\ history'[j].item = history'[j - 1].item
        BY <2>1 DEF LifeInv
    <3>1. n \in Nat
        BY <1>h
    <3> HIDE DEF n
    <3>2. CASE j = n + 1
      <4>1. j > 1 => history'[j - 1] = history[n]
          BY <2>1, <3>1, <3>2
      <4>2. j > 1 <=> n > 0
          BY <3>1, <3>2
      <4> QED
          BY <2>1, <3>2, <4>1, <4>2
    <3>3. CASE j # n + 1
      <4>1. j \in 1 .. n
          BY <3>1, <3>3
      <4>2. history'[j] = history[j] /\ (j > 1 => history'[j - 1] = history[j - 1])
          BY <2>1, <3>1, <4>1
      <4> QED
          BY <4>1, <4>2 DEF LifeInv, n
    <3> QED
        BY <3>2, <3>3
  <2>3. ItemInv'
    <3>1. e.item <= n + 1 /\ \A i \in 1 .. n : history[i].op = "delete" => e.item > i
        BY <1>h, <2>1 DEF ItemInv, Effects
    <3> QED
        BY <1>h, <2>1, <3>1 DEF ItemInv
  <2>4. EffectInv'
    <3>1. /\ r.op = call[r.by].op /\ r.item = call[r.by].item
          /\ r.match = call[r.by].match /\ stage[r.by] # "new"
          /\ r.op # "check"
        BY <1>1, <2>1 DEF RequestInv, Effects
    <3>2. e.by # "others"
        BY <1>0, <2>1, CallsAssumption
    <3>3. \A i \in 1 .. n : history[i].by \in Calls \cup {"others"}
        BY <1>h DEF Effects
    <3> QED
        BY <1>0, <1>h, <1>s, <2>1, <3>1, <3>2, <3>3 DEF EffectInv
  <2> QED
      BY <2>2, <2>3, <2>4
<1>2. CASE ~Perform(r)
  <2>1. history' = history
      BY <1>2 DEF Service, Look, Refuse, TurnAway
  <2>2. \A i \in 1 .. Len(history) : history[i].by \in Calls \cup {"others"}
      BY <1>h DEF Effects
  <2> QED
      BY <1>0, <1>s, <2>1, <2>2 DEF LifeInv, ItemInv, EffectInv
<1> QED
    BY <1>1, <1>2

LEMMA ServiceInv ==
    ASSUME Inv, NEW r \in inflight, Service(r)
    PROVE  Inv'
<1> USE DEF Inv
<1>0. /\ TypeOK'
      /\ r \in Requests /\ r.by \in Calls
      /\ UNCHANGED <<resource, call, phase, attempt, exceptions, result>>
      /\ inflight' = inflight \ {r}
      /\ \A q \in inflight : q \in Requests /\ q.by \in Calls
    BY ServiceType DEF Requests, TypeOK, ServiceTypeOK
<1>1. \/ /\ Awaited(r)
         /\ stage' = [stage EXCEPT ![r.by] = "decide"]
         /\ \A d \in Calls \ {r.by} : answer'[d] = answer[d]
         /\ doubtful' \in {doubtful, doubtful \cup {r.by}}
         /\ r.op # "check" /\ Unclear(answer'[r.by]) => r.by \in doubtful'
         /\ answer'[r.by].status = "ok" => Perform(r) \/ Look(r)
         /\ Perform(r) => answer'[r.by].status = "ok" \/ Unclear(answer'[r.by])
      \/ ~Awaited(r) /\ UNCHANGED <<stage, answer, doubtful>>
    BY ServiceFrame
<1>2. /\ Awaited(r) => /\ stage[r.by] = "waiting" /\ stage'[r.by] = "decide"
                       /\ attempt[r.by] = r.n
                       /\ r.op = "check" <=> phase[r.by] = "check"
      /\ \A d \in Calls \ {r.by} : stage'[d] = stage[d]
    BY <1>0, <1>1 DEF Awaited, At, TypeOK, CallTypeOK
<1>3. PlaceInv'
    BY <1>0, <1>1, <1>2 DEF PlaceInv
<1>4. RequestInv'
    BY <1>0, <1>1, <1>2 DEF RequestInv
<1>5. FlightInv'
  <2> SUFFICES ASSUME NEW q \in inflight, q # r, q.op # "check", q.by \notin doubtful'
               PROVE  stage'[q.by] = "waiting" /\ phase[q.by] = "main" /\ attempt[q.by] = q.n
      BY <1>0 DEF FlightInv
  <2>1. stage[q.by] = "waiting" /\ phase[q.by] = "main" /\ attempt[q.by] = q.n
      BY <1>1 DEF FlightInv
  <2>2. CASE q.by = r.by /\ Awaited(r)
    <3>1. /\ q.by = r.by /\ q.n = r.n /\ q.item = r.item /\ q.match = r.match
          /\ q.op = r.op /\ q.body = r.body
        BY <1>2, <2>1, <2>2 DEF RequestInv
    <3>2. q = r
        BY <1>0, <3>1 DEF Requests
    <3> QED
        BY <3>2
  <2>3. CASE q.by # r.by \/ ~Awaited(r)
      BY <1>0, <1>1, <1>2, <2>1, <2>3
  <2> QED
      BY <2>2, <2>3
<1>6. AnswerInv'
  <2> SUFFICES ASSUME NEW d \in Calls
               PROVE  /\ Confirmed(d)' /\ Store!Writes(call[d])' => Store!TookEffect(d)'
                      /\ Store!TookEffect(d)' => Confirmed(d)' \/ d \in doubtful'
                      /\ Answered(d)' /\ Unclear(answer[d])' => d \in doubtful'
      BY DEF AnswerInv
  <2>1. Perform(r) => r.op \notin {"check", "get"} /\ Store!TookEffect(r.by)'
    <3>1. ASSUME Perform(r) PROVE r.op \in {"create", "update", "delete"}
        BY <3>1 DEF Perform, Store!Applicable, Store!Creates
    <3>2. ASSUME Perform(r) PROVE Store!TookEffect(r.by)'
        BY <1>0, <3>2, Appended, HistoryFacts DEF Store!TookEffect
    <3> QED
        BY <3>1, <3>2
  <2>2. Store!TookEffect(d) => Store!TookEffect(d)'
    <3>1. CASE Perform(r)
        BY <1>0, <3>1, Appended, HistoryFacts DEF Store!TookEffect
    <3>2. CASE ~Perform(r)
        BY <3>2 DEF Service, Look, Refuse, TurnAway, Store!TookEffect
    <3> QED
        BY <3>1, <3>2
  <2>3. Store!TookEffect(d)' /\ ~Store!TookEffect(d) => Perform(r) /\ d = r.by
    <3>1. CASE Perform(r)
        BY <1>0, <3>1, Appended, HistoryFacts DEF Store!TookEffect
    <3>2. CASE ~Perform(r)
        BY <3>2 DEF Service, Look, Refuse, TurnAway, Store!TookEffect
    <3> QED
        BY <3>1, <3>2
  <2>4. doubtful \subseteq doubtful'
      BY <1>1
  <2>5. CASE d # r.by \/ ~Awaited(r)
    <3>1. /\ Confirmed(d)' <=> Confirmed(d)
          /\ Answered(d)' /\ Unclear(answer[d])' => Answered(d) /\ Unclear(answer[d])
        BY <1>0, <1>1, <1>2, <2>5 DEF Confirmed, Answered, Unclear
    <3>2. Store!TookEffect(d)' /\ ~Store!TookEffect(d) => d \in doubtful
      <4>1. SUFFICES ASSUME Perform(r), d = r.by, d \notin doubtful
                     PROVE  FALSE
          BY <2>3
      <4>2. stage[d] = "waiting" /\ phase[d] = "main" /\ attempt[d] = r.n /\ r.op # "check"
          BY <2>1, <4>1 DEF FlightInv
      <4> QED
          BY <2>5, <4>1, <4>2 DEF Awaited, At
    <3> QED
        BY <1>0, <2>2, <2>4, <3>1, <3>2 DEF AnswerInv, Store!Writes
  <2>6. CASE d = r.by /\ Awaited(r)
    <3>1. ~Confirmed(d) /\ result[d] = "none" /\ stage'[d] = "decide"
        BY <1>2, <2>6 DEF Confirmed, Answered, PlaceInv
    <3>2. Confirmed(d)' /\ Store!Writes(call[d])' => Perform(r)
      <4>1. SUFFICES ASSUME Confirmed(d)', Store!Writes(call[d]) PROVE Perform(r)
          BY <1>0 DEF Store!Writes
      <4>2. phase[d] = "main" /\ answer'[d].status = "ok"
          BY <1>0, <3>1, <4>1 DEF Confirmed, Answered
      <4>3. r.op = call[d].op
          BY <1>2, <2>6, <4>2 DEF RequestInv
      <4>4. Perform(r) \/ Look(r)
          BY <1>1, <2>6, <4>2
      <4> QED
          BY <4>1, <4>3, <4>4 DEF Look, Store!Writes
    <3>3. Answered(d)' /\ Unclear(answer[d])' => d \in doubtful'
        BY <1>0, <1>1, <1>2, <2>6 DEF Answered
    <3>4. Perform(r) => Confirmed(d)' \/ d \in doubtful'
      <4>1. SUFFICES ASSUME Perform(r), d \notin doubtful' PROVE Confirmed(d)'
          OBVIOUS
      <4>2. phase[d] = "main" /\ answer'[d].status = "ok"
          BY <1>0, <1>1, <1>2, <2>1, <2>6, <4>1 DEF TypeOK, CallTypeOK
      <4> QED
          BY <1>0, <3>1, <4>2 DEF Confirmed, Answered
    <3>5. Store!TookEffect(d) => d \in doubtful'
        BY <2>4, <3>1 DEF AnswerInv
    <3> QED
        BY <2>1, <2>3, <2>6, <3>2, <3>3, <3>4, <3>5
  <2> QED
      BY <2>5, <2>6
<1> QED
    BY <1>0, <1>3, <1>4, <1>5, <1>6, HistoryStep DEF HistoryInv

LEMMA StepInv == Inv /\ [Next]_vars => Inv'
<1> SUFFICES ASSUME Inv, [Next]_vars PROVE Inv'
    OBVIOUS
<1>1. CASE Next
    BY <1>1, NextSplit, BeginInv, SendInv, LocalInv, ServiceInv
<1>2. CASE UNCHANGED vars
    BY <1>2 DEF Inv, vars, service, TypeOK, ServiceTypeOK, CallTypeOK, PlaceInv, RequestInv,
       HistoryInv, LifeInv, ItemInv, EffectInv, FlightInv, AnswerInv, Confirmed, Answered,
       Unclear, Store!TookEffect, Store!Writes
<1> QED
    BY <1>1, <1>2

LEMMA Invariance == Spec => []Inv
BY InitInv, StepInv, PTL DEF Spec
-----------------------------------------------------------------------------
\* Every variable keeps its type: the effects are those of calls, and no stage
\* is left in a state that the managers do not know.
THEOREM TypeCorrect == Spec => []TypeOK
BY Invariance, PTL DEF Inv

\* However often a request is sent again and however late it is served, a call
\* takes effect once where it can be told (the retries of client.go:325-331).
THEOREM EffectOnce == Spec => []OncePerCall
<1>1. ASSUME Inv PROVE OncePerCall
  <2> USE <1>1 DEF Inv, HistoryInv
  <2> SUFFICES ASSUME NEW i \in 1 .. Len(history), NEW j \in 1 .. Len(history),
                      i < j, history[i].by = history[j].by
               PROVE  \/ history[j].op = "update" /\ call[history[j].by].match = 0
                      \/ /\ history[j].op = "create"
                         /\ \E d \in i + 1 .. j - 1 : history[d].op = "delete"
      BY DEF OncePerCall
  <2>1. /\ Len(history) \in Nat
        /\ history[i] \in Effects /\ history[j] \in Effects
      BY HistoryFacts
  <2>2. /\ history[j].by # "others"
        /\ history[i].op = history[j].op
      BY <2>1 DEF EffectInv
  <2>3. CASE history[j].op = "create"
    <3>1. history[j - 1].op = "delete"
        BY <2>1, <2>3 DEF LifeInv
    <3>2. i # j - 1
        BY <2>2, <2>3, <3>1
    <3> QED
        BY <2>1, <2>3, <3>1, <3>2
  <2>4. CASE history[j].op = "delete"
    <3>1. history[i].item = history[j].item
        BY <2>1, <2>2, <2>4 DEF EffectInv
    <3>2. history[i].item <= i /\ history[j].item > i
        BY <2>1, <2>2, <2>4 DEF ItemInv
    <3> QED
        BY <2>1, <3>1, <3>2 DEF Effects
  <2>5. CASE history[j].op = "update"
      BY <2>1, <2>2, <2>5 DEF EffectInv
  <2> QED
      BY <2>1, <2>3, <2>4, <2>5 DEF Effects
<1> QED
    BY <1>1, Invariance, PTL

\* A condition is kept: what is replaced or deleted is the version named by
\* IfMatch, whatever other calls do in between (uploads.go:112, folders.go:151).
THEOREM ConditionKept == Spec => []NoLostUpdate
<1>1. ASSUME Inv PROVE NoLostUpdate
    BY <1>1 DEF Inv, HistoryInv, EffectInv, NoLostUpdate
<1> QED
    BY <1>1, Invariance, PTL

LEMMA MapInit == Init => Store!Init
<1> SUFFICES ASSUME Init PROVE Store!Init
    OBVIOUS
<1>1. \A c \in Calls : Told(c) = "open"
    BY DEF Init, Told
<1> QED
    BY <1>1 DEF Init, Store!Init, NoCall

\* What a call that has not returned is told does not change.
LEMMA ToldSame ==
    ASSUME NEW c \in Calls, result'[c] = result[c],
           result[c] = "none" \/ (c \in doubtful' <=> c \in doubtful)
    PROVE  Told(c)' = Told(c)
BY DEF Told

LEMMA MapBegin ==
    ASSUME Inv, NEW c \in Calls, Begin(c)
    PROVE  Store!Open(c)
<1>1. PICK k \in Arguments : call' = [call EXCEPT ![c] = k]
    BY DEF Begin
<1>2. call[c] = NoCall /\ UNCHANGED <<history, result, doubtful>>
    BY DEF Begin, At, service, Inv, PlaceInv
<1>3. \A d \in Calls : Told(d)' = Told(d)
    BY <1>2, ToldSame
<1>4. [d \in Calls |-> Told(d)]' = [d \in Calls |-> Told(d)]
    BY <1>3
<1>5. k \in [op : {"create", "update", "delete", "get"}, item : 0 .. Store!Version,
              match : 0 .. Store!Version, checked : BOOLEAN]
    BY ArgumentShape DEF Version, Inv
<1> QED
    BY <1>1, <1>2, <1>4, <1>5 DEF Store!Open, NoCall

LEMMA MapPerform ==
    ASSUME Inv, NEW r \in inflight, Perform(r)
    PROVE  r.by \in Calls /\ Store!Apply(r.by)
<1> USE DEF Inv
<1>0. /\ r \in Requests /\ r.by \in Calls
      /\ UNCHANGED <<call, phase, result>>
    BY ServiceType DEF Service, Requests
<1>1. /\ r.op = call[r.by].op /\ r.item = call[r.by].item
      /\ r.match = call[r.by].match /\ r.body = "whole" /\ r.op # "check"
    BY DEF RequestInv, Perform, Store!Applicable, Store!Creates
<1>2. Store!Applicable(call[r.by])
    BY <1>1 DEF Perform, Store!Applicable, Store!Creates
<1>3. history' = Append(history, Store!Effect(r.by, call[r.by], "whole"))
    BY <1>1 DEF Perform, Store!Effect, Store!Creates
<1>4. r.by \in doubtful \/ result[r.by] = "none"
    BY <1>0, <1>1 DEF FlightInv, PlaceInv
<1>5. Told(r.by) # "refused"
    BY <1>4 DEF Told
<1>6. \A d \in Calls : Told(d)' = Told(d)
  <2> SUFFICES ASSUME NEW d \in Calls PROVE Told(d)' = Told(d)
      OBVIOUS
  <2>1. /\ Awaited(r) => result[r.by] = "none"
        /\ d # r.by \/ ~Awaited(r) => (d \in doubtful' <=> d \in doubtful)
      BY <1>0, ServiceFrame DEF Service, Awaited, At, PlaceInv
  <2> QED
      BY <1>0, <2>1, ToldSame
<1>7. [d \in Calls |-> Told(d)]' = [d \in Calls |-> Told(d)]
    BY <1>6
<1> QED
    BY <1>0, <1>2, <1>3, <1>5, <1>7 DEF Store!Apply

LEMMA MapLocal ==
    ASSUME Inv, NEW c \in Calls, Local(c)
    PROVE  Store!Done(c) \/ Store!Refused(c) \/ Store!Unknown(c) \/ UNCHANGED Store!svars
<1> USE DEF Inv
<1>0. Framed(c) /\ TypeOK'
    BY LocalFrame, LocalType
<1>1. result[c] = "none" /\ UNCHANGED <<history, call>> /\ call[c] # NoCall
    BY <1>0 DEF Framed, PlaceInv, NoCall, Store!NoCall
<1>2. \A d \in Calls \ {c} : Told(d)' = Told(d)
    BY <1>0 DEF Framed, Told
<1>3. Told(c) = "open"
    BY <1>1 DEF Told
<1> DEFINE outcome == [d \in Calls |-> Told(d)]
<1>4. outcome' = [outcome EXCEPT ![c] = Told(c)']
    BY <1>2
<1>5. ASSUME NEW t, Told(c)' = t PROVE Store!Tell(c, t)
    BY <1>1, <1>3, <1>4, <1>5 DEF Store!Tell, NoCall
<1>6. CASE result'[c] = "none"
  <2>1. Told(c)' = Told(c)
      BY <1>1, <1>6 DEF Told
  <2>2. outcome' = outcome
      BY <1>2, <2>1
  <2> QED
      BY <1>1, <2>2 DEF Store!svars
<1>7. CASE result'[c] \in {"object", "nil"}
  <2>1. Told(c)' = "done"
      BY <1>7 DEF Told
  <2>2. Confirmed(c)
      BY <1>0, <1>7 DEF Framed, Confirmed
  <2>3. Store!Writes(call[c]) => Store!TookEffect(c)
      BY <2>2 DEF AnswerInv
  <2> QED
      BY <1>5, <2>1, <2>3 DEF Store!Done
<1>8. CASE result'[c] \in {"error", "panic"} /\ c \in doubtful'
  <2>1. Told(c)' = "unknown"
      BY <1>8 DEF Told
  <2> QED
      BY <1>5, <2>1 DEF Store!Unknown
<1>9. CASE result'[c] \in {"error", "panic"} /\ c \notin doubtful'
  <2>1. Told(c)' = "refused"
      BY <1>9 DEF Told
  <2>2. ~Confirmed(c)'
      BY <1>0, <1>9 DEF Framed, Confirmed, Answered
  <2>3. ~Store!TookEffect(c)
      BY <1>0, <1>9, <2>2 DEF Framed, AnswerInv
  <2> QED
      BY <1>5, <2>1, <2>3 DEF Store!Refused
<1> QED
    BY <1>0, <1>6, <1>7, <1>8, <1>9 DEF TypeOK, CallTypeOK

\* The other steps are not seen.
LEMMA MapQuiet ==
    ASSUME Inv
    PROVE  /\ \A c \in Calls : Send(c) => UNCHANGED Store!svars
           /\ \A r \in inflight : Service(r) /\ ~Perform(r) => UNCHANGED Store!svars
           /\ UNCHANGED vars => UNCHANGED Store!svars
<1> USE DEF Inv
<1>1. ASSUME UNCHANGED <<history, call>>, \A d \in Calls : Told(d)' = Told(d)
      PROVE  UNCHANGED Store!svars
    BY <1>1 DEF Store!svars
<1>2. ASSUME NEW c \in Calls, Send(c) PROVE UNCHANGED Store!svars
  <2>1. UNCHANGED <<history, call, result, doubtful>>
      BY <1>2 DEF Send
  <2> QED
      BY <1>1, <2>1, ToldSame
<1>3. ASSUME NEW r \in inflight, Service(r), ~Perform(r) PROVE UNCHANGED Store!svars
  <2>0. r.by \in Calls /\ UNCHANGED <<call, result>>
      BY <1>3, ServiceType DEF Requests
  <2>1. history' = history
      BY <1>3 DEF Service, Look, Refuse, TurnAway
  <2>2. \A d \in Calls : Told(d)' = Told(d)
    <3> SUFFICES ASSUME NEW d \in Calls PROVE Told(d)' = Told(d)
        OBVIOUS
    <3>1. /\ Awaited(r) => result[r.by] = "none"
          /\ d # r.by \/ ~Awaited(r) => (d \in doubtful' <=> d \in doubtful)
        BY <1>3, <2>0, ServiceFrame DEF Awaited, At, PlaceInv
    <3> QED
        BY <2>0, <3>1, ToldSame
  <2> QED
      BY <1>1, <2>0, <2>1, <2>2
<1>4. ASSUME UNCHANGED vars PROVE UNCHANGED Store!svars
  <2>1. UNCHANGED <<history, call, result, doubtful>>
      BY <1>4 DEF vars, service
  <2> QED
      BY <1>1, <2>1, ToldSame
<1> QED
    BY <1>2, <1>3, <1>4

\* The calls implement the store: what they answer is true of what is stored,
\* for any number of calls, retries and delays.
THEOREM Refinement == Spec => AnswersAreTrue
<1>1. Inv /\ [Next]_vars => [Store!Next]_(Store!svars)
  <2> SUFFICES ASSUME Inv, [Next]_vars PROVE [Store!Next]_(Store!svars)
      OBVIOUS
  <2>1. ASSUME NEW c \in Calls, Begin(c) \/ Send(c) \/ Local(c)
        PROVE  [Store!Next]_(Store!svars)
      BY <2>1, MapBegin, MapLocal, MapQuiet DEF Store!Next
  <2>2. ASSUME NEW r \in inflight, Service(r) PROVE [Store!Next]_(Store!svars)
      BY <2>2, MapPerform, MapQuiet DEF Store!Next
  <2>3. CASE UNCHANGED vars
      BY <2>3, MapQuiet
  <2> QED
      BY <2>1, <2>2, <2>3, NextSplit
<1> QED
    BY <1>1, MapInit, Invariance, PTL DEF Spec, AnswersAreTrue, Store!Spec
-----------------------------------------------------------------------------
(* What an application learns from the answers of several calls.            *)

Succeeded(c) == result[c] \in {"object", "nil"}
Failed(c)    == result[c] \in {"error", "panic"}

Wins(c)    == Succeeded(c) /\ call[c].op \in {"update", "delete"} /\ call[c].match # 0
Creator(c) == Succeeded(c) /\ call[c].op = "create"

OneWinner ==
    \A c, d \in Calls : Wins(c) /\ Wins(d) /\ call[c].match = call[d].match => c = d

OneCreator ==
    (\A i \in 1 .. Len(history) : history[i].op # "delete") =>
        \A c, d \in Calls : Creator(c) /\ Creator(d) => c = d

StoredWhole == \A i \in 1 .. Len(history) : history[i].body = "whole"

Refused(c)  == Failed(c) /\ c \notin doubtful
NoEffect(c) == ~Store!TookEffect(c)

\* Two effects of calls that name the same version are one and the same.
LEMMA SameEffect ==
    ASSUME Inv, NEW c \in Calls, NEW d \in Calls, Wins(c), Wins(d),
           call[c].match = call[d].match
    PROVE  c = d
<1> USE DEF Wins, Succeeded
<1>1. Store!TookEffect(c) /\ Store!TookEffect(d)
    BY DEF Inv, AnswerInv, Confirmed, Store!Writes
<1>2. PICK i \in 1 .. Len(history) : history[i].by = c
    BY <1>1 DEF Store!TookEffect
<1>3. PICK j \in 1 .. Len(history) : history[j].by = d
    BY <1>1 DEF Store!TookEffect
<1>4. c # "others" /\ d # "others"
    BY CallsAssumption
<1>5. call[c].match = i - 1
    BY <1>2, <1>4 DEF Inv, HistoryInv, EffectInv
<1>6. call[d].match = j - 1
    BY <1>3, <1>4 DEF Inv, HistoryInv, EffectInv
<1>7. i \in Int /\ j \in Int
    OBVIOUS
<1>8. i - 1 = j - 1
    BY <1>5, <1>6
<1>9. i = j
    BY <1>7, <1>8
<1> QED BY <1>2, <1>3, <1>9

\* IfMatch is a compare-and-swap across retries: of the calls that replace or
\* delete the same version only one is told that it did, however many of their
\* requests were sent again or served late (uploads.go:112, folders.go:151).
THEOREM VersionHasOneWinner == Spec => []OneWinner
<1>1. Inv => OneWinner
    BY SameEffect DEF OneWinner
<1> QED BY <1>1, Invariance, PTL

\* A name that is never deleted is created by one call at most: no retry that
\* finds its own earlier request served is told that it created a second item
\* (uploads.go:66, folders.go:38).
THEOREM NameHasOneCreator == Spec => []OneCreator
<1>1. ASSUME Inv, NEW c \in Calls, NEW d \in Calls, Creator(c), Creator(d),
             \A i \in 1 .. Len(history) : history[i].op # "delete"
      PROVE  c = d
  <2>1. Store!TookEffect(c) /\ Store!TookEffect(d)
      BY <1>1 DEF Creator, Succeeded, Inv, AnswerInv, Confirmed, Store!Writes
  <2>2. PICK i \in 1 .. Len(history) : history[i].by = c
      BY <2>1 DEF Store!TookEffect
  <2>3. PICK j \in 1 .. Len(history) : history[j].by = d
      BY <2>1 DEF Store!TookEffect
  <2>4. c # "others" /\ d # "others"
      BY CallsAssumption
  <2>5. history[i].op = "create" /\ history[j].op = "create"
      BY <1>1, <2>2, <2>3, <2>4 DEF Creator, Inv, HistoryInv, EffectInv
  <2>6. Len(history) \in Nat
      BY <1>1, HistoryFacts DEF Inv
  <2>7. \A k \in 1 .. Len(history) : history[k].op = "create" => k = 1
    <3> SUFFICES ASSUME NEW k \in 1 .. Len(history), history[k].op = "create", k > 1
                 PROVE  FALSE
        BY <2>6
    <3>1. history[k - 1].op = "delete"
        BY <1>1 DEF Inv, HistoryInv, LifeInv
    <3> QED BY <1>1, <2>6, <3>1
  <2>8. i = j
      BY <2>5, <2>7
  <2> QED BY <2>2, <2>3, <2>8
<1>2. Inv => OneCreator
    BY <1>1 DEF OneCreator
<1> QED BY <1>2, Invariance, PTL

\* What is stored is the whole content, although every attempt after the first
\* sends a stream that has been read to its end (client.go:116, 183).
THEOREM ContentIsWhole == Spec => []StoredWhole
<1>1. Init => StoredWhole
    BY DEF Init, Store!Histories, StoredWhole
<1>2. Inv /\ StoredWhole /\ [Next]_vars => StoredWhole'
  <2> SUFFICES ASSUME Inv, StoredWhole, [Next]_vars PROVE StoredWhole'
      OBVIOUS
  <2>1. Len(history) \in Nat
      BY HistoryFacts DEF Inv
  <2>2. ASSUME NEW r \in inflight, Perform(r) PROVE StoredWhole'
    <3>1. r \in Requests /\ r.body = "whole"
        BY DEF Inv, TypeOK, ServiceTypeOK, RequestInv
    <3>2. /\ history'[Len(history) + 1].body = "whole"
          /\ Len(history') = Len(history) + 1
          /\ \A i \in 1 .. Len(history) : history'[i] = history[i]
        BY <2>2, <3>1, Appended DEF Inv
    <3> QED BY <2>1, <3>2 DEF StoredWhole
  <2>3. CASE UNCHANGED history
      BY <2>3 DEF StoredWhole
  <2>4. ASSUME NEW c \in Calls, Begin(c) \/ Send(c) \/ Local(c) PROVE UNCHANGED history
      BY <2>4 DEF Begin, Send, Local, Prepared, ContentUnreadable, HeaderFails,
         TransportFails, Retry, RetryFails, FetchFails, Finish, CheckPassed,
         CheckUnusable, service
  <2>5. ASSUME NEW r \in inflight, Service(r), ~Perform(r) PROVE UNCHANGED history
      BY <2>5 DEF Service, Look, Refuse, TurnAway
  <2>6. UNCHANGED vars => UNCHANGED history
      BY DEF vars, service
  <2> QED BY <2>2, <2>3, <2>4, <2>5, <2>6, NextSplit
<1> QED BY <1>1, <1>2, Invariance, PTL DEF Spec

\* A call that has returned stays as it is.
LEMMA ReturnedStays ==
    ASSUME Inv, [Next]_vars, NEW c \in Calls, Refused(c)
    PROVE  Refused(c)'
<1> USE DEF Inv, Refused, Failed
<1>1. stage[c] = "returned"
    BY DEF PlaceInv
<1>2. CASE UNCHANGED vars
    BY <1>2 DEF vars
<1>3. ASSUME NEW d \in Calls, Begin(d) \/ Send(d) PROVE Refused(c)'
    BY <1>3 DEF Begin, Send
<1>4. ASSUME NEW d \in Calls, Local(d) PROVE Refused(c)'
  <2>0. TypeOK /\ PlaceInv /\ AnswerInv
      OBVIOUS
  <2>1. Framed(d)
      BY <1>4, <2>0, LocalFrame
  <2>2. c # d
      BY <1>1, <2>1 DEF Framed
  <2> QED BY <1>1, <2>1, <2>2 DEF Framed
<1>5. ASSUME NEW r \in inflight, Service(r) PROVE Refused(c)'
  <2>0. TypeOK
      OBVIOUS
  <2>1. UNCHANGED result
      BY <1>5, <2>0, ServiceType
  <2>2. \/ doubtful' = doubtful
        \/ doubtful' = doubtful \cup {r.by} /\ stage[r.by] = "waiting"
      BY <1>5, <2>0, ServiceFrame DEF Awaited, At
  <2> QED BY <1>1, <2>1, <2>2
<1> QED BY <1>2, <1>3, <1>4, <1>5, NextSplit

\* A refusal is final: once a call has failed with every attempt answered
\* clearly, none of its requests takes effect at any later time, whatever is
\* still under way (client.go:315-331).
THEOREM RefusalIsFinal ==
    ASSUME NEW c \in Calls
    PROVE  Spec => [](Refused(c) => []NoEffect(c))
<1>1. Inv /\ Refused(c) => NoEffect(c)
    BY DEF Inv, AnswerInv, Confirmed, Answered, Refused, Failed, PlaceInv, NoEffect
<1>2. Inv /\ Refused(c) /\ [Next]_vars => Refused(c)'
    BY ReturnedStays
<1>3. []Inv /\ [][Next]_vars => [](Refused(c) => []NoEffect(c))
    BY <1>1, <1>2, PTL
<1> QED BY <1>3, Invariance, PTL DEF Spec
-----------------------------------------------------------------------------
(* What a call can cost.  Each of its requests takes effect at most once,   *)
(* so a call that nothing makes idempotent takes effect no more often than  *)
(* it may be sent: what took effect and what is still under way is counted  *)
(* against the attempts so far.                                             *)
Base == IF MaxAttempts = 0 THEN 1 ELSE MaxAttempts
RequestLimit == Base + MaxRetriesOnException

\* The two counters of `do`, as in FetchLoopProofs.
Budgeted(c) ==
    /\ stage[c] \in {"new", "prepare", "returned"} => attempt[c] = 1 /\ exceptions[c] = 0
    /\ stage[c] \in {"send", "waiting"} =>
         /\ exceptions[c] <= MaxRetriesOnException
         /\ attempt[c] <= Base + exceptions[c]
         /\ exceptions[c] < attempt[c]
    /\ stage[c] = "decide" /\ answer[c].status = "exception" =>
         /\ exceptions[c] <= MaxRetriesOnException + 1
         /\ attempt[c] < Base + exceptions[c]
         /\ exceptions[c] <= attempt[c]
    /\ stage[c] = "decide" /\ answer[c].status # "exception" =>
         /\ exceptions[c] <= MaxRetriesOnException
         /\ attempt[c] <= Base + exceptions[c]
         /\ exceptions[c] < attempt[c]

BudgetInv == \A c \in Calls : Budgeted(c)

EffectsOf(c) == {i \in 1 .. Len(history) : history[i].by = c}
PendingOf(c) == {r \in inflight : r.by = c /\ r.op # "check"}

\* Requests of the main Fetch so far; once it has returned, any number it may make.
Sent(c) ==
    IF stage[c] = "returned" THEN RequestLimit
    ELSE IF phase[c] = "check" THEN 0
    ELSE IF stage[c] \in {"waiting", "decide"} THEN attempt[c]
    ELSE IF stage[c] = "send" THEN attempt[c] - 1
    ELSE 0

Accounted(c) ==
    /\ IsFiniteSet(PendingOf(c))
    /\ Cardinality(EffectsOf(c)) + Cardinality(PendingOf(c)) <= Sent(c)

EffectsBounded == \A c \in Calls : Cardinality(EffectsOf(c)) <= RequestLimit

LEMMA LimitFacts ==
    /\ Base \in Nat /\ Base >= 1 /\ MaxAttempts <= Base
    /\ MaxAttempts \in Nat /\ MaxRetriesOnException \in Nat
    /\ RequestLimit \in Nat /\ RequestLimit = Base + MaxRetriesOnException
BY CallsAssumption DEF Base, RequestLimit

LEMMA BudgetSame ==
    ASSUME NEW d \in Calls, Budgeted(d),
           stage'[d] = stage[d], attempt'[d] = attempt[d],
           exceptions'[d] = exceptions[d], answer'[d] = answer[d]
    PROVE  Budgeted(d)'
BY DEF Budgeted, Base

\* A step of a call leaves the locals of the others alone.
LEMMA BudgetOfOthers ==
    ASSUME TypeOK, NEW c \in Calls, Begin(c) \/ Send(c) \/ Local(c), NEW d \in Calls \ {c}
    PROVE  /\ stage'[d] = stage[d] /\ attempt'[d] = attempt[d]
           /\ exceptions'[d] = exceptions[d] /\ answer'[d] = answer[d]
           /\ phase'[d] = phase[d]
BY DEF TypeOK, CallTypeOK, Goto, Return, Begin, Send, Local, Prepared, ContentUnreadable,
       HeaderFails, TransportFails, Retry, RetryFails, FetchFails, Finish, CheckPassed,
       CheckUnusable

LEMMA BudgetCall ==
    ASSUME TypeOK, NEW c \in Calls, Budgeted(c), Begin(c) \/ Send(c) \/ Local(c)
    PROVE  Budgeted(c)'
<1> USE LimitFacts DEF TypeOK, CallTypeOK, At, Goto
<1>0. /\ attempt[c] \in Nat /\ exceptions[c] \in Nat
      /\ Base' = Base
    BY DEF Base
<1>1. CASE Begin(c)
    BY <1>0, <1>1 DEF Begin, Budgeted
<1>2. CASE Send(c)
    BY <1>0, <1>2 DEF Send, Budgeted
<1>3. CASE Prepared(c)
    BY <1>0, <1>3 DEF Prepared, Budgeted
<1>4. CASE TransportFails(c)
    <2>1. /\ stage[c] = "waiting" /\ stage'[c] = "decide"
          /\ attempt'[c] = attempt[c] /\ exceptions'[c] = exceptions[c] + 1
          /\ answer'[c].status = "exception"
        BY <1>4 DEF TransportFails, Nothing
    <2> QED BY <1>0, <2>1 DEF Budgeted
<1>5. CASE Retry(c)
    <2>1. /\ stage[c] = "decide" /\ stage'[c] = "send"
          /\ attempt'[c] = attempt[c] + 1 /\ exceptions'[c] = exceptions[c]
        BY <1>5 DEF Retry, Readable, AttemptAfter
    <2>2. CASE answer[c].status = "exception"
        <3>1. exceptions[c] <= MaxRetriesOnException
            BY <1>5, <2>2 DEF Retry, ShouldRetry, Retried
        <3> QED BY <1>0, <2>1, <2>2, <3>1 DEF Budgeted
    <2>3. CASE answer[c].status # "exception"
        <3>1. attempt[c] < MaxAttempts
            BY <1>5, <2>3 DEF Retry, ShouldRetry
        <3> QED BY <1>0, <2>1, <2>3, <3>1 DEF Budgeted
    <2> QED BY <2>2, <2>3
<1>6. CASE CheckPassed(c)
    BY <1>0, <1>6 DEF CheckPassed, Budgeted
<1>7. ASSUME NEW x, Return(c, x) PROVE Budgeted(c)'
    BY <1>0, <1>7 DEF Return, Budgeted
<1> QED
    BY <1>1, <1>2, <1>3, <1>4, <1>5, <1>6, <1>7
       DEF Local, ContentUnreadable, HeaderFails, RetryFails, FetchFails, Finish,
           CheckUnusable

LEMMA BudgetService ==
    ASSUME TypeOK, BudgetInv, NEW r \in inflight, Service(r)
    PROVE  BudgetInv'
<1> SUFFICES ASSUME NEW d \in Calls PROVE Budgeted(d)'
    BY DEF BudgetInv
<1>0. Budgeted(d)
    BY DEF BudgetInv
<1>1. r.by \in Calls /\ UNCHANGED <<attempt, exceptions>>
    BY ServiceType DEF Requests
<1>2. CASE d # r.by \/ ~Awaited(r)
    <2>1. stage'[d] = stage[d] /\ answer'[d] = answer[d]
        BY <1>2, ServiceFrame DEF TypeOK, CallTypeOK
    <2> QED BY <1>0, <1>1, <2>1, BudgetSame
<1>3. CASE d = r.by /\ Awaited(r)
    <2>1. PICK s \in Statuses \ {"exception"}, b \in Bodies : Reply(r, s, b)
        <3>1. CASE Perform(r)
            BY <3>1 DEF Perform, Statuses, Bodies
        <3>2. CASE Look(r)
            BY <3>2 DEF Look, Statuses, Bodies
        <3>3. CASE Refuse(r) \/ TurnAway(r)
            BY <3>3 DEF Refuse, TurnAway, Statuses, Bodies
        <3> QED BY <3>1, <3>2, <3>3 DEF Service
    <2>2. /\ stage[d] = "waiting" /\ stage'[d] = "decide"
          /\ answer'[d].status # "exception"
        BY <1>1, <1>3, <2>1 DEF Reply, Awaited, At, Goto, TypeOK, CallTypeOK
    <2>3. UNCHANGED <<attempt, exceptions>> /\ Base' = Base
        BY <1>1 DEF Base
    <2> QED BY <1>0, <2>2, <2>3 DEF Budgeted
<1> QED BY <1>2, <1>3

LEMMA SentBound ==
    ASSUME TypeOK, NEW c \in Calls, Budgeted(c)
    PROVE  Sent(c) \in Int /\ Sent(c) <= RequestLimit
<1>1. attempt[c] \in Nat /\ exceptions[c] \in Nat
    BY DEF TypeOK, CallTypeOK
<1> QED BY <1>1, LimitFacts DEF Sent, Budgeted

\* No step takes back what a call has been counted.
LEMMA SentGrows ==
    ASSUME TypeOK, NEW c \in Calls, Budgeted(c), Begin(c) \/ Local(c)
    PROVE  Sent(c)' \in Int /\ Sent(c) <= Sent(c)'
<1> USE DEF TypeOK, CallTypeOK, At, Goto
<1>0. /\ attempt[c] \in Nat /\ RequestLimit' = RequestLimit /\ RequestLimit \in Nat
      /\ Sent(c) \in Int /\ Sent(c) <= RequestLimit
    BY SentBound, LimitFacts DEF RequestLimit, Base
<1>1. CASE Begin(c)
    <2>1. stage[c] = "new" /\ stage'[c] = "prepare"
        BY <1>1 DEF Begin
    <2> QED BY <2>1 DEF Sent
<1>2. CASE Prepared(c)
    <2>1. /\ stage[c] = "prepare" /\ stage'[c] = "send"
          /\ attempt[c] = 1 /\ UNCHANGED <<phase, attempt>>
        BY <1>2 DEF Prepared, Budgeted
    <2> QED BY <2>1 DEF Sent
<1>3. CASE TransportFails(c)
    <2>1. stage[c] = "waiting" /\ stage'[c] = "decide" /\ UNCHANGED <<phase, attempt>>
        BY <1>3 DEF TransportFails
    <2> QED BY <1>0, <2>1 DEF Sent
<1>4. CASE Retry(c)
    <2>1. /\ stage[c] = "decide" /\ stage'[c] = "send" /\ UNCHANGED phase
          /\ attempt'[c] = attempt[c] + 1
        BY <1>4 DEF Retry, Readable, AttemptAfter
    <2> QED BY <1>0, <2>1 DEF Sent
<1>5. CASE CheckPassed(c)
    <2>1. stage[c] = "decide" /\ phase[c] = "check" /\ stage'[c] = "prepare"
        BY <1>5 DEF CheckPassed, Succeeds, Readable
    <2> QED BY <2>1 DEF Sent
<1>6. ASSUME NEW x, Return(c, x) PROVE Sent(c)' \in Int /\ Sent(c) <= Sent(c)'
    <2>1. stage'[c] = "returned"
        BY <1>6 DEF Return
    <2>2. Sent(c)' = RequestLimit
        BY <1>0, <2>1 DEF Sent
    <2> QED BY <1>0, <2>2
<1> QED
    BY <1>1, <1>2, <1>3, <1>4, <1>5, <1>6
       DEF Local, ContentUnreadable, HeaderFails, RetryFails, FetchFails, Finish,
           CheckUnusable

LEMMA EffectsFinite ==
    ASSUME TypeOK, NEW c
    PROVE  IsFiniteSet(EffectsOf(c)) /\ Cardinality(EffectsOf(c)) \in Nat
<1>1. Len(history) \in Nat
    BY HistoryFacts
<1>2. IsFiniteSet(1 .. Len(history))
    BY <1>1, FS_Interval
<1>3. EffectsOf(c) \subseteq 1 .. Len(history)
    BY DEF EffectsOf
<1> QED BY <1>2, <1>3, FS_Subset, FS_CardinalityType

\* What is neither sent nor served anew is counted as before.
LEMMA AccountSame ==
    ASSUME TypeOK, NEW d \in Calls, Accounted(d), Sent(d) \in Int,
           EffectsOf(d)' = EffectsOf(d), PendingOf(d)' = PendingOf(d),
           Sent(d)' \in Int, Sent(d) <= Sent(d)'
    PROVE  Accounted(d)'
<1>1. Cardinality(EffectsOf(d)) \in Nat /\ Cardinality(PendingOf(d)) \in Nat
    BY EffectsFinite, FS_CardinalityType DEF Accounted
<1>2. IsFiniteSet(PendingOf(d)')
    BY DEF Accounted
<1>3. Cardinality(EffectsOf(d)') + Cardinality(PendingOf(d)') <= Sent(d)'
    BY <1>1 DEF Accounted
<1> QED BY <1>2, <1>3 DEF Accounted

\* A request is sent, and counted with its attempt.
LEMMA AccountSend ==
    ASSUME TypeOK, NEW c \in Calls, Budgeted(c), Accounted(c), Send(c)
    PROVE  Accounted(c)'
<1>0. /\ stage[c] = "send" /\ stage'[c] = "waiting" /\ attempt[c] \in Nat
      /\ UNCHANGED <<phase, attempt, history, call>>
      /\ inflight' = inflight \cup {Request(c)}
    BY DEF Send, At, Goto, TypeOK, CallTypeOK
<1>1. EffectsOf(c)' = EffectsOf(c)
    BY <1>0 DEF EffectsOf
<1>2. Cardinality(EffectsOf(c)) \in Nat /\ Cardinality(PendingOf(c)) \in Nat
    BY EffectsFinite, FS_CardinalityType DEF Accounted
<1>3. CASE phase[c] = "check"
    <2>1. Request(c).op = "check"
        BY <1>3 DEF Request
    <2>2. PendingOf(c)' = PendingOf(c)
        BY <1>0, <2>1 DEF PendingOf
    <2>3. Sent(c) = 0 /\ Sent(c)' = 0
        BY <1>0, <1>3 DEF Sent
    <2> QED BY <1>1, <2>2, <2>3, AccountSame
<1>4. CASE phase[c] # "check"
    <2>1. Sent(c) = attempt[c] - 1 /\ Sent(c)' = attempt[c]
        BY <1>0, <1>4 DEF Sent
    <2>2. PendingOf(c)' = PendingOf(c) \/ PendingOf(c)' = PendingOf(c) \cup {Request(c)}
        BY <1>0 DEF PendingOf
    <2>3. CASE PendingOf(c)' = PendingOf(c)
        BY <1>0, <1>1, <2>1, <2>3, AccountSame
    <2>4. CASE PendingOf(c)' = PendingOf(c) \cup {Request(c)}
        <3>1. /\ IsFiniteSet(PendingOf(c)')
              /\ Cardinality(PendingOf(c)') <= Cardinality(PendingOf(c)) + 1
              /\ Cardinality(PendingOf(c)') \in Nat
            BY <1>2, <2>4, FS_AddElement, FS_CardinalityType DEF Accounted
        <3>2. Cardinality(EffectsOf(c)') + Cardinality(PendingOf(c)') <= Sent(c)'
            BY <1>0, <1>1, <1>2, <2>1, <3>1 DEF Accounted
        <3> QED BY <3>1, <3>2 DEF Accounted
    <2> QED BY <2>2, <2>3, <2>4
<1> QED BY <1>3, <1>4

\* A request is served: if it takes effect, it is under way no more.
LEMMA AccountService ==
    ASSUME Inv, NEW r \in inflight, Service(r), NEW d \in Calls, Budgeted(d), Accounted(d)
    PROVE  Accounted(d)'
<1> USE DEF Inv
<1>0. /\ r \in Requests /\ r.by \in Calls /\ inflight' = inflight \ {r}
      /\ UNCHANGED <<phase, attempt>>
    BY ServiceType DEF Requests
<1>1. Sent(d) \in Int /\ Sent(d)' = Sent(d)
    <2>1. \/ stage'[d] = stage[d]
          \/ stage[d] = "waiting" /\ stage'[d] = "decide"
        BY <1>0, ServiceFrame DEF Awaited, At, TypeOK, CallTypeOK
    <2>2. RequestLimit' = RequestLimit
        BY DEF RequestLimit, Base
    <2> QED BY <1>0, <2>1, <2>2, SentBound DEF Sent
<1>2. Cardinality(EffectsOf(d)) \in Nat /\ Cardinality(PendingOf(d)) \in Nat
    BY EffectsFinite, FS_CardinalityType DEF Accounted
<1>3. PendingOf(d)' = PendingOf(d) \ {r}
    BY <1>0 DEF PendingOf
<1>4. /\ IsFiniteSet(PendingOf(d)')
      /\ Cardinality(PendingOf(d)') \in Nat
      /\ r \in PendingOf(d) => Cardinality(PendingOf(d)') = Cardinality(PendingOf(d)) - 1
      /\ r \notin PendingOf(d) => Cardinality(PendingOf(d)') = Cardinality(PendingOf(d))
    BY <1>3, FS_RemoveElement, FS_CardinalityType DEF Accounted
<1>5. CASE Perform(r) /\ r.by = d
    <2>1. r \in PendingOf(d)
        BY <1>5 DEF PendingOf, Perform, Store!Applicable, Store!Creates
    <2>2. /\ Len(history) \in Nat /\ Len(history') = Len(history) + 1
          /\ history'[Len(history) + 1].by = d
          /\ \A i \in 1 .. Len(history) : history'[i] = history[i]
        BY <1>0, <1>5, Appended, HistoryFacts
    <2>3. EffectsOf(d)' = EffectsOf(d) \cup {Len(history) + 1}
        BY <2>2 DEF EffectsOf
    <2>4. Len(history) + 1 \notin EffectsOf(d)
        BY <2>2 DEF EffectsOf
    <2>5. Cardinality(EffectsOf(d)') = Cardinality(EffectsOf(d)) + 1
        BY <2>3, <2>4, EffectsFinite, FS_AddElement
    <2>6. Cardinality(EffectsOf(d)') + Cardinality(PendingOf(d)') <= Sent(d)'
        BY <1>1, <1>2, <1>4, <2>1, <2>5 DEF Accounted
    <2> QED BY <1>4, <2>6 DEF Accounted
<1>6. CASE ~(Perform(r) /\ r.by = d)
    <2>1. EffectsOf(d)' = EffectsOf(d)
        <3>1. CASE Perform(r)
            <4>1. /\ Len(history) \in Nat /\ Len(history') = Len(history) + 1
                  /\ history'[Len(history) + 1].by # d
                  /\ \A i \in 1 .. Len(history) : history'[i] = history[i]
                BY <1>0, <1>6, <3>1, Appended, HistoryFacts
            <4> QED BY <4>1 DEF EffectsOf
        <3>2. CASE ~Perform(r)
            BY <3>2 DEF Service, Look, Refuse, TurnAway, EffectsOf
        <3> QED BY <3>1, <3>2
    <2>2. Cardinality(EffectsOf(d)') + Cardinality(PendingOf(d)') <= Sent(d)'
        BY <1>1, <1>2, <1>4, <2>1 DEF Accounted
    <2> QED BY <1>4, <2>2 DEF Accounted
<1> QED BY <1>5, <1>6

CostInv == BudgetInv /\ \A c \in Calls : Accounted(c)

LEMMA CostStep == Inv /\ CostInv /\ [Next]_vars => CostInv'
<1> SUFFICES ASSUME Inv, CostInv, [Next]_vars PROVE CostInv'
    OBVIOUS
<1>0. TypeOK /\ \A d \in Calls : Budgeted(d) /\ Accounted(d) /\ Sent(d) \in Int
    BY SentBound DEF Inv, CostInv, BudgetInv
<1>1. ASSUME NEW c \in Calls, Begin(c) \/ Send(c) \/ Local(c) PROVE CostInv'
    <2>1. ASSUME NEW d \in Calls PROVE Budgeted(d)'
        <3>1. CASE d = c
            BY <1>0, <1>1, <3>1, BudgetCall
        <3>2. CASE d # c
            BY <1>0, <1>1, <3>2, BudgetOfOthers, BudgetSame
        <3> QED BY <3>1, <3>2
    <2>2. ASSUME NEW d \in Calls PROVE Accounted(d)'
        <3>1. history' = history
            BY <1>1
               DEF Begin, Send, Local, Prepared, ContentUnreadable, HeaderFails,
                   TransportFails, Retry, RetryFails, FetchFails, Finish, CheckPassed,
                   CheckUnusable, service
        <3>2. EffectsOf(d)' = EffectsOf(d)
            BY <3>1 DEF EffectsOf
        <3>3. CASE d = c /\ Send(c)
            BY <1>0, <3>3, AccountSend
        <3>4. PendingOf(d)' = PendingOf(d) \/ (d = c /\ Send(c))
            <4>1. \/ inflight' = inflight
                  \/ Send(c) /\ inflight' = inflight \cup {Request(c)}
                BY <1>1
                   DEF Begin, Send, Local, Prepared, ContentUnreadable, HeaderFails,
                       TransportFails, Retry, RetryFails, FetchFails, Finish,
                       CheckPassed, CheckUnusable, service
            <4>2. Request(c).by = c
                BY DEF Request
            <4> QED BY <4>1, <4>2 DEF PendingOf
        <3>5. CASE d # c
            <4>1. Sent(d)' = Sent(d)
                BY <1>0, <1>1, <3>5, BudgetOfOthers DEF Sent, RequestLimit, Base
            <4> QED BY <1>0, <3>2, <3>4, <3>5, <4>1, AccountSame
        <3>6. CASE d = c /\ ~Send(c)
            BY <1>0, <1>1, <3>2, <3>4, <3>6, SentGrows, AccountSame
        <3> QED BY <3>3, <3>5, <3>6
    <2> QED BY <2>1, <2>2 DEF CostInv, BudgetInv
<1>2. ASSUME NEW r \in inflight, Service(r) PROVE CostInv'
    BY <1>0, <1>2, BudgetService, AccountService DEF CostInv
<1>3. CASE UNCHANGED vars
    BY <1>3
       DEF vars, service, CostInv, BudgetInv, Budgeted, Base, Accounted, EffectsOf,
           PendingOf, Sent, RequestLimit
<1> QED BY <1>1, <1>2, <1>3, NextSplit

LEMMA CostInit == Init => CostInv
<1> SUFFICES ASSUME Init, NEW c \in Calls PROVE Budgeted(c) /\ Accounted(c)
    BY DEF CostInv, BudgetInv
<1>1. Budgeted(c)
    BY DEF Init, Budgeted
<1>2. EffectsOf(c) = {}
    BY CallsAssumption DEF Init, Store!Histories, EffectsOf
<1>3. PendingOf(c) = {}
    BY DEF Init, PendingOf
<1>4. Sent(c) = 0
    BY DEF Init, Sent
<1> QED BY <1>1, <1>2, <1>3, <1>4, FS_EmptySet DEF Accounted

\* What a retried call may do at worst: without a condition a version can be
\* uploaded again with every retry, but no more often than the budget of one
\* Fetch allows, and however late its requests are served (client.go:315-331,
\* retries.go:39-49).
THEOREM EffectsWithinBudget == Spec => []EffectsBounded
<1>1. Inv /\ CostInv => EffectsBounded
    <2> SUFFICES ASSUME Inv, CostInv, NEW c \in Calls
                 PROVE  Cardinality(EffectsOf(c)) <= RequestLimit
        BY DEF EffectsBounded
    <2>1. Sent(c) \in Int /\ Sent(c) <= RequestLimit
        BY SentBound DEF Inv, CostInv, BudgetInv
    <2>2. Cardinality(EffectsOf(c)) \in Nat /\ Cardinality(PendingOf(c)) \in Nat
        BY EffectsFinite, FS_CardinalityType DEF Inv, CostInv, Accounted
    <2> QED BY <2>1, <2>2, LimitFacts DEF CostInv, Accounted
<1> QED BY <1>1, CostInit, CostStep, Invariance, PTL DEF Spec
=============================================================================
