--------------------------- MODULE SessionsProofs ---------------------------
(***************************************************************************)
(* Proofs about Sessions: whatever is derived from a session leaves it as  *)
(* it was built, and where a name has one spelling every attempt of a call *)
(* presents the headers in the documented order of precedence.             *)
(***************************************************************************)
EXTENDS Sessions, TLAPS, SequenceTheorems

\* A sequence, of whatever: the objects on the heap need no types here.
IsSeq(s) == \E S : s \in Seq(S)

Slices == [array : Nat, len : Nat]
Records == [headers : Nat, interceptors : Slices, fields : [Fields -> {"default", "custom"}]]

-----------------------------------------------------------------------------
(* The invariant.                                                           *)

\* Sessions point to objects that exist, and never to the application's map.
HeapInv ==
    /\ IsSeq(maps) /\ Len(maps) >= 1
    /\ IsSeq(arrays)
    /\ sessions \in Seq(Records)
    /\ IsSeq(built) /\ Len(built) = Len(sessions)
    /\ \A n \in 1 .. Len(sessions) :
           /\ sessions[n].headers \in 2 .. Len(maps)
           /\ sessions[n].interceptors.array \in 1 .. Len(arrays)

\* A call keeps a copy of what it was given.
CallInv ==
    /\ call \in [Calls -> [session : Nat, explicit : Nat, get : BOOLEAN, auth : BOOLEAN]]
    /\ sent = [c \in Calls |-> sent[c]]
    /\ asked = [c \in Calls |-> asked[c]]
    /\ \A c \in Calls :
           \/ call[c] = NoCall /\ sent[c] = {}
           \/ /\ call[c] # NoCall
              /\ call[c].session \in 1 .. Len(sessions)
              /\ call[c].explicit \in 2 .. Len(maps)
              /\ maps[call[c].explicit] = asked[c]

\* What was presented is what the session was built with and the call given.
SentInv ==
    \A c \in Calls : \A p \in sent[c] :
        LET as == built[call[c].session] IN
        /\ p.interceptors = as.interceptors
        /\ p.headers \in Presentable(buildHeaders(c, as.headers, asked[c]))

Inv == HeapInv /\ LooksAsBuilt /\ CallInv /\ SentInv
-----------------------------------------------------------------------------
(* The heap only grows, but for the application's own map.                  *)
LEMMA AppendFacts ==
    ASSUME NEW s, IsSeq(s), NEW e
    PROVE  /\ IsSeq(Append(s, e))
           /\ Len(s) \in Nat
           /\ Len(Append(s, e)) = Len(s) + 1
           /\ Append(s, e)[Len(s) + 1] = e
           /\ \A i \in 1 .. Len(s) : Append(s, e)[i] = s[i]
<1>1. PICK S : s \in Seq(S)
    BY DEF IsSeq
<1>2. s \in Seq(S \cup {e})
    BY <1>1, SeqMonotonic
<1>3. e \in S \cup {e}
    OBVIOUS
<1> DEFINE T == S \cup {e}
<1> HIDE DEF T
<1>4. s \in Seq(T) /\ e \in T
    BY <1>2, <1>3 DEF T
<1>5. /\ Append(s, e) \in Seq(T)
      /\ Len(s) \in Nat
      /\ Len(Append(s, e)) = Len(s) + 1
      /\ Append(s, e)[Len(s) + 1] = e
      /\ \A i \in 1 .. Len(s) : Append(s, e)[i] = s[i]
    BY <1>4
<1> QED
    BY <1>5 DEF IsSeq

LEMMA ExceptFacts ==
    ASSUME NEW s, IsSeq(s), NEW e, Len(s) >= 1
    PROVE  LET t == [s EXCEPT ![1] = e] IN
           IsSeq(t) /\ Len(t) = Len(s) /\ \A i \in 2 .. Len(s) : t[i] = s[i]
<1>1. PICK S : s \in Seq(S)
    BY DEF IsSeq
<1>2. s \in Seq(S \cup {e})
    BY <1>1, SeqMonotonic
<1> DEFINE T == S \cup {e}
           t == [s EXCEPT ![1] = e]
<1>3. e \in T
    OBVIOUS
<1>4. Len(s) \in Nat
    BY <1>1, LenProperties
<1>5. s \in Seq(T)
    BY <1>2
<1> HIDE DEF T
<1>6. /\ t \in Seq(T)
      /\ Len(t) = Len(s)
      /\ \A j \in 1 .. Len(s) : t[j] = IF j = 1 THEN e ELSE s[j]
    BY <1>3, <1>4, <1>5, ExceptSeq
<1>7. IsSeq(t)
    BY <1>6 DEF IsSeq
<1> QED
    BY <1>4, <1>6, <1>7

LEMMA InitInv == Init => Inv
<1> SUFFICES ASSUME Init PROVE Inv
    OBVIOUS
<1> DEFINE first == [headers |-> 2, interceptors |-> [array |-> 1, len |-> 0],
                     fields |-> [f \in Fields |-> "default"]]
           look == [headers |-> NoHeaders, interceptors |-> [j \in {} |-> "free"],
                    fields |-> [f \in Fields |-> "default"]]
<1>1. sessions = <<first>> /\ built = <<look>> /\ maps = <<NoHeaders, NoHeaders>>
    BY DEF Init
<1>2. PICK a : arrays = <<a>>
    BY DEF Init
<1>3. first \in Records
    BY DEF Records, Slices
<1>4. \A x, y : <<x>> \in Seq({x}) /\ <<x, y>> \in Seq({x, y})
    OBVIOUS
<1>5. IsSeq(maps) /\ IsSeq(arrays) /\ IsSeq(built)
    BY <1>1, <1>2, <1>4 DEF IsSeq
<1>6. sessions \in Seq(Records) /\ Len(sessions) = 1 /\ sessions[1] = first
    BY <1>1, <1>3
<1>7. Len(maps) = 2 /\ Len(arrays) = 1 /\ Len(built) = 1 /\ built[1] = look /\ maps[2] = NoHeaders
    BY <1>1, <1>2
<1>8. HeapInv
    BY <1>5, <1>6, <1>7 DEF HeapInv
<1>9. Elements([array |-> 1, len |-> 0]) = [j \in {} |-> "free"]
    BY DEF Elements
<1>10. LooksAsBuilt
    BY <1>6, <1>7, <1>9 DEF LooksAsBuilt, Look
<1>11. CallInv /\ SentInv
    BY DEF Init, CallInv, SentInv, NoCall
<1> QED
    BY <1>8, <1>10, <1>11 DEF Inv
-----------------------------------------------------------------------------
(* A step that only adds to the heap.                                       *)
Grows(objects, objectsp, first) ==
    /\ IsSeq(objectsp)
    /\ Len(objectsp) \in Nat
    /\ Len(objectsp) >= Len(objects)
    /\ \A i \in first .. Len(objects) : objectsp[i] = objects[i]

LEMMA SameGrows == ASSUME NEW s, IsSeq(s), NEW k PROVE Grows(s, s, k)
<1>1. PICK S : s \in Seq(S)
    BY DEF IsSeq
<1>2. Len(s) \in Nat
    BY <1>1, LenProperties
<1> QED
    BY <1>2 DEF Grows

LEMMA AppendGrows ==
    ASSUME NEW s, IsSeq(s), NEW e
    PROVE  Grows(s, Append(s, e), 1) /\ Len(Append(s, e)) = Len(s) + 1 /\ Append(s, e)[Len(s) + 1] = e
    BY AppendFacts DEF Grows

LEMMA RecordFacts ==
    ASSUME NEW x, NEW y, NEW z, NEW r, r = [headers |-> x, interceptors |-> y, fields |-> z]
    PROVE  /\ x = r.headers /\ y = r.interceptors
           /\ \A e : /\ [r EXCEPT !.headers = e] = [headers |-> e, interceptors |-> y, fields |-> z]
                    /\ [r EXCEPT !.interceptors = e] = [headers |-> x, interceptors |-> e, fields |-> z]
                    /\ [r EXCEPT !.fields = e] = [headers |-> x, interceptors |-> y, fields |-> e]
    OBVIOUS

\* A session of the old heap looks the same in one that only grew.
LEMMA LooksKept ==
    ASSUME HeapInv, LooksAsBuilt,
           Grows(maps, maps', 2), Grows(arrays, arrays', 1)
    PROVE  \A n \in 1 .. Len(sessions) :
               /\ maps'[sessions[n].headers] = maps[sessions[n].headers]
               /\ maps[sessions[n].headers] = built[n].headers
               /\ sessions[n].headers \in 2 .. Len(maps')
               /\ sessions[n].interceptors.array \in 1 .. Len(arrays')
               /\ [j \in 1 .. sessions[n].interceptors.len |->
                      arrays'[sessions[n].interceptors.array][j]] = built[n].interceptors
               /\ Elements(sessions[n].interceptors) = built[n].interceptors
               /\ [headers |-> maps'[sessions[n].headers],
                   interceptors |-> [j \in 1 .. sessions[n].interceptors.len |->
                                        arrays'[sessions[n].interceptors.array][j]],
                   fields |-> sessions[n].fields] = built[n]
<1> SUFFICES ASSUME NEW n \in 1 .. Len(sessions)
             PROVE  /\ maps'[sessions[n].headers] = maps[sessions[n].headers]
                    /\ maps[sessions[n].headers] = built[n].headers
                    /\ sessions[n].headers \in 2 .. Len(maps')
                    /\ sessions[n].interceptors.array \in 1 .. Len(arrays')
                    /\ [j \in 1 .. sessions[n].interceptors.len |->
                           arrays'[sessions[n].interceptors.array][j]] = built[n].interceptors
                    /\ Elements(sessions[n].interceptors) = built[n].interceptors
                    /\ [headers |-> maps'[sessions[n].headers],
                        interceptors |-> [j \in 1 .. sessions[n].interceptors.len |->
                                             arrays'[sessions[n].interceptors.array][j]],
                        fields |-> sessions[n].fields] = built[n]
    OBVIOUS
<1> DEFINE h == sessions[n].headers
           a == sessions[n].interceptors.array
           l == sessions[n].interceptors.len
<1>1. h \in 2 .. Len(maps) /\ a \in 1 .. Len(arrays)
    BY DEF HeapInv
<1>2. Len(maps) \in Nat /\ Len(arrays) \in Nat
    BY AppendFacts DEF HeapInv
<1>3. maps'[h] = maps[h] /\ arrays'[a] = arrays[a]
    BY <1>1 DEF Grows
<1>4. h \in 2 .. Len(maps') /\ a \in 1 .. Len(arrays')
    BY <1>1, <1>2 DEF Grows
<1>5. [headers |-> maps[h], interceptors |-> [j \in 1 .. l |-> arrays[a][j]],
       fields |-> sessions[n].fields] = built[n]
    BY DEF LooksAsBuilt, Look, Elements
<1>6. [j \in 1 .. l |-> arrays'[a][j]] = [j \in 1 .. l |-> arrays[a][j]]
    BY <1>3
<1>8. maps[h] = built[n].headers /\ [j \in 1 .. l |-> arrays[a][j]] = built[n].interceptors
    <2> DEFINE list == [j \in 1 .. l |-> arrays[a][j]]
    <2>1. built[n] = [headers |-> maps[h], interceptors |-> list, fields |-> sessions[n].fields]
        BY <1>5
    <2> HIDE DEF list
    <2>2. maps[h] = built[n].headers /\ list = built[n].interceptors
        BY <2>1, RecordFacts
    <2> QED
        BY <2>2 DEF list
<1> QED
    BY <1>3, <1>4, <1>5, <1>6, <1>8 DEF Elements

\* What the calls were given and presented, on a heap that only grew.
LEMMA CallsKept ==
    ASSUME Inv, Grows(maps, maps', 2),
           call' = call, sent' = sent, asked' = asked,
           Len(sessions') \in Nat, Len(sessions') >= Len(sessions),
           \A n \in 1 .. Len(sessions) : built'[n] = built[n]
    PROVE  CallInv' /\ SentInv'
<1>1. Len(maps) \in Nat /\ Len(sessions) \in Nat
    BY AppendFacts DEF Inv, HeapInv
<1>2. ASSUME NEW c \in Calls, call[c] # NoCall
      PROVE  /\ call[c].session \in 1 .. Len(sessions)
             /\ call[c].session \in 1 .. Len(sessions')
             /\ call[c].explicit \in 2 .. Len(maps')
             /\ maps'[call[c].explicit] = asked[c]
    BY <1>1, <1>2 DEF Inv, CallInv, Grows
<1>3. CallInv'
    BY <1>2 DEF Inv, CallInv, NoCall
<1>4. ASSUME NEW c \in Calls, NEW p \in sent[c]
      PROVE  LET as == built'[call[c].session] IN
             /\ p.interceptors = as.interceptors
             /\ p.headers \in Presentable(buildHeaders(c, as.headers, asked[c]))
    <2>1. call[c] # NoCall
        BY <1>4 DEF Inv, CallInv
    <2>2. built'[call[c].session] = built[call[c].session]
        BY <1>2, <2>1
    <2> QED
        BY <2>2, <1>4 DEF Inv, SentInv
<1>5. \A c, m, e : buildHeaders(c, m, e)' = buildHeaders(c, m, e)'
    OBVIOUS
<1>6. SentInv'
    BY <1>4 DEF SentInv, buildHeaders, Content, Auth, Agent, Sdk
<1> QED
    BY <1>3, <1>6

LEMMA DeriveInv ==
    ASSUME Inv, NEW session \in Records, NEW as, Derive(session, as),
           Grows(maps, maps', 1), Grows(arrays, arrays', 1),
           session.headers \in 2 .. Len(maps'),
           session.interceptors.array \in 1 .. Len(arrays'),
           [headers |-> maps'[session.headers],
            interceptors |-> [j \in 1 .. session.interceptors.len |->
                                 arrays'[session.interceptors.array][j]],
            fields |-> session.fields] = as
    PROVE  Inv'
<1> USE DEF Inv
<1>1. Len(sessions) \in Nat /\ Len(built) = Len(sessions) /\ Len(maps) \in Nat
    BY AppendFacts DEF HeapInv
<1>2. /\ sessions' \in Seq(Records)
      /\ Len(sessions') = Len(sessions) + 1
      /\ sessions'[Len(sessions) + 1] = session
      /\ \A n \in 1 .. Len(sessions) : sessions'[n] = sessions[n]
    BY DEF HeapInv, Derive
<1>3. /\ IsSeq(built')
      /\ Len(built') = Len(sessions')
      /\ built'[Len(sessions) + 1] = as
      /\ \A n \in 1 .. Len(sessions) : built'[n] = built[n]
    <2>1. IsSeq(built)
        BY DEF HeapInv
    <2>2. /\ IsSeq(Append(built, as))
          /\ Len(Append(built, as)) = Len(built) + 1
          /\ Append(built, as)[Len(built) + 1] = as
          /\ \A n \in 1 .. Len(built) : Append(built, as)[n] = built[n]
        BY <2>1, AppendFacts
    <2>3. built' = Append(built, as)
        BY DEF Derive
    <2> QED
        BY <1>1, <1>2, <2>2, <2>3
<1>4. Grows(maps, maps', 2)
    BY <1>1 DEF Grows
<1>5. \A n \in 1 .. Len(sessions') : n = Len(sessions) + 1 \/ n \in 1 .. Len(sessions)
    BY <1>1, <1>2
<1>6. HeapInv'
    <2>1. ASSUME NEW n \in 1 .. Len(sessions')
          PROVE  /\ sessions'[n].headers \in 2 .. Len(maps')
                 /\ sessions'[n].interceptors.array \in 1 .. Len(arrays')
        BY <1>2, <1>4, <1>5, LooksKept
    <2>2. IsSeq(maps') /\ Len(maps') >= 1 /\ IsSeq(arrays')
        BY <1>1 DEF Grows, HeapInv
    <2> QED
        BY <1>2, <1>3, <2>1, <2>2 DEF HeapInv
<1>7. LooksAsBuilt'
    <2>1. ASSUME NEW n \in 1 .. Len(sessions')
          PROVE  [headers |-> maps'[sessions'[n].headers],
                  interceptors |-> [j \in 1 .. sessions'[n].interceptors.len |->
                                       arrays'[sessions'[n].interceptors.array][j]],
                  fields |-> sessions'[n].fields] = built'[n]
        <3>1. CASE n = Len(sessions) + 1
            BY <3>1, <1>2, <1>3
        <3>2. CASE n \in 1 .. Len(sessions)
            BY <3>2, <1>2, <1>3, <1>4, LooksKept
        <3> QED
            BY <3>1, <3>2, <1>5
    <2> QED
        BY <2>1 DEF LooksAsBuilt, Look, Elements
<1>8. CallInv' /\ SentInv'
    <2>1. call' = call /\ sent' = sent /\ asked' = asked
        BY DEF Derive
    <2>2. Len(sessions') \in Nat /\ Len(sessions') >= Len(sessions)
        BY <1>1, <1>2
    <2> QED
        BY <1>3, <1>4, <2>1, <2>2, CallsKept
<1> QED
    BY <1>6, <1>7, <1>8
-----------------------------------------------------------------------------
(* One lemma per operation.                                                 *)
LEMMA SessionFacts ==
    ASSUME HeapInv
    PROVE  /\ Len(maps) \in Nat /\ Len(arrays) \in Nat
           /\ \A n \in 1 .. Len(sessions) : sessions[n] \in Records
    BY AppendFacts DEF HeapInv

LEMMA EditInv == Inv /\ Edit => Inv'
<1> SUFFICES ASSUME Inv, Edit PROVE Inv'
    OBVIOUS
<1>1. PICK k \in Keys, v \in Values : maps' = [maps EXCEPT ![1] = Entry(k, v)]
    BY DEF Edit
<1>2. UNCHANGED <<arrays, sessions, call, sent, built, asked>>
    BY DEF Edit
<1>3. HeapInv /\ LooksAsBuilt
    BY DEF Inv
<1>4. Grows(maps, maps', 2) /\ Len(maps') = Len(maps)
    <2> DEFINE t == [maps EXCEPT ![1] = Entry(k, v)]
    <2>1. IsSeq(maps) /\ Len(maps) >= 1 /\ Len(maps) \in Nat
        BY <1>3, SessionFacts DEF HeapInv
    <2>2. IsSeq(t) /\ Len(t) = Len(maps) /\ \A i \in 2 .. Len(maps) : t[i] = maps[i]
        BY <2>1, ExceptFacts
    <2> QED
        BY <1>1, <2>1, <2>2 DEF Grows
<1>5. Grows(arrays, arrays', 1)
    BY <1>2, <1>3, SameGrows DEF HeapInv
<1>6. HeapInv'
    BY <1>2, <1>3, <1>4 DEF HeapInv, Grows
<1>7. LooksAsBuilt'
    BY <1>2, <1>3, <1>4, <1>5, LooksKept DEF LooksAsBuilt, Look, Elements
<1>8. CallInv' /\ SentInv'
    <2>1. Len(sessions') \in Nat
        BY <1>2, <1>3 DEF HeapInv
    <2> QED
        BY <1>2, <1>4, <2>1, CallsKept
<1> QED
    BY <1>6, <1>7, <1>8 DEF Inv

LEMMA HeadersInv ==
    ASSUME Inv, NEW n \in 1 .. Len(sessions), WithAdditionalHeaders(n)
    PROVE  Inv'
<1> DEFINE s == sessions[n]
           m == Overlay(maps[s.headers], maps[1])
           new == [s EXCEPT !.headers = NewMap]
           as == [built[n] EXCEPT !.headers = Overlay(built[n].headers, maps[1])]
<1>1. HeapInv /\ LooksAsBuilt
    BY DEF Inv
<1>2. s \in Records /\ Len(maps) \in Nat /\ Len(maps) >= 1
    BY <1>1, SessionFacts DEF HeapInv
<1>3. maps' = Append(maps, m) /\ arrays' = arrays /\ Derive(new, as)
    BY DEF WithAdditionalHeaders, MergeTarget, Put, NewMap
<1>4. Grows(maps, maps', 1) /\ Len(maps') = Len(maps) + 1 /\ maps'[NewMap] = m
    BY <1>1, <1>3, AppendGrows DEF HeapInv, NewMap
<1>5. Grows(arrays, arrays', 1) /\ Grows(maps, maps', 2)
    BY <1>1, <1>2, <1>3, <1>4, SameGrows DEF HeapInv, Grows
<1>6. /\ maps[s.headers] = built[n].headers
      /\ s.interceptors.array \in 1 .. Len(arrays')
      /\ [j \in 1 .. s.interceptors.len |-> arrays'[s.interceptors.array][j]] = built[n].interceptors
      /\ [headers |-> maps'[s.headers], interceptors |-> built[n].interceptors,
          fields |-> s.fields] = built[n]
    BY <1>1, <1>5, LooksKept
<1>7. NewMap \in Nat /\ NewMap \in 2 .. Len(maps')
    BY <1>2, <1>4 DEF NewMap
<1>8. /\ new \in Records /\ new.headers = NewMap
      /\ new.interceptors = s.interceptors /\ new.fields = s.fields
    BY <1>2, <1>7 DEF Records
<1>9. as = [headers |-> m, interceptors |-> built[n].interceptors, fields |-> s.fields]
    BY <1>6, RecordFacts
<1> HIDE DEF new, as, m, s
<1>10. [headers |-> maps'[new.headers],
        interceptors |-> [j \in 1 .. new.interceptors.len |-> arrays'[new.interceptors.array][j]],
        fields |-> new.fields] = as
    BY <1>4, <1>6, <1>8, <1>9
<1> QED
    BY <1>3, <1>4, <1>5, <1>6, <1>7, <1>8, <1>10, DeriveInv

LEMMA InterceptorsInv ==
    ASSUME Inv, NEW n \in 1 .. Len(sessions), WithInterceptors(n)
    PROVE  Inv'
<1> DEFINE s == sessions[n]
           l == s.interceptors.len
           new == [s EXCEPT !.interceptors = [array |-> Len(arrays) + 1, len |-> l + 1]]
           L(i) == [j \in 1 .. l + 1 |-> IF j <= l THEN built[n].interceptors[j] ELSE i]
           as(i) == [built[n] EXCEPT !.interceptors = L(i)]
           a(i, room) == [j \in 1 .. l + 1 + room |->
                             IF j <= l THEN arrays[s.interceptors.array][j]
                             ELSE IF j = l + 1 THEN i ELSE "free"]
<1>1. HeapInv /\ LooksAsBuilt
    BY DEF Inv
<1>2. /\ s \in Records /\ s.interceptors \in Slices /\ l \in Nat
      /\ Len(maps) \in Nat /\ Len(arrays) \in Nat
    BY <1>1, SessionFacts DEF HeapInv, Records, Slices
<1>3. PICK i \in Interceptors, room \in 0 .. 1 :
          /\ arrays' = Append(arrays, a(i, room))
          /\ Derive(new, as(i))
          /\ maps' = maps
    BY DEF WithInterceptors, AppendTarget, Put
<1>4. /\ Grows(arrays, arrays', 1) /\ Len(arrays') = Len(arrays) + 1
      /\ arrays'[Len(arrays) + 1] = a(i, room)
    BY <1>1, <1>3, AppendGrows DEF HeapInv
<1>5. Grows(maps, maps', 1) /\ Grows(maps, maps', 2)
    BY <1>1, <1>3, SameGrows DEF HeapInv
<1>6. /\ s.headers \in 2 .. Len(maps')
      /\ [j \in 1 .. l |-> arrays[s.interceptors.array][j]] = built[n].interceptors
      /\ [headers |-> maps'[s.headers], interceptors |-> built[n].interceptors,
          fields |-> s.fields] = built[n]
    BY <1>1, <1>4, <1>5, LooksKept DEF Elements
<1>7. \A j \in 1 .. l : arrays[s.interceptors.array][j] = built[n].interceptors[j]
    BY <1>6
<1>8. [j \in 1 .. l + 1 |-> a(i, room)[j]] = L(i)
    <2>1. ASSUME NEW j \in 1 .. l + 1 PROVE a(i, room)[j] = L(i)[j]
        <3>1. j \in 1 .. l + 1 + room
            BY <1>2
        <3>2. CASE j <= l
            BY <3>1, <3>2, <1>2, <1>7
        <3>3. CASE j = l + 1
            BY <3>1, <3>3, <1>2
        <3> QED
            BY <3>2, <3>3, <1>2
    <2> HIDE DEF a
    <2> QED
        BY <2>1
<1>9. /\ new \in Records /\ new.headers = s.headers /\ new.fields = s.fields
      /\ new.interceptors.array = Len(arrays) + 1 /\ new.interceptors.len = l + 1
    <2> DEFINE list == [array |-> Len(arrays) + 1, len |-> l + 1]
    <2>1. list \in Slices /\ list.array = Len(arrays) + 1 /\ list.len = l + 1
        BY <1>2 DEF Slices
    <2>2. new = [s EXCEPT !.interceptors = list]
        OBVIOUS
    <2> HIDE DEF list, new, s
    <2>3. /\ new \in Records /\ new.headers = s.headers /\ new.fields = s.fields
          /\ new.interceptors = list
        BY <1>2, <2>1, <2>2 DEF Records
    <2> QED
        BY <2>1, <2>3
<1>10. as(i) = [headers |-> maps'[s.headers], interceptors |-> L(i), fields |-> s.fields]
    <2> HIDE DEF L
    <2> QED
        BY <1>6, RecordFacts
<1> HIDE DEF a, L
<1>11. [j \in 1 .. l + 1 |-> arrays'[Len(arrays) + 1][j]] = L(i)
    BY <1>4, <1>8
<1> HIDE DEF new, as, s, l
<1>12. [headers |-> maps'[new.headers],
        interceptors |-> [j \in 1 .. new.interceptors.len |-> arrays'[new.interceptors.array][j]],
        fields |-> new.fields] = as(i)
    BY <1>9, <1>10, <1>11
<1>13. new.headers \in 2 .. Len(maps') /\ new.interceptors.array \in 1 .. Len(arrays')
    BY <1>2, <1>4, <1>6, <1>9
<1> QED
    BY <1>3, <1>4, <1>5, <1>9, <1>12, <1>13, DeriveInv

LEMMA FieldsInv ==
    ASSUME Inv, NEW n \in 1 .. Len(sessions), NEW changed, SetFields(n, changed)
    PROVE  Inv'
<1> DEFINE s == sessions[n]
           f == [x \in Fields |-> IF x \in changed THEN "custom" ELSE s.fields[x]]
           new == [s EXCEPT !.fields = f]
           as == [built[n] EXCEPT !.fields = f]
<1>1. HeapInv /\ LooksAsBuilt
    BY DEF Inv
<1>2. s \in Records /\ f \in [Fields -> {"default", "custom"}]
    BY <1>1, SessionFacts DEF HeapInv, Records
<1>3. maps' = maps /\ arrays' = arrays /\ Derive(new, as)
    BY DEF SetFields
<1>4. Grows(maps, maps', 1) /\ Grows(maps, maps', 2) /\ Grows(arrays, arrays', 1)
    BY <1>1, <1>3, SameGrows DEF HeapInv
<1>5. /\ s.headers \in 2 .. Len(maps') /\ s.interceptors.array \in 1 .. Len(arrays')
      /\ [headers |-> maps'[s.headers],
          interceptors |-> [j \in 1 .. s.interceptors.len |-> arrays'[s.interceptors.array][j]],
          fields |-> s.fields] = built[n]
    BY <1>1, <1>4, LooksKept
<1> HIDE DEF f
<1>6. /\ new \in Records /\ new.headers = s.headers
      /\ new.interceptors = s.interceptors /\ new.fields = f
    BY <1>2 DEF Records
<1>7. as = [headers |-> maps'[s.headers],
            interceptors |-> [j \in 1 .. s.interceptors.len |-> arrays'[s.interceptors.array][j]],
            fields |-> f]
    <2> DEFINE list == [j \in 1 .. s.interceptors.len |-> arrays'[s.interceptors.array][j]]
    <2>1. built[n] = [headers |-> maps'[s.headers], interceptors |-> list, fields |-> s.fields]
        BY <1>5
    <2> HIDE DEF list, s
    <2>2. as = [headers |-> maps'[s.headers], interceptors |-> list, fields |-> f]
        BY <2>1, RecordFacts
    <2> QED
        BY <2>2 DEF list
<1> HIDE DEF new, as, s
<1> QED
    BY <1>3, <1>4, <1>5, <1>6, <1>7, DeriveInv

\* What a call is given is copied to a map of its own.
LEMMA StartInv ==
    ASSUME Inv, NEW c \in Calls, Start(c)
    PROVE  Inv'
<1> DEFINE m == prepareParams(maps[1])
<1>1. HeapInv /\ LooksAsBuilt /\ CallInv /\ SentInv
    BY DEF Inv
<1>2. Len(maps) \in Nat /\ Len(maps) >= 1 /\ Len(sessions) \in Nat
    BY <1>1, SessionFacts DEF HeapInv
<1>3. PICK n \in 1 .. Len(sessions), get \in BOOLEAN, auth \in BOOLEAN :
          call' = [call EXCEPT ![c] =
                      [session |-> n, explicit |-> NewMap, get |-> get, auth |-> auth]]
    BY DEF Start
<1>4. /\ call[c] = NoCall
      /\ maps' = Append(maps, m)
      /\ asked' = [asked EXCEPT ![c] = m]
      /\ UNCHANGED <<arrays, sessions, sent, built>>
    BY DEF Start
<1>5. Grows(maps, maps', 1) /\ Len(maps') = Len(maps) + 1 /\ maps'[Len(maps) + 1] = m
    BY <1>1, <1>4, AppendGrows DEF HeapInv
<1>6. Grows(maps, maps', 2) /\ Grows(arrays, arrays', 1)
    BY <1>1, <1>2, <1>4, <1>5, SameGrows DEF HeapInv, Grows
<1>7. HeapInv'
    BY <1>1, <1>2, <1>4, <1>5, <1>6, LooksKept DEF HeapInv, Grows
<1>8. LooksAsBuilt'
    BY <1>1, <1>4, <1>6, LooksKept DEF LooksAsBuilt, Look, Elements
<1> DEFINE new == [session |-> n, explicit |-> NewMap, get |-> get, auth |-> auth]
<1>9. /\ call'[c] = new /\ asked'[c] = m
      /\ \A x \in Calls \ {c} : call'[x] = call[x] /\ asked'[x] = asked[x]
    BY <1>1, <1>3, <1>4 DEF CallInv
<1>10. new \in [session : Nat, explicit : Nat, get : BOOLEAN, auth : BOOLEAN] /\ new # NoCall
    BY <1>2 DEF NewMap, NoCall
<1>11. CallInv'
    <2>1. /\ call' \in [Calls -> [session : Nat, explicit : Nat, get : BOOLEAN, auth : BOOLEAN]]
          /\ asked' = [x \in Calls |-> asked'[x]]
          /\ sent' = [x \in Calls |-> sent'[x]]
        BY <1>1, <1>3, <1>4, <1>10 DEF CallInv
    <2>2. ASSUME NEW x \in Calls
          PROVE  \/ call'[x] = NoCall /\ sent'[x] = {}
                 \/ /\ call'[x] # NoCall
                    /\ call'[x].session \in 1 .. Len(sessions')
                    /\ call'[x].explicit \in 2 .. Len(maps')
                    /\ maps'[call'[x].explicit] = asked'[x]
        <3>1. CASE x = c
            BY <3>1, <1>2, <1>4, <1>5, <1>9, <1>10 DEF NewMap
        <3>2. CASE x # c
            <4>1. call'[x] = call[x] /\ asked'[x] = asked[x] /\ sent'[x] = sent[x] /\ sessions' = sessions
                BY <3>2, <1>4, <1>9
            <4> QED
                BY <4>1, <1>1, <1>2, <1>5 DEF CallInv, Grows
        <3> QED
            BY <3>1, <3>2
    <2> QED
        BY <2>1, <2>2 DEF CallInv
<1>12. SentInv'
    <2>1. sent[c] = {}
        BY <1>1, <1>4 DEF CallInv
    <2>2. ASSUME NEW x \in Calls, NEW p \in sent[x]
          PROVE  x # c /\ call'[x] = call[x] /\ asked'[x] = asked[x]
        BY <2>1, <2>2, <1>9
    <2> QED
        BY <2>2, <1>1, <1>4 DEF SentInv, buildHeaders, Content, Auth, Agent, Sdk
<1> QED
    BY <1>7, <1>8, <1>11, <1>12 DEF Inv

\* An attempt reads the session and the copy as they are now, which is as they were.
LEMMA AttemptInv ==
    ASSUME Inv, NEW c \in Calls, Attempt(c)
    PROVE  Inv'
<1>1. HeapInv /\ LooksAsBuilt /\ CallInv /\ SentInv
    BY DEF Inv
<1>2. call[c] # NoCall /\ UNCHANGED <<maps, arrays, sessions, call, built, asked>>
    BY DEF Attempt, heap
<1> DEFINE s == sessions[call[c].session]
           as == built[call[c].session]
<1>3. PICK h \in Presentable(buildHeaders(c, maps[s.headers], maps[call[c].explicit])) :
          sent' = [sent EXCEPT ![c] = @ \cup
                      {[headers |-> h, interceptors |-> Elements(s.interceptors)]}]
    BY DEF Attempt
<1>4. call[c].session \in 1 .. Len(sessions) /\ maps[call[c].explicit] = asked[c]
    BY <1>1, <1>2 DEF CallInv
<1>5. Grows(maps, maps, 2) /\ Grows(arrays, arrays, 1)
    BY <1>1, SameGrows DEF HeapInv
<1>6. maps[s.headers] = as.headers /\ Elements(s.interceptors) = as.interceptors
    BY <1>1, <1>2, <1>4, <1>5, LooksKept
<1>7. HeapInv'
    BY <1>1, <1>2 DEF HeapInv
<1>8. LooksAsBuilt'
    BY <1>1, <1>2 DEF LooksAsBuilt, Look, Elements
<1>9. CallInv'
    BY <1>1, <1>2, <1>3 DEF CallInv
<1> DEFINE new == [headers |-> h, interceptors |-> Elements(s.interceptors)]
<1>10. /\ sent'[c] = sent[c] \cup {new}
       /\ \A x \in Calls \ {c} : sent'[x] = sent[x]
    BY <1>1, <1>3 DEF CallInv
<1>11. /\ new.headers \in Presentable(buildHeaders(c, as.headers, asked[c]))
       /\ new.interceptors = as.interceptors
    BY <1>3, <1>4, <1>6
<1> HIDE DEF new, s, as
<1>12. ASSUME NEW x \in Calls, NEW p \in sent'[x]
       PROVE  LET looks == built[call[x].session] IN
              /\ p.interceptors = looks.interceptors
              /\ p.headers \in Presentable(buildHeaders(x, looks.headers, asked[x]))
    <2>1. CASE x = c /\ p = new
        BY <2>1, <1>11 DEF as
    <2>2. CASE p \in sent[x]
        BY <2>2, <1>1 DEF SentInv
    <2> QED
        BY <2>1, <2>2, <1>10
<1>13. SentInv'
    BY <1>2, <1>12 DEF SentInv, buildHeaders, Content, Auth, Agent, Sdk
<1> QED
    BY <1>7, <1>8, <1>9, <1>13 DEF Inv

LEMMA StepInv == Inv /\ [Next]_vars => Inv'
<1> SUFFICES ASSUME Inv, [Next]_vars PROVE Inv'
    OBVIOUS
<1>1. CASE UNCHANGED vars
    BY <1>1 DEF vars, heap, Inv, HeapInv, LooksAsBuilt, Look, Elements, CallInv, SentInv,
                buildHeaders, Content, Auth, Agent, Sdk
<1>2. CASE Edit
    BY <1>2, EditInv
<1>3. ASSUME NEW n \in 1 .. Len(sessions), Build(n) PROVE Inv'
    <2>1. CASE WithAdditionalHeaders(n)
        BY <2>1, HeadersInv
    <2>2. CASE WithInterceptors(n)
        BY <2>2, InterceptorsInv
    <2>3. CASE WithProxy(n)
        BY <2>3, FieldsInv DEF WithProxy
    <2>4. CASE WithField(n)
        BY <2>4, FieldsInv DEF WithField
    <2> QED
        BY <1>3, <2>1, <2>2, <2>3, <2>4 DEF Build
<1>4. ASSUME NEW c \in Calls, Start(c) \/ Attempt(c) PROVE Inv'
    BY <1>4, StartInv, AttemptInv
<1> QED
    BY <1>1, <1>2, <1>3, <1>4 DEF Next

\* Deriving, editing and calling, in any order and from any session, leave every
\* session as its builder made it.
THEOREM SessionsKeepTheirLook == Spec => []LooksAsBuilt
<1>1. Inv => LooksAsBuilt
    BY DEF Inv
<1> QED
    BY <1>1, InitInv, StepInv, PTL DEF Spec
-----------------------------------------------------------------------------
(* One spelling for a name: the later header replaces the earlier.          *)
OneSpelling == Spellings = {SdkSpelling}

IsHeaders(m) == DOMAIN m \subseteq Keys

KeysInv == \A i \in 1 .. Len(maps) : IsHeaders(maps[i])

LEMMA OverlayHeaders ==
    ASSUME NEW a, NEW b, IsHeaders(a), IsHeaders(b)
    PROVE  IsHeaders(Overlay(a, b))
    BY DEF IsHeaders, Overlay

LEMMA SdkHeaders == \A names : IsHeaders(Sdk(names))
    BY SessionAssumption DEF IsHeaders, Sdk, Keys

LEMMA KeysStep ==
    ASSUME HeapInv, KeysInv, [Next]_vars
    PROVE  KeysInv'
<1>1. Len(maps) \in Nat /\ Len(maps) >= 1
    BY SessionFacts DEF HeapInv
<1>2. CASE maps' = maps
    BY <1>2 DEF KeysInv, IsHeaders
<1>3. ASSUME NEW m, IsHeaders(m), maps' = Append(maps, m)
      PROVE  KeysInv'
    <2>1. Len(maps') = Len(maps) + 1 /\ maps'[Len(maps) + 1] = m
        BY <1>3, AppendFacts DEF HeapInv
    <2>2. \A i \in 1 .. Len(maps) : maps'[i] = maps[i]
        BY <1>3, AppendFacts DEF HeapInv
    <2> QED
        BY <1>1, <1>3, <2>1, <2>2 DEF KeysInv, IsHeaders
<1>4. CASE Edit
    <2>1. PICK k \in Keys, v \in Values : maps' = [maps EXCEPT ![1] = Entry(k, v)]
        BY <1>4 DEF Edit
    <2>2. IsHeaders(Entry(k, v))
        BY DEF IsHeaders, Entry
    <2> DEFINE e == Entry(k, v)
               t == [maps EXCEPT ![1] = e]
    <2> HIDE DEF e
    <2>3. Len(t) = Len(maps) /\ \A i \in 2 .. Len(maps) : t[i] = maps[i]
        BY <1>1, ExceptFacts DEF HeapInv
    <2>4. t[1] = e
        <3>1. PICK S : maps \in Seq(S)
            BY DEF HeapInv, IsSeq
        <3> QED
            BY <1>1, <3>1
    <2> QED
        BY <1>1, <2>1, <2>2, <2>3, <2>4 DEF KeysInv, e, IsHeaders
<1>5. ASSUME NEW n \in 1 .. Len(sessions), WithAdditionalHeaders(n)
      PROVE  KeysInv'
    <2> DEFINE m == Overlay(maps[sessions[n].headers], maps[1])
    <2>1. maps' = Append(maps, m)
        BY <1>5 DEF WithAdditionalHeaders, MergeTarget, Put, NewMap
    <2>2. IsHeaders(m)
        BY <1>1, OverlayHeaders DEF KeysInv, HeapInv
    <2> QED
        BY <1>3, <2>1, <2>2
<1>6. ASSUME NEW c \in Calls, Start(c)
      PROVE  KeysInv'
    <2>1. maps' = Append(maps, prepareParams(maps[1]))
        BY <1>6 DEF Start
    <2>2. IsHeaders(maps[1])
        BY <1>1 DEF KeysInv
    <2>3. \A m : IsHeaders(m) => IsHeaders(prepareParams(m))
        BY DEF IsHeaders, prepareParams
    <2> QED
        BY <1>3, <2>1, <2>2, <2>3
<1> QED
    BY <1>2, <1>4, <1>5, <1>6
       DEF Next, vars, heap, Build, WithInterceptors, WithProxy, WithField, SetFields, Attempt

\* What a name has in a map.
LEMMA UnderOne ==
    ASSUME OneSpelling, NEW m, IsHeaders(m), NEW name
    PROVE  LET k == <<name, SdkSpelling>> IN
           Under(m, name) = IF k \in DOMAIN m THEN {m[k]} ELSE {}
<1>1. \A x \in DOMAIN m : x[1] = name <=> x = <<name, SdkSpelling>>
    BY DEF OneSpelling, IsHeaders, Keys
<1> QED
    BY <1>1 DEF Under

LEMMA UnderOverlay ==
    ASSUME OneSpelling, NEW a, NEW b, IsHeaders(a), IsHeaders(b), NEW name
    PROVE  Under(Overlay(a, b), name) = IF Under(b, name) = {} THEN Under(a, name) ELSE Under(b, name)
<1> DEFINE k == <<name, SdkSpelling>>
           m == Overlay(a, b)
<1>1. /\ DOMAIN m = DOMAIN a \cup DOMAIN b
      /\ \A x \in DOMAIN m : m[x] = IF x \in DOMAIN b THEN b[x] ELSE a[x]
    BY DEF Overlay
<1>2. IsHeaders(m)
    BY OverlayHeaders
<1> HIDE DEF m, k
<1>3. /\ Under(m, name) = IF k \in DOMAIN m THEN {m[k]} ELSE {}
      /\ Under(a, name) = IF k \in DOMAIN a THEN {a[k]} ELSE {}
      /\ Under(b, name) = IF k \in DOMAIN b THEN {b[k]} ELSE {}
    BY <1>2, UnderOne DEF k
<1>4. Under(m, name) = IF Under(b, name) = {} THEN Under(a, name) ELSE Under(b, name)
    BY <1>1, <1>3
<1> QED
    BY <1>4 DEF m

LEMMA ForemostOfFive ==
    ASSUME NEW a, NEW b, NEW c, NEW d, NEW e, NEW name
    PROVE  Foremost(<<a, b, c, d, e>>, name) =
           IF Under(a, name) # {} THEN Under(a, name)
           ELSE IF Under(b, name) # {} THEN Under(b, name)
           ELSE IF Under(c, name) # {} THEN Under(c, name)
           ELSE IF Under(d, name) # {} THEN Under(d, name)
           ELSE IF Under(e, name) # {} THEN Under(e, name)
           ELSE {"absent"}
<1> DEFINE ms == <<a, b, c, d, e>>
           having == {i \in 1 .. Len(ms) : Under(ms[i], name) # {}}
           first == CHOOSE i \in having : \A j \in having : i <= j
<1>1. Len(ms) = 5 /\ ms[1] = a /\ ms[2] = b /\ ms[3] = c /\ ms[4] = d /\ ms[5] = e
    OBVIOUS
<1>2. Foremost(ms, name) = IF having = {} THEN {"absent"} ELSE Under(ms[first], name)
    BY DEF Foremost
<1> HIDE DEF ms
<1>3. having \subseteq 1 .. 5 /\ \A i \in 1 .. 5 : i \in having <=> Under(ms[i], name) # {}
    BY <1>1
<1> HIDE DEF having
<1>4. ASSUME NEW i \in having, \A j \in 1 .. 5 : j < i => j \notin having
      PROVE  first = i
    <2>1. \A j \in having : i <= j
        BY <1>3, <1>4
    <2>2. \A x \in having : (\A j \in having : x <= j) => x = i
        BY <1>3, <2>1
    <2> QED
        BY <1>4, <2>1, <2>2
<1> HIDE DEF first
<1>5. CASE 1 \in having
    <2>1. first = 1
        BY <1>4, <1>5
    <2> QED
        BY <1>1, <1>2, <1>3, <1>5, <2>1 DEF ms
<1>6. CASE 1 \notin having /\ 2 \in having
    <2>1. first = 2
        BY <1>4, <1>6
    <2> QED
        BY <1>1, <1>2, <1>3, <1>6, <2>1 DEF ms
<1>7. CASE 1 \notin having /\ 2 \notin having /\ 3 \in having
    <2>1. first = 3
        BY <1>4, <1>7
    <2> QED
        BY <1>1, <1>2, <1>3, <1>7, <2>1 DEF ms
<1>8. CASE 1 \notin having /\ 2 \notin having /\ 3 \notin having /\ 4 \in having
    <2>1. first = 4
        BY <1>4, <1>8
    <2> QED
        BY <1>1, <1>2, <1>3, <1>8, <2>1 DEF ms
<1>9. CASE 1 \notin having /\ 2 \notin having /\ 3 \notin having /\ 4 \notin having /\ 5 \in having
    <2>1. first = 5
        BY <1>4, <1>9
    <2> QED
        BY <1>1, <1>2, <1>3, <1>9, <2>1 DEF ms
<1>10. CASE \A i \in 1 .. 5 : i \notin having
    <2>1. having = {}
        BY <1>3, <1>10
    <2> QED
        BY <1>1, <1>2, <1>3, <2>1 DEF ms
<1> QED
    BY <1>5, <1>6, <1>7, <1>8, <1>9, <1>10

LEMMA PrecedenceFollows ==
    ASSUME OneSpelling, Inv, KeysInv
    PROVE  PrecedenceKept
<1> SUFFICES ASSUME NEW c \in Calls, NEW p \in sent[c], NEW n \in Names
             PROVE  LET as == built[call[c].session] IN
                    /\ p.interceptors = as.interceptors
                    /\ Foremost(<<as.headers, Agent, Auth(c), asked[c], Content(c)>>, n)
                           = {p.headers[n]}
    BY DEF PrecedenceKept, Inv, SentInv
<1> DEFINE as == built[call[c].session]
           m == buildHeaders(c, as.headers, asked[c])
<1>1. p.interceptors = as.interceptors /\ p.headers \in Presentable(m)
    BY DEF Inv, SentInv
<1>2. /\ call[c].session \in 1 .. Len(sessions)
      /\ call[c].explicit \in 2 .. Len(maps)
      /\ maps[call[c].explicit] = asked[c]
    BY DEF Inv, CallInv
<1>3. as.headers = maps[sessions[call[c].session].headers]
    <2>1. Look(sessions[call[c].session]) = as
        BY <1>2 DEF Inv, LooksAsBuilt
    <2>2. Look(sessions[call[c].session]).headers = maps[sessions[call[c].session].headers]
        BY DEF Look
    <2> QED
        BY <2>1, <2>2
<1>4. /\ sessions[call[c].session].headers \in 1 .. Len(maps)
      /\ call[c].explicit \in 1 .. Len(maps)
    BY <1>2, SessionFacts DEF Inv, HeapInv
<1>5. IsHeaders(as.headers) /\ IsHeaders(asked[c])
    BY <1>2, <1>3, <1>4 DEF KeysInv
<1>6. IsHeaders(Agent) /\ IsHeaders(Auth(c)) /\ IsHeaders(Content(c))
    BY SdkHeaders DEF Agent, Auth, Content
<1> DEFINE s == as.headers
           m1 == Overlay(Content(c), asked[c])
           m2 == Overlay(m1, Auth(c))
           m3 == Overlay(m2, Agent)
<1>7. m = Overlay(m3, s)
    BY DEF buildHeaders
<1>8. IsHeaders(m1) /\ IsHeaders(m2) /\ IsHeaders(m3) /\ IsHeaders(m)
    BY <1>5, <1>6, <1>7, OverlayHeaders
<1> HIDE DEF s
<1>9. /\ Under(m1, n) = IF Under(asked[c], n) = {} THEN Under(Content(c), n) ELSE Under(asked[c], n)
      /\ Under(m2, n) = IF Under(Auth(c), n) = {} THEN Under(m1, n) ELSE Under(Auth(c), n)
      /\ Under(m3, n) = IF Under(Agent, n) = {} THEN Under(m2, n) ELSE Under(Agent, n)
      /\ Under(m, n) = IF Under(s, n) = {} THEN Under(m3, n) ELSE Under(s, n)
    BY <1>5, <1>6, <1>7, <1>8, UnderOverlay DEF s
<1> HIDE DEF m, m1, m2, m3
<1>10. Foremost(<<s, Agent, Auth(c), asked[c], Content(c)>>, n) =
           IF Under(m, n) = {} THEN {"absent"} ELSE Under(m, n)
    BY <1>9, ForemostOfFive
<1>11. IF Under(m, n) = {} THEN p.headers[n] = "absent" ELSE p.headers[n] \in Under(m, n)
    BY <1>1 DEF Presentable
<1>12. Under(m, n) = {} \/ \E v : Under(m, n) = {v}
    BY <1>8, UnderOne
<1> QED
    BY <1>1, <1>10, <1>11, <1>12 DEF s

\* Where a header name has one spelling, every attempt of a call presents the
\* headers in the documented order, with what its session was built with and what
\* the call was given.  The run header_precedence shows that two spellings break it.
THEOREM PrecedenceOfOneSpelling == OneSpelling => (Spec => []PrecedenceKept)
<1> SUFFICES ASSUME OneSpelling PROVE Spec => []PrecedenceKept
    OBVIOUS
<1>1. Init => Inv /\ KeysInv
    BY InitInv DEF Init, KeysInv, IsHeaders, NoHeaders
<1>2. Inv /\ KeysInv /\ [Next]_vars => (Inv /\ KeysInv)'
    BY StepInv, KeysStep DEF Inv
<1>3. Inv /\ KeysInv => PrecedenceKept
    BY PrecedenceFollows
<1> QED
    BY <1>1, <1>2, <1>3, PTL DEF Spec
=============================================================================
