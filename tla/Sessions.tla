------------------------------ MODULE Sessions ------------------------------
(***************************************************************************)
(* NetworkSession and BoxClient (networking/session.go, box/client.go) as  *)
(* objects on a heap: the With* builders copy a session but share what it  *)
(* points to, clients derived from one another run calls at the same time, *)
(* and every attempt of a call reads its session anew to build its headers *)
(* (buildHeaders of networking/client.go, prepareParams of                 *)
(* managers/managers.go).  A client is its session; its managers and its   *)
(* authentication object are shared as they are.                           *)
(*                                                                         *)
(* A key of a header map is a name and its spelling: the maps tell "range" *)
(* from "Range", the request does not.                                     *)
(***************************************************************************)
EXTENDS Integers, Sequences

CONSTANTS
    Names,         \* header names
    Spellings,     \* how the application spells a name
    SdkSpelling,   \* how the SDK spells the names it sets
    Values,        \* header values of the application, "" among them
    Interceptors,  \* interceptors of the application
    Fields,        \* the fields of a session that are pointers
    Calls,         \* calls made through the clients
    MaxSessions    \* bound: the sessions derived

ASSUME SessionAssumption ==
    /\ SdkSpelling \in Spellings
    /\ {"ProxyConfig", "NetworkClient"} \subseteq Fields
    /\ {"sdk", "absent"} \cap Values = {}

VARIABLES
    maps,          \* the heap: header maps; the first is the application's own
    arrays,        \* the heap: the arrays behind the interceptor slices
    sessions,      \* the sessions, in the order they were made
    call,          \* what each call was given, NoCall before it starts
    sent,          \* what the attempts of each call have presented
    built,         \* history: each session as it was built
    asked          \* history: the explicit headers each call was given

heap == <<maps, arrays, sessions>>
vars == <<heap, call, sent, built, asked>>

Keys   == Names \X Spellings

NoHeaders == [k \in {} |-> "absent"]
Entry(k, v) == [x \in {k} |-> v]
NoCall == [session |-> 0, explicit |-> 0, get |-> FALSE, auth |-> FALSE]

\* The later map wins.
Overlay(base, extra) ==
    [k \in DOMAIN base \cup DOMAIN extra |->
        IF k \in DOMAIN extra THEN extra[k] ELSE base[k]]

\* prepareParams: a copy without the empty values.
prepareParams(m) == [k \in {x \in DOMAIN m : m[x] # ""} |-> m[k]]

\* A slice is an array and a length; the array may have room for more.
Elements(list) == [j \in 1 .. list.len |-> arrays[list.array][j]]

\* What a session points to.
Look(s) ==
    [headers |-> maps[s.headers], interceptors |-> Elements(s.interceptors),
     fields |-> s.fields]

Init ==
    /\ maps = <<NoHeaders, NoHeaders>>
    /\ arrays \in {<<[j \in 1 .. n |-> "free"]>> : n \in 0 .. 1}
    /\ sessions = <<[headers |-> 2, interceptors |-> [array |-> 1, len |-> 0],
                     fields |-> [f \in Fields |-> "default"]]>>
    /\ call = [c \in Calls |-> NoCall]
    /\ sent = [c \in Calls |-> {}]
    /\ built = <<[headers |-> NoHeaders, interceptors |-> [j \in {} |-> "free"],
                  fields |-> [f \in Fields |-> "default"]]>>
    /\ asked = [c \in Calls |-> NoHeaders]
-----------------------------------------------------------------------------
(* The heap.                                                                *)
Put(objects, id, object) ==
    IF id = Len(objects) + 1 THEN Append(objects, object)
    ELSE [objects EXCEPT ![id] = object]

NewMap == Len(maps) + 1

\* The application changes the map that it passes to the SDK.
Edit ==
    /\ \E k \in Keys, v \in Values : maps' = [maps EXCEPT ![1] = Entry(k, v)]
    /\ UNCHANGED <<arrays, sessions, call, sent, built, asked>>
-----------------------------------------------------------------------------
(* The builders: clone, then one field changed.  `as` is what the new       *)
(* session is meant to look like.                                           *)
Derive(session, as) ==
    /\ Len(sessions) < MaxSessions
    /\ sessions' = Append(sessions, session)
    /\ built' = Append(built, as)
    /\ UNCHANGED <<call, sent, asked>>

\* Mutant: the headers are merged into the map of the session itself.
MergeInPlace(s) == s.headers

MergeTarget(s) == NewMap

\* Also WithAsUserHeader, WithSuppressedNotifications and WithExtraHeaders.
WithAdditionalHeaders(n) ==
    LET s == sessions[n]
        extra == maps[1] IN
    /\ maps' = Put(maps, MergeTarget(s), Overlay(maps[s.headers], extra))
    /\ Derive([s EXCEPT !.headers = MergeTarget(s)],
              [built[n] EXCEPT !.headers = Overlay(built[n].headers, extra)])
    /\ UNCHANGED arrays

\* Mutant: append to the slice as it is, which fills the array it shares.
AppendTargetShared(list) ==
    IF Elements(list) # arrays[list.array] THEN list.array ELSE Len(arrays) + 1

\* append to a copy of the slice: always an array of its own.
AppendTarget(list) == Len(arrays) + 1

\* The array append makes may have room for one more.
WithInterceptors(n) ==
    LET s == sessions[n]
        list == s.interceptors IN
    \E i \in Interceptors, room \in 0 .. 1 :
        /\ arrays' = Put(arrays, AppendTarget(list),
                         [j \in 1 .. list.len + 1 + room |->
                             IF j <= list.len THEN arrays[list.array][j]
                             ELSE IF j = list.len + 1 THEN i ELSE "free"])
        /\ Derive([s EXCEPT !.interceptors =
                       [array |-> AppendTarget(list), len |-> list.len + 1]],
                  [built[n] EXCEPT !.interceptors =
                       [j \in 1 .. list.len + 1 |->
                           IF j <= list.len THEN built[n].interceptors[j] ELSE i]])
        /\ UNCHANGED maps

\* The builders that set pointers; a proxy has a network client of its own.
SetFields(n, changed) ==
    LET s == sessions[n]
        fields == [f \in Fields |-> IF f \in changed THEN "custom" ELSE s.fields[f]] IN
    /\ Derive([s EXCEPT !.fields = fields], [built[n] EXCEPT !.fields = fields])
    /\ UNCHANGED <<maps, arrays>>

WithProxy(n) == SetFields(n, {"ProxyConfig", "NetworkClient"})
WithField(n) == \E f \in Fields \ {"ProxyConfig"} : SetFields(n, {f})
-----------------------------------------------------------------------------
(* A call through a client, with the application's map as extra headers.    *)
Start(c) ==
    /\ call[c] = NoCall
    /\ \E n \in 1 .. Len(sessions), get, auth \in BOOLEAN :
           call' = [call EXCEPT ![c] =
                       [session |-> n, explicit |-> NewMap, get |-> get, auth |-> auth]]
    /\ maps' = Append(maps, prepareParams(maps[1]))
    /\ asked' = [asked EXCEPT ![c] = prepareParams(maps[1])]
    /\ UNCHANGED <<arrays, sessions, sent, built>>

\* The headers that the SDK sets itself.
Sdk(names) == [k \in (names \cap Names) \X {SdkSpelling} |-> "sdk"]
Content(c) == Sdk(IF call[c].get THEN {} ELSE {"Content-Type"})
Auth(c)    == Sdk(IF call[c].auth THEN {"Authorization"} ELSE {})
Agent      == Sdk({"User-Agent"})

\* Mutant: the session's headers before those of the call.
SessionFirst(c, additional, explicit) ==
    Overlay(Overlay(Overlay(Overlay(Content(c), additional), explicit), Auth(c)), Agent)

buildHeaders(c, additional, explicit) ==
    Overlay(Overlay(Overlay(Overlay(Content(c), explicit), Auth(c)), Agent), additional)

\* The values a name has in a map, under any spelling.
Under(m, name) == {m[k] : k \in {x \in DOMAIN m : x[1] = name}}

\* The request has one spelling for a name: Set, in the order in which the map
\* is traversed, leaves any of the values.
Presentable(m) ==
    {h \in [Names -> Values \cup {"sdk", "absent"}] :
        \A n \in Names : IF Under(m, n) = {} THEN h[n] = "absent" ELSE h[n] \in Under(m, n)}

Attempt(c) ==
    /\ call[c] # NoCall
    /\ LET s == sessions[call[c].session]
           m == buildHeaders(c, maps[s.headers], maps[call[c].explicit]) IN
       \E h \in Presentable(m) :
           sent' = [sent EXCEPT ![c] = @ \cup
                       {[headers |-> h, interceptors |-> Elements(s.interceptors)]}]
    /\ UNCHANGED <<heap, call, built, asked>>
-----------------------------------------------------------------------------
Build(n) == WithAdditionalHeaders(n) \/ WithInterceptors(n) \/ WithProxy(n) \/ WithField(n)

Next ==
    \/ Edit
    \/ \E n \in 1 .. Len(sessions) : Build(n)
    \/ \E c \in Calls : Start(c) \/ Attempt(c)

Spec == Init /\ [][Next]_vars
-----------------------------------------------------------------------------
(* Properties.                                                              *)

\* A session keeps the look it was built with, whatever is derived from it or
\* from its relatives, and whatever becomes of the map it was built from
\* ("With* helpers return a shallow copy", session.go:8).
LooksAsBuilt == \A n \in 1 .. Len(sessions) : Look(sessions[n]) = built[n]

\* The first of the maps that has the name, under any spelling.
Foremost(ms, name) ==
    LET having == {i \in 1 .. Len(ms) : Under(ms[i], name) # {}} IN
    IF having = {} THEN {"absent"}
    ELSE Under(ms[CHOOSE i \in having : \A j \in having : i <= j], name)

\* "content headers (non-GET) < explicit headers < auth header < UA headers <
\* session additional headers" (client.go:410): every attempt of a call presents
\* what its session was built with and what the call was given, in this order,
\* however often the call is retried while others derive sessions.
PrecedenceKept ==
    \A c \in Calls : \A p \in sent[c] :
        LET as == built[call[c].session] IN
        /\ p.interceptors = as.interceptors
        /\ \A n \in Names :
               Foremost(<<as.headers, Agent, Auth(c), asked[c], Content(c)>>, n) = {p.headers[n]}
=============================================================================
