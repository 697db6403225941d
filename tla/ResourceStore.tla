---------------------------- MODULE ResourceStore ----------------------------
(***************************************************************************)
(* What an application may count on when it creates, replaces or deletes a *)
(* file or folder through the SDK: a name that holds a history of effects, *)
(* and calls whose answers are true of that history.                       *)
(*                                                                         *)
(* A call takes effect at any time after it began - even after it has      *)
(* returned, for a request may be under way longer than anyone waits - and *)
(* each time it is still applicable.  "done" is said of a call that has    *)
(* taken effect, "refused" of one that never does; of an "unknown" one     *)
(* nothing is promised.                                                    *)
(***************************************************************************)
EXTENDS Integers, Sequences

CONSTANT Calls

VARIABLES
    history,      \* effects on the name so far; a version is its position
    call,         \* what each call asks for, NoCall before it begins
    outcome       \* what each call was told

svars == <<history, call, outcome>>

NoCall == [op |-> "none", item |-> 0, match |-> 0, checked |-> FALSE]

(* The state of the name, all of it in the history.                         *)
Last    == history[Len(history)]
Exists  == history # <<>> /\ Last.op # "delete"
Version == Len(history)

Creates(k) == k.op = "create"
Writes(k)  == k.op \in {"create", "update", "delete"}

\* An item keeps its identity until it is deleted; its etag is the version.
Applicable(k) ==
    \/ Creates(k) /\ ~Exists
    \/ /\ k.op \in {"update", "delete"}
       /\ Exists
       /\ k.item = Last.item
       /\ k.match \in {0, Version}

Effect(c, k, body) ==
    [by |-> c, op |-> k.op, item |-> IF Creates(k) THEN Version + 1 ELSE Last.item,
     body |-> body]

TookEffect(c) == \E i \in 1 .. Len(history) : history[i].by = c

\* The name is free, or somebody has used it before.
Histories ==
    {<<>>, <<[by |-> "others", op |-> "create", item |-> 1, body |-> "whole"]>>}

Init ==
    /\ history \in Histories
    /\ call = [c \in Calls |-> NoCall]
    /\ outcome = [c \in Calls |-> "open"]

Open(c) ==
    /\ call[c] = NoCall
    /\ \E k \in [op : {"create", "update", "delete", "get"}, item : 0 .. Version,
                 match : 0 .. Version, checked : BOOLEAN] :
           call' = [call EXCEPT ![c] = k]
    /\ UNCHANGED <<history, outcome>>

Apply(c) ==
    /\ Applicable(call[c])
    /\ outcome[c] # "refused"
    /\ history' = Append(history, Effect(c, call[c], "whole"))
    /\ UNCHANGED <<call, outcome>>

Tell(c, told) ==
    /\ call[c] # NoCall
    /\ outcome[c] = "open"
    /\ outcome' = [outcome EXCEPT ![c] = told]
    /\ UNCHANGED <<history, call>>

Done(c)    == (Writes(call[c]) => TookEffect(c)) /\ Tell(c, "done")
Refused(c) == ~TookEffect(c) /\ Tell(c, "refused")
Unknown(c) == Tell(c, "unknown")

Next == \E c \in Calls : Open(c) \/ Apply(c) \/ Done(c) \/ Refused(c) \/ Unknown(c)

Spec == Init /\ [][Next]_svars
=============================================================================
