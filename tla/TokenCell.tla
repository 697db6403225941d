------------------------------ MODULE TokenCell ------------------------------
(***************************************************************************)
(* What RefreshToken of an authentication object promises the goroutines   *)
(* that share it (networking/auth.go:16): a cell that holds a token, and a *)
(* refresh that, like a compare-and-swap, happens at one instant between   *)
(* its call and its return.  At that instant it either joins the refresh   *)
(* of another goroutine - the cell holds a token other than the one found  *)
(* at the call - or replaces the token found at the call by a new one, or  *)
(* fails and leaves the cell alone.                                        *)
(*                                                                         *)
(* An attended cell is one a user may log in to at any time, and then a    *)
(* refresh may replace the token of the login.                             *)
(***************************************************************************)
EXTENDS Integers, TLAPS

CONSTANTS Callers, Token, None, Failed

VARIABLES
    attended,     \* whether logins fill the cell as well
    cell,         \* the token, or None
    past,         \* every token that was ever in the cell
    stage,        \* of each goroutine's refresh: "idle", "asked" or "done"
    seen,         \* the content of the cell when it asked
    got           \* its outcome: a token, None (no token came) or Failed

cvars == <<attended, cell, past, stage, seen, got>>

Init ==
    /\ attended \in BOOLEAN
    /\ cell \in Token \cup {None}
    /\ past = {cell} \ {None}
    /\ stage = [c \in Callers |-> "idle"]
    /\ seen = [c \in Callers |-> None]
    /\ got = [c \in Callers |-> None]

Ask(c) ==
    /\ stage[c] = "idle"
    /\ stage' = [stage EXCEPT ![c] = "asked"]
    /\ seen' = [seen EXCEPT ![c] = cell]
    /\ UNCHANGED <<attended, cell, past, got>>

Resolve(c, t) ==
    /\ stage[c] = "asked"
    /\ stage' = [stage EXCEPT ![c] = "done"]
    /\ got' = [got EXCEPT ![c] = t]
    /\ UNCHANGED <<attended, seen>>

\* A token that never was in the cell; without logins, a younger one.
New(t) == t \in Token \ past /\ (attended \/ \A p \in past : p < t)

Put(t) == cell' = t /\ past' = past \cup ({t} \ {None})

Join(c) ==
    /\ cell \notin {None, seen[c]}
    /\ Resolve(c, cell)
    /\ UNCHANGED <<cell, past>>

Replace(c, t) ==
    /\ attended \/ cell \in {None, seen[c]}
    /\ New(t) \/ t = None
    /\ Put(t)
    /\ Resolve(c, t)

Fail(c) == Resolve(c, Failed) /\ UNCHANGED <<cell, past>>

Answer(c) ==
    /\ stage[c] = "done"
    /\ stage' = [stage EXCEPT ![c] = "idle"]
    /\ seen' = [seen EXCEPT ![c] = None]
    /\ got' = [got EXCEPT ![c] = None]
    /\ UNCHANGED <<attended, cell, past>>

\* A revocation, or a login.
Set(t) ==
    /\ t = None \/ (attended /\ New(t))
    /\ Put(t)
    /\ UNCHANGED <<attended, stage, seen, got>>

Next ==
    \/ \E c \in Callers : Ask(c) \/ Join(c) \/ Fail(c) \/ Answer(c)
    \/ \E c \in Callers, t \in Token \cup {None} : Replace(c, t)
    \/ \E t \in Token \cup {None} : Set(t)

Spec == Init /\ [][Next]_cvars

\* A refresh that returns a token returns another than the caller found when it
\* called, one that was in the cell; without logins, a younger one.
GivesNew ==
    \A c \in Callers : stage[c] = "done" /\ got[c] \in Token =>
        /\ got[c] \in past \ {seen[c]}
        /\ attended \/ got[c] > seen[c]
-----------------------------------------------------------------------------
(* The cell keeps its promise: a token that replaces another is new, and    *)
(* without logins the youngest is the one in the cell, so what a refresh    *)
(* joins or puts there is neither the token its caller found nor older.     *)
Ordered ==
    /\ Token \subseteq Int
    /\ Failed \notin Token
    /\ None \in Int
    /\ \A t \in Token : t > None

CellInv ==
    /\ cell \in past \cup {None}
    /\ past \subseteq Token
    /\ stage \in [Callers -> {"idle", "asked", "done"}]
    /\ seen \in [Callers -> past \cup {None}]
    /\ got \in [Callers -> Token \cup {None, Failed}]
    /\ attended \/ cell = None \/ \A p \in past : p <= cell
    /\ GivesNew

LEMMA CellInvInit == ASSUME Ordered PROVE Init => CellInv
BY DEF Ordered, Init, CellInv, GivesNew

LEMMA CellInvStep ==
    ASSUME Ordered PROVE CellInv /\ [Next]_cvars => CellInv'
<1> SUFFICES ASSUME CellInv, [Next]_cvars PROVE CellInv'
    OBVIOUS
<1> USE DEF Ordered, CellInv, GivesNew
<1>1. ASSUME NEW c \in Callers, Ask(c) PROVE CellInv'
    BY <1>1 DEF Ask
<1>2. ASSUME NEW c \in Callers, Join(c) PROVE CellInv'
    <2>1. cell \in past \ {seen[c]} /\ (attended \/ cell > seen[c])
        <3>1. cell \in past /\ cell # seen[c] /\ cell # None
            BY <1>2 DEF Join
        <3>2. cell \in Int /\ cell > None
            BY <3>1
        <3>3. ASSUME seen[c] \in past PROVE attended \/ seen[c] <= cell
            BY <3>1, <3>3, Zenon
        <3>4. seen[c] \in past \/ seen[c] = None
            OBVIOUS
        <3>5. seen[c] \in Int
            BY <3>4
        <3> QED BY <3>1, <3>2, <3>3, <3>4, <3>5
    <2> QED BY <1>2, <2>1 DEF Join, Resolve
<1>3. ASSUME NEW c \in Callers, Fail(c) PROVE CellInv'
    <2>1. stage' = [stage EXCEPT ![c] = "done"] /\ got' = [got EXCEPT ![c] = Failed]
        BY <1>3 DEF Fail, Resolve
    <2> QED BY <1>3, <2>1 DEF Fail, Resolve
<1>4. ASSUME NEW c \in Callers, Answer(c) PROVE CellInv'
    BY <1>4 DEF Answer
<1>5. ASSUME NEW c \in Callers, NEW t \in Token \cup {None}, Replace(c, t)
      PROVE  CellInv'
    <2>1. seen[c] \in past \/ seen[c] = None
        OBVIOUS
    <2>2. t \in Token => t \notin past /\ (attended \/ \A p \in past : p < t)
        BY <1>5 DEF Replace, New
    <2>3. t \in Token => t # seen[c] /\ (attended \/ t > seen[c])
        <3>1. ASSUME seen[c] = None PROVE t \in Token => t > seen[c] /\ t # seen[c]
            BY <3>1
        <3>2. ASSUME seen[c] \in past, t \in Token
              PROVE  t # seen[c] /\ (attended \/ seen[c] < t)
            BY <2>2, <3>2, Zenon
        <3>3. ASSUME seen[c] \in past, t \in Token PROVE seen[c] \in Int /\ t \in Int
            BY <3>3
        <3> QED BY <2>1, <3>1, <3>2, <3>3
    <2>4. /\ cell' = t /\ past' = past \cup ({t} \ {None})
          /\ stage' = [stage EXCEPT ![c] = "done"]
          /\ got' = [got EXCEPT ![c] = t]
          /\ UNCHANGED <<attended, seen>>
        BY <1>5 DEF Replace, Resolve, Put
    <2>5. attended' \/ cell' = None \/ \A p \in past' : p <= cell'
        BY <2>2, <2>4
    <2>6. GivesNew'
        BY <2>3, <2>4
    <2> QED BY <2>4, <2>5, <2>6
<1>6. ASSUME NEW t \in Token \cup {None}, Set(t) PROVE CellInv'
    BY <1>6 DEF Set, Put, New
<1>7. CASE UNCHANGED cvars
    BY <1>7 DEF cvars
<1> QED BY <1>1, <1>2, <1>3, <1>4, <1>5, <1>6, <1>7 DEF Next

\* What a refresh returns is another token than its caller found.
THEOREM CellGivesNew == ASSUME Ordered PROVE Spec => []GivesNew
BY CellInvInit, CellInvStep, PTL DEF Spec, CellInv
=============================================================================
