--------------------------- MODULE RefreshWaiters ---------------------------
(***************************************************************************)
(* Authentication, observed: which goroutines wait for the mutex while     *)
(* another one refreshes.  RefreshToken promises such a goroutine the      *)
(* token of the other and no request of its own (ccg.go:58-61).  The       *)
(* observation is in history variables; they change what no step does.     *)
(*                                                                         *)
(* A goroutine waits from the moment it has read `before` (ccg.go:63): it  *)
(* may have read it ahead of the other's Store (ccg.go:84), or after that  *)
(* and ahead of the Unlock that follows.                                   *)
(***************************************************************************)
EXTENDS Authentication

VARIABLES
    refreshed,    \* the goroutine that stored its new token, until it unlocks
    overtaken,    \* those that waited when another one stored its token
    late          \* those that came to wait between that Store and its Unlock

observed == <<refreshed, overtaken, late>>
wvars == <<vars, observed>>

WaitInit ==
    /\ Init
    /\ refreshed = {}
    /\ overtaken = {}
    /\ late = {}

\* d stores the token it was granted, which it does under the mutex.
Stores(d) == At(d, "store") /\ tok[d] # None /\ pc'[d] = "unlock"

\* c has not been served yet, and the token it is to share is not cleared.
Unserved(c) == pc'[c] \in {"lock", "recheck", "request"} /\ storage' # None

Observe ==
    /\ refreshed' = {d \in Callers : Stores(d) \/ (d \in refreshed /\ pc'[d] = "unlock")}
    /\ overtaken' = {c \in Callers :
           /\ Unserved(c)
           /\ c \in overtaken \/ (At(c, "lock") /\ \E d \in Callers : Stores(d))}
    /\ late' = {c \in Callers :
           /\ Unserved(c)
           /\ c \in late \/ (At(c, "before") /\ refreshed # {})}

WaitNext == Next /\ Observe

WaitSpec == WaitInit /\ [][WaitNext]_wvars
-----------------------------------------------------------------------------
(* Properties.                                                              *)

\* A goroutine that waited for the mutex when another one stored a new token
\* makes no request of its own, whatever is refused, lost, revoked or stored by
\* a login meanwhile, unless the storage is cleared (ccg.go:69, jwt.go:140,
\* oauth.go:116).
WaitersShareRefresh == \A c \in overtaken : ~At(c, "request")

\* "a caller that blocks while another goroutine refreshes returns that fresh
\* token without issuing a second request" (ccg.go:58-61), also the caller that
\* blocks when the token is stored and the mutex not yet unlocked.
BlockedShareRefresh == \A c \in overtaken \cup late : ~At(c, "request")
=============================================================================
