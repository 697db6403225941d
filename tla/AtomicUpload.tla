---------------------------- MODULE AtomicUpload ----------------------------
(***************************************************************************)
(* What UploadBigFile promises (managers/chunked_uploads.go:170): the file *)
(* appears as a whole or not at all, once, and not before the commit was   *)
(* requested; the caller is handed a file only if it exists.  A call that  *)
(* fails after its commit request may still leave the file behind, and the *)
(* service may assemble it after the call has returned.                    *)
(***************************************************************************)
VARIABLES
    requested,    \* a commit was requested
    file,         \* the file in the folder: "none" or "whole"
    outcome       \* of the call: "running", "file" or "failed"

vars == <<requested, file, outcome>>

Init == requested = FALSE /\ file = "none" /\ outcome = "running"

Running == outcome = "running"

Request ==
    /\ Running
    /\ ~requested
    /\ requested' = TRUE
    /\ UNCHANGED <<file, outcome>>

Assemble ==
    /\ requested
    /\ file = "none"
    /\ file' = "whole"
    /\ UNCHANGED <<requested, outcome>>

Return ==
    /\ Running
    /\ file = "whole"
    /\ outcome' = "file"
    /\ UNCHANGED <<requested, file>>

Fail ==
    /\ Running
    /\ outcome' = "failed"
    /\ UNCHANGED <<requested, file>>

Next == Request \/ Assemble \/ Return \/ Fail

Spec == Init /\ [][Next]_vars
=============================================================================
