--------------------------- MODULE MCChunkedUpload ---------------------------
(***************************************************************************)
(* ChunkedUpload for TLC: the announced sizes include negative ones and    *)
(* products that overflow.                                                 *)
(***************************************************************************)
EXTENDS ChunkedUpload

MCPartSizes  == -3 .. 5
MCPartTotals == -3 .. 6
=============================================================================
