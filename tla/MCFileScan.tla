----------------------------- MODULE MCFileScan -----------------------------
(***************************************************************************)
(* FileScan for TLC.                                                       *)
(***************************************************************************)
EXTENDS FileScan
=============================================================================
