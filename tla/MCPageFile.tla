----------------------------- MODULE MCPageFile -----------------------------
(***************************************************************************)
(* PageFile for TLC.                                                       *)
(***************************************************************************)
EXTENDS PageFile
=============================================================================
