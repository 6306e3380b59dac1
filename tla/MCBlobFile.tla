---------------------------- MODULE MCBlobFile ----------------------------
(***************************************************************************)
(* BlobFile for TLC: objects are interchangeable, and so are the files.    *)
(***************************************************************************)
EXTENDS BlobFile, TLC

Symmetry == Permutations(Clients) \cup Permutations(Names)
=============================================================================
