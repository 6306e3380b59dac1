--------------------------- MODULE MCFileHandles ---------------------------
(***************************************************************************)
(* FileHandles for TLC: two files, four objects of clients and two frames. *)
(* Objects of one kind are interchangeable, and so are the files.          *)
(***************************************************************************)
EXTENDS FileHandles, TLC

Symmetry ==
    Permutations(Clients) \cup Permutations(Descriptors) \cup Permutations(Names)
=============================================================================
