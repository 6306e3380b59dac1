---------------------------- MODULE MCClockBufMgr ----------------------------
(***************************************************************************)
(* ClockBufMgr for TLC: a File object so near the end of the address space *)
(* that the sum with a page number starts again at zero.  Two of its three *)
(* pages share a chain, and one of these is held by two clients and        *)
(* deleted elsewhere; the other pages are not asked for while pooled.      *)
(***************************************************************************)
EXTENDS ClockBufMgr

CONSTANT A

MCFiles == {A}
MCAddress == [f \in MCFiles |-> 2]
MCMaxPins == [p \in 1 .. 3 |-> IF p = 1 THEN 2 ELSE 0]
=============================================================================
