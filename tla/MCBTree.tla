------------------------------ MODULE MCBTree ------------------------------
(***************************************************************************)
(* BTreeIndex for TLC: keys with room for equal ones, so that both the     *)
(* order of a leaf and the place of a new one are decided in every way;    *)
(* ranges of all keys, of one key inside and outside of the operators'     *)
(* reach, of the last key alone, and two that are refused.                 *)
(***************************************************************************)
EXTENDS BTreeIndex

MCKeys == 1 .. 3

From(low, lowOp, high, highOp) ==
    [lowVal |-> low, lowOp |-> lowOp, highVal |-> high, highOp |-> highOp]

MCRanges ==
    {From(1, "GTE", 3, "LTE"), From(1, "GT", 3, "LT"), From(2, "GT", 2, "LT"),
     From(3, "GTE", 3, "LTE"), From(3, "GTE", 1, "LTE"), From(1, "LTE", 3, "LT")}
=============================================================================
