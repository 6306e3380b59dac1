------------------------------- MODULE MCPage -------------------------------
(***************************************************************************)
(* Page for TLC: records told apart by length and content.  Read as a      *)
(* slot, x is a record inside the page and y one behind its end.           *)
(***************************************************************************)
EXTENDS Page, TLC

CONSTANTS x, y

MCBytes == {x, y}

MCSlotOf ==
    (x :> [item_offset |-> 3, item_length |-> 2]) @@
    (y :> [item_offset |-> DATA_SIZE + 1, item_length |-> 1])

MCRecords == {<<x>>, <<y>>, <<x, y>>, <<y, y, x>>}
=============================================================================
