----------------------------- MODULE RecordPage -----------------------------
(***************************************************************************)
(* What a page of records promises: every record keeps its number and its  *)
(* content until it is updated or deleted, and no operation touches        *)
(* another record than the one it is given.  A client may go from record   *)
(* to record in the order of their numbers, whatever it does to the page   *)
(* on its way.                                                             *)
(***************************************************************************)
EXTENDS Naturals, FiniteSetsExt

CONSTANTS
    Slots,      \* the slot numbers
    Records,    \* what clients store
    NoRecord    \* stands for "no record in this slot"

VARIABLES
    record,     \* slot number -> its record, or NoRecord
    current     \* slot number that the client has come to; 0 at the end

vars == <<record, current>>

Init ==
    /\ record = [s \in Slots |-> NoRecord]
    /\ current = 0

Insert(s, r) ==
    /\ record[s] = NoRecord
    /\ record' = [record EXCEPT ![s] = r]
    /\ UNCHANGED current

Update(s, r) ==
    /\ record[s] # NoRecord
    /\ record' = [record EXCEPT ![s] = r]
    /\ UNCHANGED current

Delete(s) ==
    /\ record[s] # NoRecord
    /\ record' = [record EXCEPT ![s] = NoRecord]
    /\ UNCHANGED current

(* The first record, or the next one: the lowest number behind s of those  *)
(* that are there now.                                                     *)
Step(s) ==
    LET behind == {t \in Slots : t > s /\ record[t] # NoRecord}
    IN  /\ current' = IF behind = {} THEN 0 ELSE Min(behind)
        /\ UNCHANGED record

Next ==
    \/ \E s \in Slots :
         \/ \E r \in Records : Insert(s, r) \/ Update(s, r)
         \/ Delete(s)
    \/ Step(0)
    \/ current # 0 /\ Step(current)

Spec == Init /\ [][Next]_vars
=============================================================================
