----------------------------- MODULE PagedStore -----------------------------
(***************************************************************************)
(* What a buffer manager promises its clients, with no frames, no clock    *)
(* and no disk: a page of a file has one content, a client that holds a    *)
(* pin on a page may read it and write it in place, and nothing but a      *)
(* client's own allocation, write or disposal ever changes a content.      *)
(*                                                                         *)
(* BufMgr is shown to implement this specification: the page transfers     *)
(* between disk and pool have to be invisible here.                        *)
(***************************************************************************)
EXTENDS Naturals

CONSTANTS
    Files,      \* the open database files
    Pages,      \* the page numbers a file may hold
    Data,       \* what a page may contain
    Empty,      \* the content of a newly allocated page
    Absent      \* stands for "the file has no such page"

VARIABLES
    store,      \* store[f][p]: the content of page p of file f, or Absent
    pins        \* pins[f][p]: how many pins clients hold on the page

storeVars == <<store, pins>>

Init ==
    /\ store \in [Files -> [Pages -> Data \cup {Absent}]]
    /\ pins = [f \in Files |-> [p \in Pages |-> 0]]

(* A page is asked for: its content is not touched. *)
Pin(f, p) ==
    /\ pins' = [pins EXCEPT ![f][p] = @ + 1]
    /\ store[f][p] # Absent
    /\ UNCHANGED store

(* A new page comes into being, empty and pinned once. *)
Alloc(f, p) ==
    /\ pins' = [pins EXCEPT ![f][p] = 1]
    /\ store[f][p] = Absent
    /\ store' = [store EXCEPT ![f][p] = Empty]

(* A holder of a pin writes through its pointer. *)
Write(f, p, d) ==
    /\ UNCHANGED pins
    /\ pins[f][p] > 0
    /\ store' = [store EXCEPT ![f][p] = d]

Unpin(f, p) ==
    /\ pins[f][p] > 0
    /\ pins' = [pins EXCEPT ![f][p] = @ - 1]
    /\ UNCHANGED store

(* The page is deleted, and whoever held a pin on it holds none any more. *)
Dispose(f, p) ==
    /\ pins' = [pins EXCEPT ![f][p] = 0]
    /\ store[f][p] # Absent
    /\ store' = [store EXCEPT ![f][p] = Absent]

(* What a client does not see. *)
Invisible == UNCHANGED storeVars

Next ==
    \/ Invisible
    \/ \E f \in Files, p \in Pages :
         \/ Pin(f, p)
         \/ Alloc(f, p)
         \/ Unpin(f, p)
         \/ \E d \in Data : Write(f, p, d)
         \/ Dispose(f, p)

Spec == Init /\ [][Next]_storeVars
=============================================================================
