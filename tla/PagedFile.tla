----------------------------- MODULE PagedFile ------------------------------
(***************************************************************************)
(* What a database file promises the client that works on copies of its    *)
(* pages: a set of numbered pages, each with a content that only the       *)
(* writing of a copy of that page changes.  A new page gets a number that  *)
(* no page in use has.  How the file links its pages on disk is nobody's   *)
(* concern here.                                                           *)
(***************************************************************************)
CONSTANTS
    Pages,      \* the page numbers
    Data,       \* what a page may contain
    Empty,      \* the content of a new page
    Absent,     \* stands for "no such page"
    NoCopy      \* the client has no copy

VARIABLES
    content,    \* page number -> its content, or Absent
    held        \* the copy the client has: its page number and content

Init ==
    /\ content = [p \in Pages |-> Absent]
    /\ held = NoCopy

Allocate(p) ==
    /\ content[p] = Absent
    /\ content' = [content EXCEPT ![p] = Empty]
    /\ held' = [no |-> p, data |-> Empty]

Read(p) ==
    /\ content[p] # Absent
    /\ held' = [no |-> p, data |-> content[p]]
    /\ UNCHANGED content

(* The client changes its copy and writes it. *)
Write(d) ==
    /\ held # NoCopy
    /\ content[held.no] # Absent
    /\ content' = [content EXCEPT ![held.no] = d]
    /\ held' = [held EXCEPT !.data = d]

Delete(p) ==
    /\ content[p] # Absent
    /\ content' = [content EXCEPT ![p] = Absent]
    /\ UNCHANGED held

Next ==
    \/ \E p \in Pages : Allocate(p) \/ Read(p) \/ Delete(p)
    \/ \E d \in Data : Write(d)

Spec == Init /\ [][Next]_<<content, held>>
=============================================================================
