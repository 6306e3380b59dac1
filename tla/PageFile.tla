------------------------------ MODULE PageFile ------------------------------
(***************************************************************************)
(* A database file of the second assignment (src/p2/src/file.cpp) as it    *)
(* lies on disk: a header and numbered pages, the pages in use linked in   *)
(* one list in ascending order, the deleted ones in a second list.  Every  *)
(* operation reads and rewrites the header and up to two pages.            *)
(*                                                                         *)
(* Operations that walk the used list may meet a list that is not what it  *)
(* should be: a walk throws when it reaches a page that is not in use, and *)
(* never ends when the list has become a circle.                           *)
(***************************************************************************)
EXTENDS Integers, FiniteSetsExt

CONSTANTS
    MaxPage,    \* bound: the file grows to at most MaxPage pages
    Data,       \* what a page may contain
    Empty,      \* the content of a new page
    Absent,     \* PagedFile's "no such page"
    NoCopy      \* the client holds no Page object

Pages == 1 .. MaxPage
INVALID_NUMBER == 0

ASSUME MaxPageAssumption == MaxPage \in Nat \ {0}
ASSUME DataAssumption == Empty \in Data /\ Absent \notin Data
ASSUME NoCopyAssumption ==
    NoCopy \notin [no : Pages, next : Pages \cup {INVALID_NUMBER}, data : Data]
                    \cup [no : Pages, data : Data]

VARIABLES
    header,     \* the FileHeader on disk
    page,       \* page number -> the page on disk
    copy,       \* a Page object a client got from the file and still has
    state,      \* "ready", or "hung" in a walk that never ends
    thrown,     \* the exception the last operation ended with, if any
    emptied     \* history: a page was reused while no page was in use

vars == <<header, page, copy, state, thrown, emptied>>

(* Page::initialize: not in use, no content. *)
Blank == [used |-> FALSE, next |-> INVALID_NUMBER, data |-> Empty]

(* File::create writes a header that counts itself as a page. *)
Init ==
    /\ header = [num_pages |-> 1, first_used_page |-> INVALID_NUMBER,
                 num_free_pages |-> 0, first_free_page |-> INVALID_NUMBER]
    /\ page = [n \in Pages |-> Blank]
    /\ copy = NoCopy
    /\ state = "ready"
    /\ thrown = "none"
    /\ emptied = FALSE

-----------------------------------------------------------------------------
(* FileIterator: the page number it stands at after i steps from the start. *)
Visited(start) ==
    LET at[i \in 0 .. MaxPage] ==
            IF i = 0 THEN start
            ELSE IF at[i - 1] = INVALID_NUMBER THEN INVALID_NUMBER
            ELSE page[at[i - 1]].next
    IN  at

(* A walk over the used list goes on until it breaks at one of the wanted  *)
(* pages, reaches the end, or dereferences a page that is not in use.      *)
(* WalkStop is the page number it stops at.  A walk of more than MaxPage   *)
(* steps goes in a circle.                                                 *)
StopsAt(n, wanted) ==
    n = INVALID_NUMBER \/ n \in wanted \/ ~page[n].used

WalkHangs(wanted) ==
    \A i \in 0 .. MaxPage : ~StopsAt(Visited(header.first_used_page)[i], wanted)

WalkStop(wanted) ==
    LET at == Visited(header.first_used_page)
    IN  at[Min({i \in 0 .. MaxPage : StopsAt(at[i], wanted)})]

WalkThrows(wanted) ==
    /\ ~WalkHangs(wanted)
    /\ WalkStop(wanted) # INVALID_NUMBER
    /\ ~page[WalkStop(wanted)].used

WalkEnds(wanted) == ~WalkHangs(wanted) /\ ~WalkThrows(wanted)

Hang ==
    /\ state' = "hung"
    /\ UNCHANGED <<header, page, copy, thrown, emptied>>

Throw ==
    /\ thrown' = "InvalidPage"
    /\ UNCHANGED <<header, page, copy, state, emptied>>

(* How an operation that walks ends before it has written anything. *)
WalkFails(wanted) ==
    \/ WalkHangs(wanted) /\ Hang
    \/ WalkThrows(wanted) /\ Throw

-----------------------------------------------------------------------------
(* allocatePage *)

(* The caller is given a copy of the new page. *)
HandOut(n, next) ==
    /\ copy' = [no |-> n, next |-> next, data |-> Empty]
    /\ thrown' = "none"
    /\ UNCHANGED state

Taken(next) == [used |-> TRUE, next |-> next, data |-> Empty]

(* The head of the free list is reused. *)
Reused == header.first_free_page

(* Slip: the head stays in the free list. *)
WithoutFreeHead_Kept(h) ==
    [h EXCEPT !.num_free_pages = @ - 1]

WithoutFreeHead(h) ==
    [h EXCEPT !.first_free_page = page[Reused].next, !.num_free_pages = @ - 1]

(* It becomes the head of the used list.  When that list is empty the next *)
(* pointer of the new page is left as the free list had it.                *)
AllocateReuseHead ==
    /\ state = "ready"
    /\ header.num_free_pages > 0
    /\ \/ header.first_used_page = INVALID_NUMBER
       \/ header.first_used_page > Reused
    /\ LET next == IF header.first_used_page > Reused
                   THEN header.first_used_page ELSE page[Reused].next
       IN  /\ page' = [page EXCEPT ![Reused] = Taken(next)]
           /\ HandOut(Reused, next)
    /\ header' = [WithoutFreeHead(header) EXCEPT !.first_used_page = Reused]
    /\ emptied' = (emptied \/ header.first_used_page = INVALID_NUMBER)

(* It goes after the last used page with a smaller number. *)
Preceding == {n \in Pages : page[n].next > Reused
                              \/ page[n].next = INVALID_NUMBER}

AllocateReuseAfter ==
    /\ state = "ready"
    /\ header.num_free_pages > 0
    /\ header.first_used_page \in 1 .. Reused
    /\ \/ /\ WalkEnds(Preceding)
          /\ LET prev == WalkStop(Preceding) IN
             /\ page' = [page EXCEPT
                           ![Reused] = Taken(page[prev].next),
                           ![prev].next = Reused]
             /\ HandOut(Reused, page[prev].next)
          /\ header' = WithoutFreeHead(header)
          /\ UNCHANGED emptied
       \/ WalkFails(Preceding)

(* No deleted page to reuse: the file grows, and the new page goes to the  *)
(* end of the used list.                                                   *)
LastUsed == {n \in Pages : page[n].next = INVALID_NUMBER}

AllocateGrow ==
    LET new == header.num_pages IN
    /\ state = "ready"
    /\ header.num_free_pages = 0
    /\ new \in Pages
    /\ \/ /\ header.first_used_page = INVALID_NUMBER
          /\ page' = [page EXCEPT ![new] = Taken(INVALID_NUMBER)]
          /\ header' = [header EXCEPT !.num_pages = @ + 1,
                                      !.first_used_page = new]
          /\ HandOut(new, INVALID_NUMBER)
          /\ UNCHANGED emptied
       \/ /\ header.first_used_page # INVALID_NUMBER
          /\ WalkEnds(LastUsed)
          /\ page' = [page EXCEPT ![new] = Taken(INVALID_NUMBER),
                                  ![WalkStop(LastUsed)].next = new]
          /\ header' = [header EXCEPT !.num_pages = @ + 1]
          /\ HandOut(new, INVALID_NUMBER)
          /\ UNCHANGED emptied
       \/ /\ header.first_used_page # INVALID_NUMBER
          /\ WalkFails(LastUsed)

-----------------------------------------------------------------------------
(* deletePage *)

Exists(n) == n < header.num_pages /\ page[n].used

Freed(h, n) ==
    [h EXCEPT !.first_free_page = n, !.num_free_pages = @ + 1]

(* Slip: the rest of the free list is forgotten. *)
FreedPage_Unlinked == Blank

FreedPage == [Blank EXCEPT !.next = header.first_free_page]

DeleteHead(n) ==
    /\ state = "ready"
    /\ Exists(n)
    /\ n = header.first_used_page
    /\ header' = [Freed(header, n) EXCEPT !.first_used_page = page[n].next]
    /\ page' = [page EXCEPT ![n] = FreedPage]
    /\ thrown' = "none"
    /\ UNCHANGED <<copy, state, emptied>>

(* The page that points to n is relinked; if the walk ends without meeting *)
(* one, no page is.                                                        *)
PointTo(n) == {m \in Pages : page[m].next = n}

DeleteAfter(n) ==
    /\ state = "ready"
    /\ Exists(n)
    /\ n # header.first_used_page
    /\ \/ /\ WalkEnds(PointTo(n))
          /\ LET prev == WalkStop(PointTo(n)) IN
             page' = [m \in Pages |->
                        IF m = n THEN FreedPage
                        ELSE IF m = prev
                             THEN [page[m] EXCEPT !.next = page[n].next]
                             ELSE page[m]]
          /\ header' = Freed(header, n)
          /\ thrown' = "none"
          /\ UNCHANGED <<copy, state, emptied>>
       \/ WalkFails(PointTo(n))

DeleteRefused(n) ==
    /\ state = "ready"
    /\ ~Exists(n)
    /\ Throw

-----------------------------------------------------------------------------
(* readPage: the client gets a copy of the page, header and all. *)

ReadPage(n) ==
    /\ state = "ready"
    /\ Exists(n)
    /\ copy' = [no |-> n, next |-> page[n].next, data |-> page[n].data]
    /\ thrown' = "none"
    /\ UNCHANGED <<header, page, state, emptied>>

ReadRefused(n) ==
    /\ state = "ready"
    /\ ~Exists(n)
    /\ Throw

(* Slip: the next pointer of the copy is written too. *)
WritePage_StaleNext(d) ==
    /\ state = "ready"
    /\ copy # NoCopy
    /\ page[copy.no].used
    /\ page' = [page EXCEPT ![copy.no].data = d, ![copy.no].next = copy.next]
    /\ copy' = [copy EXCEPT !.data = d]
    /\ thrown' = "none"
    /\ UNCHANGED <<header, state, emptied>>

(* writePage of a copy the client has changed: the next pointer on disk    *)
(* may be newer than the copy's and is kept.                               *)
WritePage(d) ==
    /\ state = "ready"
    /\ copy # NoCopy
    /\ page[copy.no].used
    /\ page' = [page EXCEPT ![copy.no].data = d]
    /\ copy' = [copy EXCEPT !.data = d]
    /\ thrown' = "none"
    /\ UNCHANGED <<header, state, emptied>>

WriteRefused ==
    /\ state = "ready"
    /\ copy # NoCopy
    /\ ~page[copy.no].used
    /\ Throw

(* The walk that never ends keeps walking. *)
KeepWalking == state = "hung" /\ UNCHANGED vars

-----------------------------------------------------------------------------
AllocatePage == AllocateReuseHead \/ AllocateReuseAfter \/ AllocateGrow

DeletePage(n) == DeleteHead(n) \/ DeleteAfter(n) \/ DeleteRefused(n)

Next ==
    \/ AllocatePage
    \/ \E n \in Pages : DeletePage(n) \/ ReadPage(n) \/ ReadRefused(n)
    \/ \E d \in Data : WritePage(d)
    \/ WriteRefused
    \/ KeepWalking

Spec == Init /\ [][Next]_vars

-----------------------------------------------------------------------------
PageNos == Pages \cup {INVALID_NUMBER}

(* The types: header counters stay within the file. *)
TypeOK ==
    /\ header \in [num_pages : 1 .. MaxPage + 1, first_used_page : PageNos,
                   num_free_pages : 0 .. MaxPage, first_free_page : PageNos]
    /\ page \in [Pages -> [used : BOOLEAN, next : PageNos, data : Data]]
    /\ copy \in [no : Pages, next : PageNos, data : Data] \cup {NoCopy}
    /\ state \in {"ready", "hung"}
    /\ thrown \in {"none", "InvalidPage"}
    /\ emptied \in BOOLEAN

UsedPages == {n \in Pages : page[n].used}

DeletedPages == {n \in Pages : n < header.num_pages /\ ~page[n].used}

(* Following the next pointers from start visits the pages of S, each once, *)
(* and ends.                                                               *)
IsChain(start, S) ==
    LET at == Visited(start)
        k  == Cardinality(S)
    IN  /\ {at[i] : i \in 0 .. k - 1} = S
        /\ at[k] = INVALID_NUMBER

(* The header counts the deleted pages, and the free list links each of    *)
(* them once: no deleted page is lost to the file and none can be handed   *)
(* out twice, and the file grows only when it has none to reuse.  This     *)
(* holds whatever has become of the used list, and is the assertion of     *)
(* file.cpp:119-120.                                                       *)
FreeListExact ==
    /\ TypeOK
    /\ header.num_free_pages = Cardinality(DeletedPages)
    /\ IsChain(header.first_free_page, DeletedPages)

(* The used list links each page in use once, in ascending order, and no   *)
(* walk over it throws or runs for ever -- as long as no page was ever     *)
(* reused while no page was in use.  Such a page keeps its pointer into    *)
(* the free list (WithoutFreeHead), and the used list runs into it.        *)
UsedListExact ==
    ~emptied =>
        /\ IsChain(header.first_used_page, UsedPages)
        /\ \A n \in UsedPages :
              page[n].next = INVALID_NUMBER \/ page[n].next > n
        /\ state = "ready"

ContentInUse == [n \in Pages |-> IF page[n].used THEN page[n].data ELSE Absent]

CopyHeld == IF copy = NoCopy THEN NoCopy ELSE [no |-> copy.no, data |-> copy.data]

(* The file implements PagedFile even where its used list is damaged: an   *)
(* allocation never hands out a page in use, a write reaches its page and  *)
(* no other, and a failing operation changes nothing.                      *)
File == INSTANCE PagedFile WITH content <- ContentInUse, held <- CopyHeld

FileSpec == File!Spec
=============================================================================
