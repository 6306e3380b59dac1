------------------------------ MODULE FileScan ------------------------------
(***************************************************************************)
(* The scan of a relation in the third assignment (src/p3/src/filescan.cpp *)
(* with its two iterators) beside an owner who changes the file between    *)
(* the calls of the scan.                                                  *)
(*                                                                         *)
(* The scan opens the file a second time, and the buffer pool tells pages  *)
(* by their File object, so the scan sees its own copies of the pages: it  *)
(* walks along the pages on disk, and along the records of what the pool   *)
(* holds.  A page number is always read from the disk, again at each use,  *)
(* which throws if the page was deleted in the meantime.                   *)
(*                                                                         *)
(* A page deleted by the owner also leaves its dirty copy behind: allocBuf *)
(* takes the entry of its victim out of the hash table first and fails     *)
(* after that, when the copy cannot be written.  The copy stays, without   *)
(* an entry, and may be met again, also when its page number is in use     *)
(* again and has another copy.                                             *)
(*                                                                         *)
(* The file is taken at its promise: the used list links the pages in      *)
(* ascending order (UsedListExact of PageFile says when it does).  Other   *)
(* clients of the pool take its frames at any time.                        *)
(***************************************************************************)
EXTENDS Integers, FiniteSetsExt

CONSTANTS
    MaxPage,    \* bound: page numbers are 1..MaxPage
    MaxSlot,    \* bound: slots of a page are 1..MaxSlot
    numBufs,    \* bound: frames are 1..numBufs
    Contents,   \* bound: the sets of used slots a page may have
    Absent,     \* in the file: no such page
    NotPooled   \* in the pool: the frame holds no page of the scan

Pages == 1 .. MaxPage
Slots == 1 .. MaxSlot
Frames == 1 .. numBufs
INVALID_NUMBER == 0
INVALID_SLOT == 0
NULL == 0
NoFrame == 0

(* A copy of a page in a frame. *)
Copies == [page : Pages, slots : Contents, dirty : BOOLEAN, pinCnt : Nat]

ASSUME MaxPageAssumption == MaxPage \in Nat
ASSUME MaxSlotAssumption == MaxSlot \in Nat
ASSUME NumBufsAssumption == numBufs \in Nat
ASSUME ContentsAssumption == {} \in Contents /\ \A slots \in Contents : slots \subseteq Slots
ASSUME AbsentAssumption == \A slots \in Contents : Absent # slots
ASSUME NotPooledAssumption == NotPooled \notin Copies

VARIABLES
    file,           \* page -> its used slots, or Absent
    pool,           \* frame -> the copy of a page of the scan in it
    ht,             \* page -> the frame the hash table has for it
    filePageIter,   \* the page number the scan stands at
    curPage,        \* the frame the scan points to, or NULL
    pageRecordIter, \* the slot the scan stands at
    curDirtyFlag,
    pc,             \* "closed", "open" between calls, or inside scanNext
    thrown,         \* how the last call of the scan ended
    returned,       \* history: the records this scan has returned
    repeated,       \* history: it has returned a record twice
    stable,         \* history: records there since before the scan
    failed,         \* history: a call of the scan ended in an error
    marked          \* history: pages the client marked dirty in this scan

iters == <<filePageIter, curPage, pageRecordIter, curDirtyFlag>>
told == <<returned, repeated, failed, marked>>
vars == <<file, stable, pool, ht, iters, pc, thrown, told>>

Used == {p \in Pages : file[p] # Absent}

RecordsOf(f) ==
    {r \in Pages \X Slots : f[r[1]] # Absent /\ r[2] \in f[r[1]]}

Init ==
    /\ file \in [Pages -> {Absent} \cup Contents]
    /\ pool = [fr \in Frames |-> NotPooled]
    /\ ht = [p \in Pages |-> NoFrame]
    /\ filePageIter = INVALID_NUMBER
    /\ curPage = NULL
    /\ pageRecordIter = INVALID_SLOT
    /\ curDirtyFlag = FALSE
    /\ pc = "closed"
    /\ thrown = "none"
    /\ returned = {} /\ repeated = FALSE /\ stable = {}
    /\ failed = FALSE /\ marked = {}

(* The first member of S after n, or 0. *)
After(S, n) ==
    LET rest == {m \in S : m > n} IN IF rest = {} THEN 0 ELSE Min(rest)

(* FileIterator: begin() and operator++. *)
FirstPage == After(Used, INVALID_NUMBER)

(* Slip: the iterator stays. *)
NextPage_Stays == filePageIter
NextPage == After(Used, filePageIter)

(* PageIterator::getNextUsedSlot. *)
(* Slip: it looks at the slot it starts from. *)
getNextUsedSlot_AtStart(slots, start) == After(slots, start - 1)
getNextUsedSlot(slots, start) == After(slots, start)

-----------------------------------------------------------------------------
(* What is in the file changes. *)
Store(f) == file' = f /\ stable' = stable \cap RecordsOf(f)

(* The owner, through another File object. *)
OwnerTurn == pc \in {"closed", "open"}

Change(f) == Store(f) /\ UNCHANGED <<pool, ht, iters, pc, thrown, told>>

Allocate(p) == OwnerTurn /\ p \notin Used /\ Change([file EXCEPT ![p] = {}])

Delete(p) == OwnerTurn /\ p \in Used /\ Change([file EXCEPT ![p] = Absent])

Update(p, slots) ==
    OwnerTurn /\ p \in Used /\ Change([file EXCEPT ![p] = slots])

(* The frames with a copy of the scan, and those of them the clock may     *)
(* choose.                                                                 *)
Holding == {fr \in Frames : pool[fr] # NotPooled}
Victims == {fr \in Holding : pool[fr].pinCnt = 0}

HasEntry(fr) == ht[pool[fr].page] # NoFrame

(* PageFile::writePage throws if the page was deleted. *)
Writable(fr) == pool[fr].dirty => pool[fr].page \in Used

Written(fr) ==
    IF pool[fr].dirty THEN [file EXCEPT ![pool[fr].page] = pool[fr].slots]
                      ELSE file

(* allocBuf takes the entry of its victim's page out of the hash table,    *)
(* whichever copy the entry leads to,                                      *)
Unhashed(fr) == [ht EXCEPT ![pool[fr].page] = NoFrame]

(* and then writes the copy; the frame is free after that.                 *)
TakeFrame(fr) ==
    /\ fr \in Victims /\ HasEntry(fr) /\ Writable(fr)
    /\ Store(Written(fr))

(* If that fails, with InvalidPage, the copy stays.  Without an entry the  *)
(* call fails with HashNotFound and changes nothing.                       *)
TakeFails(fr) ==
    /\ fr \in Victims /\ HasEntry(fr) /\ ~Writable(fr)
    /\ ht' = Unhashed(fr)
    /\ UNCHANGED <<file, stable, pool>>

(* Another client's call needs a frame. *)
Evict(fr) ==
    /\ OwnerTurn
    /\ \/ /\ TakeFrame(fr)
          /\ pool' = [pool EXCEPT ![fr] = NotPooled]
          /\ ht' = Unhashed(fr)
       \/ TakeFails(fr)
    /\ UNCHANGED <<iters, pc, thrown, told>>

-----------------------------------------------------------------------------
(* The constructor. *)
Open ==
    /\ pc = "closed"
    /\ filePageIter' = FirstPage
    /\ curPage' = NULL
    /\ pageRecordIter' = INVALID_SLOT
    /\ curDirtyFlag' = FALSE
    /\ pc' = "open"
    /\ thrown' = "none"
    /\ returned' = {} /\ repeated' = FALSE /\ stable' = RecordsOf(file)
    /\ failed' = FALSE /\ marked' = {}
    /\ UNCHANGED <<file, pool, ht>>

(* scanNext returns a record, or throws. *)
ReturnRecord(p, s) ==
    /\ pc' = "open"
    /\ thrown' = "none"
    /\ returned' = returned \cup {<<p, s>>}
    /\ repeated' = (repeated \/ <<p, s>> \in returned)
    /\ UNCHANGED <<failed, marked>>

Throw(exception) ==
    /\ pc' = "open"
    /\ thrown' = exception
    /\ failed' = (failed \/ exception # "EndOfFile")
    /\ UNCHANGED <<returned, repeated, marked>>

Continue(next) == pc' = next /\ UNCHANGED <<thrown, told>>

(* The next record of the page at hand, if it has one. *)
Advance(p, slots, start) ==
    LET s == getNextUsedSlot(slots, start) IN
    /\ pageRecordIter' = s
    /\ IF s # INVALID_SLOT THEN ReturnRecord(p, s) ELSE Continue("turnPage")

ScanAtEnd ==
    /\ pc = "open"
    /\ filePageIter = INVALID_NUMBER
    /\ Throw("EndOfFile")
    /\ UNCHANGED <<file, stable, pool, ht, iters>>

(* With no page at hand the scan begins with the first page of the file,   *)
(* wherever it stood.                                                      *)
ScanFirst ==
    /\ pc = "open"
    /\ filePageIter # INVALID_NUMBER
    /\ curPage = NULL
    /\ filePageIter' = FirstPage
    /\ IF FirstPage = INVALID_NUMBER THEN Throw("EndOfFile") ELSE Continue("readFirst")
    /\ UNCHANGED <<file, stable, pool, ht, curPage, pageRecordIter, curDirtyFlag>>

ScanOn ==
    /\ pc = "open"
    /\ filePageIter # INVALID_NUMBER
    /\ curPage # NULL
    /\ Advance(filePageIter, pool[curPage].slots, pageRecordIter)
    /\ UNCHANGED <<file, stable, pool, ht, filePageIter, curPage, curDirtyFlag>>

Reading == pc \in {"readFirst", "readPage"}

(* The page has been read into frame fr. *)
PageRead(fr, slots) ==
    /\ curPage' = fr
    /\ curDirtyFlag' = (curDirtyFlag /\ pc = "readPage")
    /\ Advance(filePageIter, slots, INVALID_SLOT)
    /\ UNCHANGED filePageIter

(* The pool gives the copy it has, *)
ReadHit ==
    LET fr == ht[filePageIter] IN
    /\ Reading
    /\ fr # NoFrame
    /\ pool' = [pool EXCEPT ![fr].pinCnt = @ + 1]
    /\ PageRead(fr, pool[fr].slots)
    /\ UNCHANGED <<file, stable, ht>>

(* or reads the page into a frame that is free, another client's or the    *)
(* scan's own,                                                             *)
Fresh(p) == [page |-> p, slots |-> file[p], dirty |-> FALSE, pinCnt |-> 1]

ReadMiss(fr) ==
    LET p == filePageIter IN
    /\ Reading
    /\ ht[p] = NoFrame
    /\ \/ /\ fr \notin Holding
          /\ ht' = [ht EXCEPT ![p] = fr]
          /\ UNCHANGED <<file, stable>>
       \/ /\ TakeFrame(fr)
          /\ ht' = [Unhashed(fr) EXCEPT ![p] = fr]
    /\ pool' = [pool EXCEPT ![fr] = Fresh(p)]
    /\ PageRead(fr, file[p])

(* or there is none: all are pinned, or the clock stops at a copy that     *)
(* cannot be taken, the scan's or another client's.  There is no page at   *)
(* hand now.                                                               *)
ReadFails ==
    /\ Reading
    /\ ht[filePageIter] = NoFrame
    /\ \/ Victims = {} /\ Throw("BufferExceeded") /\ UNCHANGED ht
       \/ Throw("HashNotFound") /\ UNCHANGED ht
       \/ Throw("InvalidPage") /\ (UNCHANGED ht \/ \E fr \in Frames : TakeFails(fr))
    /\ UNCHANGED <<file, stable, pool, iters>>

(* The page is done with: it is given back, if it still exists and the     *)
(* pool still finds it, and the scan goes to the next one.                 *)
Found == filePageIter \in Used /\ ht[filePageIter] # NoFrame

Unpinned(copy) == [copy EXCEPT !.dirty = @ \/ curDirtyFlag, !.pinCnt = @ - 1]

(* Slip: the last page is not given back. *)
GivenBack_NotLast ==
    LET fr == ht[filePageIter] IN
    IF NextPage = INVALID_NUMBER
    THEN pool
    ELSE [pool EXCEPT ![fr] = Unpinned(pool[fr])]

GivenBack ==
    LET fr == ht[filePageIter] IN [pool EXCEPT ![fr] = Unpinned(pool[fr])]

(* Slip: the dirty flag is kept for the next page. *)
TurnPage_KeepsFlag ==
    /\ pc = "turnPage"
    /\ Found
    /\ pool' = GivenBack
    /\ curPage' = NULL
    /\ filePageIter' = NextPage
    /\ IF NextPage = INVALID_NUMBER THEN Throw("EndOfFile") ELSE Continue("readPage")
    /\ UNCHANGED <<file, stable, ht, curDirtyFlag, pageRecordIter>>

TurnPage ==
    /\ pc = "turnPage"
    /\ Found
    /\ pool' = GivenBack
    /\ curPage' = NULL
    /\ curDirtyFlag' = FALSE
    /\ filePageIter' = NextPage
    /\ IF NextPage = INVALID_NUMBER THEN Throw("EndOfFile") ELSE Continue("readPage")
    /\ UNCHANGED <<file, stable, ht, pageRecordIter>>

TurnFails ==
    /\ pc = "turnPage"
    /\ ~Found
    /\ Throw(IF filePageIter \in Used THEN "HashNotFound" ELSE "InvalidPage")
    /\ UNCHANGED <<file, stable, pool, ht, iters>>

MarkDirty ==
    /\ pc = "open"
    /\ curDirtyFlag' = TRUE
    /\ marked' = IF curPage = NULL THEN marked ELSE marked \cup {filePageIter}
    /\ UNCHANGED <<file, stable, pool, ht, filePageIter, curPage, pageRecordIter, pc,
                   thrown, returned, repeated, failed>>

(* BufMgr::flushFile, for the scan's file: frame by frame a copy is        *)
(* written, if it is dirty, and given up with its entry.                   *)
CanWrite(copy) == copy.pinCnt = 0 /\ (copy.dirty => copy.page \in Used)

CanFlush(copies, fr) ==
    /\ CanWrite(copies[fr])
    /\ ht[copies[fr].page] # NoFrame
    /\ \A g \in Holding : g < fr => copies[g].page # copies[fr].page

(* The frames it comes to: it stops at the first that cannot be flushed.   *)
Reached(copies) ==
    {fr \in Holding : \A g \in Holding : g < fr => CanFlush(copies, g)}

Flushed(copies) ==
    {fr \in Reached(copies) : copies[fr].dirty /\ CanWrite(copies[fr])}

FileFlushed(copies) ==
    [p \in Pages |->
       LET by == {fr \in Flushed(copies) : copies[fr].page = p}
       IN  IF by = {} THEN file[p] ELSE copies[Max(by)].slots]

(* The destructor: a page still at hand is given back, then all copies of  *)
(* the scan are flushed.  It may not throw: if the page at hand was        *)
(* deleted or is not found, or a copy cannot be flushed, the program       *)
(* terminates.                                                             *)
Flush(copies) ==
    /\ Store(FileFlushed(copies))
    /\ IF \A fr \in Holding : CanFlush(copies, fr)
       THEN /\ pc' = "closed"
            /\ pool' = [fr \in Frames |-> NotPooled]
            /\ ht' = [p \in Pages |-> NoFrame]
       ELSE pc' = "terminated" /\ UNCHANGED <<pool, ht>>

Close ==
    /\ pc = "open"
    /\ IF curPage = NULL THEN Flush(pool)
       ELSE IF Found THEN Flush(GivenBack)
       ELSE pc' = "terminated" /\ UNCHANGED <<file, stable, pool, ht>>
    /\ UNCHANGED <<iters, thrown, told>>

Terminated == pc = "terminated" /\ UNCHANGED vars

-----------------------------------------------------------------------------
OwnerStep ==
    \/ \E p \in Pages :
          \/ Allocate(p) \/ Delete(p)
          \/ \E slots \in Contents : Update(p, slots)
    \/ \E fr \in Frames : Evict(fr)

ReadPage == ReadHit \/ (\E fr \in Frames : ReadMiss(fr)) \/ ReadFails

ScanNext == ScanAtEnd \/ ScanFirst \/ ScanOn \/ ReadPage \/ TurnPage \/ TurnFails

Next == OwnerStep \/ Open \/ ScanNext \/ MarkDirty \/ Close \/ Terminated

(* A call of scanNext that has begun runs on. *)
Spec == Init /\ [][Next]_vars /\ WF_vars(ReadPage \/ TurnPage \/ TurnFails)

-----------------------------------------------------------------------------
(* The types. *)
TypeOK ==
    /\ file \in [Pages -> {Absent} \cup Contents]
    /\ pool \in [Frames -> {NotPooled} \cup Copies]
    /\ ht \in [Pages -> Frames \cup {NoFrame}]
    /\ filePageIter \in Pages \cup {INVALID_NUMBER}
    /\ curPage \in Frames \cup {NULL}
    /\ pageRecordIter \in Slots \cup {INVALID_SLOT}
    /\ curDirtyFlag \in BOOLEAN
    /\ pc \in {"closed", "open", "readFirst", "readPage", "turnPage", "terminated"}
    /\ thrown \in {"none", "EndOfFile", "InvalidPage", "HashNotFound",
                   "BufferExceeded"}
    /\ returned \cup stable \subseteq Pages \X Slots
    /\ repeated \in BOOLEAN /\ failed \in BOOLEAN
    /\ marked \subseteq Pages

(* The scan pins the copy it points into, once, and no other, also after   *)
(* calls that failed and when an old copy of a deleted page has taken the  *)
(* entry of that copy along: closing the scan leaves no pin and no copy    *)
(* behind, and getRecord never reads a frame given to another page.        *)
ScanPins ==
    /\ TypeOK
    /\ \A fr \in Holding : pc # "terminated" =>
          pool[fr].pinCnt = IF fr = curPage THEN 1 ELSE 0
    /\ pc = "closed" => Holding = {} /\ ht = [p \in Pages |-> NoFrame]
    /\ curPage # NULL /\ pc \in {"open", "turnPage"} =>
          curPage \in Holding /\ pool[curPage].page = filePageIter

(* A scan none of whose calls failed returns no record twice, and when it  *)
(* comes to the end it has returned each record that was in the file all   *)
(* the time, whatever the owner added, deleted and reused meanwhile.       *)
EachRecordOnce ==
    pc # "closed" /\ ~failed =>
        /\ ~repeated
        /\ pc = "open" /\ thrown = "EndOfFile" => stable \subseteq returned

(* What the scan, its end and the eviction of its copies write to the file *)
(* are pages that the client marked dirty in this scan and no others: an   *)
(* old copy of any other page does not undo the owner's changes.           *)
WritesOnlyMarked ==
    [][pool' # pool \/ pc' = "terminated" =>
         \A p \in Pages : file'[p] # file[p] => p \in marked]_vars

(* Each call of scanNext ends. *)
ScanNextReturns == Reading ~> ~Reading /\ pc # "turnPage"
=============================================================================
