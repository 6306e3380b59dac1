------------------------------- MODULE BufMgr -------------------------------
(***************************************************************************)
(* The buffer manager of the second assignment (src/p2/src/buffer.cpp):    *)
(* a pool of numBufs frames between the clients and the database files,    *)
(* with a hash table from (file, page) to frame and the clock policy to    *)
(* choose the frame a missing page is brought into.                        *)
(*                                                                         *)
(* A call that needs a frame is a run of steps: one step per turn of the   *)
(* loop of allocBuf, then the step that fills the frame.  The other calls  *)
(* are one step each.  Several clients may hold pins on the same page.     *)
(*                                                                         *)
(* The File below the manager is taken at its promise: it maps page        *)
(* numbers to contents, allocatePage returns a number not in use, and      *)
(* deletePage of a page in use succeeds.  PageFile models how File keeps   *)
(* that promise on disk, and when it does not.                             *)
(***************************************************************************)
EXTENDS Integers

CONSTANTS
    Files,      \* the open database files
    NoFile,     \* the default File() object of a cleared frame
    numBufs,    \* the number of frames
    MaxPage,    \* bound: page numbers of a file are 1..MaxPage
    MaxPins,    \* bound: pins that clients hold on one page
    Data,       \* what a page may contain
    Empty,      \* the content of a new page
    Absent,     \* on disk: the file has no such page
    NoFrame     \* hashTable: no entry for the page

Frames == 0 .. numBufs - 1
Pages == 1 .. MaxPage
INVALID_NUMBER == 0

ASSUME NumBufsAssumption == numBufs \in Nat \ {0}
ASSUME BoundsAssumption == MaxPage \in Nat /\ MaxPins \in Nat
ASSUME NoFileAssumption == NoFile \notin Files
ASSUME NoFrameAssumption == NoFrame \notin Frames
ASSUME DataAssumption == Empty \in Data /\ Absent \notin Data

VARIABLES
    bufDescTable,   \* frame -> its descriptor
    hashTable,      \* file, page -> the frame that holds it, or NoFrame
    clockHand,
    bufPool,        \* frame -> the content of the Page object in it
    disk,           \* file, page -> content in the file, or Absent
    call,           \* the call in progress
    thrown,         \* the exception the last call ended with, if any
    pins,           \* client side: pins held on a page by all clients
    unsaved         \* client side: pages modified by a holder who has not
                    \* yet given its pin back

poolVars == <<bufDescTable, hashTable, clockHand, bufPool>>
clientVars == <<pins, unsaved>>
vars == <<bufDescTable, hashTable, clockHand, bufPool, disk, call, thrown,
          pins, unsaved>>

Idle == [pc |-> "idle", op |-> "none", file |-> NoFile,
         page |-> INVALID_NUMBER, i |-> 0]

BufDesc == [file : Files \cup {NoFile}, pageNo : Pages \cup {INVALID_NUMBER},
            pinCnt : Nat, dirty : BOOLEAN, valid : BOOLEAN, refbit : BOOLEAN]

(* BufDesc::clear, and the state the constructor leaves a frame in. *)
Cleared == [file |-> NoFile, pageNo |-> INVALID_NUMBER, pinCnt |-> 0,
            dirty |-> FALSE, valid |-> FALSE, refbit |-> FALSE]

(* BufDesc::Set. *)
Assigned(f, p) == [file |-> f, pageNo |-> p, pinCnt |-> 1,
                   dirty |-> FALSE, valid |-> TRUE, refbit |-> TRUE]

Init ==
    /\ bufDescTable = [fr \in Frames |-> Cleared]
    /\ hashTable = [f \in Files |-> [p \in Pages |-> NoFrame]]
    /\ clockHand = numBufs - 1
    /\ bufPool = [fr \in Frames |-> Empty]
    /\ disk \in [Files -> [Pages -> Data \cup {Absent}]]
    /\ call = Idle
    /\ thrown = "none"
    /\ pins = [f \in Files |-> [p \in Pages |-> 0]]
    /\ unsaved = [f \in Files |-> {}]

-----------------------------------------------------------------------------
(* Ending a call, by return or by exception. *)
Return(exception) ==
    /\ call' = Idle
    /\ thrown' = exception

(* The caller enters allocBuf with its own operands on the stack. *)
EnterAllocBuf(op, f, p) ==
    /\ call' = [pc |-> "sweep", op |-> op, file |-> f, page |-> p, i |-> 0]
    /\ thrown' = "none"

(* allocBuf has set its frame, which is always the one under the hand. *)
FrameFound ==
    /\ call' = [call EXCEPT !.pc = "fill"]
    /\ UNCHANGED <<clockHand, thrown>>

(* Slip: the hand does not wrap. *)
NextTurn_NoWrap ==
    /\ clockHand' = clockHand + 1
    /\ call' = [call EXCEPT !.i = @ + 1]
    /\ UNCHANGED thrown

(* Slip: a skipped frame is not counted as a turn. *)
NextTurn_Uncounted ==
    /\ clockHand' = (clockHand + 1) % numBufs
    /\ UNCHANGED <<call, thrown>>

(* The end of the loop's body: advanceClock, and the next turn. *)
NextTurn ==
    /\ clockHand' = (clockHand + 1) % numBufs
    /\ call' = [call EXCEPT !.i = @ + 1]
    /\ UNCHANGED thrown

Turning == call.pc = "sweep" /\ call.i < 2 * numBufs

Victim == bufDescTable[clockHand]

FilePinned(f) ==
    \E fr \in Frames : bufDescTable[fr].file = f /\ bufDescTable[fr].pinCnt > 0

(* The second loop of flushFile over the given frames: each dirty frame of  *)
(* the file is written, loses its hash entry and is cleared.  Frames with  *)
(* clean pages stay.                                                       *)
DirtyOf(f, frames) ==
    {fr \in frames : bufDescTable[fr].file = f /\ bufDescTable[fr].dirty}

PagesIn(frames) == {bufDescTable[fr].pageNo : fr \in frames}

(* Slip: the page under the hand is written for every page. *)
ContentIn_AtHand(frames, p) == bufPool[clockHand]

ContentIn(frames, p) ==
    bufPool[CHOOSE fr \in frames : bufDescTable[fr].pageNo = p]

WriteBack(f, frames) ==
    /\ disk' = [disk EXCEPT ![f] =
                  [p \in Pages |->
                     IF p \in PagesIn(frames) THEN ContentIn(frames, p)
                                              ELSE @[p]]]
    /\ hashTable' = [hashTable EXCEPT ![f] =
                       [p \in Pages |->
                          IF p \in PagesIn(frames) THEN NoFrame ELSE @[p]]]
    /\ bufDescTable' = [fr \in Frames |->
                          IF fr \in frames THEN Cleared
                                           ELSE bufDescTable[fr]]
    /\ UNCHANGED bufPool

-----------------------------------------------------------------------------
(* allocBuf: one action per branch of the loop's body. *)

TakeInvalid ==
    /\ Turning
    /\ ~Victim.valid
    /\ FrameFound
    /\ UNCHANGED <<bufDescTable, hashTable, bufPool, disk, clientVars>>

ClearRefbit ==
    /\ Turning
    /\ Victim.valid /\ Victim.refbit
    /\ bufDescTable' = [bufDescTable EXCEPT ![clockHand].refbit = FALSE]
    /\ NextTurn
    /\ UNCHANGED <<hashTable, bufPool, disk, clientVars>>

(* Slip: the pin count is not looked at. *)
Evictable_Pinned == Victim.valid /\ ~Victim.refbit

(* The second chance is used up and nobody holds the page. *)
Evictable == Victim.valid /\ ~Victim.refbit /\ Victim.pinCnt = 0

(* A clean page only loses its hash entry: the descriptor is left as it is. *)
EvictClean ==
    /\ Turning
    /\ Evictable /\ ~Victim.dirty
    /\ hashTable[Victim.file][Victim.pageNo] # NoFrame
    /\ hashTable' = [hashTable EXCEPT ![Victim.file][Victim.pageNo] = NoFrame]
    /\ FrameFound
    /\ UNCHANGED <<bufDescTable, bufPool, disk, clientVars>>

(* hashTable.remove throws HashNotFoundException, which allocBuf does not   *)
(* catch.                                                                  *)
EvictUnhashed ==
    /\ Turning
    /\ Evictable /\ ~Victim.dirty
    /\ hashTable[Victim.file][Victim.pageNo] = NoFrame
    /\ Return("HashNotFound")
    /\ UNCHANGED <<poolVars, disk, clientVars>>

(* A dirty page takes its whole file with it: flushFile is called on the   *)
(* File object inside the victim's own descriptor.  Clearing the victim    *)
(* resets that object, so frames after the hand no longer compare equal to *)
(* it and are not flushed.                                                 *)
EvictDirty ==
    /\ Turning
    /\ Evictable /\ Victim.dirty
    /\ ~FilePinned(Victim.file)
    /\ WriteBack(Victim.file, DirtyOf(Victim.file, 0 .. clockHand))
    /\ FrameFound
    /\ UNCHANGED clientVars

(* The page is pinned, or flushFile refused because a page of the same     *)
(* file is.                                                                *)
SkipPinned ==
    /\ Turning
    /\ Victim.valid /\ ~Victim.refbit
    /\ \/ Victim.pinCnt > 0
       \/ Victim.dirty /\ FilePinned(Victim.file)
    /\ NextTurn
    /\ UNCHANGED <<bufDescTable, hashTable, bufPool, disk, clientVars>>

(* Slip: the clock circles once. *)
Exceeded_OneCircle ==
    /\ call.pc = "sweep" /\ call.i = numBufs
    /\ Return("BufferExceeded")
    /\ UNCHANGED <<poolVars, disk, clientVars>>

Exceeded ==
    /\ call.pc = "sweep" /\ call.i = 2 * numBufs
    /\ Return("BufferExceeded")
    /\ UNCHANGED <<poolVars, disk, clientVars>>

-----------------------------------------------------------------------------
(* The frame under the hand receives the page. *)
Install(f, p, d) ==
    /\ bufPool' = [bufPool EXCEPT ![clockHand] = d]
    /\ hashTable' = [hashTable EXCEPT ![f][p] = clockHand]
    /\ bufDescTable' = [bufDescTable EXCEPT ![clockHand] = Assigned(f, p)]
    /\ UNCHANGED clockHand

(* readPage *)

ReadHit(f, p) ==
    /\ call = Idle
    /\ hashTable[f][p] # NoFrame
    /\ pins[f][p] < MaxPins
    /\ bufDescTable' = [bufDescTable EXCEPT ![hashTable[f][p]].refbit = TRUE,
                                            ![hashTable[f][p]].pinCnt = @ + 1]
    /\ pins' = [pins EXCEPT ![f][p] = @ + 1]
    /\ Return("none")
    /\ UNCHANGED <<hashTable, clockHand, bufPool, disk, unsaved>>

(* Any page number may be asked for, whether or not the file has the page. *)
ReadMiss(f, p) ==
    /\ call = Idle
    /\ hashTable[f][p] = NoFrame
    /\ EnterAllocBuf("readPage", f, p)
    /\ UNCHANGED <<poolVars, disk, clientVars>>

ReadFill ==
    /\ call.pc = "fill" /\ call.op = "readPage"
    /\ disk[call.file][call.page] # Absent
    /\ Install(call.file, call.page, disk[call.file][call.page])
    /\ pins' = [pins EXCEPT ![call.file][call.page] = @ + 1]
    /\ Return("none")
    /\ UNCHANGED <<disk, unsaved>>

(* file.readPage throws after allocBuf has already taken the frame. *)
ReadFillFails ==
    /\ call.pc = "fill" /\ call.op = "readPage"
    /\ disk[call.file][call.page] = Absent
    /\ Return("InvalidPage")
    /\ UNCHANGED <<poolVars, disk, clientVars>>

(* allocPage *)

AllocPage(f) ==
    /\ call = Idle
    /\ \E p \in Pages : disk[f][p] = Absent
    /\ EnterAllocBuf("allocPage", f, INVALID_NUMBER)
    /\ UNCHANGED <<poolVars, disk, clientVars>>

(* file.allocatePage has written the empty page to the file. *)
AllocFill ==
    /\ call.pc = "fill" /\ call.op = "allocPage"
    /\ \E p \in Pages :
         /\ disk[call.file][p] = Absent
         /\ disk' = [disk EXCEPT ![call.file][p] = Empty]
         /\ Install(call.file, p, Empty)
         /\ pins' = [pins EXCEPT ![call.file][p] = @ + 1]
    /\ Return("none")
    /\ UNCHANGED unsaved

-----------------------------------------------------------------------------
(* unPinPage *)

(* Slip: the dirty bit is overwritten by the last caller's flag. *)
UnPinPage_Overwrites(f, p, dirty) ==
    LET fr == hashTable[f][p] IN
    /\ call = Idle
    /\ fr # NoFrame /\ bufDescTable[fr].pinCnt > 0
    /\ p \in unsaved[f] /\ pins[f][p] = 1 => dirty
    /\ bufDescTable' = [bufDescTable EXCEPT ![fr].dirty = dirty,
                                            ![fr].pinCnt = @ - 1]
    /\ pins' = [pins EXCEPT ![f][p] = @ - 1]
    /\ unsaved' = [unsaved EXCEPT ![f] = IF dirty THEN @ \ {p} ELSE @]
    /\ Return("none")
    /\ UNCHANGED <<hashTable, clockHand, bufPool, disk>>

(* Slip: one unpin releases the frame for all holders. *)
UnPinPage_ReleasesAll(f, p, dirty) ==
    LET fr == hashTable[f][p] IN
    /\ call = Idle
    /\ fr # NoFrame /\ bufDescTable[fr].pinCnt > 0
    /\ p \in unsaved[f] /\ pins[f][p] = 1 => dirty
    /\ bufDescTable' = [bufDescTable EXCEPT ![fr].dirty = @ \/ dirty,
                                            ![fr].pinCnt = 0]
    /\ pins' = [pins EXCEPT ![f][p] = @ - 1]
    /\ unsaved' = [unsaved EXCEPT ![f] = IF dirty THEN @ \ {p} ELSE @]
    /\ Return("none")
    /\ UNCHANGED <<hashTable, clockHand, bufPool, disk>>

(* A holder gives one pin back.  The client's side of the contract: the    *)
(* last pin of a page with unsaved modifications comes back dirty.         *)
UnPinPage(f, p, dirty) ==
    LET fr == hashTable[f][p] IN
    /\ call = Idle
    /\ fr # NoFrame /\ bufDescTable[fr].pinCnt > 0
    /\ p \in unsaved[f] /\ pins[f][p] = 1 => dirty
    /\ bufDescTable' = [bufDescTable EXCEPT ![fr].dirty = @ \/ dirty,
                                            ![fr].pinCnt = @ - 1]
    /\ pins' = [pins EXCEPT ![f][p] = @ - 1]
    /\ unsaved' = [unsaved EXCEPT ![f] = IF dirty THEN @ \ {p} ELSE @]
    /\ Return("none")
    /\ UNCHANGED <<hashTable, clockHand, bufPool, disk>>

(* A page that is not in the pool is ignored; one that is there but not    *)
(* pinned is refused before its dirty bit is touched.                      *)
UnPinRefused(f, p) ==
    /\ call = Idle
    /\ hashTable[f][p] # NoFrame => bufDescTable[hashTable[f][p]].pinCnt = 0
    /\ Return(IF hashTable[f][p] = NoFrame THEN "none" ELSE "PageNotPinned")
    /\ UNCHANGED <<poolVars, disk, clientVars>>

(* flushFile *)

FlushFile(f) ==
    /\ call = Idle
    /\ ~FilePinned(f)
    /\ WriteBack(f, DirtyOf(f, Frames))
    /\ Return("none")
    /\ UNCHANGED <<clockHand, clientVars>>

(* Refused in the first loop, before anything is written. *)
FlushRefused(f) ==
    /\ call = Idle
    /\ FilePinned(f)
    /\ Return("PagePinned")
    /\ UNCHANGED <<poolVars, disk, clientVars>>

(* disposePage: no look at the pin count, so every pin on the page is void. *)

(* Slip: the hash entry goes, the descriptor stays. *)
DisposePage_KeepsDesc(f, p) ==
    /\ call = Idle
    /\ hashTable' = [hashTable EXCEPT ![f][p] = NoFrame]
    /\ disk' = [disk EXCEPT ![f][p] = Absent]
    /\ pins' = [pins EXCEPT ![f][p] = 0]
    /\ unsaved' = [unsaved EXCEPT ![f] = @ \ {p}]
    /\ Return(IF disk[f][p] = Absent THEN "InvalidPage" ELSE "none")
    /\ UNCHANGED <<bufDescTable, clockHand, bufPool>>

DisposePage(f, p) ==
    /\ call = Idle
    /\ bufDescTable' = IF hashTable[f][p] = NoFrame THEN bufDescTable
                       ELSE [bufDescTable EXCEPT ![hashTable[f][p]] = Cleared]
    /\ hashTable' = [hashTable EXCEPT ![f][p] = NoFrame]
    /\ disk' = [disk EXCEPT ![f][p] = Absent]
    /\ pins' = [pins EXCEPT ![f][p] = 0]
    /\ unsaved' = [unsaved EXCEPT ![f] = @ \ {p}]
    /\ Return(IF disk[f][p] = Absent THEN "InvalidPage" ELSE "none")
    /\ UNCHANGED <<clockHand, bufPool>>

(* A client with a pin writes through the Page pointer it was given. *)
Modify(f, p, d) ==
    /\ call = Idle
    /\ pins[f][p] > 0
    /\ bufPool' = [bufPool EXCEPT ![hashTable[f][p]] = d]
    /\ unsaved' = [unsaved EXCEPT ![f] = @ \cup {p}]
    /\ thrown' = "none"
    /\ UNCHANGED <<bufDescTable, hashTable, clockHand, disk, call, pins>>

-----------------------------------------------------------------------------
AllocBufStep ==
    \/ TakeInvalid \/ ClearRefbit \/ EvictClean \/ EvictUnhashed
    \/ EvictDirty \/ SkipPinned \/ Exceeded

FillStep == ReadFill \/ ReadFillFails \/ AllocFill

CallStep(f, p) ==
    \/ ReadHit(f, p)
    \/ ReadMiss(f, p)
    \/ \E dirty \in BOOLEAN : UnPinPage(f, p, dirty)
    \/ UnPinRefused(f, p)
    \/ DisposePage(f, p)
    \/ \E d \in Data : Modify(f, p, d)

Next ==
    \/ AllocBufStep
    \/ FillStep
    \/ \E f \in Files :
         \/ AllocPage(f)
         \/ FlushFile(f)
         \/ FlushRefused(f)
         \/ \E p \in Pages : CallStep(f, p)

(* A call that has begun runs on; clients owe no call. *)
Fairness == WF_vars(AllocBufStep \/ FillStep)

Spec == Init /\ [][Next]_vars /\ Fairness

-----------------------------------------------------------------------------
Calls == [pc : {"idle", "sweep", "fill"},
          op : {"none", "readPage", "allocPage"},
          file : Files \cup {NoFile},
          page : Pages \cup {INVALID_NUMBER},
          i : 0 .. 2 * numBufs]

(* The types, and that a call under way has its operands. *)
TypeOK ==
    /\ bufDescTable \in [Frames -> BufDesc]
    /\ hashTable \in [Files -> [Pages -> Frames \cup {NoFrame}]]
    /\ clockHand \in Frames
    /\ bufPool \in [Frames -> Data]
    /\ disk \in [Files -> [Pages -> Data \cup {Absent}]]
    /\ call \in Calls
    /\ call.pc # "idle" => call.file \in Files /\ call.op # "none"
    /\ call.op = "readPage" => call.page \in Pages
    /\ thrown \in {"none", "InvalidPage", "HashNotFound",
                    "BufferExceeded", "PageNotPinned", "PagePinned"}
    /\ pins \in [Files -> [Pages -> Nat]]
    /\ unsaved \in [Files -> SUBSET Pages]

(* The entries of the hash table and the frames' descriptors describe the  *)
(* same assignment of pages to frames, at every step of every call.  An    *)
(* entry always names a frame whose descriptor names that page (so no two  *)
(* frames hold one page), and a valid frame always has its entry, with one *)
(* exception: a clean, unpinned frame under the clock hand that allocBuf   *)
(* has taken the entry of.                                                 *)
EntriesDescribed ==
    \A f \in Files, p \in Pages :
        hashTable[f][p] # NoFrame =>
            LET d == bufDescTable[hashTable[f][p]] IN
            d.valid /\ d.file = f /\ d.pageNo = p

FramesHashed ==
    \A fr \in Frames :
        LET d == bufDescTable[fr] IN
        /\ ~d.valid => d = Cleared
        /\ d.valid => /\ d.file \in Files /\ d.pageNo \in Pages
                      /\ \/ hashTable[d.file][d.pageNo] = fr
                         \/ /\ fr = clockHand
                            /\ d.pinCnt = 0 /\ ~d.dirty /\ ~d.refbit
                            /\ hashTable[d.file][d.pageNo] = NoFrame

HashDescAgree == EntriesDescribed /\ FramesHashed

(* The pin count of a frame is the number of pins its clients hold: a page *)
(* that a client still holds is in the pool, whatever other calls evicted, *)
(* flushed or failed in between.                                           *)
PinAccounting ==
    \A f \in Files, p \in Pages :
        pins[f][p] = IF hashTable[f][p] = NoFrame
                     THEN 0 ELSE bufDescTable[hashTable[f][p]].pinCnt

(* A pooled page is a page of the file, and when it is neither marked      *)
(* dirty nor still held by the client who changed it, it is the page on    *)
(* disk: dropping the frame loses nothing.                                 *)
CleanMatchesDisk ==
    \A f \in Files, p \in Pages :
        LET fr == hashTable[f][p] IN
        /\ fr # NoFrame => disk[f][p] # Absent
        /\ p \in unsaved[f] => pins[f][p] > 0
        /\ fr # NoFrame /\ ~bufDescTable[fr].dirty /\ p \notin unsaved[f]
              => bufPool[fr] = disk[f][p]

(* A Page pointer given to a client stays good: while a client holds a pin *)
(* on a page, no step moves that page to another frame.                    *)
PinnedPagesStay ==
    [][\A f \in Files, p \in Pages :
         pins[f][p] > 0 /\ pins'[f][p] > 0
            => hashTable'[f][p] = hashTable[f][p]]_vars

(* allocBuf gives up only when no frame could be had: each frame is pinned *)
(* or holds a dirty page of a file that has another page pinned.  It takes *)
(* two circles of the clock to be sure.                                    *)
ExceededOnlyWhenStuck ==
    [][thrown # "BufferExceeded" /\ thrown' = "BufferExceeded" =>
         \A fr \in Frames :
            LET d == bufDescTable[fr] IN
            /\ d.valid
            /\ d.pinCnt > 0 \/ (d.dirty /\ FilePinned(d.file))]_vars

(* Every call ends: the clock cannot go round for ever.                    *)
CallReturns == call.pc # "idle" ~> call.pc = "idle"

(* The manager implements PagedStore: the content of a page is the pool's  *)
(* when the page has an entry in the hash table, else the disk's.  Misses, *)
(* evictions, flushes and failing calls are invisible to clients; no       *)
(* update is lost and none is undone.                                      *)
Content(f, p) ==
    IF hashTable[f][p] = NoFrame THEN disk[f][p] ELSE bufPool[hashTable[f][p]]

Store == INSTANCE PagedStore
            WITH store <- [f \in Files |-> [p \in Pages |-> Content(f, p)]]

StoreSpec == Store!Spec

(* A readPage that fails to fill the clean frame it evicted leaves the     *)
(* frame valid but without its hash entry, under the hand, and the next    *)
(* sweep ends there with HashNotFound (against the contract of allocBuf,   *)
(* which knows BufferExceeded alone).  Nothing else does: no other call,   *)
(* whatever it disposes of, flushes or gives up, brings the pool into such *)
(* a state, and a sweep in any other state misses no entry.                *)
Wedged ==
    /\ call.pc # "fill"
    /\ Victim.valid
    /\ hashTable[Victim.file][Victim.pageNo] = NoFrame

WedgedOnlyByFailedRead ==
    [][/\ ~Wedged /\ Wedged' =>
            /\ call.op = "readPage" /\ thrown' = "InvalidPage"
            /\ disk[call.file][call.page] = Absent
       /\ thrown # "HashNotFound" /\ thrown' = "HashNotFound" => Wedged]_vars
=============================================================================
