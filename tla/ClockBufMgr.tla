----------------------------- MODULE ClockBufMgr -----------------------------
(***************************************************************************)
(* The buffer manager of the third assignment (src/p3/src/buffer.cpp).  It *)
(* keeps the promise of BufMgr, PagedStore, in another way: frames belong  *)
(* to File objects and not to file names, the clock advances before it     *)
(* looks, a victim is written alone and its frame cleared before anything  *)
(* is read into it, flushFile drops clean pages too, and the destructor    *)
(* writes what is dirty.                                                   *)
(*                                                                         *)
(* A call that needs a frame, and flushFile, are runs of steps, one per    *)
(* turn of their loops; the other calls are one step each.                 *)
(*                                                                         *)
(* The File is taken at its promise, as in BufMgr.  A page may also be     *)
(* deleted through another File object of the same file, of which the pool *)
(* knows nothing: a dirty copy of it can no longer be written.             *)
(***************************************************************************)
EXTENDS BufHashTbl

CONSTANTS
    NoFile,     \* the NULL pointer of a cleared frame
    MaxPins,    \* bound: page -> pins up to which clients ask for it again
    Shared,     \* bound: the pages deleted through other File objects
    Data,       \* what a page may contain
    Empty,      \* the content of a new page
    Absent      \* on disk: the file has no such page

INVALID_NUMBER == 0

ASSUME BoundsAssumption == MaxPins \in [Pages -> Nat]
ASSUME NoFileAssumption == NoFile \notin Files
ASSUME DataAssumption == Empty \in Data /\ Absent \notin Data

VARIABLES
    bufDescTable,   \* frame -> its descriptor
    ht,             \* the chains of the hash table
    clockHand,
    bufPool,        \* frame -> the content of the Page object in it
    disk,           \* file, page -> content in the file, or Absent
    call,           \* the call in progress
    thrown,         \* the exception the last call ended with, if any
    alive,          \* the manager exists
    pins,           \* client side: pins held on a page by all clients
    unsaved,        \* client side: pages modified by a holder who has not
                    \* yet given its pin back
    strayed         \* history: pages deleted through another File object
                    \* while a frame held them

poolVars == <<bufDescTable, ht, clockHand, bufPool>>
clientVars == <<pins, unsaved, strayed>>
vars == <<bufDescTable, ht, clockHand, bufPool, disk, call, thrown, alive,
          pins, unsaved, strayed>>

Idle == [pc |-> "idle", op |-> "none", file |-> NoFile,
         page |-> INVALID_NUMBER, i |-> 0, found |-> FALSE]

BufDesc == [file : Files \cup {NoFile}, pageNo : Pages \cup {INVALID_NUMBER},
            pinCnt : Nat, dirty : BOOLEAN, valid : BOOLEAN, refbit : BOOLEAN]

(* BufDesc::Clear. *)
Cleared == [file |-> NoFile, pageNo |-> INVALID_NUMBER, pinCnt |-> 0,
            dirty |-> FALSE, valid |-> FALSE, refbit |-> FALSE]

(* BufDesc::Set. *)
Assigned(f, p) == [file |-> f, pageNo |-> p, pinCnt |-> 1,
                   dirty |-> FALSE, valid |-> TRUE, refbit |-> TRUE]

(* What the constructor makes; the pool's pages have their default content. *)
Init ==
    /\ bufDescTable = [fr \in Frames |-> Cleared]
    /\ ht = Empty_ht
    /\ clockHand = numBufs - 1
    /\ bufPool = [fr \in Frames |-> Empty]
    /\ disk \in [Files -> [Pages -> Data \cup {Absent}]]
    /\ call = Idle
    /\ thrown = "none"
    /\ alive = TRUE
    /\ pins = [f \in Files |-> [p \in Pages |-> 0]]
    /\ unsaved = [f \in Files |-> {}]
    /\ strayed = [f \in Files |-> {}]

-----------------------------------------------------------------------------
Ready == alive /\ call = Idle

Return(exception) ==
    /\ call' = Idle
    /\ thrown' = exception

Enter(pc, op, f, p) ==
    /\ call' = [Idle EXCEPT !.pc = pc, !.op = op, !.file = f, !.page = p]
    /\ thrown' = "none"

-----------------------------------------------------------------------------
(* allocBuf.  A turn of its loop looks at the frame after the hand. *)
Hand == (clockHand + 1) % numBufs
Victim == bufDescTable[Hand]

Turning == call.pc = "sweep" /\ call.i < 2 * numBufs

Turn(pc, found) ==
    /\ clockHand' = Hand
    /\ call' = [call EXCEPT !.pc = pc, !.found = found, !.i = @ + 1]
    /\ UNCHANGED <<thrown, alive>>

BreakAtInvalid ==
    /\ Turning
    /\ ~Victim.valid
    /\ Turn("swept", FALSE)
    /\ UNCHANGED <<bufDescTable, ht, bufPool, disk, clientVars>>

ClearRefbit ==
    /\ Turning
    /\ Victim.valid /\ Victim.refbit
    /\ bufDescTable' = [bufDescTable EXCEPT ![Hand].refbit = FALSE]
    /\ Turn("sweep", FALSE)
    /\ UNCHANGED <<ht, bufPool, disk, clientVars>>

SkipPinned ==
    /\ Turning
    /\ Victim.valid /\ ~Victim.refbit /\ Victim.pinCnt > 0
    /\ Turn("sweep", FALSE)
    /\ UNCHANGED <<bufDescTable, ht, bufPool, disk, clientVars>>

(* The entry goes first; a missing one would end the call. *)
BreakAtVictim ==
    /\ Turning
    /\ Victim.valid /\ ~Victim.refbit /\ Victim.pinCnt = 0
    /\ IF Present(ht, Victim.file, Victim.pageNo)
       THEN /\ Turn("swept", TRUE)
            /\ ht' = remove(ht, Victim.file, Victim.pageNo)
       ELSE /\ Return("HashNotFound")
            /\ clockHand' = Hand
            /\ UNCHANGED <<ht, alive>>
    /\ UNCHANGED <<bufDescTable, bufPool, disk, clientVars>>

(* The check after the loop asks for the number of turns, and an invalid   *)
(* frame is not `found'.                                                   *)
LoopOver == call.pc = "swept" \/ (call.pc = "sweep" /\ call.i = 2 * numBufs)

Refused == ~call.found /\ call.i >= 2 * numBufs

(* Slip: the clock circles once. *)
Exceeded_OneCircle ==
    /\ call.pc = "sweep" /\ call.i = numBufs
    /\ Return("BufferExceeded")
    /\ UNCHANGED <<poolVars, disk, alive, clientVars>>

Exceeded ==
    /\ LoopOver /\ Refused
    /\ Return("BufferExceeded")
    /\ UNCHANGED <<poolVars, disk, alive, clientVars>>

(* The frames that hold a page, by their descriptors. *)
Holding(f, p) ==
    {fr \in Frames : bufDescTable[fr].file = f /\ bufDescTable[fr].pageNo = p}

(* The frames whose pages are written, one after the other: of two frames  *)
(* with the same page, the later one is what stays.                        *)
Written(frames) ==
    [f \in Files |-> [p \in Pages |->
        LET copies == frames \cap Holding(f, p) IN
        IF copies = {} THEN disk[f][p]
        ELSE bufPool[CHOOSE fr \in copies : \A other \in copies : other <= fr]]]

(* file->writePage throws if the page has been deleted. *)
Writable(fr) ==
    LET d == bufDescTable[fr] IN d.dirty => disk[d.file][d.pageNo] # Absent

(* Slip: the descriptor of the victim is left as it is. *)
TakeFrame_KeepsDesc ==
    /\ LoopOver /\ ~Refused
    /\ Writable(clockHand)
    /\ disk' = Written({clockHand} \cap {fr \in Frames : bufDescTable[fr].dirty})
    /\ call' = [call EXCEPT !.pc = "fill"]
    /\ UNCHANGED <<bufDescTable, ht, clockHand, bufPool, thrown, alive,
                   clientVars>>

TakeFrame ==
    /\ LoopOver /\ ~Refused
    /\ Writable(clockHand)
    /\ disk' = Written({clockHand} \cap {fr \in Frames : bufDescTable[fr].dirty})
    /\ bufDescTable' = [bufDescTable EXCEPT ![clockHand] = Cleared]
    /\ call' = [call EXCEPT !.pc = "fill"]
    /\ UNCHANGED <<ht, clockHand, bufPool, thrown, alive, clientVars>>

(* The victim has lost its entry already, and keeps its descriptor. *)
TakeFrameFails ==
    /\ LoopOver /\ ~Refused
    /\ ~Writable(clockHand)
    /\ Return("InvalidPage")
    /\ UNCHANGED <<poolVars, disk, alive, clientVars>>

-----------------------------------------------------------------------------
(* The frame receives the page.  The descriptor is set before the entry is *)
(* inserted, which throws if there is one.                                 *)
Install(f, p, d) ==
    /\ bufPool' = [bufPool EXCEPT ![clockHand] = d]
    /\ bufDescTable' = [bufDescTable EXCEPT ![clockHand] = Assigned(f, p)]
    /\ IF Present(ht, f, p)
       THEN /\ Return("HashAlreadyPresent")
            /\ UNCHANGED <<ht, pins>>
       ELSE /\ Return("none")
            /\ ht' = insert(ht, f, p, clockHand)
            /\ pins' = [pins EXCEPT ![f][p] = @ + 1]
    /\ UNCHANGED <<clockHand, alive, unsaved, strayed>>

(* readPage *)

ReadHit(f, p) ==
    LET fr == lookup(ht, f, p) IN
    /\ Ready
    /\ Present(ht, f, p)
    /\ pins[f][p] < MaxPins[p]
    /\ bufDescTable' = [bufDescTable EXCEPT ![fr].refbit = TRUE,
                                            ![fr].pinCnt = @ + 1]
    /\ pins' = [pins EXCEPT ![f][p] = @ + 1]
    /\ Return("none")
    /\ UNCHANGED <<ht, clockHand, bufPool, disk, alive, unsaved, strayed>>

ReadMiss(f, p) ==
    /\ Ready
    /\ ~Present(ht, f, p)
    /\ Enter("sweep", "readPage", f, p)
    /\ UNCHANGED <<poolVars, disk, alive, clientVars>>

ReadFill ==
    /\ call.pc = "fill" /\ call.op = "readPage"
    /\ disk[call.file][call.page] # Absent
    /\ Install(call.file, call.page, disk[call.file][call.page])
    /\ UNCHANGED disk

(* file->readPage throws; the frame is left cleared. *)
ReadFillFails ==
    /\ call.pc = "fill" /\ call.op = "readPage"
    /\ disk[call.file][call.page] = Absent
    /\ Return("InvalidPage")
    /\ UNCHANGED <<poolVars, disk, alive, clientVars>>

(* allocPage *)

AllocPage(f) ==
    /\ Ready
    /\ \E p \in Pages : disk[f][p] = Absent
    /\ Enter("sweep", "allocPage", f, INVALID_NUMBER)
    /\ UNCHANGED <<poolVars, disk, alive, clientVars>>

AllocFill ==
    /\ call.pc = "fill" /\ call.op = "allocPage"
    /\ \E p \in Pages :
         /\ disk[call.file][p] = Absent
         /\ disk' = [disk EXCEPT ![call.file][p] = Empty]
         /\ Install(call.file, p, Empty)

-----------------------------------------------------------------------------
(* unPinPage *)

(* Slip: one unpin releases the frame for all holders. *)
UnPinPage_ReleasesAll(f, p, dirty) ==
    LET fr == lookup(ht, f, p) IN
    /\ Ready
    /\ Present(ht, f, p) /\ bufDescTable[fr].pinCnt > 0
    /\ p \in unsaved[f] /\ pins[f][p] = 1 => dirty
    /\ bufDescTable' = [bufDescTable EXCEPT ![fr].dirty = @ \/ dirty,
                                            ![fr].pinCnt = 0]
    /\ pins' = [pins EXCEPT ![f][p] = @ - 1]
    /\ unsaved' = [unsaved EXCEPT ![f] = IF dirty THEN @ \ {p} ELSE @]
    /\ Return("none")
    /\ UNCHANGED <<ht, clockHand, bufPool, disk, alive, strayed>>

(* The client's side of the contract is that of BufMgr. *)
UnPinPage(f, p, dirty) ==
    LET fr == lookup(ht, f, p) IN
    /\ Ready
    /\ Present(ht, f, p) /\ bufDescTable[fr].pinCnt > 0
    /\ p \in unsaved[f] /\ pins[f][p] = 1 => dirty
    /\ bufDescTable' = [bufDescTable EXCEPT ![fr].dirty = @ \/ dirty,
                                            ![fr].pinCnt = @ - 1]
    /\ pins' = [pins EXCEPT ![f][p] = @ - 1]
    /\ unsaved' = [unsaved EXCEPT ![f] = IF dirty THEN @ \ {p} ELSE @]
    /\ Return("none")
    /\ UNCHANGED <<ht, clockHand, bufPool, disk, alive, strayed>>

(* A page that is not in the pool is refused, and so is one that is not    *)
(* pinned, after its dirty bit was set.                                    *)
UnPinRefused(f, p, dirty) ==
    LET fr == lookup(ht, f, p) IN
    /\ Ready
    /\ \/ /\ ~Present(ht, f, p)
          /\ Return("HashNotFound")
          /\ UNCHANGED bufDescTable
       \/ /\ Present(ht, f, p) /\ bufDescTable[fr].pinCnt = 0
          /\ Return("PageNotPinned")
          /\ bufDescTable' = [bufDescTable EXCEPT ![fr].dirty = @ \/ dirty]
    /\ UNCHANGED <<ht, clockHand, bufPool, disk, alive, clientVars>>

-----------------------------------------------------------------------------
(* flushFile.  A turn of its loop looks at frame call.i. *)
FlushFile(f) ==
    /\ Ready
    /\ Enter("flush", "flushFile", f, INVALID_NUMBER)
    /\ UNCHANGED <<poolVars, disk, alive, clientVars>>

FlushTurning == call.pc = "flush" /\ call.i < numBufs

Flushee == bufDescTable[call.i]

FlushOther ==
    /\ FlushTurning
    /\ Flushee.file # call.file
    /\ call' = [call EXCEPT !.i = @ + 1]
    /\ UNCHANGED <<poolVars, disk, thrown, alive, clientVars>>

(* Whatever was flushed before stays flushed. *)
FlushPinned ==
    /\ FlushTurning
    /\ Flushee.file = call.file /\ Flushee.pinCnt > 0
    /\ Return("PagePinned")
    /\ UNCHANGED <<poolVars, disk, alive, clientVars>>

(* Slip: clean pages stay in the pool. *)
FlushFrame_DirtyOnly ==
    /\ FlushTurning
    /\ Flushee.file = call.file /\ Flushee.pinCnt = 0
    /\ Writable(call.i) /\ Present(ht, call.file, Flushee.pageNo)
    /\ disk' = Written({call.i} \cap {fr \in Frames : bufDescTable[fr].dirty})
    /\ ht' = IF Flushee.dirty THEN remove(ht, call.file, Flushee.pageNo) ELSE ht
    /\ bufDescTable' = IF Flushee.dirty
                       THEN [bufDescTable EXCEPT ![call.i] = Cleared]
                       ELSE bufDescTable
    /\ call' = [call EXCEPT !.i = @ + 1]
    /\ UNCHANGED <<clockHand, bufPool, thrown, alive, clientVars>>

FlushFrame ==
    /\ FlushTurning
    /\ Flushee.file = call.file /\ Flushee.pinCnt = 0
    /\ Writable(call.i) /\ Present(ht, call.file, Flushee.pageNo)
    /\ disk' = Written({call.i} \cap {fr \in Frames : bufDescTable[fr].dirty})
    /\ ht' = remove(ht, call.file, Flushee.pageNo)
    /\ bufDescTable' = [bufDescTable EXCEPT ![call.i] = Cleared]
    /\ call' = [call EXCEPT !.i = @ + 1]
    /\ UNCHANGED <<clockHand, bufPool, thrown, alive, clientVars>>

FlushFails ==
    /\ FlushTurning
    /\ Flushee.file = call.file /\ Flushee.pinCnt = 0
    /\ ~Writable(call.i)
    /\ Return("InvalidPage")
    /\ UNCHANGED <<poolVars, disk, alive, clientVars>>

(* A frame without an entry is written, and then the call ends. *)
FlushUnhashed ==
    /\ FlushTurning
    /\ Flushee.file = call.file /\ Flushee.pinCnt = 0
    /\ Writable(call.i) /\ ~Present(ht, call.file, Flushee.pageNo)
    /\ disk' = Written({call.i} \cap {fr \in Frames : bufDescTable[fr].dirty})
    /\ bufDescTable' = [bufDescTable EXCEPT ![call.i].dirty = FALSE]
    /\ Return("HashNotFound")
    /\ UNCHANGED <<ht, clockHand, bufPool, alive, clientVars>>

FlushDone ==
    /\ call.pc = "flush" /\ call.i = numBufs
    /\ Return("none")
    /\ UNCHANGED <<poolVars, disk, alive, clientVars>>

-----------------------------------------------------------------------------
(* disposePage: no look at the pin count, so every pin on the page is void. *)
DisposePage(f, p) ==
    /\ Ready
    /\ Present(ht, f, p)
    /\ bufDescTable' = [bufDescTable EXCEPT ![lookup(ht, f, p)] = Cleared]
    /\ ht' = remove(ht, f, p)
    /\ disk' = [disk EXCEPT ![f][p] = Absent]
    /\ pins' = [pins EXCEPT ![f][p] = 0]
    /\ unsaved' = [unsaved EXCEPT ![f] = @ \ {p}]
    /\ Return(IF disk[f][p] = Absent THEN "InvalidPage" ELSE "none")
    /\ UNCHANGED <<clockHand, bufPool, alive, strayed>>

(* A page that is not in the pool is not deleted from the file either. *)
DisposeRefused(f, p) ==
    /\ Ready
    /\ ~Present(ht, f, p)
    /\ Return("HashNotFound")
    /\ UNCHANGED <<poolVars, disk, alive, clientVars>>

(* A client with a pin writes through the Page pointer it was given. *)
Modify(f, p, d) ==
    /\ Ready
    /\ pins[f][p] > 0
    /\ \E fr \in Holding(f, p) :
         /\ bufDescTable[fr].pinCnt > 0
         /\ bufPool' = [bufPool EXCEPT ![fr] = d]
    /\ unsaved' = [unsaved EXCEPT ![f] = @ \cup {p}]
    /\ thrown' = "none"
    /\ UNCHANGED <<bufDescTable, ht, clockHand, disk, call, alive, pins, strayed>>

(* Somebody deletes a page through another File object of the file. *)
DeleteElsewhere(f, p) ==
    /\ Ready
    /\ p \in Shared
    /\ disk[f][p] # Absent
    /\ disk' = [disk EXCEPT ![f][p] = Absent]
    /\ strayed' = IF Holding(f, p) = {} THEN strayed
                  ELSE [strayed EXCEPT ![f] = @ \cup {p}]
    /\ UNCHANGED <<poolVars, call, thrown, alive, pins, unsaved>>

-----------------------------------------------------------------------------
(* The destructor, when the clients have given back all their pins.  (The  *)
(* pool no longer takes back every pin on a strayed page.)                 *)
Unpinned == \A f \in Files : \A p \in Pages \ strayed[f] : pins[f][p] = 0

DirtyFrames == {fr \in Frames : bufDescTable[fr].valid /\ bufDescTable[fr].dirty}

(* What it leaves: nothing, of which a new manager is made. *)
Demolished ==
    /\ alive' = FALSE
    /\ bufDescTable' = [fr \in Frames |-> Cleared]
    /\ ht' = Empty_ht
    /\ clockHand' = numBufs - 1
    /\ bufPool' = [fr \in Frames |-> Empty]
    /\ pins' = [f \in Files |-> [p \in Pages |-> 0]]
    /\ unsaved' = [f \in Files |-> {}]
    /\ Return("none")
    /\ UNCHANGED strayed

(* Slip: it frees the pool and writes nothing. *)
Destroy_Unwritten ==
    /\ Ready /\ Unpinned
    /\ \A fr \in DirtyFrames : Writable(fr)
    /\ Demolished
    /\ UNCHANGED disk

Destroy ==
    /\ Ready /\ Unpinned
    /\ \A fr \in DirtyFrames : Writable(fr)
    /\ disk' = Written(DirtyFrames)
    /\ Demolished

(* A write that throws inside a destructor ends the program. *)
DestroyFails ==
    /\ Ready /\ Unpinned
    /\ \E fr \in DirtyFrames :
         /\ ~Writable(fr)
         /\ \A before \in DirtyFrames : before < fr => Writable(before)
         /\ disk' = Written({before \in DirtyFrames : before < fr})
    /\ call' = [Idle EXCEPT !.pc = "terminated"]
    /\ thrown' = "InvalidPage"
    /\ UNCHANGED <<poolVars, alive, clientVars>>

Terminated == call.pc = "terminated" /\ UNCHANGED vars

(* A new manager over the same files. *)
Construct ==
    /\ ~alive
    /\ alive' = TRUE
    /\ UNCHANGED <<poolVars, disk, call, thrown, clientVars>>

-----------------------------------------------------------------------------
AllocBufStep ==
    \/ BreakAtInvalid \/ ClearRefbit \/ SkipPinned \/ BreakAtVictim
    \/ Exceeded \/ TakeFrame \/ TakeFrameFails

FillStep == ReadFill \/ ReadFillFails \/ AllocFill

FlushStep ==
    FlushOther \/ FlushPinned \/ FlushFrame \/ FlushFails \/ FlushUnhashed
        \/ FlushDone

CallStep(f, p) ==
    \/ ReadHit(f, p)
    \/ ReadMiss(f, p)
    \/ \E dirty \in BOOLEAN : UnPinPage(f, p, dirty) \/ UnPinRefused(f, p, dirty)
    \/ DisposePage(f, p)
    \/ DisposeRefused(f, p)
    \/ \E d \in Data : Modify(f, p, d)
    \/ DeleteElsewhere(f, p)

Next ==
    \/ AllocBufStep
    \/ FillStep
    \/ FlushStep
    \/ Destroy \/ DestroyFails \/ Terminated
    \/ Construct
    \/ \E f \in Files :
         \/ AllocPage(f)
         \/ FlushFile(f)
         \/ \E p \in Pages : CallStep(f, p)

Spec == Init /\ [][Next]_vars

-----------------------------------------------------------------------------
Calls == [pc : {"idle", "sweep", "swept", "fill", "flush", "terminated"},
          op : {"none", "readPage", "allocPage", "flushFile"},
          file : Files \cup {NoFile},
          page : Pages \cup {INVALID_NUMBER},
          i : 0 .. 2 * numBufs,
          found : BOOLEAN]

(* The types, and that a call under way has its operands. *)
TypeOK ==
    /\ bufDescTable \in [Frames -> BufDesc]
    /\ DOMAIN ht = 0 .. HTSIZE - 1
    /\ \A b \in 0 .. HTSIZE - 1 : ht[b] \in Seq(Buckets)
    /\ clockHand \in Frames
    /\ bufPool \in [Frames -> Data]
    /\ disk \in [Files -> [Pages -> Data \cup {Absent}]]
    /\ call \in Calls
    /\ call.pc \notin {"idle", "terminated"} => call.file \in Files /\ call.op # "none"
    /\ call.op = "readPage" => call.page \in Pages
    /\ thrown \in {"none", "InvalidPage", "HashNotFound", "HashAlreadyPresent",
                    "BufferExceeded", "PageNotPinned", "PagePinned"}
    /\ alive \in BOOLEAN
    /\ pins \in [Files -> [Pages -> Nat]]
    /\ unsaved \in [Files -> SUBSET Pages]
    /\ strayed \in [Files -> SUBSET Pages]

(* Hash table and descriptors describe the same assignment of pages to     *)
(* frames at every step of every call: each bucket is found where its page *)
(* is looked for, once, and names a frame whose descriptor names the page; *)
(* each valid frame has its bucket, but for the victim that allocBuf has   *)
(* taken the bucket of and not yet cleared.  Only frames with a strayed    *)
(* page may have lost their bucket otherwise: a call that could not write  *)
(* them took it away, or an allocation met the old copy's.                 *)
EntriesDescribed ==
    \A f \in Files, p \in Pages :
        Present(ht, f, p) =>
            LET d == bufDescTable[lookup(ht, f, p)] IN
            d.valid /\ d.file = f /\ d.pageNo = p

FramesHashed ==
    \A fr \in Frames :
        LET d == bufDescTable[fr] IN
        /\ ~d.valid => d = Cleared
        /\ d.valid => /\ d.file \in Files /\ d.pageNo \in Pages
                      /\ d.pageNo \notin strayed[d.file] =>
                         IF call.pc = "swept" /\ fr = clockHand
                         THEN d.pinCnt = 0 /\ ~Present(ht, d.file, d.pageNo)
                         ELSE lookup(ht, d.file, d.pageNo) = fr

HashDescAgree == TypeOK /\ ChainsOK(ht) /\ EntriesDescribed /\ FramesHashed

(* The pin count of a frame is the number of pins its clients hold, and a  *)
(* page changed by a holder is pinned until it is given back dirty.  A     *)
(* strayed page may lose pins, but the pool has none that nobody holds.    *)
PinAccounting ==
    \A f \in Files, p \in Pages :
        LET counted == IF Present(ht, f, p)
                       THEN bufDescTable[lookup(ht, f, p)].pinCnt ELSE 0 IN
        /\ pins[f][p] >= counted
        /\ p \notin strayed[f] => pins[f][p] = counted
        /\ p \in unsaved[f] => pins[f][p] > 0

(* A pooled page is a page of the file, and the same as on disk unless it  *)
(* is marked dirty or its change is not announced yet, or it strayed.      *)
CleanMatchesDisk ==
    \A f \in Files : \A p \in Pages \ strayed[f] :
        LET fr == lookup(ht, f, p) IN
        Present(ht, f, p) =>
            /\ disk[f][p] # Absent
            /\ ~bufDescTable[fr].dirty /\ p \notin unsaved[f]
                  => bufPool[fr] = disk[f][p]

(* allocBuf gives up only when every frame is pinned. *)
ExceededOnlyWhenAllPinned ==
    [][thrown # "BufferExceeded" /\ thrown' = "BufferExceeded" =>
         \A fr \in Frames : bufDescTable[fr].pinCnt > 0]_vars

(* A page deleted through another File object is the only thing a call can *)
(* stumble over: a sweep or a flush misses the entry of a frame, and a     *)
(* page that was read or allocated finds a second entry, only if that      *)
(* frame's page strayed.  No other call that failed, at whatever point,    *)
(* leaves such a frame behind.  (In BufMgr a readPage does.)               *)
AtHand == IF call.pc = "flush" THEN call.i ELSE clockHand'

StumblesOnlyOverStrays ==
    [][call.pc # "idle" /\ thrown' \in {"HashNotFound", "HashAlreadyPresent"} =>
         LET d == bufDescTable'[AtHand] IN d.pageNo \in strayed[d.file]]_vars

(* When flushFile returns, nothing of the file is in the pool, so that the *)
(* File object the frames point to may be deleted.                         *)
FlushEmpties ==
    [][call.op = "flushFile" /\ call' = Idle /\ thrown' = "none" =>
         \A fr \in Frames : bufDescTable'[fr].file # call.file]_vars

(* The manager implements PagedStore, its destruction and a new start      *)
(* included: the content of a page is that of the frame whose descriptor   *)
(* names it, a victim's until it is written, or else the disk's.  A page   *)
(* that strays was disposed of, and what is done with its number and its   *)
(* copies afterwards is no part of the promise.                            *)
Content(f, p) ==
    LET frames == Holding(f, p) IN
    IF frames = {} THEN disk[f][p] ELSE bufPool[CHOOSE fr \in frames : TRUE]

StoreOf ==
    [f \in Files |-> [p \in Pages |->
        IF p \in strayed[f] THEN Absent ELSE Content(f, p)]]

PinsOf ==
    [f \in Files |-> [p \in Pages |-> IF p \in strayed[f] THEN 0 ELSE pins[f][p]]]

Store == INSTANCE PagedStore WITH store <- StoreOf, pins <- PinsOf

StoreSpec == Store!Spec
=============================================================================
