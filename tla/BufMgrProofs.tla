---------------------------- MODULE BufMgrProofs ----------------------------
(***************************************************************************)
(* Proofs about BufMgr for every number of frames, every set of files and  *)
(* pages and any number of pins: the hash table and the descriptors agree, *)
(* pin counts are exact, no update is lost, pointers given to clients stay *)
(* good, and every step implements PagedStore.                             *)
(***************************************************************************)
EXTENDS BufMgr, TLAPS

(* A call that looks for a frame: the page it wants is not in the pool,    *)
(* and the frame it has found is no longer named by any entry.             *)
CallInv ==
    /\ call.pc # "idle" /\ call.op = "readPage" =>
         hashTable[call.file][call.page] = NoFrame
    /\ call.pc = "fill" /\ Victim.valid =>
         hashTable[Victim.file][Victim.pageNo] = NoFrame

IInv ==
    /\ TypeOK
    /\ EntriesDescribed
    /\ FramesHashed
    /\ PinAccounting
    /\ CleanMatchesDisk
    /\ CallInv

USE NumBufsAssumption, BoundsAssumption, NoFileAssumption, NoFrameAssumption,
    DataAssumption


LEMMA HandWraps ==
    ASSUME clockHand \in Frames
    PROVE  (clockHand + 1) % numBufs \in Frames
  BY DEF Frames

(* The constructor's state satisfies the invariant. *)
LEMMA InitInv == Init => IInv
  BY DEF Init, IInv, TypeOK, EntriesDescribed, FramesHashed, PinAccounting,
     CleanMatchesDisk, CallInv, Idle, Calls, Cleared, BufDesc, Frames, Pages,
     INVALID_NUMBER, Victim

-----------------------------------------------------------------------------
(* Steps that only move the call along. *)
LEMMA PoolUntouched ==
    ASSUME IInv, TypeOK', CallInv', UNCHANGED <<poolVars, disk, clientVars>>
    PROVE  IInv'
  BY DEF IInv, EntriesDescribed, FramesHashed, PinAccounting,
     CleanMatchesDisk, poolVars, clientVars

LEMMA IdleType == Idle \in Calls
  BY DEF Idle, Calls

LEMMA ReturnUntouched ==
    ASSUME IInv, NEW e \in {"none", "InvalidPage", "HashNotFound",
                            "BufferExceeded", "PageNotPinned", "PagePinned"},
           Return(e), UNCHANGED <<poolVars, disk, clientVars>>
    PROVE  IInv'
<1>1. TypeOK'
  BY IdleType DEF IInv, TypeOK, Return, Idle, poolVars, clientVars
<1>2. CallInv'
  BY DEF CallInv, Return, Idle
<1> QED
  BY <1>1, <1>2, PoolUntouched

LEMMA TakeInvalidInv == IInv /\ TakeInvalid => IInv'
<1> SUFFICES ASSUME IInv, TakeInvalid PROVE IInv'
  OBVIOUS
<1>c. /\ UNCHANGED <<poolVars, disk, clientVars, thrown>>
      /\ call.pc = "sweep"
      /\ call' = [call EXCEPT !.pc = "fill"]
      /\ ~Victim.valid
  BY DEF TakeInvalid, Turning, FrameFound, poolVars, clientVars
<1>d. call' \in Calls
  BY <1>c DEF IInv, TypeOK, Calls
<1>1. TypeOK'
  BY <1>c, <1>d DEF IInv, TypeOK, Calls, poolVars, clientVars
<1>2. CallInv'
  BY <1>c DEF IInv, TypeOK, Calls, CallInv, Victim, poolVars
<1> QED
  BY <1>c, <1>1, <1>2, PoolUntouched

LEMMA EvictUnhashedInv == IInv /\ EvictUnhashed => IInv'
  BY ReturnUntouched DEF EvictUnhashed

LEMMA ExceededInv == IInv /\ Exceeded => IInv'
  BY ReturnUntouched DEF Exceeded

LEMMA ReadFillFailsInv == IInv /\ ReadFillFails => IInv'
  BY ReturnUntouched DEF ReadFillFails

LEMMA UnPinRefusedInv ==
    ASSUME IInv, NEW f \in Files, NEW p \in Pages, UnPinRefused(f, p)
    PROVE  IInv'
  BY ReturnUntouched DEF UnPinRefused

LEMMA FlushRefusedInv ==
    ASSUME IInv, NEW f \in Files, FlushRefused(f)
    PROVE  IInv'
  BY ReturnUntouched DEF FlushRefused

LEMMA ReadMissInv ==
    ASSUME IInv, NEW f \in Files, NEW p \in Pages, ReadMiss(f, p)
    PROVE  IInv'
<1>c. /\ UNCHANGED <<poolVars, disk, clientVars>>
      /\ hashTable[f][p] = NoFrame
      /\ call' = [pc |-> "sweep", op |-> "readPage", file |-> f,
                  page |-> p, i |-> 0]
      /\ thrown' = "none"
  BY DEF ReadMiss, EnterAllocBuf
<1>1. TypeOK'
  BY <1>c DEF IInv, TypeOK, Calls, poolVars, clientVars
<1>2. CallInv'
  BY <1>c DEF CallInv, poolVars
<1> QED
  BY <1>c, <1>1, <1>2, PoolUntouched

LEMMA AllocPageInv ==
    ASSUME IInv, NEW f \in Files, AllocPage(f)
    PROVE  IInv'
<1>c. /\ UNCHANGED <<poolVars, disk, clientVars>>
      /\ call' = [pc |-> "sweep", op |-> "allocPage", file |-> f,
                  page |-> INVALID_NUMBER, i |-> 0]
      /\ thrown' = "none"
  BY DEF AllocPage, EnterAllocBuf
<1>1. TypeOK'
  BY <1>c DEF IInv, TypeOK, Calls, poolVars, clientVars
<1>2. CallInv'
  BY <1>c DEF CallInv, poolVars
<1> QED
  BY <1>c, <1>1, <1>2, PoolUntouched

-----------------------------------------------------------------------------
(* The turns of the clock. *)
LEMMA TurnType ==
    ASSUME call \in Calls, call.i < 2 * numBufs
    PROVE  [call EXCEPT !.i = @ + 1] \in Calls
<1>1. call.i \in Int /\ 0 <= call.i
  BY DEF Calls
<1>2. call.i + 1 \in 0 .. 2 * numBufs
  BY <1>1
<1> QED
  BY <1>2 DEF Calls

LEMMA ClearRefbitInv == IInv /\ ClearRefbit => IInv'
<1> SUFFICES ASSUME IInv, ClearRefbit PROVE IInv'
  OBVIOUS
<1> DEFINE h == clockHand
<1>t. /\ bufDescTable \in [Frames -> BufDesc]
      /\ hashTable \in [Files -> [Pages -> Frames \cup {NoFrame}]]
      /\ h \in Frames
  BY DEF IInv, TypeOK
<1>c. /\ bufDescTable' = [bufDescTable EXCEPT ![h].refbit = FALSE]
      /\ UNCHANGED <<hashTable, bufPool, disk, pins, unsaved, thrown>>
      /\ clockHand' = (clockHand + 1) % numBufs
      /\ call' = [call EXCEPT !.i = @ + 1]
      /\ call.pc = "sweep" /\ call.i < 2 * numBufs
      /\ bufDescTable[h].valid /\ bufDescTable[h].refbit
  BY DEF ClearRefbit, Turning, NextTurn, clientVars, Victim
<1>d. /\ bufDescTable' \in [Frames -> BufDesc]
      /\ \A fr \in Frames :
            /\ bufDescTable'[fr].file = bufDescTable[fr].file
            /\ bufDescTable'[fr].pageNo = bufDescTable[fr].pageNo
            /\ bufDescTable'[fr].pinCnt = bufDescTable[fr].pinCnt
            /\ bufDescTable'[fr].dirty = bufDescTable[fr].dirty
            /\ bufDescTable'[fr].valid = bufDescTable[fr].valid
            /\ fr # h => bufDescTable'[fr] = bufDescTable[fr]
  BY <1>t, <1>c DEF BufDesc
<1>e. call' \in Calls
  BY <1>c, TurnType DEF IInv, TypeOK
<1>1. TypeOK'
  BY <1>t, <1>c, <1>d, <1>e, HandWraps DEF IInv, TypeOK, Calls
<1>2. EntriesDescribed'
  BY <1>t, <1>c, <1>d DEF IInv, EntriesDescribed
<1>3. FramesHashed'
  BY <1>t, <1>c, <1>d DEF IInv, FramesHashed
<1>4. PinAccounting'
  BY <1>t, <1>c, <1>d DEF IInv, PinAccounting
<1>5. CleanMatchesDisk'
  BY <1>t, <1>c, <1>d DEF IInv, CleanMatchesDisk
<1>6. CallInv'
  BY <1>c DEF IInv, TypeOK, Calls, CallInv
<1> QED
  BY <1>1, <1>2, <1>3, <1>4, <1>5, <1>6 DEF IInv

LEMMA SkipPinnedInv == IInv /\ SkipPinned => IInv'
<1> SUFFICES ASSUME IInv, SkipPinned PROVE IInv'
  OBVIOUS
<1>c. /\ UNCHANGED <<bufDescTable, hashTable, bufPool, disk, pins, unsaved,
                     thrown>>
      /\ clockHand' = (clockHand + 1) % numBufs
      /\ call' = [call EXCEPT !.i = @ + 1]
      /\ call.pc = "sweep" /\ call.i < 2 * numBufs
      /\ bufDescTable[clockHand].pinCnt > 0 \/ bufDescTable[clockHand].dirty
  BY DEF SkipPinned, Turning, NextTurn, clientVars, Victim
<1>t. /\ bufDescTable \in [Frames -> BufDesc]
      /\ clockHand \in Frames
  BY DEF IInv, TypeOK
<1>e. call' \in Calls
  BY <1>c, TurnType DEF IInv, TypeOK
<1>1. TypeOK'
  BY <1>t, <1>c, <1>e, HandWraps DEF IInv, TypeOK, Calls
<1>2. EntriesDescribed'
  BY <1>c DEF IInv, EntriesDescribed
<1>3. FramesHashed'
  BY <1>t, <1>c DEF IInv, FramesHashed, BufDesc
<1>4. PinAccounting'
  BY <1>c DEF IInv, PinAccounting
<1>5. CleanMatchesDisk'
  BY <1>c DEF IInv, CleanMatchesDisk
<1>6. CallInv'
  BY <1>c DEF IInv, TypeOK, Calls, CallInv
<1> QED
  BY <1>1, <1>2, <1>3, <1>4, <1>5, <1>6 DEF IInv

LEMMA EvictCleanInv == IInv /\ EvictClean => IInv'
<1> SUFFICES ASSUME IInv, EvictClean PROVE IInv'
  OBVIOUS
<1> DEFINE h == clockHand
           g == Victim.file
           q == Victim.pageNo
<1>t. /\ bufDescTable \in [Frames -> BufDesc]
      /\ hashTable \in [Files -> [Pages -> Frames \cup {NoFrame}]]
      /\ h \in Frames
  BY DEF IInv, TypeOK
<1>c. /\ UNCHANGED <<bufDescTable, clockHand, bufPool, disk, pins, unsaved,
                     thrown>>
      /\ hashTable' = [hashTable EXCEPT ![g][q] = NoFrame]
      /\ hashTable[g][q] # NoFrame
      /\ call' = [call EXCEPT !.pc = "fill"]
      /\ call.pc = "sweep"
      /\ Victim.valid /\ ~Victim.refbit /\ Victim.pinCnt = 0 /\ ~Victim.dirty
  BY DEF EvictClean, Evictable, Turning, FrameFound, clientVars
<1>g. g \in Files /\ q \in Pages /\ hashTable[g][q] = h
  BY <1>t, <1>c DEF IInv, FramesHashed, Victim
<1>d. /\ hashTable' \in [Files -> [Pages -> Frames \cup {NoFrame}]]
      /\ hashTable'[g][q] = NoFrame
      /\ \A f \in Files, p \in Pages :
            (f # g \/ p # q) => hashTable'[f][p] = hashTable[f][p]
  BY <1>t, <1>c, <1>g
<1>p. pins[g][q] = 0 /\ q \notin unsaved[g]
  BY <1>t, <1>c, <1>g DEF IInv, PinAccounting, CleanMatchesDisk, Victim
<1>e. call' \in Calls
  BY <1>c DEF IInv, TypeOK, Calls
<1>1. TypeOK'
  BY <1>c, <1>d, <1>e DEF IInv, TypeOK, Calls
<1>2. EntriesDescribed'
  BY <1>t, <1>c, <1>d DEF IInv, EntriesDescribed
<1>3. FramesHashed'
  BY <1>t, <1>c, <1>d, <1>g DEF IInv, FramesHashed, EntriesDescribed, Victim
<1>4. PinAccounting'
  BY <1>t, <1>c, <1>d, <1>p DEF IInv, PinAccounting
<1>5. CleanMatchesDisk'
  BY <1>t, <1>c, <1>d, <1>p DEF IInv, CleanMatchesDisk
<1>6. CallInv'
  BY <1>t, <1>c, <1>d, <1>g DEF IInv, TypeOK, Calls, CallInv, Victim
<1> QED
  BY <1>1, <1>2, <1>3, <1>4, <1>5, <1>6 DEF IInv

-----------------------------------------------------------------------------
(* Writing back: the frames chosen are exactly the entries that go, and    *)
(* the frame chosen for a page is the one its entry names.                 *)
LEMMA DirtyFrames ==
    ASSUME IInv, NEW f \in Files, NEW S \in SUBSET Frames,
           NEW fr \in DirtyOf(f, S)
    PROVE  /\ fr \in Frames
           /\ bufDescTable[fr].pageNo \in Pages
           /\ hashTable[f][bufDescTable[fr].pageNo] = fr
<1>1. /\ fr \in Frames
      /\ bufDescTable[fr].file = f /\ bufDescTable[fr].dirty
  BY DEF DirtyOf
<1>2. bufDescTable[fr].valid
  BY <1>1 DEF IInv, FramesHashed, Cleared
<1> QED
  BY <1>1, <1>2 DEF IInv, FramesHashed

LEMMA WriteBackEffect ==
    ASSUME IInv, NEW f \in Files, NEW S \in SUBSET Frames,
           ~FilePinned(f), WriteBack(f, DirtyOf(f, S))
    PROVE  LET D == DirtyOf(f, S)
               W == PagesIn(D)
           IN
           /\ D \subseteq Frames
           /\ bufPool' = bufPool
           /\ bufDescTable' \in [Frames -> BufDesc]
           /\ hashTable' \in [Files -> [Pages -> Frames \cup {NoFrame}]]
           /\ disk' \in [Files -> [Pages -> Data \cup {Absent}]]
           /\ \A fr \in D : bufDescTable'[fr] = Cleared
           /\ \A fr \in Frames \ D : bufDescTable'[fr] = bufDescTable[fr]
           /\ \A p \in Pages :
                p \in W => /\ hashTable[f][p] \in D
                           /\ hashTable'[f][p] = NoFrame
                           /\ disk'[f][p] = bufPool[hashTable[f][p]]
                           /\ pins[f][p] = 0
                           /\ p \notin unsaved[f]
           /\ \A g \in Files, p \in Pages :
                g # f \/ p \notin W => /\ hashTable'[g][p] = hashTable[g][p]
                                       /\ hashTable[g][p] \notin D
                                       /\ disk'[g][p] = disk[g][p]
<1> DEFINE D == DirtyOf(f, S)
           W == PagesIn(D)
<1>t. /\ bufDescTable \in [Frames -> BufDesc]
      /\ hashTable \in [Files -> [Pages -> Frames \cup {NoFrame}]]
      /\ disk \in [Files -> [Pages -> Data \cup {Absent}]]
      /\ bufPool \in [Frames -> Data]
      /\ pins \in [Files -> [Pages -> Nat]]
  BY DEF IInv, TypeOK
<1>s. D \subseteq Frames
  BY DEF DirtyOf
<1>w. \A p \in W : p \in Pages /\ hashTable[f][p] \in D
                   /\ bufDescTable[hashTable[f][p]].pageNo = p
  BY DirtyFrames DEF PagesIn
<1>n. ASSUME NEW p \in W
      PROVE  ContentIn(D, p) = bufPool[hashTable[f][p]]
  <2> DEFINE c == CHOOSE fr \in D : bufDescTable[fr].pageNo = p
  <2>1. \E fr \in D : bufDescTable[fr].pageNo = p
    BY DEF PagesIn
  <2>2. c \in D /\ bufDescTable[c].pageNo = p
    BY <2>1
  <2>3. hashTable[f][p] = c
    BY <2>2, DirtyFrames
  <2> QED
    BY <2>3 DEF ContentIn
<1>b. /\ bufPool' = bufPool
      /\ disk' = [disk EXCEPT ![f] =
                    [p \in Pages |-> IF p \in W THEN ContentIn(D, p)
                                                ELSE @[p]]]
      /\ hashTable' = [hashTable EXCEPT ![f] =
                         [p \in Pages |-> IF p \in W THEN NoFrame ELSE @[p]]]
      /\ bufDescTable' = [fr \in Frames |-> IF fr \in D THEN Cleared
                                            ELSE bufDescTable[fr]]
  BY DEF WriteBack
<1>1. /\ \A fr \in D : bufDescTable'[fr] = Cleared
      /\ \A fr \in Frames \ D : bufDescTable'[fr] = bufDescTable[fr]
  BY <1>b, <1>s
<1>2. bufDescTable' \in [Frames -> BufDesc]
  <2>1. Cleared \in BufDesc
    BY DEF Cleared, BufDesc
  <2> QED
    BY <2>1, <1>b, <1>t
<1>3. hashTable' \in [Files -> [Pages -> Frames \cup {NoFrame}]]
  BY <1>b, <1>t
<1>4. disk' \in [Files -> [Pages -> Data \cup {Absent}]]
  <2>1. \A p \in W : ContentIn(D, p) \in Data
    BY <1>n, <1>w, <1>s, <1>t
  <2> QED
    BY <2>1, <1>b, <1>t
<1>5. ASSUME NEW p \in Pages, p \in W
      PROVE  /\ hashTable[f][p] \in D
             /\ hashTable'[f][p] = NoFrame
             /\ disk'[f][p] = bufPool[hashTable[f][p]]
             /\ pins[f][p] = 0
             /\ p \notin unsaved[f]
  <2>1. hashTable[f][p] \in D
    BY <1>5, <1>w
  <2>2. hashTable'[f][p] = NoFrame /\ disk'[f][p] = bufPool[hashTable[f][p]]
    BY <1>5, <1>b, <1>t, <1>n
  <2>3. ~(bufDescTable[hashTable[f][p]].pinCnt > 0)
    BY <2>1, <1>s DEF FilePinned, DirtyOf
  <2>4. pins[f][p] = bufDescTable[hashTable[f][p]].pinCnt
    BY <2>1, <1>s, NoFrameAssumption DEF IInv, PinAccounting
  <2>5. pins[f][p] = 0
    BY <2>3, <2>4, <1>t
  <2>6. p \notin unsaved[f]
    BY <2>5 DEF IInv, CleanMatchesDisk
  <2> QED
    BY <2>1, <2>2, <2>5, <2>6
<1>6. ASSUME NEW g \in Files, NEW p \in Pages, g # f \/ p \notin W
      PROVE  /\ hashTable'[g][p] = hashTable[g][p]
             /\ hashTable[g][p] \notin D
             /\ disk'[g][p] = disk[g][p]
  <2>1. hashTable'[g][p] = hashTable[g][p] /\ disk'[g][p] = disk[g][p]
    BY <1>6, <1>b, <1>t
  <2>2. ASSUME hashTable[g][p] \in D PROVE FALSE
    <3>1. /\ bufDescTable[hashTable[g][p]].file = g
          /\ bufDescTable[hashTable[g][p]].pageNo = p
      BY <2>2, <1>s, NoFrameAssumption DEF IInv, EntriesDescribed
    <3>2. g = f
      BY <2>2, <3>1 DEF DirtyOf
    <3>3. p \in W
      BY <2>2, <3>1 DEF PagesIn
    <3> QED
      BY <3>2, <3>3, <1>6
  <2> QED
    BY <2>1, <2>2
<1> QED
  BY <1>s, <1>b, <1>1, <1>2, <1>3, <1>4, <1>5, <1>6

LEMMA WriteBackInv ==
    ASSUME IInv, NEW f \in Files, NEW S \in SUBSET Frames,
           ~FilePinned(f), WriteBack(f, DirtyOf(f, S)),
           UNCHANGED <<clockHand, clientVars>>
    PROVE  EntriesDescribed' /\ FramesHashed' /\ PinAccounting'
             /\ CleanMatchesDisk'
<1> DEFINE D == DirtyOf(f, S)
           W == PagesIn(D)
<1>c. UNCHANGED <<clockHand, pins, unsaved>>
  BY DEF clientVars
<1>e. /\ D \subseteq Frames
      /\ bufPool' = bufPool
      /\ \A fr \in D : bufDescTable'[fr] = Cleared
      /\ \A fr \in Frames \ D : bufDescTable'[fr] = bufDescTable[fr]
      /\ \A p \in Pages :
           p \in W => /\ hashTable[f][p] \in D
                      /\ hashTable'[f][p] = NoFrame
                      /\ disk'[f][p] = bufPool[hashTable[f][p]]
                      /\ pins[f][p] = 0
                      /\ p \notin unsaved[f]
      /\ \A g \in Files, p \in Pages :
           g # f \/ p \notin W => /\ hashTable'[g][p] = hashTable[g][p]
                                  /\ hashTable[g][p] \notin D
                                  /\ disk'[g][p] = disk[g][p]
  BY WriteBackEffect
<1>t. hashTable \in [Files -> [Pages -> Frames \cup {NoFrame}]]
  BY DEF IInv, TypeOK
<1> HIDE DEF D, W
<1>1. EntriesDescribed'
  <2> SUFFICES ASSUME NEW g \in Files, NEW p \in Pages,
                      hashTable'[g][p] # NoFrame
               PROVE  LET d == bufDescTable'[hashTable'[g][p]] IN
                      d.valid /\ d.file = g /\ d.pageNo = p
    BY DEF EntriesDescribed
  <2>1. hashTable'[g][p] = hashTable[g][p] /\ hashTable[g][p] \in Frames \ D
    BY <1>e, <1>t
  <2> QED
    BY <2>1, <1>e DEF IInv, EntriesDescribed
<1>2. FramesHashed'
  <2> SUFFICES ASSUME NEW fr \in Frames
               PROVE  LET d == bufDescTable'[fr] IN
                      /\ ~d.valid => d = Cleared
                      /\ d.valid =>
                           /\ d.file \in Files /\ d.pageNo \in Pages
                           /\ \/ hashTable'[d.file][d.pageNo] = fr
                              \/ /\ fr = clockHand'
                                 /\ d.pinCnt = 0 /\ ~d.dirty /\ ~d.refbit
                                 /\ hashTable'[d.file][d.pageNo] = NoFrame
    BY DEF FramesHashed
  <2>1. CASE fr \in D
    <3>1. bufDescTable'[fr] = Cleared
      BY <2>1, <1>e
    <3>2. ~Cleared.valid
      BY DEF Cleared
    <3> QED
      BY <3>1, <3>2
  <2>2. CASE fr \notin D
    <3> DEFINE d == bufDescTable[fr]
    <3>1. bufDescTable'[fr] = d
      BY <2>2, <1>e
    <3>2. CASE ~d.valid
      BY <3>1, <3>2 DEF IInv, FramesHashed
    <3>3. CASE d.valid
      <4>1. d.file \in Files /\ d.pageNo \in Pages
        BY <3>3 DEF IInv, FramesHashed
      <4>2. CASE hashTable[d.file][d.pageNo] = fr
        <5>1. hashTable'[d.file][d.pageNo] = fr
          BY <4>1, <4>2, <2>2, <1>e
        <5> QED
          BY <5>1, <4>1, <3>1, <3>3
      <4>3. CASE /\ fr = clockHand
                 /\ d.pinCnt = 0 /\ ~d.dirty /\ ~d.refbit
                 /\ hashTable[d.file][d.pageNo] = NoFrame
        <5>1. hashTable'[d.file][d.pageNo] = NoFrame
          BY <4>1, <4>3, <1>e
        <5> QED
          BY <5>1, <4>1, <4>3, <3>1, <3>3, <1>c
      <4> QED
        BY <3>3, <4>2, <4>3 DEF IInv, FramesHashed
    <3> QED
      BY <3>2, <3>3
  <2> QED
    BY <2>1, <2>2
<1>3. PinAccounting'
  <2> SUFFICES ASSUME NEW g \in Files, NEW p \in Pages
               PROVE  pins'[g][p] = IF hashTable'[g][p] = NoFrame THEN 0
                                    ELSE bufDescTable'[hashTable'[g][p]].pinCnt
    BY DEF PinAccounting
  <2>1. CASE g = f /\ p \in W
    BY <2>1, <1>e, <1>c
  <2>2. CASE g # f \/ p \notin W
    <3>1. hashTable'[g][p] = hashTable[g][p]
      BY <2>2, <1>e
    <3>2. hashTable[g][p] # NoFrame =>
            bufDescTable'[hashTable[g][p]] = bufDescTable[hashTable[g][p]]
      BY <2>2, <1>e, <1>t
    <3> QED
      BY <3>1, <3>2, <1>c DEF IInv, PinAccounting
  <2> QED
    BY <2>1, <2>2
<1>4. CleanMatchesDisk'
  <2> SUFFICES ASSUME NEW g \in Files, NEW p \in Pages
               PROVE  LET fr == hashTable'[g][p] IN
                      /\ fr # NoFrame => disk'[g][p] # Absent
                      /\ p \in unsaved'[g] => pins'[g][p] > 0
                      /\ fr # NoFrame /\ ~bufDescTable'[fr].dirty
                           /\ p \notin unsaved'[g]
                         => bufPool'[fr] = disk'[g][p]
    BY DEF CleanMatchesDisk
  <2>1. CASE g = f /\ p \in W
    BY <2>1, <1>e, <1>c
  <2>2. CASE g # f \/ p \notin W
    <3>1. hashTable'[g][p] = hashTable[g][p] /\ disk'[g][p] = disk[g][p]
      BY <2>2, <1>e
    <3>2. hashTable[g][p] # NoFrame =>
            bufDescTable'[hashTable[g][p]] = bufDescTable[hashTable[g][p]]
      BY <2>2, <1>e, <1>t
    <3> QED
      BY <3>1, <3>2, <1>c, <1>e DEF IInv, CleanMatchesDisk
  <2> QED
    BY <2>1, <2>2
<1> QED
  BY <1>1, <1>2, <1>3, <1>4

LEMMA EvictDirtyInv == IInv /\ EvictDirty => IInv'
<1> SUFFICES ASSUME IInv, EvictDirty PROVE IInv'
  OBVIOUS
<1> DEFINE f == Victim.file
           S == 0 .. clockHand
           D == DirtyOf(f, S)
<1>t. clockHand \in Frames /\ S \in SUBSET Frames /\ clockHand \in S
  BY DEF IInv, TypeOK, Frames
<1>c. /\ UNCHANGED <<clockHand, clientVars, thrown>>
      /\ ~FilePinned(f)
      /\ WriteBack(f, D)
      /\ call' = [call EXCEPT !.pc = "fill"]
      /\ call.pc = "sweep"
      /\ Victim.valid /\ Victim.dirty
  BY DEF EvictDirty, Evictable, Turning, FrameFound
<1>f. f \in Files
  BY <1>t, <1>c DEF IInv, FramesHashed, Victim
<1> HIDE DEF f, S
<1>w. /\ bufPool' = bufPool
      /\ bufDescTable' \in [Frames -> BufDesc]
      /\ hashTable' \in [Files -> [Pages -> Frames \cup {NoFrame}]]
      /\ disk' \in [Files -> [Pages -> Data \cup {Absent}]]
      /\ \A fr \in D : bufDescTable'[fr] = Cleared
      /\ \A p \in Pages : p \in PagesIn(D) => hashTable'[f][p] = NoFrame
      /\ \A g \in Files, p \in Pages :
            g # f \/ p \notin PagesIn(D) => hashTable'[g][p] = hashTable[g][p]
  BY <1>t, <1>c, <1>f, WriteBackEffect
<1>e. call' \in Calls
  BY <1>c DEF IInv, TypeOK, Calls
<1>1. TypeOK'
  BY <1>w, <1>c, <1>e DEF IInv, TypeOK, Calls, clientVars
<1>2. EntriesDescribed' /\ FramesHashed' /\ PinAccounting' /\ CleanMatchesDisk'
  BY <1>t, <1>c, <1>f, WriteBackInv
<1>3. CallInv'
  <2>1. call'.pc = "fill" /\ call'.op = call.op /\ call'.file = call.file
          /\ call'.page = call.page
    BY <1>c DEF IInv, TypeOK, Calls
  <2>2. call.op = "readPage" => hashTable'[call.file][call.page] = NoFrame
    <3> SUFFICES ASSUME call.op = "readPage"
                 PROVE  hashTable'[call.file][call.page] = NoFrame
      OBVIOUS
    <3>1. call.file \in Files /\ call.page \in Pages
      BY <1>c DEF IInv, TypeOK
    <3>2. hashTable[call.file][call.page] = NoFrame
      BY <1>c DEF IInv, CallInv
    <3> QED
      BY <3>1, <3>2, <1>w
  <2>3. clockHand \in D
    BY <1>t, <1>c DEF DirtyOf, Victim, f
  <2>4. ~Victim'.valid
    BY <2>3, <1>w, <1>c DEF Victim, Cleared
  <2> QED
    BY <2>1, <2>2, <2>4 DEF CallInv
<1> QED
  BY <1>1, <1>2, <1>3 DEF IInv

LEMMA FlushFileInv ==
    ASSUME IInv, NEW f \in Files, FlushFile(f)
    PROVE  IInv'
<1>c. /\ UNCHANGED <<clockHand, clientVars>>
      /\ ~FilePinned(f)
      /\ WriteBack(f, DirtyOf(f, Frames))
      /\ call' = Idle
      /\ thrown' = "none"
  BY DEF FlushFile, Return
<1>s. Frames \in SUBSET Frames
  OBVIOUS
<1>w. /\ bufPool' = bufPool
      /\ bufDescTable' \in [Frames -> BufDesc]
      /\ hashTable' \in [Files -> [Pages -> Frames \cup {NoFrame}]]
      /\ disk' \in [Files -> [Pages -> Data \cup {Absent}]]
  BY <1>c, <1>s, WriteBackEffect
<1>1. TypeOK'
  BY <1>w, <1>c, IdleType DEF IInv, TypeOK, Idle, clientVars
<1>2. EntriesDescribed' /\ FramesHashed' /\ PinAccounting' /\ CleanMatchesDisk'
  BY <1>c, <1>s, WriteBackInv
<1>3. CallInv'
  BY <1>c DEF CallInv, Idle
<1> QED
  BY <1>1, <1>2, <1>3 DEF IInv

-----------------------------------------------------------------------------
(* Filling the frame under the hand. *)
LEMMA InstallInv ==
    ASSUME IInv, call.pc = "fill",
           NEW f \in Files, NEW p \in Pages, NEW d \in Data,
           hashTable[f][p] = NoFrame,
           Install(f, p, d),
           disk' = [disk EXCEPT ![f][p] = d],
           pins' = [pins EXCEPT ![f][p] = @ + 1],
           unsaved' = unsaved,
           Return("none")
    PROVE  IInv'
<1> DEFINE h == clockHand
<1>t. /\ bufDescTable \in [Frames -> BufDesc]
      /\ hashTable \in [Files -> [Pages -> Frames \cup {NoFrame}]]
      /\ disk \in [Files -> [Pages -> Data \cup {Absent}]]
      /\ bufPool \in [Frames -> Data]
      /\ pins \in [Files -> [Pages -> Nat]]
      /\ h \in Frames
  BY DEF IInv, TypeOK
<1>c. /\ bufPool' = [bufPool EXCEPT ![h] = d]
      /\ hashTable' = [hashTable EXCEPT ![f][p] = h]
      /\ bufDescTable' = [bufDescTable EXCEPT ![h] = Assigned(f, p)]
      /\ clockHand' = h
      /\ call' = Idle
      /\ thrown' = "none"
  BY DEF Install, Return
<1>a. /\ Assigned(f, p) \in BufDesc
      /\ Assigned(f, p).file = f /\ Assigned(f, p).pageNo = p
      /\ Assigned(f, p).valid /\ Assigned(f, p).pinCnt = 1
      /\ ~Assigned(f, p).dirty
  BY DEF Assigned, BufDesc
<1>d. /\ bufDescTable'[h] = Assigned(f, p)
      /\ \A fr \in Frames : fr # h => /\ bufDescTable'[fr] = bufDescTable[fr]
                                      /\ bufPool'[fr] = bufPool[fr]
      /\ bufPool'[h] = d
      /\ hashTable'[f][p] = h
      /\ disk'[f][p] = d
      /\ pins'[f][p] = pins[f][p] + 1
      /\ \A g \in Files, q \in Pages :
            g # f \/ q # p => /\ hashTable'[g][q] = hashTable[g][q]
                              /\ disk'[g][q] = disk[g][q]
                              /\ pins'[g][q] = pins[g][q]
  BY <1>t, <1>c
<1>f. ASSUME NEW g \in Files, NEW q \in Pages
      PROVE  hashTable[g][q] # h
  BY <1>t, NoFrameAssumption DEF IInv, CallInv, EntriesDescribed, Victim
<1>p. pins[f][p] = 0
  BY DEF IInv, PinAccounting
<1>1. TypeOK'
  <2>1. /\ bufDescTable' \in [Frames -> BufDesc]
        /\ hashTable' \in [Files -> [Pages -> Frames \cup {NoFrame}]]
        /\ bufPool' \in [Frames -> Data]
    BY <1>t, <1>c, <1>a
  <2>2. /\ disk' \in [Files -> [Pages -> Data \cup {Absent}]]
        /\ pins' \in [Files -> [Pages -> Nat]]
    BY <1>t, <1>c
  <2> QED
    BY <2>1, <2>2, <1>t, <1>c, IdleType DEF IInv, TypeOK, Idle
<1>2. EntriesDescribed'
  <2> SUFFICES ASSUME NEW g \in Files, NEW q \in Pages,
                      hashTable'[g][q] # NoFrame
               PROVE  LET e == bufDescTable'[hashTable'[g][q]] IN
                      e.valid /\ e.file = g /\ e.pageNo = q
    BY DEF EntriesDescribed
  <2>1. CASE g = f /\ q = p
    BY <2>1, <1>d, <1>a
  <2>2. CASE g # f \/ q # p
    <3>1. hashTable'[g][q] = hashTable[g][q]
      BY <2>2, <1>d
    <3>2. hashTable[g][q] \in Frames /\ hashTable[g][q] # h
      BY <3>1, <1>t, <1>f
    <3>3. bufDescTable'[hashTable[g][q]] = bufDescTable[hashTable[g][q]]
      BY <3>2, <1>d
    <3> QED
      BY <3>1, <3>3 DEF IInv, EntriesDescribed
  <2> QED
    BY <2>1, <2>2
<1>3. FramesHashed'
  <2> SUFFICES ASSUME NEW fr \in Frames
               PROVE  LET e == bufDescTable'[fr] IN
                      /\ ~e.valid => e = Cleared
                      /\ e.valid =>
                           /\ e.file \in Files /\ e.pageNo \in Pages
                           /\ \/ hashTable'[e.file][e.pageNo] = fr
                              \/ /\ fr = clockHand'
                                 /\ e.pinCnt = 0 /\ ~e.dirty /\ ~e.refbit
                                 /\ hashTable'[e.file][e.pageNo] = NoFrame
    BY DEF FramesHashed
  <2>1. CASE fr = h
    BY <2>1, <1>d, <1>a
  <2>2. CASE fr # h
    <3> DEFINE e == bufDescTable[fr]
    <3>1. bufDescTable'[fr] = e
      BY <2>2, <1>d
    <3>2. CASE ~e.valid
      BY <3>1, <3>2 DEF IInv, FramesHashed
    <3>3. CASE e.valid
      <4>1. /\ e.file \in Files /\ e.pageNo \in Pages
            /\ hashTable[e.file][e.pageNo] = fr
        BY <2>2, <3>3 DEF IInv, FramesHashed
      <4>2. e.file # f \/ e.pageNo # p
        BY <4>1, NoFrameAssumption
      <4>3. hashTable'[e.file][e.pageNo] = fr
        BY <4>1, <4>2, <1>d
      <4> QED
        BY <3>1, <3>3, <4>1, <4>3
    <3> QED
      BY <3>2, <3>3
  <2> QED
    BY <2>1, <2>2
<1>4. PinAccounting'
  <2> SUFFICES ASSUME NEW g \in Files, NEW q \in Pages
               PROVE  pins'[g][q] = IF hashTable'[g][q] = NoFrame THEN 0
                                    ELSE bufDescTable'[hashTable'[g][q]].pinCnt
    BY DEF PinAccounting
  <2>1. CASE g = f /\ q = p
    BY <2>1, <1>d, <1>a, <1>p, <1>t, NoFrameAssumption
  <2>2. CASE g # f \/ q # p
    <3>1. hashTable'[g][q] = hashTable[g][q] /\ pins'[g][q] = pins[g][q]
      BY <2>2, <1>d
    <3>2. hashTable[g][q] # NoFrame =>
            bufDescTable'[hashTable[g][q]] = bufDescTable[hashTable[g][q]]
      BY <1>t, <1>f, <1>d
    <3> QED
      BY <3>1, <3>2 DEF IInv, PinAccounting
  <2> QED
    BY <2>1, <2>2
<1>5. CleanMatchesDisk'
  <2> SUFFICES ASSUME NEW g \in Files, NEW q \in Pages
               PROVE  LET fr == hashTable'[g][q] IN
                      /\ fr # NoFrame => disk'[g][q] # Absent
                      /\ q \in unsaved'[g] => pins'[g][q] > 0
                      /\ fr # NoFrame /\ ~bufDescTable'[fr].dirty
                           /\ q \notin unsaved'[g]
                         => bufPool'[fr] = disk'[g][q]
    BY DEF CleanMatchesDisk
  <2>1. CASE g = f /\ q = p
    BY <2>1, <1>d, <1>p, DataAssumption
  <2>2. CASE g # f \/ q # p
    <3>1. /\ hashTable'[g][q] = hashTable[g][q] /\ pins'[g][q] = pins[g][q]
          /\ disk'[g][q] = disk[g][q]
      BY <2>2, <1>d
    <3>2. hashTable[g][q] # NoFrame =>
            /\ bufDescTable'[hashTable[g][q]] = bufDescTable[hashTable[g][q]]
            /\ bufPool'[hashTable[g][q]] = bufPool[hashTable[g][q]]
      BY <1>t, <1>f, <1>d
    <3> QED
      BY <3>1, <3>2 DEF IInv, CleanMatchesDisk
  <2> QED
    BY <2>1, <2>2
<1>6. CallInv'
  BY <1>c DEF CallInv, Idle
<1> QED
  BY <1>1, <1>2, <1>3, <1>4, <1>5, <1>6 DEF IInv

LEMMA ReadFillInv == IInv /\ ReadFill => IInv'
<1> SUFFICES ASSUME IInv, ReadFill PROVE IInv'
  OBVIOUS
<1> DEFINE f == call.file
           p == call.page
<1>1. /\ call.pc = "fill" /\ disk[f][p] # Absent
      /\ Install(f, p, disk[f][p])
      /\ pins' = [pins EXCEPT ![f][p] = @ + 1]
      /\ Return("none") /\ disk' = disk /\ unsaved' = unsaved
  BY DEF ReadFill
<1>2. f \in Files /\ p \in Pages
  BY DEF ReadFill, IInv, TypeOK
<1>3. disk[f][p] \in Data
  BY <1>1, <1>2 DEF IInv, TypeOK
<1>4. disk' = [disk EXCEPT ![f][p] = disk[f][p]]
  BY <1>1, <1>2 DEF IInv, TypeOK
<1>5. hashTable[f][p] = NoFrame
  BY DEF ReadFill, IInv, CallInv
<1> HIDE DEF f, p
<1> QED
  BY <1>1, <1>2, <1>3, <1>4, <1>5, InstallInv

LEMMA AllocFillInv == IInv /\ AllocFill => IInv'
<1> SUFFICES ASSUME IInv, AllocFill PROVE IInv'
  OBVIOUS
<1> DEFINE f == call.file
<1>1. f \in Files /\ call.pc = "fill" /\ Return("none") /\ unsaved' = unsaved
  BY DEF AllocFill, IInv, TypeOK
<1>2. PICK p \in Pages :
         /\ disk[f][p] = Absent
         /\ disk' = [disk EXCEPT ![f][p] = Empty]
         /\ Install(f, p, Empty)
         /\ pins' = [pins EXCEPT ![f][p] = @ + 1]
  BY DEF AllocFill
<1>3. hashTable[f][p] = NoFrame
  BY <1>1, <1>2 DEF IInv, CleanMatchesDisk
<1> HIDE DEF f
<1> QED
  BY <1>1, <1>2, <1>3, DataAssumption, InstallInv

-----------------------------------------------------------------------------
(* A page among the unsaved ones keeps a pin. *)
StillPinned(p, U, n) == p \in U => n > 0

(* Calls on a page that is in the pool: the descriptor of its frame keeps  *)
(* its page, and its pin count moves with the pins that clients hold.      *)
LEMMA RepinInv ==
    ASSUME IInv,
           NEW f \in Files, NEW p \in Pages,
           hashTable[f][p] # NoFrame,
           NEW n \in Nat, NEW d \in BufDesc,
           d.file = f, d.pageNo = p, d.valid, d.pinCnt = n,
           bufDescTable' = [bufDescTable EXCEPT ![hashTable[f][p]] = d],
           bufDescTable[hashTable[f][p]].dirty => d.dirty,
           pins' = [pins EXCEPT ![f][p] = n],
           NEW U \in SUBSET Pages,
           unsaved' = [unsaved EXCEPT ![f] = U],
           U \cup {p} = unsaved[f] \cup {p},
           StillPinned(p, U, n),
           p \in unsaved[f] /\ p \notin U => d.dirty,
           UNCHANGED <<hashTable, clockHand, bufPool, disk>>,
           Return("none")
    PROVE  IInv'
<1> DEFINE k == hashTable[f][p]
<1>t. /\ bufDescTable \in [Frames -> BufDesc]
      /\ hashTable \in [Files -> [Pages -> Frames \cup {NoFrame}]]
      /\ pins \in [Files -> [Pages -> Nat]]
      /\ unsaved \in [Files -> SUBSET Pages]
      /\ k \in Frames
  BY DEF IInv, TypeOK
<1>k. /\ bufDescTable[k].valid
      /\ bufDescTable[k].file = f /\ bufDescTable[k].pageNo = p
  BY DEF IInv, EntriesDescribed
<1>u. /\ hashTable' = hashTable /\ clockHand' = clockHand
      /\ bufPool' = bufPool /\ disk' = disk
  OBVIOUS
<1>d. /\ bufDescTable' \in [Frames -> BufDesc]
      /\ \A fr \in Frames : fr # k => bufDescTable'[fr] = bufDescTable[fr]
      /\ bufDescTable'[k] = d
  BY <1>t
<1>p. /\ pins' \in [Files -> [Pages -> Nat]]
      /\ pins'[f][p] = n
      /\ \A g \in Files, q \in Pages :
            g # f \/ q # p => pins'[g][q] = pins[g][q]
  BY <1>t
<1>v. /\ unsaved' \in [Files -> SUBSET Pages]
      /\ unsaved'[f] = U
      /\ \A g \in Files, q \in Pages :
            g # f \/ q # p => (q \in unsaved'[g] <=> q \in unsaved[g])
  <2>1. \A q \in Pages : q # p => (q \in U <=> q \in unsaved[f])
    OBVIOUS
  <2> QED
    BY <2>1, <1>t
<1>o. ASSUME NEW g \in Files, NEW q \in Pages, g # f \/ q # p
      PROVE  hashTable[g][q] # k
  BY <1>o, <1>k, NoFrameAssumption, <1>t DEF IInv, EntriesDescribed
<1>1. TypeOK'
  BY <1>u, <1>d, <1>p, <1>v, IdleType DEF IInv, TypeOK, Return, Idle
<1>2. EntriesDescribed'
  <2> SUFFICES ASSUME NEW g \in Files, NEW q \in Pages,
                      hashTable[g][q] # NoFrame
               PROVE  LET e == bufDescTable'[hashTable[g][q]] IN
                      e.valid /\ e.file = g /\ e.pageNo = q
    BY <1>u DEF EntriesDescribed
  <2>1. CASE g = f /\ q = p
    BY <2>1, <1>d
  <2>2. CASE g # f \/ q # p
    BY <2>2, <1>o, <1>t, <1>d DEF IInv, EntriesDescribed
  <2> QED
    BY <2>1, <2>2
<1>3. FramesHashed'
  <2> SUFFICES ASSUME NEW fr \in Frames
               PROVE  LET e == bufDescTable'[fr] IN
                      /\ ~e.valid => e = Cleared
                      /\ e.valid =>
                           /\ e.file \in Files /\ e.pageNo \in Pages
                           /\ \/ hashTable[e.file][e.pageNo] = fr
                              \/ /\ fr = clockHand
                                 /\ e.pinCnt = 0 /\ ~e.dirty /\ ~e.refbit
                                 /\ hashTable[e.file][e.pageNo] = NoFrame
    BY <1>u DEF FramesHashed
  <2>1. CASE fr = k
    BY <2>1, <1>d
  <2>2. CASE fr # k
    BY <2>2, <1>d DEF IInv, FramesHashed
  <2> QED
    BY <2>1, <2>2
<1>4. PinAccounting'
  <2> SUFFICES ASSUME NEW g \in Files, NEW q \in Pages
               PROVE  pins'[g][q] = IF hashTable[g][q] = NoFrame THEN 0
                                    ELSE bufDescTable'[hashTable[g][q]].pinCnt
    BY <1>u DEF PinAccounting
  <2>1. CASE g = f /\ q = p
    BY <2>1, <1>d, <1>p
  <2>2. CASE g # f \/ q # p
    BY <2>2, <1>o, <1>t, <1>d, <1>p DEF IInv, PinAccounting
  <2> QED
    BY <2>1, <2>2
<1>5. CleanMatchesDisk'
  <2> SUFFICES ASSUME NEW g \in Files, NEW q \in Pages
               PROVE  LET fr == hashTable[g][q] IN
                      /\ fr # NoFrame => disk[g][q] # Absent
                      /\ q \in unsaved'[g] => pins'[g][q] > 0
                      /\ fr # NoFrame /\ ~bufDescTable'[fr].dirty
                           /\ q \notin unsaved'[g]
                         => bufPool[fr] = disk[g][q]
    BY <1>u DEF CleanMatchesDisk
  <2>1. CASE g = f /\ q = p
    BY <2>1, <1>d, <1>p, <1>v, <1>k DEF IInv, CleanMatchesDisk, StillPinned
  <2>2. CASE g # f \/ q # p
    BY <2>2, <1>o, <1>t, <1>d, <1>p, <1>v DEF IInv, CleanMatchesDisk
  <2> QED
    BY <2>1, <2>2
<1>6. CallInv'
  BY DEF CallInv, Return, Idle
<1> QED
  BY <1>1, <1>2, <1>3, <1>4, <1>5, <1>6 DEF IInv

LEMMA ReadHitInv ==
    ASSUME IInv, NEW f \in Files, NEW p \in Pages, ReadHit(f, p)
    PROVE  IInv'
<1> DEFINE k == hashTable[f][p]
           b == bufDescTable[k]
           d == [b EXCEPT !.refbit = TRUE, !.pinCnt = @ + 1]
<1>t. /\ bufDescTable \in [Frames -> BufDesc]
      /\ pins \in [Files -> [Pages -> Nat]]
      /\ unsaved \in [Files -> SUBSET Pages]
      /\ k \in Frames /\ k # NoFrame
  BY DEF IInv, TypeOK, ReadHit
<1>b. /\ b \in BufDesc /\ b.pinCnt \in Nat
      /\ b.valid /\ b.file = f /\ b.pageNo = p /\ b.pinCnt = pins[f][p]
  BY <1>t DEF IInv, PinAccounting, EntriesDescribed, BufDesc
<1>d. /\ d \in BufDesc /\ d.file = f /\ d.pageNo = p /\ d.valid
      /\ d.pinCnt = pins[f][p] + 1 /\ pins[f][p] + 1 \in Nat
      /\ d.dirty = b.dirty
  <2> HIDE DEF b
  <2>1. pins[f][p] + 1 \in Nat
    BY <1>b
  <2>2. d \in BufDesc
    <3>1. b.pinCnt + 1 \in Nat
      BY <1>b
    <3> QED
      BY <1>b, <3>1 DEF BufDesc
  <2>3. /\ d.file = b.file /\ d.pageNo = b.pageNo /\ d.valid = b.valid
        /\ d.pinCnt = b.pinCnt + 1 /\ d.dirty = b.dirty
    BY <1>b DEF BufDesc
  <2> QED
    BY <2>1, <2>2, <2>3, <1>b
<1>1. bufDescTable' = [bufDescTable EXCEPT ![k] = d]
  BY <1>t DEF ReadHit
<1>2. pins' = [pins EXCEPT ![f][p] = pins[f][p] + 1]
  BY DEF ReadHit
<1>3. /\ unsaved' = [unsaved EXCEPT ![f] = unsaved[f]]
      /\ unsaved[f] \in SUBSET Pages
      /\ StillPinned(p, unsaved[f], pins[f][p] + 1)
  BY <1>b, <1>t DEF ReadHit, StillPinned
<1>4. UNCHANGED <<hashTable, clockHand, bufPool, disk>> /\ Return("none")
  BY DEF ReadHit
<1> HIDE DEF d
<1> QED
  BY <1>t, <1>d, <1>1, <1>2, <1>3, <1>4, RepinInv

LEMMA UnPinPageInv ==
    ASSUME IInv, NEW f \in Files, NEW p \in Pages, NEW dirty \in BOOLEAN,
           UnPinPage(f, p, dirty)
    PROVE  IInv'
<1> DEFINE k == hashTable[f][p]
           b == bufDescTable[k]
           d == [b EXCEPT !.dirty = @ \/ dirty, !.pinCnt = @ - 1]
<1>t. /\ bufDescTable \in [Frames -> BufDesc]
      /\ pins \in [Files -> [Pages -> Nat]]
      /\ unsaved \in [Files -> SUBSET Pages]
      /\ k \in Frames /\ k # NoFrame
  BY DEF IInv, TypeOK, UnPinPage
<1>b. /\ b \in BufDesc /\ b.pinCnt \in Nat /\ b.pinCnt > 0
      /\ b.valid /\ b.file = f /\ b.pageNo = p /\ b.pinCnt = pins[f][p]
  BY <1>t DEF IInv, PinAccounting, EntriesDescribed, BufDesc, UnPinPage
<1>d. /\ d \in BufDesc /\ d.file = f /\ d.pageNo = p /\ d.valid
      /\ d.pinCnt = pins[f][p] - 1 /\ pins[f][p] - 1 \in Nat
      /\ d.dirty = (b.dirty \/ dirty)
  <2> HIDE DEF b
  <2>1. pins[f][p] - 1 \in Nat
    BY <1>b
  <2>2. (b.dirty \/ dirty) \in BOOLEAN
    OBVIOUS
  <2>3. d \in BufDesc
    <3>1. b.pinCnt - 1 \in Nat
      BY <1>b
    <3> QED
      BY <1>b, <2>2, <3>1 DEF BufDesc
  <2>4. /\ d.file = b.file /\ d.pageNo = b.pageNo /\ d.valid = b.valid
        /\ d.pinCnt = b.pinCnt - 1 /\ d.dirty = (b.dirty \/ dirty)
    BY <1>b DEF BufDesc
  <2> QED
    BY <2>1, <2>3, <2>4, <1>b
<1>1. bufDescTable' = [bufDescTable EXCEPT ![k] = d]
  BY <1>t DEF UnPinPage
<1>2. pins' = [pins EXCEPT ![f][p] = pins[f][p] - 1]
  BY DEF UnPinPage
<1> DEFINE U == IF dirty THEN unsaved[f] \ {p} ELSE unsaved[f]
<1>3. /\ unsaved' = [unsaved EXCEPT ![f] = U]
      /\ U \in SUBSET Pages
      /\ U \cup {p} = unsaved[f] \cup {p}
      /\ p \in unsaved[f] /\ p \notin U => dirty
      /\ p \in U => p \in unsaved[f] /\ ~dirty
  BY <1>t DEF UnPinPage
<1>4. p \in U => pins[f][p] - 1 > 0
  <2>1. p \in U => pins[f][p] # 1
    BY <1>3 DEF UnPinPage
  <2> QED
    BY <2>1, <1>b
<1>5. UNCHANGED <<hashTable, clockHand, bufPool, disk>> /\ Return("none")
  BY DEF UnPinPage
<1> HIDE DEF d, U
<1>6. p \in unsaved[f] /\ p \notin U => d.dirty
  BY <1>d, <1>3
<1>7. b.dirty => d.dirty
  BY <1>d
<1> DEFINE n == pins[f][p] - 1
<1>8. /\ n \in Nat /\ d.pinCnt = n
      /\ pins' = [pins EXCEPT ![f][p] = n]
      /\ StillPinned(p, U, n)
  BY <1>d, <1>2, <1>4 DEF StillPinned
<1> HIDE DEF n
<1> QED
  BY <1>t, <1>d, <1>1, <1>3, <1>5, <1>6, <1>7, <1>8, RepinInv

LEMMA ModifyInv ==
    ASSUME IInv, NEW f \in Files, NEW p \in Pages, NEW d \in Data,
           Modify(f, p, d)
    PROVE  IInv'
<1> DEFINE k == hashTable[f][p]
<1>c. /\ UNCHANGED <<bufDescTable, hashTable, clockHand, disk, call, pins>>
      /\ thrown' = "none"
      /\ bufPool' = [bufPool EXCEPT ![k] = d]
      /\ unsaved' = [unsaved EXCEPT ![f] = @ \cup {p}]
      /\ pins[f][p] > 0
  BY DEF Modify
<1>t. /\ hashTable \in [Files -> [Pages -> Frames \cup {NoFrame}]]
      /\ unsaved \in [Files -> SUBSET Pages]
      /\ bufPool \in [Frames -> Data]
  BY DEF IInv, TypeOK
<1>k. k # NoFrame /\ k \in Frames
  BY <1>c, <1>t DEF IInv, PinAccounting
<1>1. TypeOK'
  BY <1>c, <1>t DEF IInv, TypeOK
<1>2. EntriesDescribed'
  BY <1>c DEF IInv, EntriesDescribed
<1>3. FramesHashed'
  BY <1>c DEF IInv, FramesHashed
<1>4. PinAccounting'
  BY <1>c DEF IInv, PinAccounting
<1>5. CleanMatchesDisk'
  <2> SUFFICES ASSUME NEW g \in Files, NEW q \in Pages
               PROVE  LET fr == hashTable[g][q] IN
                      /\ fr # NoFrame => disk[g][q] # Absent
                      /\ q \in unsaved'[g] => pins[g][q] > 0
                      /\ fr # NoFrame /\ ~bufDescTable[fr].dirty
                           /\ q \notin unsaved'[g]
                         => bufPool'[fr] = disk[g][q]
    BY <1>c DEF CleanMatchesDisk
  <2>1. CASE g = f /\ q = p
    BY <2>1, <1>c, <1>t DEF IInv, CleanMatchesDisk
  <2>2. CASE g # f \/ q # p
    <3>1. hashTable[g][q] # NoFrame => hashTable[g][q] # k
      BY <2>2, <1>k DEF IInv, EntriesDescribed
    <3>2. hashTable[g][q] # NoFrame =>
            bufPool'[hashTable[g][q]] = bufPool[hashTable[g][q]]
      BY <3>1, <1>c, <1>t
    <3>3. q \in unsaved'[g] <=> q \in unsaved[g]
      BY <2>2, <1>c, <1>t
    <3> QED
      BY <3>2, <3>3 DEF IInv, CleanMatchesDisk
  <2> QED
    BY <2>1, <2>2
<1>6. CallInv'
  BY <1>c DEF IInv, CallInv, Victim
<1> QED
  BY <1>1, <1>2, <1>3, <1>4, <1>5, <1>6 DEF IInv

LEMMA DisposePageInv ==
    ASSUME IInv, NEW f \in Files, NEW p \in Pages, DisposePage(f, p)
    PROVE  IInv'
<1> DEFINE k == hashTable[f][p]
<1>c. /\ bufDescTable' = IF k = NoFrame THEN bufDescTable
                         ELSE [bufDescTable EXCEPT ![k] = Cleared]
      /\ hashTable' = [hashTable EXCEPT ![f][p] = NoFrame]
      /\ disk' = [disk EXCEPT ![f][p] = Absent]
      /\ pins' = [pins EXCEPT ![f][p] = 0]
      /\ unsaved' = [unsaved EXCEPT ![f] = @ \ {p}]
      /\ UNCHANGED <<clockHand, bufPool>>
      /\ call' = Idle
      /\ thrown' \in {"InvalidPage", "none"}
  BY DEF DisposePage, Return
<1>t. /\ bufDescTable \in [Frames -> BufDesc]
      /\ hashTable \in [Files -> [Pages -> Frames \cup {NoFrame}]]
      /\ disk \in [Files -> [Pages -> Data \cup {Absent}]]
      /\ pins \in [Files -> [Pages -> Nat]]
      /\ unsaved \in [Files -> SUBSET Pages]
  BY DEF IInv, TypeOK
<1>k. Cleared \in BufDesc /\ ~Cleared.valid
  BY DEF Cleared, BufDesc
<1>d. /\ bufDescTable' \in [Frames -> BufDesc]
      /\ \A fr \in Frames : fr # k => bufDescTable'[fr] = bufDescTable[fr]
      /\ k # NoFrame => bufDescTable'[k] = Cleared
  BY <1>c, <1>t, <1>k, NoFrameAssumption
<1>h. /\ hashTable' \in [Files -> [Pages -> Frames \cup {NoFrame}]]
      /\ hashTable'[f][p] = NoFrame
      /\ disk' \in [Files -> [Pages -> Data \cup {Absent}]]
      /\ pins' \in [Files -> [Pages -> Nat]]
      /\ pins'[f][p] = 0
      /\ unsaved' \in [Files -> SUBSET Pages]
      /\ p \notin unsaved'[f]
  BY <1>c, <1>t
<1>o. ASSUME NEW g \in Files, NEW q \in Pages, g # f \/ q # p
      PROVE  /\ hashTable'[g][q] = hashTable[g][q]
             /\ disk'[g][q] = disk[g][q]
             /\ pins'[g][q] = pins[g][q]
             /\ q \in unsaved'[g] <=> q \in unsaved[g]
             /\ hashTable[g][q] # NoFrame =>
                  bufDescTable'[hashTable[g][q]] = bufDescTable[hashTable[g][q]]
  <2>1. /\ hashTable'[g][q] = hashTable[g][q]
        /\ disk'[g][q] = disk[g][q]
        /\ pins'[g][q] = pins[g][q]
    BY <1>o, <1>c, <1>t
  <2>2. q \in unsaved'[g] <=> q \in unsaved[g]
    BY <1>o, <1>c, <1>t
  <2>3. hashTable[g][q] # NoFrame => hashTable[g][q] # k
    BY <1>o DEF IInv, EntriesDescribed
  <2> QED
    BY <2>1, <2>2, <2>3, <1>d, <1>t
<1>1. TypeOK'
  BY <1>c, <1>d, <1>h, IdleType DEF IInv, TypeOK, Idle
<1>2. EntriesDescribed'
  <2> SUFFICES ASSUME NEW g \in Files, NEW q \in Pages,
                      hashTable'[g][q] # NoFrame
               PROVE  LET e == bufDescTable'[hashTable'[g][q]] IN
                      e.valid /\ e.file = g /\ e.pageNo = q
    BY DEF EntriesDescribed
  <2>1. g # f \/ q # p
    BY <1>h
  <2> QED
    BY <2>1, <1>o DEF IInv, EntriesDescribed
<1>3. FramesHashed'
  <2> SUFFICES ASSUME NEW fr \in Frames
               PROVE  LET e == bufDescTable'[fr] IN
                      /\ ~e.valid => e = Cleared
                      /\ e.valid =>
                           /\ e.file \in Files /\ e.pageNo \in Pages
                           /\ \/ hashTable'[e.file][e.pageNo] = fr
                              \/ /\ fr = clockHand
                                 /\ e.pinCnt = 0 /\ ~e.dirty /\ ~e.refbit
                                 /\ hashTable'[e.file][e.pageNo] = NoFrame
    BY <1>c DEF FramesHashed
  <2>1. CASE fr = k
    BY <2>1, <1>d, <1>k, NoFrameAssumption
  <2>2. CASE fr # k
    <3> DEFINE e == bufDescTable[fr]
    <3>1. bufDescTable'[fr] = e
      BY <2>2, <1>d
    <3>2. CASE ~e.valid
      BY <3>1, <3>2 DEF IInv, FramesHashed
    <3>3. CASE e.valid
      <4>1. /\ e.file \in Files /\ e.pageNo \in Pages
            /\ \/ hashTable[e.file][e.pageNo] = fr
               \/ /\ fr = clockHand
                  /\ e.pinCnt = 0 /\ ~e.dirty /\ ~e.refbit
                  /\ hashTable[e.file][e.pageNo] = NoFrame
        BY <3>3 DEF IInv, FramesHashed
      <4>2. CASE e.file = f /\ e.pageNo = p
        <5>1. hashTable'[e.file][e.pageNo] = NoFrame
          BY <4>2, <1>h
        <5> QED
          BY <5>1, <4>1, <4>2, <2>2, <3>1, <3>3
      <4>3. CASE e.file # f \/ e.pageNo # p
        <5>1. hashTable'[e.file][e.pageNo] = hashTable[e.file][e.pageNo]
          BY <4>1, <4>3, <1>o
        <5> QED
          BY <5>1, <4>1, <3>1, <3>3
      <4> QED
        BY <4>2, <4>3
    <3> QED
      BY <3>2, <3>3
  <2> QED
    BY <2>1, <2>2
<1>4. PinAccounting'
  <2> SUFFICES ASSUME NEW g \in Files, NEW q \in Pages
               PROVE  pins'[g][q] = IF hashTable'[g][q] = NoFrame THEN 0
                                    ELSE bufDescTable'[hashTable'[g][q]].pinCnt
    BY DEF PinAccounting
  <2>1. CASE g = f /\ q = p
    BY <2>1, <1>h
  <2>2. CASE g # f \/ q # p
    BY <2>2, <1>o DEF IInv, PinAccounting
  <2> QED
    BY <2>1, <2>2
<1>5. CleanMatchesDisk'
  <2> SUFFICES ASSUME NEW g \in Files, NEW q \in Pages
               PROVE  LET fr == hashTable'[g][q] IN
                      /\ fr # NoFrame => disk'[g][q] # Absent
                      /\ q \in unsaved'[g] => pins'[g][q] > 0
                      /\ fr # NoFrame /\ ~bufDescTable'[fr].dirty
                           /\ q \notin unsaved'[g]
                         => bufPool[fr] = disk'[g][q]
    BY <1>c DEF CleanMatchesDisk
  <2>1. CASE g = f /\ q = p
    BY <2>1, <1>h
  <2>2. CASE g # f \/ q # p
    BY <2>2, <1>o DEF IInv, CleanMatchesDisk
  <2> QED
    BY <2>1, <2>2
<1>6. CallInv'
  BY <1>c DEF CallInv, Idle
<1> QED
  BY <1>1, <1>2, <1>3, <1>4, <1>5, <1>6 DEF IInv

-----------------------------------------------------------------------------
LEMMA StepInv == IInv /\ [Next]_vars => IInv'
<1> SUFFICES ASSUME IInv, [Next]_vars PROVE IInv'
  OBVIOUS
<1>1. CASE AllocBufStep
  BY <1>1, TakeInvalidInv, ClearRefbitInv, EvictCleanInv, EvictUnhashedInv,
     EvictDirtyInv, SkipPinnedInv, ExceededInv DEF AllocBufStep
<1>2. CASE FillStep
  BY <1>2, ReadFillInv, ReadFillFailsInv, AllocFillInv DEF FillStep
<1>3. ASSUME NEW f \in Files, AllocPage(f) \/ FlushFile(f) \/ FlushRefused(f)
      PROVE  IInv'
  BY <1>3, AllocPageInv, FlushFileInv, FlushRefusedInv
<1>4. ASSUME NEW f \in Files, NEW p \in Pages, CallStep(f, p)
      PROVE  IInv'
  <2>1. CASE ReadHit(f, p) \/ ReadMiss(f, p)
    BY <2>1, ReadHitInv, ReadMissInv
  <2>2. CASE UnPinRefused(f, p) \/ DisposePage(f, p)
    BY <2>2, UnPinRefusedInv, DisposePageInv
  <2>3. CASE \E dirty \in BOOLEAN : UnPinPage(f, p, dirty)
    BY <2>3, UnPinPageInv
  <2>4. CASE \E d \in Data : Modify(f, p, d)
    BY <2>4, ModifyInv
  <2> QED
    BY <1>4, <2>1, <2>2, <2>3, <2>4 DEF CallStep
<1>5. CASE UNCHANGED vars
  BY <1>5 DEF vars, IInv, TypeOK, EntriesDescribed, FramesHashed,
     PinAccounting, CleanMatchesDisk, CallInv, Victim
<1> QED
  BY <1>1, <1>2, <1>3, <1>4, <1>5 DEF Next

(* IInv holds in every reachable state. *)
THEOREM Inductive == Spec => []IInv
  BY InitInv, StepInv, PTL DEF Spec

(* Every variable keeps its type. *)
THEOREM TypeCorrect == Spec => []TypeOK
<1>1. IInv => TypeOK
  BY DEF IInv
<1> QED
  BY <1>1, Inductive, PTL

(* The hash table and the frame descriptors always describe the same       *)
(* assignment of pages to frames.                                          *)
THEOREM HashAndDescriptorsAgree == Spec => []HashDescAgree
<1>1. IInv => HashDescAgree
  BY DEF IInv, HashDescAgree
<1> QED
  BY <1>1, Inductive, PTL

(* A frame's pin count is exactly the number of pins clients hold.         *)
THEOREM PinsExact == Spec => []PinAccounting
<1>1. IInv => PinAccounting
  BY DEF IInv
<1> QED
  BY <1>1, Inductive, PTL

(* A frame that is not dirty can be dropped without loss.                  *)
THEOREM NoLossOnEviction == Spec => []CleanMatchesDisk
<1>1. IInv => CleanMatchesDisk
  BY DEF IInv
<1> QED
  BY <1>1, Inductive, PTL

-----------------------------------------------------------------------------
(* The page moves: which steps touch the hash table or a content, and that *)
(* no content changes but by the step of a client.                         *)
LEMMA WriteBackContent ==
    ASSUME IInv, NEW f \in Files, NEW S \in SUBSET Frames,
           ~FilePinned(f), WriteBack(f, DirtyOf(f, S)),
           NEW g \in Files, NEW p \in Pages
    PROVE  /\ Content(g, p)' = Content(g, p)
           /\ pins[g][p] > 0 => hashTable'[g][p] = hashTable[g][p]
<1> DEFINE D == DirtyOf(f, S)
           W == PagesIn(D)
<1>e. /\ D \subseteq Frames
      /\ bufPool' = bufPool
      /\ \A q \in Pages :
           q \in W => /\ hashTable[f][q] \in D
                      /\ hashTable'[f][q] = NoFrame
                      /\ disk'[f][q] = bufPool[hashTable[f][q]]
                      /\ pins[f][q] = 0
      /\ \A x \in Files, q \in Pages :
           x # f \/ q \notin W => /\ hashTable'[x][q] = hashTable[x][q]
                                  /\ disk'[x][q] = disk[x][q]
  BY WriteBackEffect
<1> HIDE DEF D, W
<1>1. CASE g = f /\ p \in W
  BY <1>1, <1>e, NoFrameAssumption DEF Content
<1>2. CASE g # f \/ p \notin W
  BY <1>2, <1>e DEF Content
<1> QED
  BY <1>1, <1>2

LEMMA InstallContent ==
    ASSUME IInv, call.pc = "fill",
           NEW f \in Files, NEW p \in Pages, NEW d \in Data,
           hashTable[f][p] = NoFrame,
           Install(f, p, d),
           disk' = [disk EXCEPT ![f][p] = d]
    PROVE  /\ Content(f, p)' = d
           /\ \A g \in Files, q \in Pages :
                g # f \/ q # p => /\ Content(g, q)' = Content(g, q)
                                  /\ hashTable'[g][q] = hashTable[g][q]
<1> DEFINE h == clockHand
<1>t. /\ hashTable \in [Files -> [Pages -> Frames \cup {NoFrame}]]
      /\ disk \in [Files -> [Pages -> Data \cup {Absent}]]
      /\ bufPool \in [Frames -> Data]
      /\ h \in Frames
  BY DEF IInv, TypeOK
<1>c. /\ bufPool' = [bufPool EXCEPT ![h] = d]
      /\ hashTable' = [hashTable EXCEPT ![f][p] = h]
  BY DEF Install
<1>f. ASSUME NEW g \in Files, NEW q \in Pages
      PROVE  hashTable[g][q] # h
  BY <1>t, NoFrameAssumption DEF IInv, CallInv, EntriesDescribed, Victim
<1>1. Content(f, p)' = d
  BY <1>t, <1>c, NoFrameAssumption DEF Content
<1>2. ASSUME NEW g \in Files, NEW q \in Pages, g # f \/ q # p
      PROVE  /\ Content(g, q)' = Content(g, q)
             /\ hashTable'[g][q] = hashTable[g][q]
  <2>1. hashTable'[g][q] = hashTable[g][q] /\ disk'[g][q] = disk[g][q]
    BY <1>2, <1>t, <1>c
  <2>2. hashTable[g][q] # NoFrame =>
          bufPool'[hashTable[g][q]] = bufPool[hashTable[g][q]]
    BY <1>t, <1>f, <1>c
  <2> QED
    BY <2>1, <2>2 DEF Content
<1> QED
  BY <1>1, <1>2

LEMMA EvictCleanContent ==
    ASSUME IInv, EvictClean, NEW g \in Files, NEW p \in Pages
    PROVE  /\ Content(g, p)' = Content(g, p)
           /\ pins[g][p] > 0 => hashTable'[g][p] = hashTable[g][p]
<1> DEFINE f == Victim.file
           q == Victim.pageNo
<1>t. /\ bufDescTable \in [Frames -> BufDesc]
      /\ hashTable \in [Files -> [Pages -> Frames \cup {NoFrame}]]
      /\ clockHand \in Frames
  BY DEF IInv, TypeOK
<1>c. /\ bufPool' = bufPool /\ disk' = disk
      /\ hashTable' = [hashTable EXCEPT ![f][q] = NoFrame]
      /\ hashTable[f][q] # NoFrame
      /\ Victim.valid /\ Victim.pinCnt = 0 /\ ~Victim.dirty
  BY DEF EvictClean, Evictable
<1>g. f \in Files /\ q \in Pages /\ hashTable[f][q] = clockHand
  BY <1>t, <1>c DEF IInv, FramesHashed, Victim
<1>p. pins[f][q] = 0 /\ q \notin unsaved[f]
  BY <1>t, <1>c, <1>g DEF IInv, PinAccounting, CleanMatchesDisk, Victim
<1>1. CASE g = f /\ p = q
  <2>1. bufPool[hashTable[f][q]] = disk[f][q]
    BY <1>t, <1>c, <1>g, <1>p DEF IInv, CleanMatchesDisk, Victim
  <2>2. hashTable'[f][q] = NoFrame
    BY <1>t, <1>c, <1>g
  <2> QED
    BY <1>1, <2>1, <2>2, <1>c, <1>p DEF Content
<1>2. CASE g # f \/ p # q
  <2>1. hashTable'[g][p] = hashTable[g][p]
    BY <1>2, <1>t, <1>c, <1>g
  <2> QED
    BY <2>1, <1>c DEF Content
<1> QED
  BY <1>1, <1>2

(* What a step of allocBuf leaves as it was. *)
LEMMA AllocBufContent ==
    ASSUME IInv, AllocBufStep, NEW g \in Files, NEW p \in Pages
    PROVE  /\ pins' = pins
           /\ Content(g, p)' = Content(g, p)
           /\ pins[g][p] > 0 => hashTable'[g][p] = hashTable[g][p]
<1>1. CASE TakeInvalid \/ ClearRefbit \/ SkipPinned
  BY <1>1 DEF TakeInvalid, ClearRefbit, SkipPinned, clientVars, Content
<1>2. CASE EvictUnhashed \/ Exceeded
  BY <1>2 DEF EvictUnhashed, Exceeded, poolVars, clientVars, Content
<1>3. CASE EvictClean
  <2>1. pins' = pins
    BY <1>3 DEF EvictClean, clientVars
  <2> QED
    BY <1>3, <2>1, EvictCleanContent
<1>4. CASE EvictDirty
  <2> DEFINE f == Victim.file
             S == 0 .. clockHand
  <2>1. clockHand \in Frames /\ S \in SUBSET Frames
    BY DEF IInv, TypeOK, Frames
  <2>2. /\ pins' = pins /\ ~FilePinned(f) /\ WriteBack(f, DirtyOf(f, S))
        /\ Victim.valid
    BY <1>4 DEF EvictDirty, Evictable, clientVars
  <2>3. f \in Files
    BY <2>1, <2>2 DEF IInv, FramesHashed, Victim
  <2> HIDE DEF f, S
  <2> QED
    BY <2>1, <2>2, <2>3, WriteBackContent
<1> QED
  BY <1>1, <1>2, <1>3, <1>4 DEF AllocBufStep

-----------------------------------------------------------------------------
(* Every step is a step of PagedStore or leaves it as it was. *)
LEMMA Unmoved ==
    ASSUME pins' = pins,
           \A g \in Files, p \in Pages : Content(g, p)' = Content(g, p)
    PROVE  UNCHANGED Store!storeVars
<1>1. [f \in Files |-> [p \in Pages |-> Content(f, p)]]'
        = [f \in Files |-> [p \in Pages |-> Content(f, p)]]
  OBVIOUS
<1> QED
  BY <1>1 DEF Store!storeVars

LEMMA StoreInit == Init => Store!Init
  BY DEF Init, Store!Init, Content

(* The abstract content after one page has changed. *)
LEMMA Changed ==
    ASSUME NEW f \in Files, NEW p \in Pages, NEW v,
           Content(f, p)' = v,
           \A g \in Files, q \in Pages :
              g # f \/ q # p => Content(g, q)' = Content(g, q)
    PROVE  [g \in Files |-> [q \in Pages |-> Content(g, q)]]'
             = [[g \in Files |-> [q \in Pages |-> Content(g, q)]]
                  EXCEPT ![f][p] = v]
<1> DEFINE M == [g \in Files |-> [q \in Pages |-> Content(g, q)]]
           N == [M EXCEPT ![f][p] = v]
<1>1. ASSUME NEW g \in Files
      PROVE  M'[g] = N[g]
  <2>1. M'[g] = [q \in Pages |-> Content(g, q)']
    OBVIOUS
  <2>2. CASE g # f
    BY <2>1, <2>2
  <2>3. CASE g = f
    <3>1. N[f] = [[q \in Pages |-> Content(f, q)] EXCEPT ![p] = v]
      OBVIOUS
    <3>2. [[q \in Pages |-> Content(f, q)] EXCEPT ![p] = v]
            = [q \in Pages |-> IF q = p THEN v ELSE Content(f, q)]
      OBVIOUS
    <3>3. \A q \in Pages :
             Content(f, q)' = IF q = p THEN v ELSE Content(f, q)
      OBVIOUS
    <3> QED
      BY <2>1, <2>3, <3>1, <3>2, <3>3
  <2> QED
    BY <2>2, <2>3
<1>2. M' = [g \in Files |-> M'[g]] /\ N = [g \in Files |-> N[g]]
  OBVIOUS
<1> QED
  BY <1>1, <1>2

LEMMA ReadFillStep ==
    ASSUME IInv, ReadFill
    PROVE  /\ Store!Next
           /\ \A g \in Files, q \in Pages :
                pins[g][q] > 0 => hashTable'[g][q] = hashTable[g][q]
<1>0. call.file \in Files /\ call.page \in Pages
  BY DEF ReadFill, IInv, TypeOK
<1>p. PICK f \in Files, p \in Pages : f = call.file /\ p = call.page
  BY <1>0
<1>1. /\ call.pc = "fill" /\ disk[f][p] # Absent
      /\ Install(f, p, disk[f][p])
      /\ pins' = [pins EXCEPT ![f][p] = @ + 1]
      /\ disk' = disk
  BY <1>p DEF ReadFill
<1>2. PICK d \in Data : d = disk[f][p]
  BY <1>1 DEF IInv, TypeOK
<1>3. disk' = [disk EXCEPT ![f][p] = d]
  BY <1>1, <1>2 DEF IInv, TypeOK
<1>4. hashTable[f][p] = NoFrame
  BY <1>p DEF ReadFill, IInv, CallInv
<1>5. Content(f, p) = d
  BY <1>2, <1>4 DEF Content
<1>6. /\ Content(f, p)' = d
      /\ \A g \in Files, q \in Pages :
            g # f \/ q # p => /\ Content(g, q)' = Content(g, q)
                              /\ hashTable'[g][q] = hashTable[g][q]
  BY <1>1, <1>2, <1>3, <1>4, InstallContent
<1>7. \A g \in Files, q \in Pages : Content(g, q)' = Content(g, q)
  BY <1>5, <1>6
<1>8. [g \in Files |-> [q \in Pages |-> Content(g, q)]]'
        = [g \in Files |-> [q \in Pages |-> Content(g, q)]]
  BY <1>7
<1>9. Store!Pin(f, p)
  BY <1>1, <1>2, <1>5, <1>8 DEF Store!Pin
<1>10. Store!Next
  BY <1>9 DEF Store!Next
<1>11. pins[f][p] = 0
  BY <1>4 DEF IInv, PinAccounting
<1> QED
  BY <1>6, <1>10, <1>11

LEMMA AllocFillStep ==
    ASSUME IInv, AllocFill
    PROVE  /\ Store!Next
           /\ \A g \in Files, q \in Pages :
                pins[g][q] > 0 => hashTable'[g][q] = hashTable[g][q]
<1>0. call.file \in Files
  BY DEF AllocFill, IInv, TypeOK
<1>f. PICK f \in Files : f = call.file
  BY <1>0
<1>1. call.pc = "fill"
  BY DEF AllocFill
<1>2. PICK p \in Pages :
         /\ disk[f][p] = Absent
         /\ disk' = [disk EXCEPT ![f][p] = Empty]
         /\ Install(f, p, Empty)
         /\ pins' = [pins EXCEPT ![f][p] = @ + 1]
  BY <1>f DEF AllocFill
<1>3. hashTable[f][p] = NoFrame
  BY <1>2 DEF IInv, CleanMatchesDisk
<1>4. pins[f][p] = 0 /\ pins' = [pins EXCEPT ![f][p] = 1]
  <2>1. pins[f][p] = 0
    BY <1>3 DEF IInv, PinAccounting
  <2> QED
    BY <2>1, <1>2
<1>6. /\ Content(f, p)' = Empty
      /\ \A g \in Files, q \in Pages :
            g # f \/ q # p => /\ Content(g, q)' = Content(g, q)
                              /\ hashTable'[g][q] = hashTable[g][q]
  BY <1>1, <1>2, <1>3, DataAssumption, InstallContent
<1>7. Content(f, p) = Absent
  BY <1>2, <1>3 DEF Content
<1>8. [g \in Files |-> [q \in Pages |-> Content(g, q)]]'
        = [[g \in Files |-> [q \in Pages |-> Content(g, q)]]
             EXCEPT ![f][p] = Empty]
  BY <1>6, Changed
<1>9. Store!Alloc(f, p)
  BY <1>4, <1>7, <1>8 DEF Store!Alloc
<1>10. Store!Next
  BY <1>9 DEF Store!Next
<1> QED
  BY <1>4, <1>6, <1>10

LEMMA DisposePageStep ==
    ASSUME IInv, NEW f \in Files, NEW p \in Pages, DisposePage(f, p)
    PROVE  /\ Store!Next \/ UNCHANGED Store!storeVars
           /\ \A g \in Files, q \in Pages :
                pins[g][q] > 0 /\ pins'[g][q] > 0
                  => hashTable'[g][q] = hashTable[g][q]
<1>c. /\ hashTable' = [hashTable EXCEPT ![f][p] = NoFrame]
      /\ disk' = [disk EXCEPT ![f][p] = Absent]
      /\ pins' = [pins EXCEPT ![f][p] = 0]
      /\ bufPool' = bufPool
  BY DEF DisposePage
<1>t. /\ hashTable \in [Files -> [Pages -> Frames \cup {NoFrame}]]
      /\ disk \in [Files -> [Pages -> Data \cup {Absent}]]
      /\ pins \in [Files -> [Pages -> Nat]]
      /\ bufPool \in [Frames -> Data]
  BY DEF IInv, TypeOK
<1>1. /\ Content(f, p)' = Absent
      /\ pins'[f][p] = 0
      /\ \A g \in Files, q \in Pages :
            g # f \/ q # p => /\ Content(g, q)' = Content(g, q)
                              /\ hashTable'[g][q] = hashTable[g][q]
  BY <1>c, <1>t DEF Content
<1>2. [g \in Files |-> [q \in Pages |-> Content(g, q)]]'
        = [[g \in Files |-> [q \in Pages |-> Content(g, q)]]
             EXCEPT ![f][p] = Absent]
  BY <1>1, Changed
<1>3. CASE Content(f, p) # Absent
  <2>1. Store!Dispose(f, p)
    BY <1>c, <1>2, <1>3 DEF Store!Dispose
  <2>2. Store!Next
    BY <2>1 DEF Store!Next
  <2> QED
    BY <2>2, <1>1
<1>4. CASE Content(f, p) = Absent
  <2>1. hashTable[f][p] = NoFrame
    BY <1>4, <1>t, DataAssumption DEF Content
  <2>2. pins[f][p] = 0
    BY <2>1 DEF IInv, PinAccounting
  <2>3. pins' = pins
    BY <2>2, <1>c, <1>t
  <2>4. \A g \in Files, q \in Pages : Content(g, q)' = Content(g, q)
    BY <1>1, <1>4
  <2> QED
    BY <2>2, <2>3, <2>4, <1>1, Unmoved
<1> QED
  BY <1>3, <1>4

LEMMA ModifyStep ==
    ASSUME IInv, NEW f \in Files, NEW p \in Pages, NEW d \in Data,
           Modify(f, p, d)
    PROVE  Store!Next
<1>c. /\ UNCHANGED <<hashTable, disk, pins>>
      /\ bufPool' = [bufPool EXCEPT ![hashTable[f][p]] = d]
      /\ pins[f][p] > 0
  BY DEF Modify
<1>t. /\ hashTable \in [Files -> [Pages -> Frames \cup {NoFrame}]]
      /\ bufPool \in [Frames -> Data]
  BY DEF IInv, TypeOK
<1>k. hashTable[f][p] # NoFrame
  BY <1>c DEF IInv, PinAccounting
<1>1. Content(f, p)' = d
  BY <1>c, <1>t, <1>k DEF Content
<1>2. ASSUME NEW g \in Files, NEW q \in Pages, g # f \/ q # p
      PROVE  Content(g, q)' = Content(g, q)
  <2>1. hashTable[g][q] # NoFrame => hashTable[g][q] # hashTable[f][p]
    BY <1>2, <1>k DEF IInv, EntriesDescribed
  <2> QED
    BY <2>1, <1>c, <1>t DEF Content
<1>3. [g \in Files |-> [q \in Pages |-> Content(g, q)]]'
        = [[g \in Files |-> [q \in Pages |-> Content(g, q)]]
             EXCEPT ![f][p] = d]
  BY <1>1, <1>2, Changed
<1>4. Store!Write(f, p, d)
  BY <1>c, <1>3 DEF Store!Write
<1> QED
  BY <1>4 DEF Store!Next

LEMMA PinStep ==
    ASSUME IInv, NEW f \in Files, NEW p \in Pages,
           ReadHit(f, p) \/ \E dirty \in BOOLEAN : UnPinPage(f, p, dirty)
    PROVE  Store!Next
<1>t. /\ hashTable \in [Files -> [Pages -> Frames \cup {NoFrame}]]
      /\ bufPool \in [Frames -> Data]
  BY DEF IInv, TypeOK
<1>1. /\ UNCHANGED <<hashTable, disk, bufPool>>
      /\ hashTable[f][p] # NoFrame
  BY DEF ReadHit, UnPinPage
<1>2. [g \in Files |-> [q \in Pages |-> Content(g, q)]]'
        = [g \in Files |-> [q \in Pages |-> Content(g, q)]]
  BY <1>1 DEF Content
<1>3. Content(f, p) # Absent
  BY <1>t, <1>1, DataAssumption DEF Content
<1>4. CASE ReadHit(f, p)
  <2>1. Store!Pin(f, p)
    BY <1>2, <1>3, <1>4 DEF ReadHit, Store!Pin
  <2> QED
    BY <2>1 DEF Store!Next
<1>5. CASE \E dirty \in BOOLEAN : UnPinPage(f, p, dirty)
  <2>1. pins[f][p] > 0 /\ pins' = [pins EXCEPT ![f][p] = @ - 1]
    BY <1>5 DEF UnPinPage, IInv, PinAccounting
  <2>2. Store!Unpin(f, p)
    BY <1>2, <2>1 DEF Store!Unpin
  <2> QED
    BY <2>2 DEF Store!Next
<1> QED
  BY <1>4, <1>5

LEMMA StoreStep ==
    ASSUME IInv, [Next]_vars
    PROVE  /\ Store!Next \/ UNCHANGED Store!storeVars
           /\ \A g \in Files, q \in Pages :
                pins[g][q] > 0 /\ pins'[g][q] > 0
                  => hashTable'[g][q] = hashTable[g][q]
<1>1. CASE AllocBufStep
  <2>1. pins' = pins
    BY <1>1 DEF AllocBufStep, TakeInvalid, ClearRefbit, EvictClean,
       EvictUnhashed, EvictDirty, SkipPinned, Exceeded, clientVars
  <2>2. \A g \in Files, p \in Pages :
           /\ Content(g, p)' = Content(g, p)
           /\ pins[g][p] > 0 => hashTable'[g][p] = hashTable[g][p]
    BY <1>1, AllocBufContent
  <2> QED
    BY <2>1, <2>2, Unmoved
<1>2. CASE ReadFillFails
  BY <1>2, Unmoved DEF ReadFillFails, poolVars, clientVars, Content
<1>3. CASE ReadFill \/ AllocFill
  BY <1>3, ReadFillStep, AllocFillStep
<1>4. ASSUME NEW f \in Files, AllocPage(f) \/ FlushRefused(f)
      PROVE  /\ UNCHANGED Store!storeVars
             /\ hashTable' = hashTable
  BY <1>4, Unmoved DEF AllocPage, FlushRefused, poolVars, clientVars, Content
<1>5. ASSUME NEW f \in Files, FlushFile(f)
      PROVE  /\ UNCHANGED Store!storeVars
             /\ \A g \in Files, q \in Pages :
                  pins[g][q] > 0 => hashTable'[g][q] = hashTable[g][q]
  <2>1. /\ pins' = pins /\ ~FilePinned(f)
        /\ WriteBack(f, DirtyOf(f, Frames)) /\ Frames \in SUBSET Frames
    BY <1>5 DEF FlushFile, clientVars
  <2>2. \A g \in Files, q \in Pages :
           /\ Content(g, q)' = Content(g, q)
           /\ pins[g][q] > 0 => hashTable'[g][q] = hashTable[g][q]
    BY <2>1, WriteBackContent
  <2> QED
    BY <2>1, <2>2, Unmoved
<1>6. ASSUME NEW f \in Files, NEW p \in Pages, CallStep(f, p)
      PROVE  /\ Store!Next \/ UNCHANGED Store!storeVars
             /\ \A g \in Files, q \in Pages :
                  pins[g][q] > 0 /\ pins'[g][q] > 0
                    => hashTable'[g][q] = hashTable[g][q]
  <2>1. CASE ReadMiss(f, p) \/ UnPinRefused(f, p)
    BY <2>1, Unmoved DEF ReadMiss, UnPinRefused, poolVars, clientVars, Content
  <2>2. CASE ReadHit(f, p) \/ \E dirty \in BOOLEAN : UnPinPage(f, p, dirty)
    <3>1. hashTable' = hashTable
      BY <2>2 DEF ReadHit, UnPinPage
    <3> QED
      BY <3>1, <2>2, PinStep
  <2>3. CASE DisposePage(f, p)
    BY <2>3, DisposePageStep
  <2>4. CASE \E d \in Data : Modify(f, p, d)
    <3>1. hashTable' = hashTable
      BY <2>4 DEF Modify
    <3> QED
      BY <3>1, <2>4, ModifyStep
  <2> QED
    BY <1>6, <2>1, <2>2, <2>3, <2>4 DEF CallStep
<1>7. CASE UNCHANGED vars
  BY <1>7, Unmoved DEF vars, Content
<1>8. ASSUME NEW f \in Files,
             \/ AllocPage(f) \/ FlushFile(f) \/ FlushRefused(f)
             \/ \E p \in Pages : CallStep(f, p)
      PROVE  /\ Store!Next \/ UNCHANGED Store!storeVars
             /\ \A g \in Files, q \in Pages :
                  pins[g][q] > 0 /\ pins'[g][q] > 0
                    => hashTable'[g][q] = hashTable[g][q]
  <2>1. CASE AllocPage(f) \/ FlushRefused(f)
    BY <2>1, <1>4
  <2>2. CASE FlushFile(f)
    BY <2>2, <1>5
  <2>3. CASE \E p \in Pages : CallStep(f, p)
    BY <2>3, <1>6
  <2> QED
    BY <1>8, <2>1, <2>2, <2>3
<1>9. CASE FillStep
  BY <1>9, <1>2, <1>3 DEF FillStep
<1> QED
  BY <1>1, <1>7, <1>8, <1>9 DEF Next

(* The buffer manager implements PagedStore: misses, evictions, flushes    *)
(* and failing calls are invisible to clients, and no update is lost.      *)
THEOREM ImplementsPagedStore == Spec => StoreSpec
<1>1. Init => Store!Init
  BY StoreInit
<1>2. IInv /\ [Next]_vars => [Store!Next]_(Store!storeVars)
  BY StoreStep
<1> QED
  BY <1>1, <1>2, Inductive, PTL DEF Spec, StoreSpec, Store!Spec

(* A Page pointer stays good as long as its holder keeps the pin.          *)
THEOREM PointersStayGood == Spec => PinnedPagesStay
<1>1. IInv /\ [Next]_vars =>
        [\A f \in Files, p \in Pages :
            pins[f][p] > 0 /\ pins'[f][p] > 0
              => hashTable'[f][p] = hashTable[f][p]]_vars
  BY StoreStep
<1> QED
  BY <1>1, Inductive, PTL DEF Spec, PinnedPagesStay

-----------------------------------------------------------------------------
(* Outside a pool that is wedged, and between allocBuf and the caller that  *)
(* fills the frame, every valid frame has its entry.                       *)
LEMMA AllHashed ==
    ASSUME IInv, ~Wedged, call.pc # "fill",
           NEW fr \in Frames, bufDescTable[fr].valid
    PROVE  LET d == bufDescTable[fr] IN
           d.file \in Files /\ d.pageNo \in Pages
             /\ hashTable[d.file][d.pageNo] = fr
  BY DEF IInv, FramesHashed, Wedged, Victim

(* So the pool is not wedged after a step that leaves every valid frame    *)
(* its entry.                                                              *)
LEMMA NotWedged ==
    ASSUME clockHand' \in Frames,
           \A fr \in Frames : LET d == bufDescTable'[fr] IN
              d.valid => hashTable'[d.file][d.pageNo] # NoFrame
    PROVE  ~Wedged'
  BY DEF Wedged, Victim

(* Steps that leave table and frames alone, but for bits that do not count. *)
LEMMA SameFrames ==
    ASSUME IInv, ~Wedged, call.pc # "fill", clockHand' \in Frames,
           hashTable' = hashTable,
           \A fr \in Frames : /\ bufDescTable'[fr].valid = bufDescTable[fr].valid
                              /\ bufDescTable'[fr].file = bufDescTable[fr].file
                              /\ bufDescTable'[fr].pageNo = bufDescTable[fr].pageNo
    PROVE  ~Wedged'
<1>1. ASSUME NEW fr \in Frames, bufDescTable'[fr].valid
      PROVE  hashTable'[bufDescTable'[fr].file][bufDescTable'[fr].pageNo] # NoFrame
  BY <1>1, AllHashed, NoFrameAssumption
<1> QED
  BY <1>1, NotWedged

LEMMA SweepNotWedged ==
    ASSUME IInv, IInv', ~Wedged, AllocBufStep
    PROVE  ~Wedged'
<1>h. clockHand \in Frames /\ clockHand' \in Frames
      /\ bufDescTable \in [Frames -> BufDesc]
  BY DEF IInv, TypeOK
<1>1. CASE TakeInvalid \/ EvictClean \/ EvictDirty
  <2>1. call' = [call EXCEPT !.pc = "fill"]
    BY <1>1 DEF TakeInvalid, EvictClean, EvictDirty, FrameFound
  <2>2. call'.pc = "fill"
    BY <2>1 DEF IInv, TypeOK, Calls
  <2> QED
    BY <2>2 DEF Wedged
<1>2. CASE ClearRefbit
  <2>1. \A fr \in Frames : /\ bufDescTable'[fr].valid = bufDescTable[fr].valid
                           /\ bufDescTable'[fr].file = bufDescTable[fr].file
                           /\ bufDescTable'[fr].pageNo = bufDescTable[fr].pageNo
    BY <1>2, <1>h DEF ClearRefbit, BufDesc
  <2> QED
    BY <1>2, <1>h, <2>1, SameFrames DEF ClearRefbit, Turning
<1>3. CASE SkipPinned
  BY <1>3, <1>h, SameFrames DEF SkipPinned, Turning
<1>4. ~EvictUnhashed
  BY DEF EvictUnhashed, Evictable, Turning, Wedged
<1>5. CASE Exceeded
  BY <1>5, <1>h, SameFrames DEF Exceeded, poolVars
<1> QED
  BY <1>1, <1>2, <1>3, <1>4, <1>5 DEF AllocBufStep

(* A frame that receives a page receives its entry; the others had theirs. *)
LEMMA FillNotWedged ==
    ASSUME IInv, NEW f \in Files, NEW p \in Pages, NEW d, Install(f, p, d)
    PROVE  ~Wedged'
<1>h. /\ clockHand \in Frames /\ clockHand' = clockHand
      /\ bufDescTable \in [Frames -> BufDesc]
      /\ hashTable \in [Files -> [Pages -> Frames \cup {NoFrame}]]
  BY DEF IInv, TypeOK, Install
<1>1. bufDescTable'[clockHand] = Assigned(f, p)
  BY <1>h DEF Install
<1>2. hashTable'[f][p] = clockHand
  BY <1>h DEF Install
<1> QED
  BY <1>h, <1>1, <1>2, NoFrameAssumption DEF Wedged, Victim, Assigned

LEMMA FlushNotWedged ==
    ASSUME IInv, IInv', ~Wedged, NEW f \in Files, FlushFile(f)
    PROVE  ~Wedged'
<1>h. /\ clockHand' \in Frames /\ call.pc # "fill"
      /\ hashTable \in [Files -> [Pages -> Frames \cup {NoFrame}]]
  BY DEF IInv, TypeOK, FlushFile, Idle
<1>. DEFINE S == DirtyOf(f, Frames)
<1>1. ASSUME NEW fr \in Frames, bufDescTable'[fr].valid
      PROVE  hashTable'[bufDescTable'[fr].file][bufDescTable'[fr].pageNo] # NoFrame
  <2>1. fr \notin S /\ bufDescTable'[fr] = bufDescTable[fr]
    BY <1>1 DEF FlushFile, WriteBack, Cleared
  <2>. DEFINE g == bufDescTable[fr].file
             q == bufDescTable[fr].pageNo
  <2>2. g \in Files /\ q \in Pages /\ hashTable[g][q] = fr
    BY <1>1, <1>h, <2>1, AllHashed
  <2>3. g = f => q \notin PagesIn(S)
    <3>1. SUFFICES ASSUME NEW k \in S, g = f, q = bufDescTable[k].pageNo
                   PROVE  FALSE
      BY DEF PagesIn
    <3>2. k \in Frames /\ bufDescTable[k].file = f /\ bufDescTable[k].dirty
      BY DEF DirtyOf
    <3>3. bufDescTable[k].valid
      BY <3>2 DEF IInv, FramesHashed, Cleared
    <3>4. hashTable[f][q] = k
      BY <3>1, <3>2, <3>3, <1>h, AllHashed
    <3> QED
      BY <2>1, <2>2, <3>1, <3>4
  <2>4. hashTable'[g][q] = hashTable[g][q]
    BY <1>h, <2>2, <2>3 DEF FlushFile, WriteBack
  <2> QED
    BY <2>1, <2>2, <2>4, NoFrameAssumption
<1> QED
  BY <1>h, <1>1, NotWedged

LEMMA DisposeNotWedged ==
    ASSUME IInv, IInv', ~Wedged, NEW f \in Files, NEW p \in Pages,
           DisposePage(f, p)
    PROVE  ~Wedged'
<1>h. /\ clockHand' \in Frames /\ call.pc # "fill"
      /\ hashTable \in [Files -> [Pages -> Frames \cup {NoFrame}]]
      /\ bufDescTable \in [Frames -> BufDesc]
  BY DEF IInv, TypeOK, DisposePage, Idle
<1>1. ASSUME NEW fr \in Frames, bufDescTable'[fr].valid
      PROVE  hashTable'[bufDescTable'[fr].file][bufDescTable'[fr].pageNo] # NoFrame
  <2>1. fr # hashTable[f][p] /\ bufDescTable'[fr] = bufDescTable[fr]
    BY <1>1, <1>h, NoFrameAssumption DEF DisposePage, Cleared
  <2>. DEFINE g == bufDescTable[fr].file
             q == bufDescTable[fr].pageNo
  <2>2. g \in Files /\ q \in Pages /\ hashTable[g][q] = fr
    BY <1>1, <1>h, <2>1, AllHashed
  <2>3. hashTable'[g][q] = hashTable[g][q]
    BY <1>h, <2>1, <2>2 DEF DisposePage
  <2> QED
    BY <2>1, <2>2, <2>3, NoFrameAssumption
<1> QED
  BY <1>h, <1>1, NotWedged

LEMMA CallNotWedged ==
    ASSUME IInv, IInv', ~Wedged, NEW f \in Files, NEW p \in Pages,
           CallStep(f, p)
    PROVE  ~Wedged'
<1>h. /\ clockHand' \in Frames
      /\ bufDescTable \in [Frames -> BufDesc]
      /\ hashTable \in [Files -> [Pages -> Frames \cup {NoFrame}]]
  BY DEF IInv, TypeOK
<1>1. ASSUME NEW k \in Frames, NEW d, d.valid = bufDescTable[k].valid,
             d.file = bufDescTable[k].file, d.pageNo = bufDescTable[k].pageNo,
             bufDescTable' = [bufDescTable EXCEPT ![k] = d],
             hashTable' = hashTable, call.pc # "fill"
      PROVE  ~Wedged'
  <2>1. \A fr \in Frames : /\ bufDescTable'[fr].valid = bufDescTable[fr].valid
                           /\ bufDescTable'[fr].file = bufDescTable[fr].file
                           /\ bufDescTable'[fr].pageNo = bufDescTable[fr].pageNo
    BY <1>1, <1>h
  <2> QED
    BY <1>1, <1>h, <2>1, SameFrames
<1>2. CASE ReadHit(f, p)
  <2>. DEFINE k == hashTable[f][p]
             d == [bufDescTable[k] EXCEPT !.refbit = TRUE, !.pinCnt = @ + 1]
  <2>1. k \in Frames /\ call.pc # "fill" /\ hashTable' = hashTable
    BY <1>2, <1>h DEF ReadHit, Idle
  <2>2. bufDescTable' = [bufDescTable EXCEPT ![k] = d]
    BY <1>2, <1>h, <2>1 DEF ReadHit
  <2>3. /\ d.valid = bufDescTable[k].valid /\ d.file = bufDescTable[k].file
        /\ d.pageNo = bufDescTable[k].pageNo
    BY <1>h, <2>1 DEF BufDesc
  <2>. HIDE DEF d, k
  <2> QED
    BY <1>1, <2>1, <2>2, <2>3
<1>3. ASSUME NEW dirty \in BOOLEAN, UnPinPage(f, p, dirty)
      PROVE  ~Wedged'
  <2>. DEFINE k == hashTable[f][p]
             d == [bufDescTable[k] EXCEPT !.dirty = @ \/ dirty, !.pinCnt = @ - 1]
  <2>1. k \in Frames /\ call.pc # "fill" /\ hashTable' = hashTable
    BY <1>3, <1>h DEF UnPinPage, Idle
  <2>2. bufDescTable' = [bufDescTable EXCEPT ![k] = d]
    BY <1>3, <1>h, <2>1 DEF UnPinPage
  <2>3. /\ d.valid = bufDescTable[k].valid /\ d.file = bufDescTable[k].file
        /\ d.pageNo = bufDescTable[k].pageNo
    BY <1>h, <2>1 DEF BufDesc
  <2>. HIDE DEF d, k
  <2> QED
    BY <1>1, <2>1, <2>2, <2>3
<1>4. CASE ReadMiss(f, p)
  BY <1>4, <1>h, SameFrames DEF ReadMiss, poolVars, Idle
<1>5. CASE UnPinRefused(f, p)
  BY <1>5, <1>h, SameFrames DEF UnPinRefused, poolVars, Idle
<1>6. CASE DisposePage(f, p)
  BY <1>6, DisposeNotWedged
<1>7. ASSUME NEW d \in Data, Modify(f, p, d)
      PROVE  ~Wedged'
  BY <1>7, <1>h, SameFrames DEF Modify, Idle
<1> QED
  BY <1>2, <1>3, <1>4, <1>5, <1>6, <1>7 DEF CallStep

(* Only a failed read wedges the pool, and only in a wedged pool does a    *)
(* sweep miss an entry.                                                    *)
THEOREM OnlyAFailedReadWedges == Spec => WedgedOnlyByFailedRead
<1>1. ASSUME IInv, IInv', Next, ~Wedged, Wedged'
      PROVE  /\ call.op = "readPage" /\ thrown' = "InvalidPage"
             /\ disk[call.file][call.page] = Absent
  <2>1. ~AllocBufStep
    BY <1>1, SweepNotWedged
  <2>2. ~ReadFill
    <3>1. ReadFill => call.file \in Files /\ call.page \in Pages
      BY <1>1 DEF IInv, TypeOK, ReadFill
    <3> QED
      BY <1>1, <3>1, FillNotWedged DEF ReadFill
  <2>3. ~AllocFill
    <3>1. AllocFill => call.file \in Files
      BY <1>1 DEF IInv, TypeOK, AllocFill
    <3> QED
      BY <1>1, <3>1, FillNotWedged DEF AllocFill
  <2>4. ASSUME NEW f \in Files, AllocPage(f) \/ FlushRefused(f)
        PROVE  FALSE
    <3>1. UNCHANGED poolVars /\ call.pc # "fill" /\ clockHand' \in Frames
      BY <1>1, <2>4 DEF AllocPage, FlushRefused, Idle, IInv, TypeOK
    <3> QED
      BY <1>1, <3>1, SameFrames DEF poolVars
  <2>5. ReadFillFails
    BY <1>1, <2>1, <2>2, <2>3, <2>4, FlushNotWedged, CallNotWedged
       DEF Next, FillStep
  <2> QED
    BY <2>5 DEF ReadFillFails, Return
<1>2. ASSUME Next, thrown # "HashNotFound", thrown' = "HashNotFound"
      PROVE  Wedged
  <2>1. ~FillStep
    BY <1>2 DEF FillStep, ReadFill, ReadFillFails, AllocFill, Return
  <2>2. ASSUME NEW f \in Files, AllocPage(f) \/ FlushFile(f) \/ FlushRefused(f)
        PROVE  FALSE
    BY <1>2, <2>2 DEF AllocPage, FlushFile, FlushRefused, EnterAllocBuf, Return
  <2>3. ASSUME NEW f \in Files, NEW p \in Pages, CallStep(f, p)
        PROVE  FALSE
    <3>1. ~DisposePage(f, p)
      <4>1. DisposePage(f, p) =>
              thrown' = IF disk[f][p] = Absent THEN "InvalidPage" ELSE "none"
        BY DEF DisposePage, Return
      <4> QED
        BY <1>2, <4>1
    <3>2. ~UnPinRefused(f, p)
      <4>1. UnPinRefused(f, p) => thrown' =
              IF hashTable[f][p] = NoFrame THEN "none" ELSE "PageNotPinned"
        BY DEF UnPinRefused, Return
      <4> QED
        BY <1>2, <4>1
    <3> QED
      BY <1>2, <2>3, <3>1, <3>2 DEF CallStep, ReadHit, ReadMiss, UnPinPage,
         Modify, EnterAllocBuf, Return
  <2>4. AllocBufStep
    BY <1>2, <2>1, <2>2, <2>3 DEF Next
  <2>5. EvictUnhashed
    BY <1>2, <2>4 DEF AllocBufStep, TakeInvalid, ClearRefbit, EvictClean,
       EvictDirty, SkipPinned, Exceeded, FrameFound, NextTurn, Return
  <2> QED
    BY <2>5 DEF EvictUnhashed, Evictable, Turning, Wedged
<1>3. IInv /\ IInv' /\ [Next]_vars =>
        [/\ ~Wedged /\ Wedged' =>
              /\ call.op = "readPage" /\ thrown' = "InvalidPage"
              /\ disk[call.file][call.page] = Absent
         /\ thrown # "HashNotFound" /\ thrown' = "HashNotFound" => Wedged]_vars
  BY <1>1, <1>2
<1> QED
  BY <1>3, Inductive, PTL DEF Spec, WedgedOnlyByFailedRead

-----------------------------------------------------------------------------
(* How many turns ago the hand last stood on a frame: 1 .. numBufs.        *)
Ago(fr) == IF fr < clockHand THEN clockHand - fr
                             ELSE clockHand - fr + numBufs

Stuck(fr) ==
    LET d == bufDescTable[fr] IN
    /\ d.valid
    /\ d.pinCnt > 0 \/ (d.dirty /\ FilePinned(d.file))

(* A frame visited since the call began has used up its second chance; one *)
(* visited twice was skipped for a reason that still holds.                *)
SweepInv ==
    call.pc = "sweep" =>
        \A fr \in Frames :
            /\ Ago(fr) <= call.i =>
                  bufDescTable[fr].valid /\ ~bufDescTable[fr].refbit
            /\ Ago(fr) + numBufs <= call.i => Stuck(fr)

LEMMA HandTurn ==
    ASSUME clockHand \in Frames, clockHand' = (clockHand + 1) % numBufs
    PROVE  clockHand' = IF clockHand = numBufs - 1 THEN 0 ELSE clockHand + 1
<1>1. CASE clockHand = numBufs - 1
  <2>1. numBufs % numBufs = 0
    BY SMTT(30)
  <2> QED
    BY <1>1, <2>1
<1>2. CASE clockHand # numBufs - 1
  <2>1. clockHand + 1 \in 0 .. numBufs - 1
    BY <1>2 DEF Frames
  <2> QED
    BY <1>2, <2>1
<1> QED
  BY <1>1, <1>2

(* A turn of the hand makes every frame one turn older, and the one it     *)
(* leaves the youngest.                                                    *)
LEMMA TurnAges ==
    ASSUME clockHand \in Frames, clockHand' = (clockHand + 1) % numBufs,
           NEW fr \in Frames
    PROVE  /\ Ago(fr) \in 1 .. numBufs
           /\ fr # clockHand => Ago(fr)' = Ago(fr) + 1
           /\ fr = clockHand => Ago(fr) = numBufs /\ Ago(fr)' = 1
<1>1. clockHand' = IF clockHand = numBufs - 1 THEN 0 ELSE clockHand + 1
  BY HandTurn
<1> QED
  BY <1>1 DEF Ago, Frames

(* The turns that find no frame.                                           *)
LEMMA NextTurnSweep ==
    ASSUME IInv, SweepInv, ClearRefbit \/ SkipPinned
    PROVE  SweepInv'
<1>t. /\ clockHand \in Frames /\ bufDescTable \in [Frames -> BufDesc]
      /\ call \in Calls
  BY DEF IInv, TypeOK
<1>1. /\ call.pc = "sweep" /\ clockHand' = (clockHand + 1) % numBufs
      /\ call' = [call EXCEPT !.i = @ + 1]
  BY DEF ClearRefbit, SkipPinned, NextTurn, Turning
<1>2. call.i \in Nat /\ call'.i = call.i + 1
  BY <1>t, <1>1 DEF Calls
<1>3. ASSUME NEW fr \in Frames
      PROVE  /\ bufDescTable'[fr].valid = bufDescTable[fr].valid
             /\ bufDescTable'[fr].pinCnt = bufDescTable[fr].pinCnt
             /\ bufDescTable'[fr].dirty = bufDescTable[fr].dirty
             /\ bufDescTable'[fr].file = bufDescTable[fr].file
             /\ ~bufDescTable[fr].refbit => ~bufDescTable'[fr].refbit
  BY <1>t DEF ClearRefbit, SkipPinned, BufDesc
<1>4. \A f : FilePinned(f)' = FilePinned(f)
  BY <1>3 DEF FilePinned
<1>5. ASSUME NEW fr \in Frames, Stuck(fr)
      PROVE  Stuck(fr)'
  BY <1>3, <1>4, <1>5 DEF Stuck
<1>6. ASSUME NEW fr \in Frames, fr # clockHand
      PROVE  /\ Ago(fr)' <= call'.i =>
                   bufDescTable'[fr].valid /\ ~bufDescTable'[fr].refbit
             /\ Ago(fr)' + numBufs <= call'.i => Stuck(fr)'
  <2>1. Ago(fr) \in 1 .. numBufs /\ Ago(fr)' = Ago(fr) + 1
    BY <1>t, <1>1, <1>6, TurnAges
  <2>2. Ago(fr)' <= call'.i => Ago(fr) <= call.i
    BY <1>2, <2>1
  <2>3. Ago(fr)' + numBufs <= call'.i => Ago(fr) + numBufs <= call.i
    BY <1>2, <2>1
  <2> QED
    BY <1>1, <1>3, <1>5, <2>2, <2>3 DEF SweepInv
<1>7. /\ Ago(clockHand) = numBufs
      /\ \A fr \in Frames : fr = clockHand => Ago(fr)' = 1
  BY <1>t, <1>1, TurnAges
<1>8. bufDescTable'[clockHand].valid /\ ~bufDescTable'[clockHand].refbit
  BY <1>t DEF ClearRefbit, SkipPinned, Victim, BufDesc
<1>9. 1 + numBufs <= call'.i => Stuck(clockHand)
  <2>1. SUFFICES ASSUME numBufs <= call.i PROVE Stuck(clockHand)
    BY <1>2
  <2>2. ~Victim.refbit
    BY <1>1, <1>t, <1>7, <2>1 DEF SweepInv, Victim
  <2>3. SkipPinned
    BY <2>2 DEF ClearRefbit
  <2> QED
    BY <2>3 DEF SkipPinned, Stuck, Victim
<1> QED
  BY <1>t, <1>5, <1>6, <1>7, <1>8, <1>9 DEF SweepInv

LEMMA SweepStep == IInv /\ SweepInv /\ [Next]_vars => SweepInv'
<1> SUFFICES ASSUME IInv, SweepInv, [Next]_vars, call'.pc = "sweep"
             PROVE  SweepInv'
  BY DEF SweepInv
<1>1. CASE ClearRefbit \/ SkipPinned
  BY <1>1, NextTurnSweep
<1>2. CASE UNCHANGED vars
  BY <1>2 DEF vars, SweepInv, Ago, Stuck, FilePinned
<1>3. ASSUME call' = Idle
      PROVE  FALSE
  BY <1>3 DEF Idle
<1>4. ASSUME NEW op, NEW f, NEW p, EnterAllocBuf(op, f, p), UNCHANGED poolVars,
             clockHand \in Frames
      PROVE  SweepInv'
  <2>1. call'.i = 0 /\ clockHand' = clockHand
    BY <1>4 DEF EnterAllocBuf, poolVars
  <2>2. \A fr \in Frames : Ago(fr)' \in 1 .. numBufs
    BY <1>4, <2>1 DEF Ago, Frames
  <2> QED
    BY <2>1, <2>2 DEF SweepInv
<1>5. ASSUME TakeInvalid \/ EvictClean \/ EvictDirty
      PROVE  FALSE
  BY <1>5 DEF TakeInvalid, EvictClean, EvictDirty, FrameFound, Turning, IInv,
     TypeOK, Calls
<1>6. CASE EvictUnhashed \/ Exceeded \/ FillStep
  BY <1>3, <1>6 DEF EvictUnhashed, Exceeded, FillStep, ReadFill,
     ReadFillFails, AllocFill, Return
<1>7. ASSUME NEW f \in Files, AllocPage(f)
      PROVE  SweepInv'
  BY <1>4, <1>7 DEF AllocPage, IInv, TypeOK
<1>8. ASSUME NEW f \in Files, FlushFile(f) \/ FlushRefused(f)
      PROVE  FALSE
  BY <1>3, <1>8 DEF FlushFile, FlushRefused, Return
<1>9. ASSUME NEW f \in Files, NEW p \in Pages, CallStep(f, p)
      PROVE  SweepInv'
  <2>1. CASE ReadMiss(f, p)
    BY <1>4, <2>1 DEF ReadMiss, IInv, TypeOK
  <2>2. CASE \E d \in Data : Modify(f, p, d)
    BY <1>3, <2>2 DEF Modify
  <2> QED
    BY <1>3, <1>9, <2>1, <2>2 DEF CallStep, ReadHit, UnPinPage, UnPinRefused,
       DisposePage, Return
<1> QED
  BY <1>1, <1>2, <1>5, <1>6, <1>7, <1>8, <1>9 DEF Next, AllocBufStep

(* allocBuf gives up only when every frame is pinned or holds a dirty page *)
(* of a file with a pinned page.                                           *)
THEOREM GivesUpOnlyWhenStuck == Spec => ExceededOnlyWhenStuck
<1>1. Init => SweepInv
  BY DEF Init, Idle, SweepInv
<1>2. ASSUME IInv, SweepInv, Exceeded
      PROVE  \A fr \in Frames : Stuck(fr)
  <2>1. clockHand \in Frames
    BY <1>2 DEF IInv, TypeOK
  <2>2. \A fr \in Frames : Ago(fr) + numBufs <= 2 * numBufs
    BY <2>1 DEF Ago, Frames
  <2> QED
    BY <1>2, <2>2 DEF Exceeded, SweepInv
<1>3. ASSUME [Next]_vars, thrown # "BufferExceeded",
             thrown' = "BufferExceeded"
      PROVE  Exceeded
  <2>1. ASSUME NEW f \in Files, NEW p \in Pages, CallStep(f, p)
        PROVE  thrown' # "BufferExceeded"
    BY <2>1 DEF CallStep, ReadHit, ReadMiss, UnPinPage, UnPinRefused,
       DisposePage, Modify, Return, EnterAllocBuf
  <2>2. ASSUME NEW f \in Files, AllocPage(f) \/ FlushFile(f) \/ FlushRefused(f)
        PROVE  thrown' # "BufferExceeded"
    BY <2>2 DEF AllocPage, FlushFile, FlushRefused, Return, EnterAllocBuf
  <2>3. ASSUME FillStep
        PROVE  thrown' # "BufferExceeded"
    BY <2>3 DEF FillStep, ReadFill, ReadFillFails, AllocFill, Return
  <2>4. ASSUME TakeInvalid \/ ClearRefbit \/ EvictClean \/ EvictDirty
                 \/ SkipPinned
        PROVE  thrown' = thrown
    BY <2>4 DEF TakeInvalid, ClearRefbit, EvictClean, EvictDirty, SkipPinned,
       FrameFound, NextTurn
  <2>5. ASSUME EvictUnhashed
        PROVE  thrown' # "BufferExceeded"
    BY <2>5 DEF EvictUnhashed, Return
  <2> QED
    BY <1>3, <2>1, <2>2, <2>3, <2>4, <2>5 DEF Next, AllocBufStep, vars
<1>4. IInv /\ SweepInv /\ [Next]_vars =>
        [thrown # "BufferExceeded" /\ thrown' = "BufferExceeded" =>
           \A fr \in Frames :
              LET d == bufDescTable[fr] IN
              /\ d.valid
              /\ d.pinCnt > 0 \/ (d.dirty /\ FilePinned(d.file))]_vars
  BY <1>2, <1>3 DEF Stuck
<1>5. Spec => []SweepInv
  BY <1>1, SweepStep, Inductive, PTL DEF Spec
<1> QED
  BY <1>4, <1>5, Inductive, PTL DEF Spec, ExceededOnlyWhenStuck

=============================================================================
