--------------------------- MODULE FileScanProofs ---------------------------
(***************************************************************************)
(* Proofs about FileScan for any number of pages, slots and frames and any *)
(* contents: the scan's pins are exact, it writes nothing to the file but  *)
(* pages its client marked dirty, and, if none of its calls fails, it      *)
(* tells each record once.                                                 *)
(***************************************************************************)
EXTENDS FileScan, WellFoundedInduction, TLAPS

(* A page that is about to be read is a page of the file, and none is at   *)
(* hand; one that is about to be turned is.                                *)
CallInv ==
    /\ Reading => filePageIter \in Used /\ curPage = NULL
    /\ pc = "turnPage" => curPage # NULL /\ pageRecordIter = INVALID_SLOT

(* An entry of the hash table leads to a copy of its page; the copy at     *)
(* hand has its entry or none.                                             *)
TableInv ==
    /\ \A p \in Pages :
          ht[p] # NoFrame => ht[p] \in Holding /\ pool[ht[p]].page = p
    /\ curPage # NULL /\ pc \in {"open", "turnPage"} =>
          ht[filePageIter] \in {NoFrame, curPage}

(* What the scan may write later: dirty copies, and the page at hand.      *)
DirtyInv ==
    pc # "closed" =>
        /\ \A fr \in Holding : pool[fr].dirty => pool[fr].page \in marked
        /\ curPage # NULL /\ curDirtyFlag => filePageIter \in marked
        /\ pc = "readPage" => ~curDirtyFlag

(* The scan has passed the record r, if there is one: it stands at a       *)
(* record of the page at hand, or behind them all when it turns the page.  *)
Passed(r) ==
    \/ r[1] < filePageIter
    \/ r[1] = filePageIter /\ (r[2] <= pageRecordIter \/ pc = "turnPage")

AtPage ==
    /\ \A r \in returned : Passed(r)
    /\ \A r \in stable : Passed(r) => r \in returned
    /\ \A s \in Slots : <<filePageIter, s>> \in stable => s \in pool[curPage].slots
    /\ \A fr \in Holding : pool[fr].page <= filePageIter

BeforePage ==
    /\ \A r \in returned : r[1] < filePageIter
    /\ \A r \in stable : r[1] < filePageIter => r \in returned
    /\ \A fr \in Holding : pool[fr].page < filePageIter

Unbegun == returned = {} /\ Holding = {}

(* Where a scan none of whose calls failed stands: between two records of  *)
(* the page at hand, before a page, at the beginning or at the end.        *)
PlaceInv ==
    /\ pc \in {"open", "turnPage"} /\ curPage # NULL => AtPage
    /\ Reading => BeforePage
    /\ pc = "open" /\ curPage = NULL =>
          IF filePageIter = INVALID_NUMBER THEN stable \subseteq returned
                                           ELSE Unbegun
    /\ pc = "open" /\ thrown = "EndOfFile" => filePageIter = INVALID_NUMBER
    /\ stable \subseteq RecordsOf(file)
    /\ ~repeated

OrderInv == pc # "closed" /\ ~failed => PlaceInv

IInv == ScanPins /\ CallInv /\ TableInv /\ DirtyInv

USE MaxPageAssumption, MaxSlotAssumption, NumBufsAssumption,
    ContentsAssumption, AbsentAssumption, NotPooledAssumption

-----------------------------------------------------------------------------
(* After. *)

(* A set of numbers that has a member has a least one. *)
LEMMA LeastExists ==
    ASSUME NEW S \in SUBSET Nat, S # {}
    PROVE  Min(S) \in S /\ \A m \in S : Min(S) <= m
<1>. DEFINE R == {pair \in Nat \X Nat : pair[1] < pair[2]}
<1>1. IsWellFoundedOn(R, Nat)
  BY NatLessThanWellFounded DEF OpToRel
<1>2. PICK x \in S : \A y \in S : ~ (<<y, x>> \in R)
  <2>. HIDE DEF R
  <2>. QED
    BY <1>1, WFMin
<1>3. ASSUME NEW y \in S PROVE x <= y
  <2>1. <<y, x>> \notin R
    BY <1>2
  <2>2. ~ (y < x)
    BY <2>1
  <2>. QED
    BY <2>2
<1>. QED
  BY <1>3 DEF Min

(* After(S, n) is 0 if nothing of S is behind n, or else the first that is. *)
LEMMA AfterIs ==
    ASSUME NEW S \in SUBSET (Nat \ {0}), NEW n \in Int
    PROVE  /\ After(S, n) \in S \cup {0}
           /\ After(S, n) # 0 => After(S, n) > n
           /\ \A m \in S : m > n => After(S, n) # 0 /\ After(S, n) <= m
<1>. DEFINE rest == {m \in S : m > n}
<1>1. CASE rest = {}
  BY <1>1 DEF After
<1>2. CASE rest # {}
  <2>1. Min(rest) \in rest /\ \A m \in rest : Min(rest) <= m
    BY <1>2, LeastExists
  <2>2. After(S, n) = Min(rest)
    BY <1>2 DEF After
  <2>. QED
    BY <2>1, <2>2
<1>. QED
  BY <1>1, <1>2

(* Of some of the frames one has the greatest number. *)
LEMMA LastFrame ==
    ASSUME NEW S \in SUBSET Frames, S # {}
    PROVE  Max(S) \in S
<1>. DEFINE T == {numBufs - fr : fr \in S}
<1>1. T \in SUBSET Nat /\ T # {}
  <2>1. PICK fr \in S : TRUE
    OBVIOUS
  <2>2. numBufs - fr \in T
    BY <2>1
  <2>3. T \in SUBSET Nat
    BY DEF Frames
  <2>. QED
    BY <2>2, <2>3
<1>2. Min(T) \in T /\ \A m \in T : Min(T) <= m
  BY <1>1, LeastExists
<1>3. PICK x \in S : Min(T) = numBufs - x
  BY <1>2
<1>4. ASSUME NEW y \in S PROVE x >= y
  <2>1. numBufs - x <= numBufs - y
    BY <1>2, <1>3
  <2>. QED
    BY <2>1 DEF Frames
<1>. QED
  BY <1>4 DEF Max

(* The iterators: the first page, the next page, the next record. *)
LEMMA UsedNumbers == Used \in SUBSET (Nat \ {0}) /\ Used \subseteq Pages
  BY DEF Used, Pages

LEMMA FirstPageIs ==
    /\ FirstPage \in Used \cup {0}
    /\ \A p \in Used : FirstPage # 0 /\ FirstPage <= p
  BY UsedNumbers, AfterIs DEF FirstPage, INVALID_NUMBER

LEMMA NextPageIs ==
    ASSUME filePageIter \in Pages
    PROVE  /\ NextPage \in Used \cup {0}
           /\ NextPage # 0 => NextPage > filePageIter
           /\ \A p \in Used : p > filePageIter => NextPage # 0 /\ NextPage <= p
  BY UsedNumbers, AfterIs DEF NextPage, Pages

LEMMA NextSlotIs ==
    ASSUME NEW slots \in Contents, NEW start \in Slots \cup {0}
    PROVE  /\ getNextUsedSlot(slots, start) \in slots \cup {0}
           /\ getNextUsedSlot(slots, start) # 0 =>
                getNextUsedSlot(slots, start) > start
           /\ \A s \in slots : s > start =>
                /\ getNextUsedSlot(slots, start) # 0
                /\ getNextUsedSlot(slots, start) <= s
<1>1. slots \in SUBSET (Nat \ {0}) /\ start \in Int
  BY DEF Slots
<1>. QED
  BY <1>1, AfterIs DEF getNextUsedSlot

LEMMA RecordsOfType == ASSUME NEW f PROVE RecordsOf(f) \subseteq Pages \X Slots
  BY DEF RecordsOf

-----------------------------------------------------------------------------
(* The invariant of the pins and of what is dirty. *)

LEMMA NumbersNotNull ==
    /\ \A p \in Pages : p # INVALID_NUMBER
    /\ \A fr \in Frames : fr # NULL /\ fr # NoFrame
  BY DEF Pages, Frames, NULL, NoFrame, INVALID_NUMBER

LEMMA CopiesType ==
    ASSUME TypeOK, NEW fr \in Holding
    PROVE  /\ fr \in Frames /\ pool[fr] \in Copies
           /\ pool[fr].page \in Pages /\ pool[fr].slots \in Contents
           /\ pool[fr].dirty \in BOOLEAN /\ pool[fr].pinCnt \in Nat
  BY DEF TypeOK, Holding, Copies

(* What there is of the page at hand. *)
LEMMA PageAtHand ==
    ASSUME IInv, curPage # NULL, pc \in {"open", "turnPage"}
    PROVE  /\ curPage \in Holding /\ curPage \in Frames
           /\ pool[curPage] \in Copies /\ pool[curPage].slots \in Contents
           /\ pool[curPage].page = filePageIter
           /\ filePageIter \in Pages /\ filePageIter # INVALID_NUMBER
<1>1. TypeOK /\ curPage \in Holding /\ pool[curPage].page = filePageIter
  BY DEF IInv, ScanPins
<1>. QED
  BY <1>1, CopiesType, NumbersNotNull

LEMMA InitInv == Init => IInv
<1>. SUFFICES ASSUME Init PROVE IInv
  OBVIOUS
<1>1. TypeOK
  BY DEF Init, TypeOK, NULL, NoFrame, INVALID_NUMBER, INVALID_SLOT
<1>2. Holding = {}
  BY DEF Init, Holding
<1>. QED
  BY <1>1, <1>2 DEF Init, IInv, ScanPins, CallInv, TableInv, DirtyInv, Reading

(* The owner changes the file and nothing of the scan.                     *)
LEMMA StoreType ==
    ASSUME TypeOK, NEW f \in [Pages -> {Absent} \cup Contents], Store(f)
    PROVE  /\ file' = f /\ stable' = stable \cap RecordsOf(file')
           /\ file' \in [Pages -> {Absent} \cup Contents]
           /\ returned \cup stable' \subseteq Pages \X Slots
  BY DEF Store, TypeOK

LEMMA ChangeInv ==
    ASSUME IInv, OwnerTurn, NEW f \in [Pages -> {Absent} \cup Contents],
           Change(f)
    PROVE  IInv'
<1>1. TypeOK /\ Store(f) /\ UNCHANGED <<pool, ht, iters, pc, thrown, told>>
  BY DEF IInv, ScanPins, Change
<1>2. TypeOK'
  BY <1>1, StoreType DEF TypeOK, iters, told
<1>3. Holding' = Holding
  BY <1>1 DEF Holding
<1>. QED
  BY <1>1, <1>2, <1>3 DEF IInv, ScanPins, CallInv, TableInv, DirtyInv, Reading,
     OwnerTurn, iters, told

LEMMA OwnerInv ==
    ASSUME IInv, NEW p \in Pages, NEW slots \in Contents,
           Allocate(p) \/ Delete(p) \/ Update(p, slots)
    PROVE  IInv'
<1>1. file \in [Pages -> {Absent} \cup Contents]
  BY DEF IInv, ScanPins, TypeOK
<1>2. CASE Allocate(p)
  BY <1>1, <1>2, ChangeInv DEF Allocate
<1>3. CASE Delete(p)
  BY <1>1, <1>3, ChangeInv DEF Delete
<1>4. CASE Update(p, slots)
  BY <1>1, <1>4, ChangeInv DEF Update
<1>. QED
  BY <1>2, <1>3, <1>4

(* A frame is taken from its page: it was pinned by nobody, and a dirty    *)
(* copy overwrites its page, which stays in use.                           *)
LEMMA TakenIs ==
    ASSUME IInv, NEW fr \in Frames, TakeFrame(fr)
    PROVE  /\ fr \in Holding /\ pool[fr].pinCnt = 0 /\ pool[fr] \in Copies
           /\ file' \in [Pages -> {Absent} \cup Contents]
           /\ stable' = stable \cap RecordsOf(file')
           /\ returned \cup stable' \subseteq Pages \X Slots
           /\ \A p \in Pages : file'[p] # file[p] => pool[fr].dirty /\ p = pool[fr].page
           /\ Used' = Used
<1>1. /\ TypeOK /\ fr \in Holding /\ pool[fr].pinCnt = 0
      /\ Writable(fr) /\ Store(Written(fr))
  BY DEF IInv, ScanPins, TakeFrame, Victims
<1>2. /\ pool[fr] \in Copies /\ pool[fr].page \in Pages
      /\ pool[fr].slots \in Contents
  BY <1>1, CopiesType
<1>3. file \in [Pages -> {Absent} \cup Contents]
  BY <1>1 DEF TypeOK
<1>4. /\ Written(fr) \in [Pages -> {Absent} \cup Contents]
      /\ \A p \in Pages : Written(fr)[p] # file[p] =>
            /\ pool[fr].dirty /\ p = pool[fr].page
            /\ Written(fr)[p] # Absent /\ file[p] # Absent
  BY <1>1, <1>2, <1>3 DEF Written, Writable, Used
<1>5. file' = Written(fr)
  BY <1>1 DEF Store
<1>6. Used' = Used
  BY <1>4, <1>5 DEF Used
<1>. QED
  BY <1>1, <1>2, <1>4, <1>5, <1>6, StoreType

(* The entry of the copy that is to be taken goes. *)
LEMMA UnhashedIs ==
    ASSUME TypeOK, NEW fr \in Holding
    PROVE  /\ Unhashed(fr) \in [Pages -> Frames \cup {NoFrame}]
           /\ \A p \in Pages : Unhashed(fr)[p] =
                 IF p = pool[fr].page THEN NoFrame ELSE ht[p]
<1>1. pool[fr].page \in Pages
  BY CopiesType
<1>. QED
  BY <1>1 DEF TypeOK, Unhashed

(* A copy that was found by the table, or was not, is found no more. *)
LEMMA TakeFailsInv ==
    ASSUME IInv, NEW fr \in Frames, TakeFails(fr),
           pc' = "open", pc \in {"open", "readFirst", "readPage"},
           UNCHANGED <<iters, returned, repeated, marked>>,
           failed' \in BOOLEAN,
           thrown' \in {"none", "EndOfFile", "InvalidPage", "HashNotFound",
                        "BufferExceeded"}
    PROVE  IInv'
<1>1. /\ TypeOK /\ fr \in Holding
      /\ ht' = Unhashed(fr) /\ UNCHANGED <<file, stable, pool>>
  BY DEF IInv, ScanPins, TakeFails, Victims
<1>2. /\ ht' \in [Pages -> Frames \cup {NoFrame}]
      /\ \A p \in Pages : ht'[p] \in {NoFrame, ht[p]}
  BY <1>1, UnhashedIs
<1>3. Holding' = Holding
  BY <1>1 DEF Holding
<1>4. TypeOK'
  BY <1>1, <1>2 DEF TypeOK, iters
<1>5. ScanPins' /\ CallInv' /\ DirtyInv'
  BY <1>1, <1>3, <1>4 DEF IInv, ScanPins, CallInv, DirtyInv, Reading, iters
<1>6. TableInv'
  <2>1. ASSUME NEW p \in Pages, ht'[p] # NoFrame
        PROVE  ht'[p] \in Holding' /\ pool'[ht'[p]].page = p
    BY <1>1, <1>2, <1>3, <2>1 DEF IInv, TableInv
  <2>2. ASSUME curPage # NULL PROVE ht'[filePageIter] \in {NoFrame, curPage}
    <3>1. pc = "open"
      BY <2>2 DEF IInv, CallInv, Reading
    <3>2. filePageIter \in Pages /\ ht[filePageIter] \in {NoFrame, curPage}
      BY <2>2, <3>1, PageAtHand DEF IInv, TableInv
    <3>. QED
      BY <1>2, <3>2
  <2>. QED
    BY <2>1, <2>2 DEF TableInv, iters
<1>. QED
  BY <1>5, <1>6 DEF IInv

(* A pinned copy is not taken away. *)
LEMMA EvictInv ==
    ASSUME IInv, NEW fr \in Frames, Evict(fr)
    PROVE  IInv'
<1>1. TypeOK /\ fr \in Holding /\ pool[fr].pinCnt = 0
  BY DEF IInv, ScanPins, Evict, TakeFrame, TakeFails, Victims
<1>2. pc = "open" /\ UNCHANGED <<iters, pc, thrown, told>>
  BY <1>1 DEF IInv, ScanPins, Evict, OwnerTurn
<1>3. CASE TakeFails(fr)
  BY <1>1, <1>2, <1>3, TakeFailsInv DEF TypeOK, told
<1>4. CASE /\ TakeFrame(fr)
           /\ pool' = [pool EXCEPT ![fr] = NotPooled]
           /\ ht' = Unhashed(fr)
  <2>1. /\ file' \in [Pages -> {Absent} \cup Contents]
        /\ returned \cup stable' \subseteq Pages \X Slots
    BY <1>4, TakenIs
  <2>2. /\ ht' \in [Pages -> Frames \cup {NoFrame}]
        /\ \A p \in Pages : ht'[p] = IF p = pool[fr].page THEN NoFrame ELSE ht[p]
    BY <1>1, <1>4, UnhashedIs
  <2>3. TypeOK'
    BY <1>1, <1>2, <1>4, <2>1, <2>2 DEF TypeOK, iters, told
  <2>4. /\ Holding' = Holding \ {fr}
        /\ \A g \in Holding' : pool'[g] = pool[g]
    BY <1>1, <1>4 DEF TypeOK, Holding
  <2>5. fr # curPage
    <3>1. pool[fr].pinCnt = IF fr = curPage THEN 1 ELSE 0
      BY <1>1, <1>2 DEF IInv, ScanPins
    <3>. QED
      BY <1>1, <3>1
  <2>6. ScanPins'
    BY <1>2, <2>3, <2>4, <2>5 DEF IInv, ScanPins, iters
  <2>7. CallInv' /\ DirtyInv'
    BY <1>2, <2>4 DEF IInv, CallInv, DirtyInv, Reading, iters, told
  <2>8. TableInv'
    <3>1. ASSUME NEW p \in Pages, ht'[p] # NoFrame
          PROVE  ht'[p] \in Holding' /\ pool'[ht'[p]].page = p
      <4>1. p # pool[fr].page /\ ht'[p] = ht[p]
        BY <2>2, <3>1
      <4>2. ht[p] \in Holding /\ pool[ht[p]].page = p
        BY <3>1, <4>1 DEF IInv, TableInv
      <4>. QED
        BY <2>4, <4>1, <4>2
    <3>2. ASSUME curPage # NULL PROVE ht'[filePageIter] \in {NoFrame, curPage}
      <4>1. filePageIter \in Pages /\ ht[filePageIter] \in {NoFrame, curPage}
        BY <1>2, <3>2, PageAtHand DEF IInv, TableInv
      <4>. QED
        BY <2>2, <4>1
    <3>. QED
      BY <3>1, <3>2, <1>2 DEF TableInv, iters
  <2>. QED
    BY <2>6, <2>7, <2>8 DEF IInv
<1>. QED
  BY <1>3, <1>4 DEF Evict

LEMMA OpenInv == IInv /\ Open => IInv'
<1>. SUFFICES ASSUME IInv, Open PROVE IInv'
  OBVIOUS
<1>1. TypeOK'
  BY FirstPageIs, UsedNumbers, RecordsOfType
     DEF IInv, ScanPins, TypeOK, Open, NULL, INVALID_NUMBER, INVALID_SLOT
<1>2. Holding = {} /\ Holding' = {} /\ UNCHANGED <<pool, ht>>
  BY DEF IInv, ScanPins, Open, Holding
<1>3. ScanPins' /\ CallInv' /\ DirtyInv'
  BY <1>1, <1>2 DEF IInv, ScanPins, CallInv, DirtyInv, Open, Reading
<1>4. TableInv'
  BY <1>2 DEF IInv, TableInv, Open
<1>. QED
  BY <1>3, <1>4 DEF IInv

(* A call that throws leaves the scan as it was, or at the end. *)
LEMMA ThrowInv ==
    ASSUME IInv, pc \in {"open", "readFirst", "readPage", "turnPage"},
           NEW e \in {"EndOfFile", "InvalidPage", "HashNotFound", "BufferExceeded"},
           Throw(e),
           UNCHANGED <<file, stable, pool, ht, curPage, pageRecordIter, curDirtyFlag>>,
           filePageIter' = filePageIter \/ (curPage = NULL /\ filePageIter' = 0)
    PROVE  IInv'
<1>1. TypeOK'
  BY DEF IInv, ScanPins, TypeOK, Throw, INVALID_NUMBER
<1>2. Holding' = Holding
  BY DEF Holding
<1>3. curPage # NULL => pc \in {"open", "turnPage"} /\ filePageIter' = filePageIter
  BY DEF IInv, CallInv, Reading
<1>. QED
  BY <1>1, <1>2, <1>3 DEF IInv, ScanPins, CallInv, TableInv, DirtyInv, Throw, Reading

LEMMA ScanFirstInv == IInv /\ ScanFirst => IInv'
<1>. SUFFICES ASSUME IInv, ScanFirst PROVE IInv'
  OBVIOUS
<1>1. CASE FirstPage = INVALID_NUMBER
  BY <1>1, ThrowInv DEF ScanFirst, INVALID_NUMBER
<1>2. CASE FirstPage # INVALID_NUMBER
  <2>1. FirstPage \in Used /\ FirstPage \in Pages
    BY <1>2, FirstPageIs, UsedNumbers DEF INVALID_NUMBER
  <2>2. Used' = Used /\ Holding' = Holding
    BY <1>2 DEF ScanFirst, Used, Holding
  <2>3. TypeOK'
    BY <1>2, <2>1 DEF IInv, ScanPins, TypeOK, ScanFirst, Continue, told
  <2>4. ScanPins'
    BY <1>2, <2>2, <2>3 DEF IInv, ScanPins, ScanFirst, Continue
  <2>5. CallInv' /\ TableInv' /\ DirtyInv'
    BY <1>2, <2>1, <2>2 DEF IInv, CallInv, TableInv, DirtyInv, ScanFirst, Continue,
       told, Reading
  <2>. QED
    BY <2>4, <2>5 DEF IInv
<1>. QED
  BY <1>1, <1>2

(* The next record of a page, or the end of it. *)
LEMMA AdvanceType ==
    ASSUME TypeOK, NEW p \in Pages, NEW slots \in Contents,
           NEW start \in Slots \cup {0}, Advance(p, slots, start)
    PROVE  /\ pageRecordIter' \in Slots \cup {INVALID_SLOT}
           /\ pc' \in {"open", "turnPage"}
           /\ pc' = "turnPage" => pageRecordIter' = INVALID_SLOT
           /\ thrown' \in {"none", thrown}
           /\ returned' \subseteq Pages \X Slots
           /\ repeated' \in BOOLEAN
           /\ UNCHANGED <<failed, marked>>
<1>. DEFINE s == getNextUsedSlot(slots, start)
<1>1. s \in slots \cup {0} /\ slots \subseteq Slots
  BY NextSlotIs
<1>. HIDE DEF s
<1>2. pageRecordIter' = s
  BY DEF Advance, s
<1>3. CASE s # INVALID_SLOT
  <2>1. ReturnRecord(p, s)
    BY <1>3 DEF Advance, s
  <2>2. <<p, s>> \in Pages \X Slots
    BY <1>1, <1>3 DEF INVALID_SLOT
  <2>. QED
    BY <1>1, <1>2, <1>3, <2>1, <2>2 DEF ReturnRecord, TypeOK, INVALID_SLOT
<1>4. CASE s = INVALID_SLOT
  <2>1. Continue("turnPage")
    BY <1>4 DEF Advance, s
  <2>. QED
    BY <1>2, <1>4, <2>1 DEF Continue, told, TypeOK
<1>. QED
  BY <1>3, <1>4

LEMMA ScanOnInv == IInv /\ ScanOn => IInv'
<1>. SUFFICES ASSUME IInv, ScanOn PROVE IInv'
  OBVIOUS
<1>1. TypeOK /\ pc = "open" /\ curPage # NULL
  BY DEF IInv, ScanPins, ScanOn
<1>2. filePageIter \in Pages /\ pool[curPage].slots \in Contents
  BY <1>1, PageAtHand
<1>3. Advance(filePageIter, pool[curPage].slots, pageRecordIter)
  BY DEF ScanOn
<1>4. pageRecordIter \in Slots \cup {0}
  BY <1>1 DEF TypeOK, INVALID_SLOT
<1>5. /\ pageRecordIter' \in Slots \cup {INVALID_SLOT}
      /\ pc' \in {"open", "turnPage"}
      /\ pc' = "turnPage" => pageRecordIter' = INVALID_SLOT
      /\ thrown' \in {"none", thrown}
      /\ returned' \subseteq Pages \X Slots
      /\ repeated' \in BOOLEAN
      /\ UNCHANGED <<failed, marked>>
  BY <1>1, <1>2, <1>3, <1>4, AdvanceType
<1>6. UNCHANGED <<file, stable, pool, ht, filePageIter, curPage, curDirtyFlag>>
  BY DEF ScanOn
<1>7. TypeOK'
  BY <1>1, <1>5, <1>6 DEF TypeOK
<1>8. Holding' = Holding
  BY <1>6 DEF Holding
<1>9. ScanPins'
  BY <1>1, <1>5, <1>6, <1>7, <1>8 DEF IInv, ScanPins
<1>10. CallInv' /\ TableInv' /\ DirtyInv'
  BY <1>1, <1>5, <1>6, <1>8 DEF IInv, CallInv, TableInv, DirtyInv, Reading
<1>. QED
  BY <1>9, <1>10 DEF IInv

(* A page has been read into a frame that now has its entry and one pin:   *)
(* nothing else of the scan is pinned.                                     *)
LEMMA ReadInto ==
    ASSUME IInv, Reading, NEW fr \in Frames, NEW slots \in Contents,
           PageRead(fr, slots),
           file' \in [Pages -> {Absent} \cup Contents],
           returned \cup stable' \subseteq Pages \X Slots,
           pool' \in [Frames -> {NotPooled} \cup Copies],
           ht' \in [Pages -> Frames \cup {NoFrame}],
           Holding' = Holding \cup {fr},
           pool'[fr].page = filePageIter, pool'[fr].pinCnt = 1,
           pool'[fr].dirty => fr \in Holding /\ pool[fr].dirty
                                /\ pool[fr].page = filePageIter,
           \A g \in Holding \ {fr} : pool'[g] = pool[g],
           ht'[filePageIter] = fr,
           \A p \in Pages \ {filePageIter} :
              ht'[p] # NoFrame => ht'[p] = ht[p] /\ ht[p] # fr
    PROVE  IInv'
<1>1. /\ TypeOK /\ pc \in {"readFirst", "readPage"} /\ curPage = NULL
      /\ filePageIter \in Pages
  BY UsedNumbers DEF IInv, ScanPins, CallInv, Reading
<1>2. /\ curPage' = fr /\ filePageIter' = filePageIter
      /\ curDirtyFlag' = (curDirtyFlag /\ pc = "readPage")
      /\ Advance(filePageIter, slots, INVALID_SLOT)
  BY DEF PageRead
<1>3. /\ pageRecordIter' \in Slots \cup {INVALID_SLOT}
      /\ pc' \in {"open", "turnPage"}
      /\ pc' = "turnPage" => pageRecordIter' = INVALID_SLOT
      /\ thrown' \in {"none", thrown}
      /\ returned' \subseteq Pages \X Slots
      /\ repeated' \in BOOLEAN
      /\ UNCHANGED <<failed, marked>>
  BY <1>1, <1>2, AdvanceType DEF INVALID_SLOT
<1>4. TypeOK'
  BY <1>1, <1>2, <1>3 DEF TypeOK
<1>5. \A g \in Holding : pool[g].pinCnt = 0
  BY <1>1, NumbersNotNull DEF IInv, ScanPins, Holding
<1>6. ScanPins'
  BY <1>2, <1>3, <1>4, <1>5 DEF ScanPins
<1>7. CallInv'
  BY <1>2, <1>3, NumbersNotNull DEF CallInv, Reading
<1>8. TableInv'
  <2>1. ASSUME NEW p \in Pages, ht'[p] # NoFrame
        PROVE  ht'[p] \in Holding' /\ pool'[ht'[p]].page = p
    <3>1. CASE p = filePageIter
      BY <3>1
    <3>2. CASE p # filePageIter
      <4>1. ht'[p] = ht[p] /\ ht[p] # fr
        BY <2>1, <3>2
      <4>2. ht[p] \in Holding /\ pool[ht[p]].page = p
        BY <2>1, <4>1 DEF IInv, TableInv
      <4>. QED
        BY <4>1, <4>2
    <3>. QED
      BY <3>1, <3>2
  <2>. QED
    BY <1>2, <2>1 DEF TableInv
<1>9. DirtyInv'
  <2>1. pc # "closed" /\ ~curDirtyFlag'
    BY <1>1, <1>2 DEF IInv, DirtyInv
  <2>2. \A g \in Holding : pool[g].dirty => pool[g].page \in marked
    BY <2>1 DEF IInv, DirtyInv
  <2>3. ASSUME NEW g \in Holding', pool'[g].dirty PROVE pool'[g].page \in marked
    <3>1. CASE g = fr
      BY <2>2, <2>3, <3>1
    <3>2. CASE g # fr
      BY <2>2, <2>3, <3>2
    <3>. QED
      BY <3>1, <3>2
  <2>. QED
    BY <1>3, <2>1, <2>3 DEF DirtyInv
<1>. QED
  BY <1>6, <1>7, <1>8, <1>9 DEF IInv

LEMMA ReadHitInv == IInv /\ ReadHit => IInv'
<1>. SUFFICES ASSUME IInv, ReadHit PROVE IInv'
  OBVIOUS
<1>. DEFINE fr == ht[filePageIter]
<1>1. TypeOK /\ Reading /\ curPage = NULL /\ filePageIter \in Pages
  BY UsedNumbers DEF IInv, ScanPins, CallInv, ReadHit
<1>2. fr # NoFrame /\ fr \in Holding /\ pool[fr].page = filePageIter
  BY <1>1 DEF IInv, TableInv, ReadHit
<1>3. /\ fr \in Frames /\ pool[fr] \in Copies /\ pool[fr].slots \in Contents
  BY <1>1, <1>2, CopiesType
<1>4. pool[fr].pinCnt = 0
  BY <1>1, <1>2, <1>3, NumbersNotNull DEF IInv, ScanPins, Reading
<1>5. /\ pool' = [pool EXCEPT ![fr].pinCnt = @ + 1]
      /\ PageRead(fr, pool[fr].slots)
      /\ UNCHANGED <<file, stable, ht>>
  BY DEF ReadHit
<1>6. \A p \in Pages \ {filePageIter} : ht[p] # NoFrame => ht[p] # fr
  BY <1>2 DEF IInv, TableInv
<1>. HIDE DEF fr
<1>. DEFINE copy == [pool[fr] EXCEPT !.pinCnt = @ + 1]
<1>7. /\ copy \in Copies /\ copy.page = pool[fr].page
      /\ copy.pinCnt = 1 /\ copy.dirty = pool[fr].dirty
  BY <1>3, <1>4 DEF Copies
<1>8. pool' = [pool EXCEPT ![fr] = copy]
  BY <1>5
<1>. HIDE DEF copy
<1>9. /\ pool' \in [Frames -> {NotPooled} \cup Copies]
      /\ pool'[fr] = copy
      /\ \A g \in Frames \ {fr} : pool'[g] = pool[g]
  BY <1>1, <1>3, <1>7, <1>8 DEF TypeOK
<1>10. Holding' = Holding \cup {fr}
  BY <1>2, <1>3, <1>7, <1>9 DEF Holding
<1>11. \A g \in Holding \ {fr} : pool'[g] = pool[g]
  BY <1>9 DEF Holding
<1>12. /\ file' \in [Pages -> {Absent} \cup Contents]
       /\ returned \cup stable' \subseteq Pages \X Slots
       /\ ht' \in [Pages -> Frames \cup {NoFrame}]
       /\ ht'[filePageIter] = fr
  BY <1>1, <1>5 DEF TypeOK, fr
<1>13. \A p \in Pages \ {filePageIter} :
          ht'[p] # NoFrame => ht'[p] = ht[p] /\ ht[p] # fr
  BY <1>5, <1>6
<1>14. /\ pool'[fr].page = filePageIter /\ pool'[fr].pinCnt = 1
       /\ pool'[fr].dirty => pool[fr].dirty
  BY <1>2, <1>7, <1>9
<1>. QED
  BY <1>1, <1>2, <1>3, <1>5, <1>9, <1>10, <1>11, <1>12, <1>13, <1>14, ReadInto

LEMMA ReadMissInv ==
    ASSUME IInv, NEW fr \in Frames, ReadMiss(fr)
    PROVE  IInv'
<1>1. TypeOK /\ Reading /\ filePageIter \in Used /\ filePageIter \in Pages
  BY UsedNumbers DEF IInv, ScanPins, CallInv, ReadMiss
<1>2. file[filePageIter] \in Contents
  BY <1>1 DEF TypeOK, Used
<1>3. /\ pool' = [pool EXCEPT ![fr] = Fresh(filePageIter)]
      /\ PageRead(fr, file[filePageIter])
  BY DEF ReadMiss
<1>4. /\ Fresh(filePageIter) \in Copies
      /\ Fresh(filePageIter).page = filePageIter
      /\ Fresh(filePageIter).pinCnt = 1 /\ ~Fresh(filePageIter).dirty
  BY <1>1, <1>2 DEF Fresh, Copies
<1>5. /\ pool' \in [Frames -> {NotPooled} \cup Copies]
      /\ pool'[fr] = Fresh(filePageIter)
      /\ \A g \in Holding \ {fr} : pool'[g] = pool[g]
  BY <1>1, <1>3, <1>4 DEF TypeOK, Holding
<1>6. Holding' = Holding \cup {fr}
  BY <1>1, <1>3, <1>4 DEF TypeOK, Holding
<1>7. CASE /\ fr \notin Holding
           /\ ht' = [ht EXCEPT ![filePageIter] = fr]
           /\ UNCHANGED <<file, stable>>
  <2>1. /\ file' \in [Pages -> {Absent} \cup Contents]
        /\ returned \cup stable' \subseteq Pages \X Slots
        /\ ht' \in [Pages -> Frames \cup {NoFrame}]
        /\ ht'[filePageIter] = fr
    BY <1>1, <1>7 DEF TypeOK
  <2>2. \A p \in Pages \ {filePageIter} :
           ht'[p] # NoFrame => ht'[p] = ht[p] /\ ht[p] # fr
    BY <1>1, <1>7 DEF TypeOK, IInv, TableInv
  <2>. QED
    BY <1>1, <1>2, <1>3, <1>4, <1>5, <1>6, <2>1, <2>2, ReadInto
<1>8. CASE /\ TakeFrame(fr)
           /\ ht' = [Unhashed(fr) EXCEPT ![filePageIter] = fr]
  <2>1. /\ fr \in Holding
        /\ file' \in [Pages -> {Absent} \cup Contents]
        /\ returned \cup stable' \subseteq Pages \X Slots
    BY <1>8, TakenIs
  <2>2. /\ Unhashed(fr) \in [Pages -> Frames \cup {NoFrame}]
        /\ \A p \in Pages : Unhashed(fr)[p] =
              IF p = pool[fr].page THEN NoFrame ELSE ht[p]
    BY <1>1, <2>1, UnhashedIs
  <2>3. /\ ht' \in [Pages -> Frames \cup {NoFrame}]
        /\ ht'[filePageIter] = fr
        /\ \A p \in Pages \ {filePageIter} : ht'[p] = Unhashed(fr)[p]
    BY <1>1, <1>8, <2>2
  <2>4. ASSUME NEW p \in Pages \ {filePageIter}, ht'[p] # NoFrame
        PROVE  ht'[p] = ht[p] /\ ht[p] # fr
    <3>1. p # pool[fr].page /\ ht'[p] = ht[p]
      BY <2>2, <2>3, <2>4
    <3>2. pool[ht[p]].page = p
      BY <2>4, <3>1 DEF IInv, TableInv
    <3>. QED
      BY <3>1, <3>2
  <2>. QED
    BY <1>1, <1>2, <1>3, <1>4, <1>5, <1>6, <2>1, <2>3, <2>4, ReadInto
<1>. QED
  BY <1>7, <1>8 DEF ReadMiss

LEMMA ReadFailsInv == IInv /\ ReadFails => IInv'
<1>. SUFFICES ASSUME IInv, ReadFails PROVE IInv'
  OBVIOUS
<1>1. /\ pc \in {"readFirst", "readPage"}
      /\ UNCHANGED <<file, stable, pool, iters>>
  BY DEF ReadFails, Reading
<1>2. CASE UNCHANGED ht
  <2>1. PICK e \in {"InvalidPage", "HashNotFound", "BufferExceeded"} : Throw(e)
    BY DEF ReadFails
  <2>. QED
    BY <1>1, <1>2, <2>1, ThrowInv DEF iters
<1>3. CASE Throw("InvalidPage") /\ \E fr \in Frames : TakeFails(fr)
  <2>1. PICK fr \in Frames : TakeFails(fr)
    BY <1>3
  <2>2. /\ pc' = "open" /\ thrown' = "InvalidPage" /\ failed' \in BOOLEAN
        /\ UNCHANGED <<returned, repeated, marked>>
    BY <1>3 DEF Throw, IInv, ScanPins, TypeOK
  <2>. QED
    BY <1>1, <2>1, <2>2, TakeFailsInv
<1>. QED
  BY <1>2, <1>3 DEF ReadFails

LEMMA ScanAtEndInv == IInv /\ ScanAtEnd => IInv'
  BY ThrowInv DEF ScanAtEnd, iters

(* The page at hand given back: no copy of the scan is pinned after that,  *)
(* and the dirty ones are marked.                                          *)
LEMMA GivenBackIs ==
    ASSUME IInv, pc \in {"open", "turnPage"}, curPage # NULL, Found
    PROVE  /\ GivenBack \in [Frames -> {NotPooled} \cup Copies]
           /\ \A fr \in Frames : GivenBack[fr] = NotPooled <=> fr \notin Holding
           /\ \A fr \in Holding :
                 /\ GivenBack[fr].page = pool[fr].page
                 /\ GivenBack[fr].slots = pool[fr].slots
                 /\ GivenBack[fr].pinCnt = 0
                 /\ GivenBack[fr].dirty => GivenBack[fr].page \in marked
<1>1. /\ TypeOK /\ curPage \in Holding /\ curPage \in Frames
      /\ pool[curPage] \in Copies /\ pool[curPage].page = filePageIter
  BY PageAtHand DEF IInv, ScanPins
<1>2. ht[filePageIter] = curPage
  BY DEF IInv, TableInv, Found
<1>3. \A fr \in Holding :
         /\ pool[fr].pinCnt = IF fr = curPage THEN 1 ELSE 0
         /\ pool[fr].dirty => pool[fr].page \in marked
  BY DEF IInv, ScanPins, DirtyInv
<1>4. curDirtyFlag => filePageIter \in marked
  BY DEF IInv, DirtyInv
<1>. DEFINE copy == Unpinned(pool[curPage])
<1>5. GivenBack = [pool EXCEPT ![curPage] = copy]
  BY <1>2 DEF GivenBack
<1>6. /\ copy \in Copies /\ copy.page = filePageIter
      /\ copy.slots = pool[curPage].slots /\ copy.pinCnt = 0
      /\ copy.dirty = (pool[curPage].dirty \/ curDirtyFlag)
  <2>1. pool[curPage].pinCnt = 1 /\ curDirtyFlag \in BOOLEAN
    BY <1>1, <1>3 DEF TypeOK
  <2>. DEFINE flag == pool[curPage].dirty \/ curDirtyFlag
              pins == pool[curPage].pinCnt - 1
  <2>2. copy = [pool[curPage] EXCEPT !.dirty = flag, !.pinCnt = pins]
    BY DEF Unpinned
  <2>3. flag \in BOOLEAN /\ pins = 0 /\ pins \in Nat
    BY <2>1
  <2>. HIDE DEF flag, pins, copy
  <2>4. /\ copy \in Copies /\ copy.page = pool[curPage].page
        /\ copy.slots = pool[curPage].slots /\ copy.pinCnt = pins
        /\ copy.dirty = flag
    BY <1>1, <2>2, <2>3 DEF Copies
  <2>. QED
    BY <1>1, <2>3, <2>4 DEF flag
<1>. HIDE DEF copy
<1>7. /\ GivenBack \in [Frames -> {NotPooled} \cup Copies]
      /\ GivenBack[curPage] = copy
      /\ \A fr \in Frames \ {curPage} : GivenBack[fr] = pool[fr]
  BY <1>1, <1>5, <1>6 DEF TypeOK
<1>8. \A fr \in Frames : GivenBack[fr] = NotPooled <=> fr \notin Holding
  BY <1>1, <1>6, <1>7 DEF Holding
<1>9. ASSUME NEW fr \in Holding
      PROVE  /\ GivenBack[fr].page = pool[fr].page
             /\ GivenBack[fr].slots = pool[fr].slots
             /\ GivenBack[fr].pinCnt = 0
             /\ GivenBack[fr].dirty => GivenBack[fr].page \in marked
  <2>1. CASE fr = curPage
    <3>1. GivenBack[fr] = copy
      BY <1>7, <2>1
    <3>2. copy.dirty => filePageIter \in marked
      BY <1>1, <1>3, <1>4, <1>6
    <3>. QED
      BY <1>1, <1>6, <2>1, <3>1, <3>2
  <2>2. CASE fr # curPage
    BY <1>3, <1>7, <2>2 DEF Holding
  <2>. QED
    BY <2>1, <2>2
<1>. QED
  BY <1>7, <1>8, <1>9

LEMMA TurnPageInv == IInv /\ TurnPage => IInv'
<1>. SUFFICES ASSUME IInv, TurnPage PROVE IInv'
  OBVIOUS
<1>1. /\ TypeOK /\ pc = "turnPage" /\ curPage # NULL /\ Found
      /\ filePageIter \in Pages
  BY PageAtHand DEF IInv, ScanPins, CallInv, TurnPage
<1>2. /\ pool' = GivenBack
      /\ curPage' = NULL /\ curDirtyFlag' = FALSE
      /\ filePageIter' = NextPage
      /\ UNCHANGED <<file, stable, ht, pageRecordIter>>
      /\ UNCHANGED <<returned, repeated, marked>>
  BY DEF TurnPage, Throw, Continue, told
<1>3. /\ \/ NextPage = 0 /\ pc' = "open" /\ thrown' = "EndOfFile"
         \/ NextPage # 0 /\ pc' = "readPage" /\ thrown' = thrown
      /\ failed' = failed
  BY <1>1 DEF TurnPage, Throw, Continue, told, INVALID_NUMBER, TypeOK
<1>4. NextPage \in Used \cup {0} /\ NextPage \in Pages \cup {0}
  BY <1>1, NextPageIs, UsedNumbers
<1>5. /\ pool' \in [Frames -> {NotPooled} \cup Copies]
      /\ \A fr \in Frames : pool'[fr] = NotPooled <=> fr \notin Holding
      /\ \A fr \in Holding :
            /\ pool'[fr].page = pool[fr].page
            /\ pool'[fr].pinCnt = 0
            /\ pool'[fr].dirty => pool'[fr].page \in marked
  BY <1>1, <1>2, GivenBackIs
<1>6. Holding' = Holding
  BY <1>5 DEF Holding
<1>7. TypeOK'
  BY <1>1, <1>2, <1>3, <1>4, <1>5 DEF TypeOK, NULL, INVALID_NUMBER
<1>8. ScanPins'
  <2>1. \A fr \in Holding : fr # NULL
    BY NumbersNotNull DEF Holding
  <2>. QED
    BY <1>2, <1>3, <1>5, <1>6, <1>7, <2>1 DEF ScanPins
<1>9. CallInv'
  <2>1. Used' = Used
    BY <1>2 DEF Used
  <2>. QED
    BY <1>2, <1>3, <1>4, <2>1 DEF CallInv, Reading
<1>10. TableInv'
  BY <1>2, <1>5, <1>6 DEF IInv, TableInv
<1>11. DirtyInv'
  BY <1>2, <1>5, <1>6 DEF DirtyInv
<1>. QED
  BY <1>8, <1>9, <1>10, <1>11 DEF IInv

LEMMA TurnFailsInv == IInv /\ TurnFails => IInv'
  BY ThrowInv DEF TurnFails, iters

LEMMA MarkDirtyInv == IInv /\ MarkDirty => IInv'
<1>. SUFFICES ASSUME IInv, MarkDirty PROVE IInv'
  OBVIOUS
<1>1. /\ pc = "open" /\ curDirtyFlag' = TRUE
      /\ UNCHANGED <<file, stable, pool, ht, filePageIter, curPage, pageRecordIter,
                     pc, thrown, returned, repeated, failed>>
      /\ marked' = IF curPage = NULL THEN marked ELSE marked \cup {filePageIter}
  BY DEF MarkDirty
<1>2. curPage # NULL => filePageIter \in Pages
  BY <1>1, PageAtHand
<1>3. Holding' = Holding
  BY <1>1 DEF Holding
<1>4. TypeOK'
  BY <1>1, <1>2 DEF IInv, ScanPins, TypeOK
<1>. QED
  BY <1>1, <1>3, <1>4 DEF IInv, ScanPins, CallInv, TableInv, DirtyInv, Reading

(* The copies are flushed, as far as that goes: only marked pages are      *)
(* written.                                                                *)
LEMMA FlushIs ==
    ASSUME TypeOK, NEW copies \in [Frames -> {NotPooled} \cup Copies],
           \A fr \in Frames : copies[fr] = NotPooled <=> fr \notin Holding,
           \A fr \in Holding : copies[fr].dirty => copies[fr].page \in marked
    PROVE  /\ FileFlushed(copies) \in [Pages -> {Absent} \cup Contents]
           /\ \A p \in Pages : FileFlushed(copies)[p] # file[p] => p \in marked
<1>. DEFINE by(p) == {fr \in Flushed(copies) : copies[fr].page = p}
<1>1. ASSUME NEW p \in Pages
      PROVE  FileFlushed(copies)[p] =
                IF by(p) = {} THEN file[p] ELSE copies[Max(by(p))].slots
  BY DEF FileFlushed
<1>2. FileFlushed(copies) = [p \in Pages |-> FileFlushed(copies)[p]]
  BY DEF FileFlushed
<1>3. ASSUME NEW p \in Pages, by(p) # {}
      PROVE  copies[Max(by(p))].slots \in Contents /\ p \in marked
  <2>1. Flushed(copies) \subseteq Holding
    BY DEF Flushed, Reached
  <2>2. by(p) \subseteq Frames
    BY <2>1 DEF Holding
  <2>3. Max(by(p)) \in by(p)
    BY <1>3, <2>2, LastFrame
  <2>. DEFINE fr == Max(by(p))
  <2>4. fr \in Holding /\ copies[fr].page = p /\ copies[fr].dirty
    BY <2>1, <2>3 DEF Flushed
  <2>5. copies[fr] \in Copies
    BY <2>4 DEF Holding
  <2>. QED
    BY <2>4, <2>5 DEF Copies
<1>. HIDE DEF by
<1>4. ASSUME NEW p \in Pages
      PROVE  FileFlushed(copies)[p] \in {Absent} \cup Contents
  BY <1>1, <1>3 DEF TypeOK
<1>. QED
  BY <1>1, <1>2, <1>3, <1>4

LEMMA FlushInv ==
    ASSUME IInv, pc = "open", NEW copies \in [Frames -> {NotPooled} \cup Copies],
           \A fr \in Frames : copies[fr] = NotPooled <=> fr \notin Holding,
           \A fr \in Holding : copies[fr].dirty => copies[fr].page \in marked,
           Flush(copies), UNCHANGED <<iters, thrown, told>>
    PROVE  IInv' /\ \A p \in Pages : file'[p] # file[p] => p \in marked
<1>1. TypeOK
  BY DEF IInv, ScanPins
<1>2. /\ FileFlushed(copies) \in [Pages -> {Absent} \cup Contents]
      /\ \A p \in Pages : FileFlushed(copies)[p] # file[p] => p \in marked
  BY <1>1, FlushIs
<1>3. Store(FileFlushed(copies)) /\ file' = FileFlushed(copies)
  BY DEF Flush, Store
<1>4. /\ file' \in [Pages -> {Absent} \cup Contents]
      /\ returned \cup stable' \subseteq Pages \X Slots
  BY <1>1, <1>2, <1>3, StoreType
<1>5. CASE /\ pc' = "closed"
           /\ pool' = [fr \in Frames |-> NotPooled]
           /\ ht' = [p \in Pages |-> NoFrame]
  <2>1. TypeOK'
    BY <1>1, <1>4, <1>5 DEF TypeOK, iters, told, NoFrame
  <2>2. Holding' = {}
    BY <1>5 DEF Holding
  <2>. QED
    BY <1>2, <1>3, <1>5, <2>1, <2>2
       DEF IInv, ScanPins, CallInv, TableInv, DirtyInv, Reading
<1>6. CASE pc' = "terminated" /\ UNCHANGED <<pool, ht>>
  <2>1. TypeOK'
    BY <1>1, <1>4, <1>6 DEF TypeOK, iters, told
  <2>2. Holding' = Holding
    BY <1>6 DEF Holding
  <2>3. ScanPins' /\ CallInv' /\ DirtyInv'
    BY <1>6, <2>1, <2>2 DEF IInv, ScanPins, CallInv, DirtyInv, Reading, iters, told
  <2>4. TableInv'
    BY <1>6, <2>2 DEF IInv, TableInv
  <2>. QED
    BY <1>2, <1>3, <2>3, <2>4 DEF IInv
<1>. QED
  BY <1>5, <1>6 DEF Flush

LEMMA CloseInv ==
    ASSUME IInv, Close
    PROVE  IInv' /\ \A p \in Pages : file'[p] # file[p] => p \in marked
<1>1. TypeOK /\ pc = "open" /\ UNCHANGED <<iters, thrown, told>>
  BY DEF IInv, ScanPins, Close
<1>2. CASE curPage = NULL
  <2>1. Flush(pool)
    BY <1>2 DEF Close
  <2>2. /\ pool \in [Frames -> {NotPooled} \cup Copies]
        /\ \A fr \in Frames : pool[fr] = NotPooled <=> fr \notin Holding
        /\ \A fr \in Holding : pool[fr].dirty => pool[fr].page \in marked
    BY <1>1 DEF TypeOK, Holding, IInv, DirtyInv
  <2>. QED
    BY <1>1, <2>1, <2>2, FlushInv
<1>3. CASE curPage # NULL /\ Found
  <2>1. Flush(GivenBack)
    BY <1>3 DEF Close
  <2>2. /\ GivenBack \in [Frames -> {NotPooled} \cup Copies]
        /\ \A fr \in Frames : GivenBack[fr] = NotPooled <=> fr \notin Holding
        /\ \A fr \in Holding : GivenBack[fr].dirty => GivenBack[fr].page \in marked
    BY <1>1, <1>3, GivenBackIs
  <2>. QED
    BY <1>1, <2>1, <2>2, FlushInv
<1>4. CASE curPage # NULL /\ ~Found
  <2>1. pc' = "terminated" /\ UNCHANGED <<file, stable, pool, ht>>
    BY <1>4 DEF Close
  <2>2. TypeOK' /\ Holding' = Holding
    BY <1>1, <2>1 DEF TypeOK, Holding, iters, told
  <2>3. ScanPins' /\ CallInv' /\ DirtyInv'
    BY <1>1, <2>1, <2>2 DEF IInv, ScanPins, CallInv, DirtyInv, Reading, iters, told
  <2>4. TableInv'
    BY <2>1, <2>2 DEF IInv, TableInv
  <2>. QED
    BY <2>1, <2>3, <2>4 DEF IInv
<1>. QED
  BY <1>2, <1>3, <1>4

LEMMA NextInv == IInv /\ [Next]_vars => IInv'
<1>. SUFFICES ASSUME IInv, [Next]_vars PROVE IInv'
  OBVIOUS
<1>1. CASE OwnerStep
  BY <1>1, OwnerInv, EvictInv, ContentsAssumption DEF OwnerStep
<1>2. CASE Open
  BY <1>2, OpenInv
<1>3. CASE ScanNext
  BY <1>3, ScanAtEndInv, ScanFirstInv, ScanOnInv, ReadHitInv, ReadMissInv,
     ReadFailsInv, TurnPageInv, TurnFailsInv DEF ScanNext, ReadPage
<1>4. CASE MarkDirty
  BY <1>4, MarkDirtyInv
<1>5. CASE Close
  BY <1>5, CloseInv
<1>6. CASE Terminated \/ UNCHANGED vars
  <2>1. UNCHANGED vars
    BY <1>6 DEF Terminated
  <2>2. TypeOK' /\ Holding' = Holding /\ Used' = Used
    BY <2>1 DEF IInv, ScanPins, TypeOK, Holding, Used, vars, iters, told
  <2>. QED
    BY <2>1, <2>2 DEF vars, iters, told, IInv, ScanPins, CallInv, TableInv, DirtyInv,
       Reading
<1>. QED
  BY <1>1, <1>2, <1>3, <1>4, <1>5, <1>6 DEF Next

(* The pins and the pool of the scan: ScanPins holds of every scan.        *)
THEOREM PinsOfTheScan == Spec => []ScanPins
<1>1. Init => IInv
  BY InitInv
<1>2. IInv /\ [Next]_vars => IInv'
  BY NextInv
<1>3. IInv => ScanPins
  BY DEF IInv
<1>. QED
  BY <1>1, <1>2, <1>3, PTL DEF Spec

-----------------------------------------------------------------------------
(* What is written. *)

(* A copy that is taken is written only if it is dirty, and so marked. *)
LEMMA TakenWrites ==
    ASSUME IInv, NEW fr \in Frames, TakeFrame(fr), NEW p \in Pages,
           file'[p] # file[p]
    PROVE  p \in marked
<1>1. fr \in Holding /\ pool[fr].dirty /\ p = pool[fr].page
  BY TakenIs
<1>2. pc # "closed"
  BY <1>1 DEF IInv, ScanPins
<1>. QED
  BY <1>1, <1>2 DEF IInv, DirtyInv

(* Whatever step changes the scan's copies, or ends the program, changes   *)
(* no page of the file that the client has not marked.                     *)
LEMMA StepWrites ==
    ASSUME IInv, Next, pool' # pool \/ pc' = "terminated", NEW p \in Pages,
           file'[p] # file[p]
    PROVE  p \in marked
<1>1. CASE OwnerStep
  <2>1. pc' = pc /\ pc # "terminated"
    BY <1>1 DEF OwnerStep, Allocate, Delete, Update, Change, Evict, OwnerTurn
  <2>2. PICK fr \in Frames : Evict(fr)
    BY <1>1, <2>1 DEF OwnerStep, Allocate, Delete, Update, Change
  <2>3. TakeFrame(fr)
    BY <2>2 DEF Evict, TakeFails
  <2>. QED
    BY <2>3, TakenWrites
<1>2. CASE Open \/ MarkDirty \/ Terminated
  BY <1>2 DEF Open, MarkDirty, Terminated, vars
<1>3. CASE ScanNext
  <2>1. CASE \E fr \in Frames : ReadMiss(fr)
    <3>1. PICK fr \in Frames : ReadMiss(fr)
      BY <2>1
    <3>2. TakeFrame(fr)
      BY <3>1 DEF ReadMiss
    <3>. QED
      BY <3>2, TakenWrites
  <2>2. CASE \/ ScanAtEnd \/ ScanFirst \/ ScanOn \/ ReadHit \/ ReadFails
             \/ TurnPage \/ TurnFails
    BY <2>2 DEF ScanAtEnd, ScanFirst, ScanOn, ReadHit, ReadFails, TurnPage, TurnFails
  <2>. QED
    BY <1>3, <2>1, <2>2 DEF ScanNext, ReadPage
<1>4. CASE Close
  BY <1>4, CloseInv
<1>. QED
  BY <1>1, <1>2, <1>3, <1>4 DEF Next

(* WritesOnlyMarked holds of every scan. *)
THEOREM NothingElseWritten == Spec => WritesOnlyMarked
<1>1. Init => IInv
  BY InitInv
<1>2. IInv /\ [Next]_vars => IInv'
  BY NextInv
<1>3. IInv /\ [Next]_vars =>
        [pool' # pool \/ pc' = "terminated" =>
           \A p \in Pages : file'[p] # file[p] => p \in marked]_vars
  BY StepWrites DEF vars
<1>. QED
  BY <1>1, <1>2, <1>3, PTL DEF Spec, WritesOnlyMarked

-----------------------------------------------------------------------------
(* The order in which records are told. *)

LEMMA InitOrder == Init => OrderInv
  BY DEF Init, OrderInv

(* The file changes beside the scan, and copies leave the pool. *)
LEMMA BesideOrder ==
    ASSUME IInv, OrderInv, pc \in {"open", "closed"},
           stable' = stable \cap RecordsOf(file'),
           Holding' \subseteq Holding,
           \A fr \in Holding' : pool'[fr] = pool[fr],
           pc = "open" /\ curPage # NULL => curPage \in Holding',
           UNCHANGED <<iters, pc, thrown, returned, repeated, failed>>
    PROVE  OrderInv'
<1>. SUFFICES ASSUME pc = "open", ~failed PROVE PlaceInv'
  BY DEF OrderInv
<1>1. PlaceInv
  BY DEF OrderInv
<1>2. CASE curPage # NULL
  <2>1. AtPage
    BY <1>1, <1>2 DEF PlaceInv
  <2>2. \A r : Passed(r)' <=> Passed(r)
    BY DEF Passed, iters
  <2>3. AtPage'
    BY <1>2, <2>1, <2>2 DEF AtPage, iters
  <2>. QED
    BY <1>1, <1>2, <2>3 DEF PlaceInv, Reading, iters
<1>3. CASE curPage = NULL
  BY <1>1, <1>3 DEF PlaceInv, Unbegun, Reading, iters
<1>. QED
  BY <1>2, <1>3

LEMMA ChangeOrder ==
    ASSUME IInv, OrderInv, OwnerTurn, NEW f, Change(f)
    PROVE  OrderInv'
<1>1. Holding' = Holding /\ UNCHANGED pool
  BY DEF Change, Holding
<1>2. pc = "open" /\ curPage # NULL => curPage \in Holding
  BY PageAtHand
<1>. QED
  BY <1>1, <1>2, BesideOrder DEF Change, Store, OwnerTurn, told

LEMMA EvictOrder ==
    ASSUME IInv, OrderInv, NEW fr \in Frames, Evict(fr)
    PROVE  OrderInv'
<1>1. TypeOK /\ fr \in Holding /\ pool[fr].pinCnt = 0
  BY DEF IInv, ScanPins, Evict, TakeFrame, TakeFails, Victims
<1>2. pc = "open" /\ UNCHANGED <<iters, pc, thrown, told>>
  BY <1>1 DEF IInv, ScanPins, Evict, OwnerTurn
<1>3. CASE TakeFails(fr)
  <2>1. Holding' = Holding /\ UNCHANGED <<file, stable, pool>>
    BY <1>3 DEF TakeFails, Holding
  <2>2. OrderInv => OrderInv'
    BY <1>2, <2>1 DEF OrderInv, PlaceInv, AtPage, BeforePage, Unbegun, Passed,
       RecordsOf, Reading, iters, told
  <2>. QED
    BY <2>2
<1>4. CASE TakeFrame(fr) /\ pool' = [pool EXCEPT ![fr] = NotPooled]
  <2>1. stable' = stable \cap RecordsOf(file')
    BY <1>4, TakenIs
  <2>2. Holding' = Holding \ {fr} /\ \A g \in Holding' : pool'[g] = pool[g]
    BY <1>1, <1>4 DEF TypeOK, Holding
  <2>3. fr # curPage
    <3>1. pool[fr].pinCnt = IF fr = curPage THEN 1 ELSE 0
      BY <1>1, <1>2 DEF IInv, ScanPins
    <3>. QED
      BY <1>1, <3>1
  <2>4. curPage # NULL => curPage \in Holding'
    BY <1>2, <2>2, <2>3, PageAtHand
  <2>. QED
    BY <1>2, <2>1, <2>2, <2>4, BesideOrder DEF told
<1>. QED
  BY <1>3, <1>4 DEF Evict

LEMMA OwnerOrder == IInv /\ OrderInv /\ OwnerStep => OrderInv'
  BY ChangeOrder, EvictOrder DEF OwnerStep, Allocate, Delete, Update

LEMMA OpenOrder == IInv /\ Open => OrderInv'
<1>. SUFFICES ASSUME IInv, Open PROVE PlaceInv'
  BY DEF OrderInv
<1>1. Holding' = {}
  BY DEF IInv, ScanPins, Open, Holding
<1>2. FirstPage = 0 => RecordsOf(file) = {}
  BY FirstPageIs DEF RecordsOf, Used
<1>3. RecordsOf(file)' = RecordsOf(file)
  BY DEF Open, RecordsOf
<1>. QED
  BY <1>1, <1>2, <1>3 DEF Open, PlaceInv, Unbegun, Reading, NULL, INVALID_NUMBER

(* A page with a record that was there all the time is in use.             *)
LEMMA StableIsUsed ==
    ASSUME stable \subseteq RecordsOf(file), NEW r \in stable
    PROVE  r \in Pages \X Slots /\ r[1] \in Used /\ r[2] \in file[r[1]]
  BY DEF RecordsOf, Used

LEMMA ScanFirstOrder == IInv /\ OrderInv /\ ScanFirst => OrderInv'
<1>. SUFFICES ASSUME IInv, OrderInv, ScanFirst, ~failed' PROVE PlaceInv'
  BY DEF OrderInv
<1>1. PlaceInv /\ Unbegun
  BY DEF OrderInv, PlaceInv, ScanFirst, Throw, Continue, told
<1>2. /\ UNCHANGED <<file, pool, curPage, returned, repeated, stable>>
      /\ Holding' = Holding
      /\ curPage = NULL /\ filePageIter' = FirstPage
      /\ \/ FirstPage = 0 /\ pc' = "open"
         \/ FirstPage # 0 /\ pc' = "readFirst"
  BY DEF ScanFirst, Throw, Continue, told, Holding, INVALID_NUMBER
<1>3. \A r \in stable : r[1] \in Used
  BY <1>1, StableIsUsed DEF PlaceInv
<1>4. ASSUME NEW r \in stable PROVE FirstPage # 0 /\ ~(r[1] < FirstPage)
  <2>1. FirstPage # 0 /\ FirstPage <= r[1]
    BY <1>3, FirstPageIs
  <2>2. FirstPage \in Nat /\ r[1] \in Nat
    BY <1>3, FirstPageIs, UsedNumbers
  <2>. QED
    BY <2>1, <2>2
<1>5. stable' \subseteq RecordsOf(file)'
  BY <1>1, <1>2 DEF PlaceInv, RecordsOf
<1>. QED
  BY <1>1, <1>2, <1>4, <1>5 DEF PlaceInv, BeforePage, Unbegun, Reading, INVALID_NUMBER

(* Advance from behind record start of page p: all records up to there     *)
(* have been told, and the page at hand has those that are left.           *)
LEMMA AdvanceOrder ==
    ASSUME NEW p \in Pages, NEW slots \in Contents, NEW start \in Slots \cup {0},
           Advance(p, slots, start), filePageIter' = p, ~repeated,
           returned \subseteq Pages \X Slots, stable \subseteq Pages \X Slots,
           \A r \in returned : r[1] < p \/ (r[1] = p /\ r[2] <= start),
           stable' \subseteq stable,
           \A r \in stable :
              r[1] < p \/ (r[1] = p /\ r[2] <= start) => r \in returned,
           \A s \in Slots : <<p, s>> \in stable' => s \in slots
    PROVE  /\ \A r \in returned' : Passed(r)'
           /\ \A r \in stable' : Passed(r)' => r \in returned'
           /\ ~repeated' /\ failed' = failed
           /\ pc' \in {"open", "turnPage"}
           /\ pc' = "open" => thrown' = "none"
<1>. DEFINE s == getNextUsedSlot(slots, start)
<1>1. /\ s \in slots \cup {0}
      /\ s # 0 => s > start
      /\ \A t \in slots : t > start => s # 0 /\ s <= t
  BY NextSlotIs
<1>2. slots \subseteq Slots /\ start \in Nat /\ p \in Nat
  BY DEF Slots, Pages
<1>3. pageRecordIter' = s
  BY DEF Advance
<1>4. IF s # 0 THEN ReturnRecord(p, s) ELSE Continue("turnPage")
  BY DEF Advance, INVALID_SLOT
<1>. HIDE DEF s
<1>5. ASSUME NEW r \in stable'
      PROVE  /\ r \in stable /\ r \in Pages \X Slots /\ r = <<r[1], r[2]>>
             /\ r[1] \in Nat /\ r[2] \in Nat
             /\ r[1] = p => r[2] \in slots
  BY <1>5 DEF Pages, Slots
<1>6. ASSUME NEW r \in returned
      PROVE  r[1] \in Nat /\ r[2] \in Nat
  BY <1>6 DEF Pages, Slots
<1>7. CASE s # 0
  <2>1. ReturnRecord(p, s)
    BY <1>4, <1>7
  <2>2. s \in Nat /\ s > start
    BY <1>1, <1>2, <1>7 DEF Slots
  <2>3. <<p, s>> \notin returned
    <3>1. SUFFICES ASSUME <<p, s>> \in returned PROVE FALSE
      OBVIOUS
    <3>2. p < p \/ s <= start
      BY <3>1
    <3>. QED
      BY <1>2, <2>2, <3>2
  <2>4. \A r \in returned' : Passed(r)'
    <3>1. Passed(<<p, s>>)'
      BY <1>3, <2>2 DEF Passed
    <3>2. ASSUME NEW r \in returned PROVE Passed(r)'
      BY <1>2, <1>3, <1>6, <2>2 DEF Passed
    <3>. QED
      BY <2>1, <3>1, <3>2 DEF ReturnRecord
  <2>5. ASSUME NEW r \in stable', Passed(r)' PROVE r \in returned'
    <3>1. r[1] < p \/ (r[1] = p /\ r[2] <= s)
      BY <1>3, <2>1, <2>5 DEF Passed, ReturnRecord
    <3>2. CASE r[1] < p \/ (r[1] = p /\ r[2] <= start)
      BY <1>5, <2>1, <3>2 DEF ReturnRecord
    <3>3. CASE r[1] = p /\ r[2] > start
      <4>1. r[2] = s
        BY <1>1, <1>5, <2>2, <3>1, <3>3, <1>2
      <4>2. r = <<p, s>>
        BY <1>5, <3>3, <4>1
      <4>. QED
        BY <2>1, <4>2 DEF ReturnRecord
    <3>. QED
      BY <1>2, <1>5, <3>1, <3>2, <3>3
  <2>. QED
    BY <2>1, <2>3, <2>4, <2>5 DEF ReturnRecord
<1>8. CASE s = 0
  <2>1. pc' = "turnPage" /\ UNCHANGED <<thrown, told>>
    BY <1>4, <1>8 DEF Continue
  <2>2. \A r \in returned' : Passed(r)'
    BY <2>1 DEF Passed, told
  <2>3. ASSUME NEW r \in stable', Passed(r)' PROVE r \in returned
    BY <1>1, <1>2, <1>5, <1>8, <2>1, <2>3 DEF Passed
  <2>. QED
    BY <2>1, <2>2, <2>3 DEF told
<1>. QED
  BY <1>7, <1>8

LEMMA ScanOnOrder == IInv /\ OrderInv /\ ScanOn => OrderInv'
<1>. SUFFICES ASSUME IInv, OrderInv, ScanOn, ~failed' PROVE PlaceInv'
  BY DEF OrderInv
<1>1. TypeOK /\ pc = "open" /\ curPage # NULL
  BY DEF IInv, ScanPins, ScanOn
<1>2. /\ filePageIter \in Pages /\ pool[curPage].slots \in Contents
      /\ pageRecordIter \in Slots \cup {0}
  BY <1>1, PageAtHand DEF TypeOK, INVALID_SLOT
<1>3. /\ Advance(filePageIter, pool[curPage].slots, pageRecordIter)
      /\ UNCHANGED <<file, stable, pool, filePageIter, curPage>>
      /\ Holding' = Holding
  BY DEF ScanOn, Holding
<1>4. ~failed
  BY <1>3 DEF Advance, ReturnRecord, Continue, told
<1>5. PlaceInv /\ AtPage
  BY <1>1, <1>4 DEF OrderInv, PlaceInv
<1>6. /\ \A r \in returned' : Passed(r)'
      /\ \A r \in stable' : Passed(r)' => r \in returned'
      /\ ~repeated' /\ failed' = failed
      /\ pc' \in {"open", "turnPage"}
      /\ pc' = "open" => thrown' = "none"
  BY <1>1, <1>2, <1>3, <1>5, AdvanceOrder DEF PlaceInv, AtPage, Passed, TypeOK
<1>7. AtPage'
  BY <1>3, <1>5, <1>6 DEF AtPage
<1>8. stable' \subseteq RecordsOf(file)'
  BY <1>3, <1>5 DEF PlaceInv, RecordsOf
<1>. QED
  BY <1>1, <1>3, <1>6, <1>7, <1>8 DEF PlaceInv, Reading

(* The page the scan comes to has no copy yet. *)
LEMMA ReadOrder == IInv /\ OrderInv /\ ReadPage => OrderInv'
<1>. SUFFICES ASSUME IInv, OrderInv, ReadPage, ~failed' PROVE PlaceInv'
  BY DEF OrderInv
<1>. DEFINE p == filePageIter
<1>1. TypeOK /\ Reading /\ p \in Used /\ p \in Pages
  BY UsedNumbers DEF IInv, ScanPins, CallInv, ReadPage, ReadHit, ReadMiss, ReadFails
<1>2. ~failed
  BY DEF ReadPage, ReadHit, ReadMiss, ReadFails, PageRead, Advance, ReturnRecord,
     Continue, Throw, told
<1>3. PlaceInv /\ BeforePage
  BY <1>1, <1>2 DEF OrderInv, PlaceInv, Reading
<1>4. ht[p] = NoFrame
  <2>1. \A fr \in Holding : pool[fr].page # p
    BY <1>1, <1>3 DEF BeforePage, Pages
  <2>. QED
    BY <1>1, <2>1 DEF IInv, TableInv
<1>5. PICK fr \in Frames : ReadMiss(fr)
  BY <1>4 DEF ReadPage, ReadHit, ReadFails, Throw
<1>6. /\ pool' = [pool EXCEPT ![fr] = Fresh(p)]
      /\ Advance(p, file[p], 0)
      /\ curPage' = fr /\ filePageIter' = p
  BY <1>5 DEF ReadMiss, PageRead, INVALID_SLOT
<1>7. /\ stable' \subseteq stable
      /\ stable' \subseteq RecordsOf(file')
      /\ file'[p] = file[p]
  <2>1. CASE UNCHANGED <<file, stable>>
    BY <1>3, <2>1 DEF PlaceInv
  <2>2. CASE TakeFrame(fr)
    <3>1. /\ fr \in Holding /\ stable' = stable \cap RecordsOf(file')
          /\ file'[p] # file[p] => p = pool[fr].page
      BY <1>1, <2>2, TakenIs
    <3>2. pool[fr].page # p
      BY <1>1, <1>3, <3>1 DEF BeforePage, Pages
    <3>. QED
      BY <3>1, <3>2
  <2>. QED
    BY <1>5, <2>1, <2>2 DEF ReadMiss
<1>8. \A s \in Slots : <<p, s>> \in stable' => s \in file[p]
  BY <1>7 DEF RecordsOf
<1>9. /\ \A r \in returned : r[1] < p \/ (r[1] = p /\ r[2] <= 0)
      /\ \A r \in stable : r[1] < p \/ (r[1] = p /\ r[2] <= 0) => r \in returned
  <2>1. \A r \in stable : r[2] > 0
    BY <1>1 DEF TypeOK, Slots
  <2>2. \A r \in stable : r[2] \in Nat
    BY <1>1 DEF TypeOK, Slots
  <2>. QED
    BY <1>3, <2>1, <2>2 DEF BeforePage
<1>10. file[p] \in Contents
  BY <1>1 DEF TypeOK, Used
<1>11. /\ pool'[fr] = Fresh(p) /\ fr \in Frames
       /\ \A g \in Frames \ {fr} : pool'[g] = pool[g]
  BY <1>1, <1>6 DEF TypeOK
<1>12. Fresh(p).page = p /\ Fresh(p).slots = file[p]
  BY DEF Fresh
<1>. HIDE DEF p
<1>13. /\ \A r \in returned' : Passed(r)'
       /\ \A r \in stable' : Passed(r)' => r \in returned'
       /\ ~repeated' /\ failed' = failed
       /\ pc' \in {"open", "turnPage"}
       /\ pc' = "open" => thrown' = "none"
  BY <1>1, <1>3, <1>6, <1>7, <1>8, <1>9, <1>10, AdvanceOrder DEF PlaceInv, TypeOK
<1>14. \A g \in Holding' : pool'[g].page <= p
  <2>1. ASSUME NEW g \in Holding' PROVE pool'[g].page <= p
    <3>1. CASE g = fr
      BY <1>1, <1>11, <1>12, <3>1 DEF Pages
    <3>2. CASE g # fr
      <4>1. g \in Holding /\ pool'[g] = pool[g]
        BY <1>11, <3>2 DEF Holding
      <4>2. pool[g].page < p /\ pool[g].page \in Nat /\ p \in Nat
        BY <1>1, <1>3, <4>1, CopiesType DEF BeforePage, Pages, p
      <4>. QED
        BY <4>1, <4>2
    <3>. QED
      BY <3>1, <3>2
  <2>. QED
    BY <2>1
<1>15. AtPage'
  BY <1>6, <1>8, <1>11, <1>12, <1>13, <1>14 DEF AtPage
<1>16. fr # NULL
  BY NumbersNotNull
<1>. QED
  BY <1>6, <1>7, <1>13, <1>15, <1>16 DEF PlaceInv, Reading

LEMMA TurnPageOrder == IInv /\ OrderInv /\ TurnPage => OrderInv'
<1>. SUFFICES ASSUME IInv, OrderInv, TurnPage, ~failed' PROVE PlaceInv'
  BY DEF OrderInv
<1>. DEFINE p == filePageIter
<1>1. /\ TypeOK /\ pc = "turnPage" /\ curPage # NULL /\ Found /\ p \in Pages
  BY PageAtHand DEF IInv, ScanPins, CallInv, TurnPage
<1>2. /\ curPage' = NULL /\ filePageIter' = NextPage /\ pool' = GivenBack
      /\ UNCHANGED <<file, returned, repeated, stable>>
      /\ \/ NextPage = 0 /\ pc' = "open"
         \/ NextPage # 0 /\ pc' = "readPage"
  BY <1>1 DEF TurnPage, Throw, Continue, told, INVALID_NUMBER, TypeOK
<1>3. failed' = failed
  BY <1>1 DEF TurnPage, Throw, Continue, told, TypeOK
<1>4. PlaceInv /\ AtPage
  BY <1>1, <1>3 DEF OrderInv, PlaceInv
<1>5. /\ NextPage \in Nat /\ p \in Nat
      /\ NextPage # 0 => NextPage > p
      /\ \A q \in Used : q > p => NextPage # 0 /\ NextPage <= q
  <2>1. /\ NextPage \in Used \cup {0}
        /\ NextPage # 0 => NextPage > p
        /\ \A q \in Used : q > p => NextPage # 0 /\ NextPage <= q
    BY <1>1, NextPageIs
  <2>2. Used \subseteq Nat /\ p \in Nat
    BY <1>1, UsedNumbers DEF Pages
  <2>. QED
    BY <2>1, <2>2
<1>6. ASSUME NEW r \in stable, NextPage = 0 \/ r[1] < NextPage
      PROVE  r \in returned
  <2>1. r[1] \in Used /\ r[1] \in Nat
    BY <1>4, StableIsUsed, UsedNumbers DEF PlaceInv
  <2>2. r[1] <= p
    BY <1>5, <1>6, <2>1
  <2>. QED
    BY <1>1, <1>4, <1>5, <2>1, <2>2 DEF AtPage, Passed
<1>7. ASSUME NEW r \in returned, NextPage # 0 PROVE r[1] < NextPage
  <2>1. r[1] \in Nat
    BY <1>1 DEF TypeOK, Pages
  <2>2. r[1] <= p
    BY <1>4, <1>5, <2>1 DEF AtPage, Passed
  <2>. QED
    BY <1>5, <1>7, <2>1, <2>2
<1>8. \A fr \in Holding' : pool'[fr].page <= p /\ pool'[fr].page \in Nat
  <2>1. /\ \A fr \in Frames : pool'[fr] = NotPooled <=> fr \notin Holding
        /\ \A fr \in Holding : pool'[fr].page = pool[fr].page
    BY <1>1, <1>2, GivenBackIs
  <2>2. Holding' = Holding
    BY <2>1 DEF Holding
  <2>3. \A fr \in Holding : pool[fr].page <= p /\ pool[fr].page \in Nat
    BY <1>1, <1>4, CopiesType DEF AtPage, Pages
  <2>. QED
    BY <2>1, <2>2, <2>3
<1>9. stable' \subseteq RecordsOf(file)'
  BY <1>2, <1>4 DEF PlaceInv, RecordsOf
<1>10. CASE NextPage = 0
  BY <1>2, <1>4, <1>6, <1>9, <1>10 DEF PlaceInv, Reading, INVALID_NUMBER
<1>11. CASE NextPage # 0
  <2>1. NextPage > p
    BY <1>5, <1>11
  <2>. HIDE DEF p
  <2>2. \A fr \in Holding' : pool'[fr].page < NextPage
    BY <1>5, <1>8, <2>1
  <2>3. BeforePage'
    BY <1>2, <1>6, <1>7, <1>11, <2>2 DEF BeforePage
  <2>. QED
    BY <1>2, <1>4, <1>9, <1>11, <2>3 DEF PlaceInv, Reading
<1>. QED
  BY <1>10, <1>11

(* Steps that tell nothing and leave the scan where it stood. *)
LEMMA OtherOrder ==
    ASSUME IInv, OrderInv,
           \/ ScanAtEnd \/ TurnFails \/ MarkDirty \/ Close \/ Terminated
           \/ UNCHANGED vars
    PROVE  OrderInv'
<1>1. CASE TurnFails
  BY <1>1 DEF TurnFails, Throw, OrderInv
<1>2. CASE ScanAtEnd
  <2>1. /\ pc = "open" /\ filePageIter = INVALID_NUMBER
        /\ UNCHANGED <<file, pool, iters, pc, returned, repeated, stable, failed>>
    BY <1>2 DEF ScanAtEnd, Throw, IInv, ScanPins, TypeOK
  <2>2. curPage = NULL
    BY <2>1, PageAtHand
  <2>. QED
    BY <2>1, <2>2 DEF OrderInv, PlaceInv, RecordsOf, Reading, iters
<1>3. CASE MarkDirty \/ Terminated \/ UNCHANGED vars
  <2>1. UNCHANGED <<file, pool, filePageIter, curPage, pageRecordIter, pc, thrown,
                    returned, repeated, stable, failed>>
    BY <1>3 DEF MarkDirty, Terminated, vars, iters, told
  <2>2. Holding' = Holding
    BY <2>1 DEF Holding
  <2>. QED
    BY <2>1, <2>2 DEF OrderInv, PlaceInv, AtPage, BeforePage, Unbegun, Passed,
       RecordsOf, Reading
<1>4. CASE Close
  <2>1. /\ pc = "open" /\ UNCHANGED <<failed, repeated>>
        /\ pc' = "closed" \/ pc' = "terminated"
    BY <1>4 DEF Close, Flush, told
  <2>2. \/ UNCHANGED <<file, stable>>
        \/ stable' = stable \cap RecordsOf(file')
    BY <1>4 DEF Close, Flush, Store
  <2>3. (stable \subseteq RecordsOf(file)) => (stable \subseteq RecordsOf(file))'
    BY <2>2 DEF RecordsOf
  <2>. QED
    BY <2>1, <2>3 DEF OrderInv, PlaceInv, Reading
<1>. QED
  BY <1>1, <1>2, <1>3, <1>4

LEMMA NextOrder == IInv /\ OrderInv /\ [Next]_vars => OrderInv'
  BY OwnerOrder, OpenOrder, ScanFirstOrder, ScanOnOrder, ReadOrder, TurnPageOrder,
     OtherOrder DEF Next, ScanNext

LEMMA EndIsReached == IInv /\ OrderInv => EachRecordOnce
<1>. SUFFICES ASSUME IInv, OrderInv, pc # "closed", ~failed
              PROVE  /\ ~repeated
                     /\ pc = "open" /\ thrown = "EndOfFile" => stable \subseteq returned
  BY DEF EachRecordOnce
<1>1. filePageIter = INVALID_NUMBER /\ pc = "open" => curPage = NULL
  BY PageAtHand
<1>. QED
  BY <1>1 DEF OrderInv, PlaceInv

(* EachRecordOnce holds of every scan none of whose calls failed: no       *)
(* record is told twice, and none that was there all the time is left out. *)
THEOREM EachRecordTold == Spec => []EachRecordOnce
<1>1. Init => IInv /\ OrderInv
  BY InitInv, InitOrder
<1>2. IInv /\ OrderInv /\ [Next]_vars => IInv' /\ OrderInv'
  BY NextInv, NextOrder
<1>3. IInv /\ OrderInv => EachRecordOnce
  BY EndIsReached
<1>. QED
  BY <1>1, <1>2, <1>3, PTL DEF Spec
=============================================================================
