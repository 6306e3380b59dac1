--------------------------- MODULE BTreeIndexProofs ---------------------------
(***************************************************************************)
(* Proofs about BTreeIndex for pages and pools of any size and any keys:   *)
(* the pins of the index, the pages it leaves to be written, that its      *)
(* destructor returns, what its leaves hold and in which order, and what a *)
(* scan returns of it.                                                     *)
(*                                                                         *)
(* The inductive invariant IInv needs the shape of the whole tree, because *)
(* what a step pins is what it finds in the nodes: there are leaves and    *)
(* inner nodes that point to leaves, and nothing above them.  So the path  *)
(* of an insertion is the root, or the root and a leaf, and the pins of    *)
(* the index are those of the path, of the page that the split of an inner *)
(* node reads again, and of the scan.                                      *)
(***************************************************************************)
EXTENDS BTreeIndex, FiniteSetTheorems, SequenceTheorems, TLAPS

USE KeysAssumption, PageAssumption, BoundsAssumption, RangesAssumption,
    ScannedAssumption DEF NoPage, headerPageNum

-----------------------------------------------------------------------------
(* The inductive invariant.                                                *)
Entries == [key : Keys, rid : Nat]

LeavesOf(nds) == {p \in DOMAIN nds : nds[p].kind = "leaf"}

IsLeaf(node, leaves) ==
    /\ node.kind = "leaf"
    /\ node = Leaf(node.entries, node.rightSibPageNo)
    /\ node.entries \in Seq(Entries) /\ Len(node.entries) <= leafOccupancy
    /\ node.rightSibPageNo \in {NoPage} \cup leaves

IsInner(node, leaves) ==
    /\ node.kind = "nonleaf"
    /\ node = NonLeaf(1, node.keyArray, node.pageNoArray)
    /\ node.keyArray \in Seq(Keys) /\ Len(node.keyArray) \in 1 .. nodeOccupancy
    /\ node.pageNoArray \in Seq(leaves)
    /\ Len(node.pageNoArray) = Len(node.keyArray) + 1

IsNode(node, leaves) == IsLeaf(node, leaves) \/ IsInner(node, leaves)

TreeOf(nds) == \A p \in DOMAIN nds : IsNode(nds[p], LeavesOf(nds))

Leaves == LeavesOf(nodes)

PagesInv ==
    /\ \E n \in Nat \ {0} : DOMAIN nodes = 2 .. n + 1 /\ DOMAIN pins = 1 .. n + 1
    /\ \A p \in DOMAIN pins : pins[p] \in Nat
    /\ rootPageNo \in DOMAIN nodes /\ rootPageNum = rootPageNo
    /\ unmarked \subseteq DOMAIN nodes

Pivots == [pageNo : Nat, key : Int]

Calls ==
    [pc : {"idle", "down", "up", "reread", "newroot", "newmeta", "finish"},
     key : Int, rid : Nat, leaf : BOOLEAN, path : Seq(Nat), pivot : Pivots,
     split : [curr : Nat, next : Nat, pivot : Pivots], others : 0 .. numBufs]

ObjectInv ==
    /\ status \in {"open", "closed", "terminated", "undefined"}
    /\ thrown \in {"none", "BufferExceeded"}
    /\ failures \in 0 .. MaxFailures
    /\ failures = 0 => status # "terminated"
    /\ IsFiniteSet(inserted)
    /\ call \in Calls
    /\ call.pc # "idle" =>
         status = "open" /\ failures < MaxFailures /\ call.key \in Keys

(* What a split hands up. *)
Up(pivot) == pivot.pageNo \in Leaves /\ pivot.key \in Keys

AtRoot == call.path = <<rootPageNum>>
AtInnerRoot == AtRoot /\ rootPageNum \notin Leaves
BelowRoot ==
    rootPageNum \notin Leaves /\ \E l \in Leaves : call.path = <<rootPageNum, l>>

IdleInv ==
    call.pc = "idle" =>
      /\ call = Idle
      /\ unmarked # {} => status = "undefined" /\ \A p \in unmarked : pins[p] > 0

DownInv ==
    call.pc = "down" =>
      /\ call.pivot = NoPivot /\ unmarked = {}
      /\ \/ AtRoot /\ (call.leaf => rootPageNum = initRootPageNum)
         \/ BelowRoot /\ call.leaf

UpInv ==
    call.pc = "up" =>
      /\ AtInnerRoot /\ unmarked = {}
      /\ call.pivot = NoPivot \/ (Up(call.pivot) /\ FreeFrame)

RereadInv ==
    call.pc = "reread" =>
      /\ AtInnerRoot /\ unmarked = {rootPageNum} /\ FreeFrame
      /\ Up(call.pivot) /\ Up(call.split.pivot)

NewRootInv ==
    call.pc = "newroot" =>
      /\ AtRoot /\ rootPageNum \in Leaves /\ rootPageNum = initRootPageNum
      /\ unmarked = {rootPageNum} /\ FreeFrame /\ call.pivot = NoPivot
      /\ call.split.curr = rootPageNum /\ call.split.next \in Leaves
      /\ call.split.pivot.key \in Keys

NewMetaInv ==
    call.pc = "newmeta" =>
      /\ AtRoot /\ rootPageNum \in Leaves /\ unmarked = {rootPageNum}
      /\ FreeFrame /\ call.pivot = NoPivot

FinishInv ==
    call.pc = "finish" =>
      \/ /\ BelowRoot /\ unmarked = {call.path[2]}
         /\ call.pivot = NoPivot /\ Up(call.split.pivot) /\ FreeFrame
      \/ \E x \in DOMAIN nodes :
           /\ call.path = <<x>> /\ unmarked = {x}
           /\ call.pivot = NoPivot \/ (x \notin Leaves /\ Up(call.pivot))

CallInv ==
    /\ IdleInv /\ DownInv /\ UpInv /\ RereadInv
    /\ NewRootInv /\ NewMetaInv /\ FinishInv

(* The pages that a call has pinned, one time each. *)
Held(c) == {c.path[i] : i \in DOMAIN c.path}
           \cup (IF c.pc = "finish" THEN {c.pivot.pageNo} \ {NoPage} ELSE {})

PinsInv ==
    \A p \in DOMAIN pins :
      /\ p \in Held(call) => pins[p] > 0
      /\ failures = 0 /\ status # "undefined" =>
           pins[p] = (IF p \in Held(call) THEN 1 ELSE 0)
                     + (IF scan.holds /\ p = scan.page THEN 1 ELSE 0)

ScanInv ==
    /\ scan \in [executing : BOOLEAN, first : BOOLEAN,
                 nextEntry : {Unset} \cup -1 .. leafOccupancy - 1,
                 page : Nat, holds : BOOLEAN,
                 range : [lowVal : Int, lowOp : Operator,
                          highVal : Int, highOp : Operator]]
    /\ scan.page \in {NoPage} \cup DOMAIN nodes
    /\ scan.holds => scan.executing
    /\ scan.holds /\ status # "undefined" => scan.page \in Leaves
    /\ trail \in {"on", "over", "off"}

IInv == PagesInv /\ TreeOf(nodes) /\ ObjectInv /\ CallInv /\ PinsInv /\ ScanInv

-----------------------------------------------------------------------------
(* Numbers.                                                                *)

(* A set of numbers that is not empty has a least element: the intervals   *)
(* from 0 to its elements are finite sets, ordered by inclusion.           *)
LEMMA Least ==
    ASSUME NEW T, T \subseteq Nat, T # {}
    PROVE  \E x \in T : \A y \in T : x <= y
<1> DEFINE F == {0 .. x : x \in T}
<1>1. F \subseteq FiniteSubsetsOf(Nat) /\ F # {}
  <2>1. \A x \in T : IsFiniteSet(0 .. x) /\ 0 .. x \in SUBSET Nat
    BY FS_Interval
  <2>. QED
    BY <2>1 DEF FiniteSubsetsOf
<1>2. \E I \in F : \A J \in F : ~ (<<J, I>> \in StrictSubsetOrdering(Nat))
  <2>. HIDE DEF F
  <2>. QED
    BY <1>1, FS_StrictSubsetOrderingWellFounded, WFMin
<1>3. PICK x \in T : \A y \in T : ~ (<<0 .. y, 0 .. x>> \in StrictSubsetOrdering(Nat))
  BY <1>2
<1>4. ASSUME NEW y \in T PROVE x <= y
  <2>. SUFFICES ASSUME y < x PROVE FALSE
    OBVIOUS
  <2>1. 0 .. y \in SUBSET Nat /\ 0 .. x \in SUBSET Nat
    OBVIOUS
  <2>2. 0 .. y \subseteq 0 .. x /\ 0 .. y # 0 .. x
    <3>1. x \in 0 .. x /\ x \notin 0 .. y
      OBVIOUS
    <3>. QED
      BY <3>1
  <2>. QED
    BY <1>3, <2>1, <2>2 DEF StrictSubsetOrdering
<1>. QED
  BY <1>4

LEMMA MinIs ==
    ASSUME NEW T, T \subseteq Nat, T # {}
    PROVE  Min(T) \in T /\ \A y \in T : Min(T) <= y
  BY Least DEF Min

LEMMA MaxIs ==
    ASSUME NEW k \in Nat, NEW T, T \subseteq 1 .. k, T # {}
    PROVE  Max(T) \in T /\ \A y \in T : y <= Max(T)
<1> DEFINE U == {k - x : x \in T}
<1>1. U \subseteq Nat /\ U # {}
  OBVIOUS
<1>2. PICK u \in U : \A y \in U : u <= y
  <2>. HIDE DEF U
  <2>. QED
    BY <1>1, Least
<1>3. PICK x \in T : u = k - x
  OBVIOUS
<1>4. \A y \in T : x >= y
  <2>1. \A y \in T : u <= k - y
    BY <1>2
  <2>. HIDE DEF U
  <2>. QED
    BY <1>3, <2>1
<1>5. \E z \in T : \A y \in T : z >= y
  BY <1>4
<1>. HIDE DEF U
<1>. QED
  BY <1>5 DEF Max

(* A set of numbers with 0 and, up to k, the successor of each has them    *)
(* all up to k.                                                            *)
LEMMA Upwards ==
    ASSUME NEW S, NEW k \in Nat, 0 \in S,
           \A i \in 0 .. k - 1 : i \in S => i + 1 \in S
    PROVE  \A i \in 0 .. k : i \in S
<1> DEFINE T == (0 .. k) \ S
<1>1. SUFFICES ASSUME T # {} PROVE FALSE
  OBVIOUS
<1>2. PICK m \in T : \A y \in T : m <= y
  <2>1. T \subseteq Nat
    OBVIOUS
  <2>. HIDE DEF T
  <2>. QED
    BY <1>1, <2>1, Least
<1>3. m # 0 /\ m - 1 \in 0 .. k - 1 /\ m - 1 \notin T
  BY <1>2
<1>. QED
  BY <1>2, <1>3

(* Half of a leaf, and half of an inner node.                              *)
LEMMA Halves ==
    /\ leafOccupancy \in Nat /\ leafOccupancy >= 2
    /\ nodeOccupancy \in Nat /\ nodeOccupancy >= 2
    /\ \E h \in Nat : h >= 1 /\ leafOccupancy = 2 * h /\ (leafOccupancy + 1) \div 2 = h
    /\ (nodeOccupancy + 1) \div 2 \in 1 .. nodeOccupancy - 1
<1>1. leafOccupancy \in Nat /\ nodeOccupancy \in Nat
  <2>1. pageWords \in Nat /\ pageWords >= 6
    BY DEF nodeOccupancy
  <2>. QED
    BY <2>1 DEF leafOccupancy, nodeOccupancy
<1>. HIDE DEF leafOccupancy, nodeOccupancy
<1>. QED
  BY <1>1

-----------------------------------------------------------------------------
(* Sequences.                                                              *)
LEMMA InsertAtIs ==
    ASSUME NEW S, NEW s \in Seq(S), NEW e \in S, NEW i \in 1 .. Len(s) + 1
    PROVE  /\ InsertAt(s, i, e) \in Seq(S)
           /\ Len(InsertAt(s, i, e)) = Len(s) + 1
<1> DEFINE low == SubSeq(s, 1, i - 1)
           high == SubSeq(s, i, Len(s))
<1>. Len(s) \in Nat /\ \A j \in 1 .. Len(s) : s[j] \in S
  BY ElementOfSeq, LenProperties
<1>1. low \in Seq(S) /\ Len(low) = i - 1
  <2>1. \A j \in 1 .. i - 1 : s[j] \in S
    OBVIOUS
  <2>. QED
    BY <2>1, SubSeqProperties
<1>2. high \in Seq(S) /\ Len(high) = Len(s) + 1 - i
  <2>1. \A j \in i .. Len(s) : s[j] \in S
    OBVIOUS
  <2>. QED
    BY <2>1, SubSeqProperties
<1>3. <<e>> \in Seq(S) /\ Len(<<e>>) = 1
  OBVIOUS
<1>. HIDE DEF low, high
<1>4. low \o <<e>> \in Seq(S) /\ Len(low \o <<e>>) = i
  BY <1>1, <1>3, ConcatProperties
<1>5. /\ (low \o <<e>>) \o high \in Seq(S)
      /\ Len((low \o <<e>>) \o high) = Len(low \o <<e>>) + Len(high)
  BY <1>2, <1>4, ConcatProperties
<1>6. Len((low \o <<e>>) \o high) = Len(s) + 1
  BY <1>2, <1>4, <1>5
<1>. QED
  BY <1>5, <1>6 DEF InsertAt, low, high

(* A part of a sequence.                                                   *)
LEMMA PartIs ==
    ASSUME NEW S, NEW s \in Seq(S), NEW i \in Nat, NEW j \in Nat,
           1 <= i, i <= j, j <= Len(s)
    PROVE  /\ SubSeq(s, i, j) \in Seq(S) /\ Len(SubSeq(s, i, j)) = j - i + 1
           /\ SubSeq(s, i, j)[1] = s[i]
<1>1. \A k \in i .. j : s[k] \in S
  BY ElementOfSeq, LenProperties
<1>2. /\ SubSeq(s, i, j) \in Seq(S) /\ Len(SubSeq(s, i, j)) = j - i + 1
      /\ \A k \in 1 .. j - i + 1 : SubSeq(s, i, j)[k] = s[i + k - 1]
  BY <1>1, SubSeqProperties
<1>. QED
  BY <1>2

LEMMA FirstTwo ==
    ASSUME NEW x \in Nat, NEW y \in Nat
    PROVE  /\ <<x>> \in Seq(Nat) /\ <<x, y>> \in Seq(Nat)
           /\ Len(<<x>>) = 1 /\ Len(<<x, y>>) = 2
           /\ Last(<<x>>) = x /\ Last(<<x, y>>) = y
           /\ Append(<<x>>, y) = <<x, y>>
           /\ Front(<<x, y>>) = <<x>>
           /\ {<<x>>[i] : i \in DOMAIN <<x>>} = {x}
           /\ {<<x, y>>[i] : i \in DOMAIN <<x, y>>} = {x, y}
<1>1. /\ <<x>> \in Seq(Nat) /\ <<x, y>> \in Seq(Nat)
      /\ Len(<<x>>) = 1 /\ Len(<<x, y>>) = 2
      /\ DOMAIN <<x>> = {1} /\ DOMAIN <<x, y>> = {1, 2}
      /\ <<x>>[1] = x /\ <<x, y>>[1] = x /\ <<x, y>>[2] = y
  OBVIOUS
<1>2. Append(<<x>>, y) = <<x, y>>
  <2>1. /\ Append(<<x>>, y) \in Seq(Nat) /\ Len(Append(<<x>>, y)) = 2
        /\ Append(<<x>>, y)[1] = x /\ Append(<<x>>, y)[2] = y
    BY <1>1, AppendProperties
  <2>2. \A i \in 1 .. 2 : Append(<<x>>, y)[i] = <<x, y>>[i]
    BY <1>1, <2>1
  <2>. QED
    BY <1>1, <2>1, <2>2, SeqEqual
<1>3. Front(<<x, y>>) = <<x>>
  <2>1. /\ SubSeq(<<x, y>>, 1, 1) \in Seq(Nat)
        /\ Len(SubSeq(<<x, y>>, 1, 1)) = 1 /\ SubSeq(<<x, y>>, 1, 1)[1] = x
    BY <1>1, PartIs
  <2>2. SubSeq(<<x, y>>, 1, 1) = <<x>>
    <3>1. \A i \in 1 .. 1 : SubSeq(<<x, y>>, 1, 1)[i] = <<x>>[i]
      BY <1>1, <2>1
    <3>. QED
      BY <1>1, <2>1, <3>1, SeqEqual
  <2>. QED
    BY <1>1, <2>2 DEF Front
<1>. QED
  BY <1>1, <1>2, <1>3 DEF Last

(* The place of a key, and what is added there.                            *)
LEMMA PositionIs ==
    ASSUME NEW S, NEW keys \in Seq(S), NEW key
    PROVE  Position(keys, key) \in 1 .. Len(keys) + 1
<1> DEFINE P == {i \in DOMAIN keys : key < keys[i]} \cup {Len(keys) + 1}
<1>1. P \subseteq 1 .. Len(keys) + 1 /\ P # {} /\ P \subseteq Nat /\ Len(keys) \in Nat
  BY LenProperties
<1>. HIDE DEF P
<1>2. Min(P) \in P
  BY <1>1, MinIs
<1>. QED
  BY <1>1, <1>2 DEF Position, P

LEMMA PlaceIs ==
    ASSUME NEW es \in Seq(Entries), NEW e \in Entries
    PROVE  Position(KeysOf(es), e.key) \in 1 .. Len(es) + 1
<1>1. KeysOf(es) \in Seq(Keys) /\ Len(KeysOf(es)) = Len(es)
  <2>1. Len(es) \in Nat /\ DOMAIN es = 1 .. Len(es)
    BY LenProperties
  <2>2. \A i \in 1 .. Len(es) : es[i].key \in Keys
    <3>1. \A i \in 1 .. Len(es) : es[i] \in Entries
      BY ElementOfSeq
    <3>. QED
      BY <3>1 DEF Entries
  <2>. QED
    BY <2>1, <2>2 DEF KeysOf
<1>. QED
  BY <1>1, PositionIs

LEMMA AddToLeafIs ==
    ASSUME NEW es \in Seq(Entries), NEW e \in Entries
    PROVE  AddToLeaf(es, e) \in Seq(Entries) /\ Len(AddToLeaf(es, e)) = Len(es) + 1
  BY PlaceIs, InsertAtIs DEF AddToLeaf

-----------------------------------------------------------------------------
(* Nodes and pages.                                                        *)
LEMMA LeafIs ==
    ASSUME NEW leaves, NEW es \in Seq(Entries), Len(es) <= leafOccupancy,
           NEW sibling \in {NoPage} \cup leaves
    PROVE  IsLeaf(Leaf(es, sibling), leaves)
  BY DEF IsLeaf, Leaf

LEMMA InnerIs ==
    ASSUME NEW leaves, NEW keys \in Seq(Keys), NEW pages \in Seq(leaves),
           Len(keys) \in 1 .. nodeOccupancy, Len(pages) = Len(keys) + 1
    PROVE  IsInner(NonLeaf(1, keys, pages), leaves)
  BY DEF IsInner, NonLeaf

LEMMA IsNodeGrows ==
    ASSUME NEW leaves, NEW more, leaves \subseteq more,
           NEW node, IsNode(node, leaves)
    PROVE  IsNode(node, more)
  BY SeqMonotonic DEF IsNode, IsLeaf, IsInner

LEMMA TreeGrows ==
    ASSUME NEW nds, NEW new, TreeOf(nds), LeavesOf(nds) \subseteq LeavesOf(new),
           \A p \in DOMAIN new : \/ p \in DOMAIN nds /\ new[p] = nds[p]
                                 \/ IsNode(new[p], LeavesOf(new))
    PROVE  TreeOf(new)
  BY IsNodeGrows DEF TreeOf

LEMMA AddToNonLeafIs ==
    ASSUME NEW leaves, NEW keys \in Seq(Keys), NEW pages \in Seq(leaves),
           Len(keys) + 1 \in 1 .. nodeOccupancy, Len(pages) = Len(keys) + 1,
           NEW pivot, pivot.pageNo \in leaves, pivot.key \in Keys
    PROVE  /\ IsInner(AddToNonLeaf(NonLeaf(1, keys, pages), pivot), leaves)
           /\ Len(AddToNonLeaf(NonLeaf(1, keys, pages), pivot).keyArray) = Len(keys) + 1
<1> DEFINE i == Position(keys, pivot.key)
           keys2 == InsertAt(keys, i, pivot.key)
           pages2 == InsertAt(pages, i + 1, pivot.pageNo)
<1>1. i \in 1 .. Len(keys) + 1 /\ i + 1 \in 1 .. Len(pages) + 1
  <2>1. i \in 1 .. Len(keys) + 1 /\ Len(keys) \in Nat
    BY PositionIs, LenProperties
  <2>. HIDE DEF i
  <2>. QED
    BY <2>1
<1>. HIDE DEF i
<1>2. keys2 \in Seq(Keys) /\ Len(keys2) = Len(keys) + 1
  BY <1>1, InsertAtIs
<1>3. pages2 \in Seq(leaves) /\ Len(pages2) = Len(pages) + 1
  BY <1>1, InsertAtIs
<1>4. AddToNonLeaf(NonLeaf(1, keys, pages), pivot) = NonLeaf(1, keys2, pages2)
  <2> DEFINE node == NonLeaf(1, keys, pages)
  <2>1. node.keyArray = keys /\ node.pageNoArray = pages
    BY DEF NonLeaf
  <2>2. AddToNonLeaf(node, pivot) =
          [node EXCEPT !.keyArray = InsertAt(@, i, pivot.key),
                       !.pageNoArray = InsertAt(@, i + 1, pivot.pageNo)]
    BY <2>1 DEF AddToNonLeaf, i
  <2>3. AddToNonLeaf(node, pivot) =
          [node EXCEPT !.keyArray = keys2, !.pageNoArray = pages2]
    BY <2>1, <2>2
  <2>. HIDE DEF keys2, pages2
  <2>. QED
    BY <2>3 DEF NonLeaf
<1>. HIDE DEF keys2, pages2
<1>5. IsInner(NonLeaf(1, keys2, pages2), leaves)
  BY <1>2, <1>3, InnerIs
<1>6. NonLeaf(1, keys2, pages2).keyArray = keys2
  BY DEF NonLeaf
<1>. QED
  BY <1>2, <1>4, <1>5, <1>6

(* The table of pages, and the page that a split allocates.                *)
LEMMA GrownIs ==
    ASSUME NEW table, NEW p, p \notin DOMAIN table, NEW x
    PROVE  /\ DOMAIN Grown(table, p, x) = DOMAIN table \cup {p}
           /\ Grown(table, p, x)[p] = x
           /\ \A q \in DOMAIN table : Grown(table, p, x)[q] = table[q]
  BY DEF Grown

LEMMA NewPageIs ==
    ASSUME PagesInv
    PROVE  /\ NewPage \in Nat /\ NewPage \notin DOMAIN pins
           /\ NewPage \notin DOMAIN nodes /\ NewPage # NoPage /\ NewPage # 1
           /\ NewPage - 1 \in DOMAIN nodes
           /\ DOMAIN pins = {1} \cup DOMAIN nodes /\ 1 \notin DOMAIN nodes
           /\ DOMAIN nodes \subseteq Nat \ {0}
           /\ \E n \in Nat \ {0} :
                /\ DOMAIN nodes \cup {NewPage} = 2 .. n + 1
                /\ DOMAIN pins \cup {NewPage} = 1 .. n + 1
<1>1. PICK n \in Nat \ {0} : DOMAIN nodes = 2 .. n + 1 /\ DOMAIN pins = 1 .. n + 1
  BY DEF PagesInv
<1>2. Cardinality(DOMAIN pins) = n + 1
  BY <1>1, FS_Interval
<1>3. NewPage = n + 2
  BY <1>2 DEF NewPage
<1>4. DOMAIN nodes \cup {NewPage} = 2 .. (n + 1) + 1
  BY <1>1, <1>3
<1>5. DOMAIN pins \cup {NewPage} = 1 .. (n + 1) + 1
  BY <1>1, <1>3
<1>6. \E k \in Nat \ {0} :
        /\ DOMAIN nodes \cup {NewPage} = 2 .. k + 1
        /\ DOMAIN pins \cup {NewPage} = 1 .. k + 1
  <2>1. n + 1 \in Nat \ {0}
    OBVIOUS
  <2>. QED
    BY <1>4, <1>5, <2>1
<1>. QED
  BY <1>1, <1>3, <1>6

LEMMA PagesGrow ==
    ASSUME PagesInv, DOMAIN nodes' = DOMAIN nodes \cup {NewPage},
           pins' = Grown(pins, NewPage, 0),
           rootPageNo' = rootPageNo, rootPageNum' = rootPageNum,
           unmarked' \subseteq DOMAIN nodes
    PROVE  PagesInv'
<1>1. DOMAIN pins' = DOMAIN pins \cup {NewPage} /\ pins'[NewPage] = 0
      /\ \A p \in DOMAIN pins : pins'[p] = pins[p]
  <2>1. NewPage \notin DOMAIN pins
    BY NewPageIs
  <2>. QED
    BY <2>1 DEF Grown
<1>2. \A p \in DOMAIN pins' : pins'[p] \in Nat
  BY <1>1 DEF PagesInv
<1>3. \E n \in Nat \ {0} : DOMAIN nodes' = 2 .. n + 1 /\ DOMAIN pins' = 1 .. n + 1
  BY <1>1, NewPageIs
<1>. QED
  BY <1>2, <1>3 DEF PagesInv

(* The new page is not pinned, so it needs no frame.                       *)
LEMMA FrameKept ==
    ASSUME PagesInv, pins' = Grown(pins, NewPage, 0), FreeFrame,
           call'.others = call.others
    PROVE  FreeFrame'
<1>1. DOMAIN pins' = DOMAIN pins \cup {NewPage} /\ pins'[NewPage] = 0
      /\ \A p \in DOMAIN pins : pins'[p] = pins[p]
  <2>1. NewPage \notin DOMAIN pins
    BY NewPageIs
  <2>. QED
    BY <2>1 DEF Grown
<1>2. PinnedPages' = PinnedPages
  BY <1>1 DEF PinnedPages
<1>. QED
  BY <1>2 DEF FreeFrame, FrameBeside

LEMMA FrameGivenBack ==
    ASSUME PagesInv, DOMAIN pins' = DOMAIN pins, FreeFrame,
           \A p \in DOMAIN pins : pins'[p] <= pins[p] /\ pins'[p] \in Nat,
           call'.others = call.others, call.others \in Nat
    PROVE  FreeFrame'
<1>1. PICK n \in Nat \ {0} : DOMAIN pins = 1 .. n + 1
  BY DEF PagesInv
<1>2. IsFiniteSet(PinnedPages)
  <2>1. IsFiniteSet(1 .. n + 1) /\ PinnedPages \subseteq 1 .. n + 1
    BY <1>1, FS_Interval DEF PinnedPages
  <2>. QED
    BY <2>1, FS_Subset
<1>3. PinnedPages' \subseteq PinnedPages
  BY DEF PinnedPages, PagesInv
<1>4. /\ Cardinality(PinnedPages') <= Cardinality(PinnedPages)
      /\ Cardinality(PinnedPages') \in Nat /\ Cardinality(PinnedPages) \in Nat
  BY <1>2, <1>3, FS_Subset, FS_CardinalityType
<1>. QED
  BY <1>4 DEF FreeFrame, FrameBeside

-----------------------------------------------------------------------------
(* What the steps of an insertion have in common.                          *)
LEMMA ScanKept ==
    ASSUME IInv, status = "open", scan' = scan, trail' = "off",
           DOMAIN nodes \subseteq DOMAIN nodes', Leaves \subseteq LeavesOf(nodes')
    PROVE  ScanInv'
<1>1. Leaves' = LeavesOf(nodes')
  BY DEF Leaves, LeavesOf
<1>. QED
  BY <1>1 DEF IInv, ScanInv

(* Pins follow the pages that the call has.                                *)
LEMMA PinsFollow ==
    ASSUME IInv, status = "open", failures' = failures, scan' = scan,
           DOMAIN pins \subseteq DOMAIN pins',
           \A p \in DOMAIN pins' \ DOMAIN pins :
               pins'[p] = 0 /\ p \notin Held(call') /\ p \notin {NoPage} \cup DOMAIN nodes,
           \A p \in DOMAIN pins :
               pins'[p] = IF p \in Held(call') THEN
                             IF p \in Held(call) THEN pins[p] ELSE pins[p] + 1
                          ELSE IF p \in Held(call) THEN pins[p] - 1 ELSE pins[p]
    PROVE  PinsInv' /\ \A p \in DOMAIN pins' : pins'[p] \in Nat
<1>1. \A p \in DOMAIN pins : pins[p] \in Nat
  BY DEF IInv, PagesInv
<1>2. ASSUME NEW p \in DOMAIN pins'
      PROVE  /\ pins'[p] \in Nat
             /\ p \in Held(call') => pins'[p] > 0
             /\ failures = 0 =>
                  pins'[p] = (IF p \in Held(call') THEN 1 ELSE 0)
                             + (IF scan.holds /\ p = scan.page THEN 1 ELSE 0)
  <2>1. CASE p \in DOMAIN pins
    <3>1. /\ p \in Held(call) => pins[p] > 0
          /\ failures = 0 =>
               pins[p] = (IF p \in Held(call) THEN 1 ELSE 0)
                         + (IF scan.holds /\ p = scan.page THEN 1 ELSE 0)
      BY <2>1 DEF IInv, PinsInv
    <3>. QED
      BY <1>1, <2>1, <3>1
  <2>2. CASE p \notin DOMAIN pins
    <3>1. p # scan.page
      BY <2>2 DEF IInv, ScanInv
    <3>. QED
      BY <2>2, <3>1
  <2>. QED
    BY <2>1, <2>2
<1>. QED
  BY <1>2 DEF PinsInv, Held

LEMMA HeldIs ==
    ASSUME NEW c
    PROVE  /\ Held(Idle) = {}
           /\ \A x : c.path = <<x>> /\ c.pc # "finish" => Held(c) = {x}
           /\ \A x : c.path = <<x>> /\ c.pivot = NoPivot => Held(c) = {x}
           /\ \A x, y : c.path = <<x, y>> /\ c.pc # "finish" => Held(c) = {x, y}
           /\ \A x, y : c.path = <<x, y>> /\ c.pivot = NoPivot => Held(c) = {x, y}
           /\ \A x : c.path = <<x>> /\ c.pc = "finish" /\ c.pivot.pageNo # NoPage =>
                Held(c) = {x, c.pivot.pageNo}
<1>1. Held(Idle) = {}
  <2>1. Idle.path = <<>> /\ Idle.pc # "finish" /\ DOMAIN <<>> = {}
    BY DEF Idle
  <2>. QED
    BY <2>1 DEF Held
<1>2. NoPivot.pageNo = NoPage
  BY DEF NoPivot
<1>3. ASSUME NEW x PROVE {<<x>>[i] : i \in DOMAIN <<x>>} = {x}
  <2>1. DOMAIN <<x>> = {1} /\ <<x>>[1] = x
    OBVIOUS
  <2>. QED
    BY <2>1
<1>4. ASSUME NEW x, NEW y PROVE {<<x, y>>[i] : i \in DOMAIN <<x, y>>} = {x, y}
  <2>1. DOMAIN <<x, y>> = {1, 2} /\ <<x, y>>[1] = x /\ <<x, y>>[2] = y
    OBVIOUS
  <2>. QED
    BY <2>1
<1>5. c.pc # "finish" \/ c.pivot = NoPivot => Held(c) = {c.path[i] : i \in DOMAIN c.path}
  BY <1>2 DEF Held
<1>6. c.pc = "finish" /\ c.pivot.pageNo # NoPage =>
        Held(c) = {c.path[i] : i \in DOMAIN c.path} \cup {c.pivot.pageNo}
  BY DEF Held
<1>7. ASSUME NEW x, c.path = <<x>> PROVE {c.path[i] : i \in DOMAIN c.path} = {x}
  BY <1>3, <1>7
<1>8. ASSUME NEW x, NEW y, c.path = <<x, y>>
      PROVE  {c.path[i] : i \in DOMAIN c.path} = {x, y}
  BY <1>4, <1>8
<1>. QED
  BY <1>1, <1>5, <1>6, <1>7, <1>8

LEMMA ObjectKept ==
    ASSUME IInv, call.pc # "idle", status' = status, failures' = failures,
           thrown' = thrown, IsFiniteSet(inserted'), call' \in Calls,
           call'.pc # "idle" => call'.key = call.key
    PROVE  ObjectInv'
  BY DEF IInv, ObjectInv

(* The pages on the path of a call.                                        *)
LEMMA PathIs ==
    ASSUME IInv, call.pc # "idle"
    PROVE  /\ status = "open" /\ rootPageNum \in Nat /\ Leaves \subseteq Nat \ {0}
           /\ \/ \E x \in DOMAIN nodes : call.path = <<x>>
              \/ call.pc \in {"down", "finish"} /\ BelowRoot /\ call.pivot = NoPivot
<1>1. status = "open" /\ call \in Calls
  BY DEF IInv, ObjectInv
<1>2. DOMAIN nodes \subseteq Nat \ {0} /\ rootPageNum \in DOMAIN nodes
  BY NewPageIs DEF IInv, PagesInv
<1>3. Leaves \subseteq Nat \ {0}
  BY <1>2 DEF Leaves, LeavesOf
<1>4. call.pc \in {"down", "up", "reread", "newroot", "newmeta", "finish"}
  BY <1>1 DEF Calls
<1>. QED
  BY <1>1, <1>2, <1>3, <1>4
     DEF IInv, CallInv, DownInv, UpInv, RereadInv, NewRootInv, NewMetaInv,
         FinishInv, AtRoot, AtInnerRoot

LEMMA ReturnTop ==
    ASSUME IInv, call.pc # "idle", NEW x, call.path = <<x>>, NEW pivot,
           ReturnWith(pivot), status' = status, failures' = failures
    PROVE  call' = Idle /\ ObjectInv' /\ Held(call') = {}
<1>1. Len(call.path) = 1
  OBVIOUS
<1>2. call' = Idle /\ inserted' = inserted \cup {Entry} /\ thrown' = thrown
  BY <1>1 DEF ReturnWith
<1>3. IsFiniteSet(inserted')
  BY <1>2, FS_AddElement DEF IInv, ObjectInv
<1>4. Idle \in Calls /\ Idle.pc = "idle"
  BY DEF Idle, Calls, NoPivot, NoSplit, Pivots
<1>. QED
  BY <1>2, <1>3, <1>4, HeldIs, ObjectKept

LEMMA ReturnUp ==
    ASSUME IInv, call.pc # "idle", NEW l \in Leaves,
           call.path = <<rootPageNum, l>>, NEW pivot \in Pivots,
           ReturnWith(pivot), status' = status, failures' = failures
    PROVE  /\ ObjectInv' /\ Held(call') = {rootPageNum} /\ inserted' = inserted
           /\ call'.pc = "up" /\ call'.path = <<rootPageNum>>
           /\ call'.pivot = pivot /\ call'.others = call.others
<1>1. rootPageNum \in Nat /\ l \in Nat
  BY PathIs
<1>2. Len(call.path) = 2 /\ Front(call.path) = <<rootPageNum>>
      /\ <<rootPageNum>> \in Seq(Nat)
  BY <1>1, FirstTwo
<1>3. /\ call' = [call EXCEPT !.pc = "up", !.path = <<rootPageNum>>,
                              !.pivot = pivot, !.split = NoSplit]
      /\ inserted' = inserted /\ thrown' = thrown
  <2>1. call \in Calls
    BY DEF IInv, ObjectInv
  <2>2. /\ call' = [call EXCEPT !.pc = "up", !.path = Front(call.path),
                                !.pivot = pivot, !.split = NoSplit]
        /\ inserted' = inserted /\ thrown' = thrown
    BY <1>2, <2>1 DEF ReturnWith, Calls
  <2>. QED
    BY <1>2, <2>2
<1>4. call' \in Calls /\ call'.key = call.key /\ call'.pc = "up"
      /\ call'.path = <<rootPageNum>> /\ call'.pivot = pivot
      /\ call'.others = call.others
  <2>1. call \in Calls
    BY DEF IInv, ObjectInv
  <2>2. NoSplit \in [curr : Nat, next : Nat, pivot : Pivots]
    BY DEF NoSplit, NoPivot, Pivots
  <2>. QED
    BY <1>2, <1>3, <2>1, <2>2 DEF Calls
<1>5. IsFiniteSet(inserted')
  BY <1>3 DEF IInv, ObjectInv
<1>. QED
  BY <1>3, <1>4, <1>5, HeldIs, ObjectKept

LEMMA ThrowInv ==
    ASSUME IInv, status = "open", failures < MaxFailures, Throw, unmarked = {},
           scan' = scan, trail' = "off"
    PROVE  IInv'
<1>. USE DEF Throw
<1>1. PagesInv' /\ TreeOf(nodes')
  BY DEF IInv, PagesInv
<1>2. Idle \in Calls /\ Idle.pc = "idle"
  BY DEF Idle, Calls, NoPivot, NoSplit, Pivots
<1>3. failures' \in 1 .. MaxFailures
  BY DEF IInv, ObjectInv
<1>4. ObjectInv'
  BY <1>2, <1>3 DEF IInv, ObjectInv
<1>5. CallInv'
  BY <1>2 DEF CallInv, IdleInv, DownInv, UpInv, RereadInv, NewRootInv,
              NewMetaInv, FinishInv
<1>6. PinsInv'
  BY <1>3, HeldIs DEF PinsInv
<1>7. ScanInv'
  BY ScanKept DEF Leaves
<1>. QED
  BY <1>1, <1>4, <1>5, <1>6, <1>7 DEF IInv

(* A step that leaves the tree as it is.                                   *)
LEMMA SameTree ==
    ASSUME IInv, status = "open", nodes' = nodes, rootPageNo' = rootPageNo,
           rootPageNum' = rootPageNum, unmarked' \subseteq DOMAIN nodes,
           DOMAIN pins' = DOMAIN pins, \A p \in DOMAIN pins' : pins'[p] \in Nat,
           scan' = scan, trail' = "off"
    PROVE  PagesInv' /\ TreeOf(nodes)' /\ ScanInv' /\ Leaves' = Leaves
<1>1. PagesInv'
  BY DEF IInv, PagesInv
<1>2. Leaves' = Leaves /\ TreeOf(nodes)'
  BY DEF Leaves, IInv
<1>3. ScanInv'
  BY ScanKept DEF Leaves
<1>. QED
  BY <1>1, <1>2, <1>3

-----------------------------------------------------------------------------
(* The steps of an insertion that change no node.                          *)
LEMMA CallEnds ==
    ASSUME call' = Idle,
           unmarked' # {} => status' = "undefined" /\ \A p \in unmarked' : pins'[p] > 0
    PROVE  CallInv'
<1>1. Idle.pc = "idle"
  BY DEF Idle
<1>. QED
  BY <1>1 DEF CallInv, IdleInv, DownInv, UpInv, RereadInv, NewRootInv,
              NewMetaInv, FinishInv

LEMMA InsertEntryInv ==
    ASSUME IInv, NEW key \in Keys, NEW others \in 0 .. numBufs,
           InsertEntry(key, others), scan' = scan, trail' = "off"
    PROVE  IInv'
<1>1. /\ status = "open" /\ call = Idle /\ failures < MaxFailures
      /\ call.pc = "idle" /\ unmarked = {}
  BY DEF InsertEntry, IInv, CallInv, IdleInv, Idle
<1>2. CASE Throw
  BY <1>1, <1>2, ThrowInv
<1>3. CASE /\ call' = [Idle EXCEPT !.pc = "down", !.key = key,
                          !.rid = Cardinality(inserted) + 1,
                          !.leaf = (rootPageNum = initRootPageNum),
                          !.path = <<rootPageNum>>, !.others = others]
           /\ pins' = [pins EXCEPT ![rootPageNum] = @ + 1]
           /\ thrown' = "none"
           /\ UNCHANGED <<treeVars, objectVars, unmarked, inserted>>
  <2>. USE <1>3 DEF treeVars, objectVars
  <2>1. rootPageNum \in DOMAIN nodes /\ rootPageNum \in DOMAIN pins /\ rootPageNum \in Nat
    BY NewPageIs DEF IInv, PagesInv
  <2>2. Cardinality(inserted) \in Nat
    BY FS_CardinalityType DEF IInv, ObjectInv
  <2>3. /\ call'.pc = "down" /\ call'.pivot = NoPivot /\ call'.key = key
        /\ call'.path = <<rootPageNum>>
        /\ call'.leaf = (rootPageNum = initRootPageNum)
    BY DEF Idle
  <2>4. call' \in Calls
    <3>1. <<rootPageNum>> \in Seq(Nat) /\ key \in Int
      BY <2>1
    <3>2. Idle \in Calls
      BY DEF Idle, Calls, NoSplit, NoPivot, Pivots
    <3>3. (rootPageNum = initRootPageNum) \in BOOLEAN
      OBVIOUS
    <3>4. Cardinality(inserted) + 1 \in Nat
      BY <2>2
    <3>. QED
      BY <3>1, <3>2, <3>3, <3>4 DEF Calls
  <2>5. ObjectInv'
    BY <1>1, <2>3, <2>4 DEF IInv, ObjectInv
  <2>6. Held(call) = {} /\ Held(call') = {rootPageNum}
    BY <1>1, <2>3, HeldIs
  <2>7. PinsInv' /\ \A p \in DOMAIN pins' : pins'[p] \in Nat
    BY <1>1, <2>1, <2>6, PinsFollow
  <2>8. PagesInv' /\ TreeOf(nodes)' /\ ScanInv' /\ Leaves' = Leaves
    BY <1>1, <2>7, SameTree
  <2>9. CallInv'
    BY <1>1, <2>3 DEF CallInv, IdleInv, DownInv, UpInv, RereadInv, NewRootInv,
                      NewMetaInv, FinishInv, AtRoot
  <2>. QED
    BY <2>5, <2>7, <2>8, <2>9 DEF IInv
<1>. QED
  BY <1>2, <1>3 DEF InsertEntry

(* What is not described any more: the pins stay as they are.              *)
LEMMA UndefinedInv ==
    ASSUME IInv, status = "open", status' = "undefined", call' = Idle,
           UNCHANGED <<treeVars, pins, unmarked, failures, thrown, inserted>>,
           call.pc = "idle" \/ \A p \in unmarked : pins[p] > 0,
           scan' = scan, trail' = "off"
    PROVE  IInv'
<1>. USE DEF treeVars
<1>1. \A p \in DOMAIN pins' : pins'[p] \in Nat
  BY DEF IInv, PagesInv
<1>2. unmarked \subseteq DOMAIN nodes
  BY DEF IInv, PagesInv
<1>3. PagesInv' /\ TreeOf(nodes)' /\ ScanInv'
  BY <1>1, <1>2, SameTree
<1>4. Idle \in Calls /\ Idle.pc = "idle"
  BY DEF Idle, Calls, NoPivot, NoSplit, Pivots
<1>5. ObjectInv'
  BY <1>4 DEF IInv, ObjectInv
<1>6. \A p \in unmarked : pins[p] > 0
  BY DEF IInv, CallInv, IdleInv
<1>7. CallInv'
  BY <1>6, CallEnds
<1>8. PinsInv'
  BY HeldIs DEF PinsInv
<1>. QED
  BY <1>3, <1>5, <1>7, <1>8 DEF IInv

(* What a call has changed it has pinned.                                  *)
LEMMA ChangedIsHeld ==
    ASSUME IInv, call.pc # "idle"
    PROVE  /\ unmarked \subseteq Held(call)
           /\ \A p \in Held(call) : p \in DOMAIN pins /\ pins[p] > 0
           /\ Held(call) \subseteq DOMAIN nodes
<1>1. call.pc \in {"down", "up", "reread", "newroot", "newmeta", "finish"}
  BY DEF IInv, ObjectInv, Calls
<1>2. /\ \A x : call.path = <<x>> => x \in Held(call)
      /\ \A x, y : call.path = <<x, y>> => {x, y} \subseteq Held(call)
  <2>1. ASSUME NEW x, call.path = <<x>> PROVE x \in Held(call)
    <3>1. 1 \in DOMAIN call.path /\ call.path[1] = x
      BY <2>1
    <3>. QED
      BY <3>1 DEF Held
  <2>2. ASSUME NEW x, NEW y, call.path = <<x, y>> PROVE {x, y} \subseteq Held(call)
    <3>1. /\ 1 \in DOMAIN call.path /\ call.path[1] = x
          /\ 2 \in DOMAIN call.path /\ call.path[2] = y
      BY <2>2
    <3>. QED
      BY <3>1 DEF Held
  <2>. QED
    BY <2>1, <2>2
<1>3. unmarked \subseteq Held(call)
  <2>1. CASE call.pc \in {"down", "up"}
    BY <2>1 DEF IInv, CallInv, DownInv, UpInv
  <2>2. CASE call.pc \in {"reread", "newroot", "newmeta"}
    BY <1>2, <2>2 DEF IInv, CallInv, RereadInv, NewRootInv, NewMetaInv,
                      AtRoot, AtInnerRoot
  <2>3. CASE call.pc = "finish"
    <3>1. CASE BelowRoot /\ unmarked = {call.path[2]}
      <4>1. PICK l \in Leaves : call.path = <<rootPageNum, l>>
        BY <3>1 DEF BelowRoot
      <4>2. call.path[2] = l
        BY <4>1
      <4>. QED
        BY <1>2, <3>1, <4>1, <4>2
    <3>2. CASE \E x \in DOMAIN nodes : call.path = <<x>> /\ unmarked = {x}
      BY <1>2, <3>2
    <3>. QED
      BY <2>3, <3>1, <3>2 DEF IInv, CallInv, FinishInv
  <2>. QED
    BY <1>1, <2>1, <2>2, <2>3
<1>4. Held(call) \subseteq DOMAIN nodes
  <2>1. rootPageNum \in DOMAIN nodes /\ Leaves \subseteq DOMAIN nodes
    BY DEF IInv, PagesInv, Leaves, LeavesOf
  <2>2. CASE call.pc = "finish" /\ call.pivot # NoPivot
    <3>1. PICK x \in DOMAIN nodes : call.path = <<x>> /\ Up(call.pivot)
      BY <2>2 DEF IInv, CallInv, FinishInv
    <3>2. call.pivot.pageNo \in Leaves /\ call.pivot.pageNo # NoPage
      BY <3>1, PathIs, <1>1 DEF Up
    <3>. QED
      BY <2>1, <2>2, <3>1, <3>2, HeldIs
  <2>3. CASE ~(call.pc = "finish" /\ call.pivot # NoPivot)
    <3>1. CASE \E x \in DOMAIN nodes : call.path = <<x>>
      BY <2>3, <3>1, HeldIs
    <3>2. CASE BelowRoot
      BY <2>1, <2>3, <3>2, HeldIs DEF BelowRoot
    <3>. QED
      BY <1>1, <3>1, <3>2, PathIs
  <2>. QED
    BY <2>2, <2>3
<1>5. DOMAIN nodes \subseteq DOMAIN pins
  BY NewPageIs DEF IInv
<1>. QED
  BY <1>3, <1>4, <1>5 DEF IInv, PinsInv

LEMMA MisreadInv ==
    ASSUME IInv, Misread, scan' = scan, trail' = "off"
    PROVE  IInv'
<1>1. call.pc # "idle" /\ status = "open"
  BY DEF Misread, IInv, ObjectInv
<1>. QED
  BY <1>1, ChangedIsHeld, UndefinedInv DEF Misread

LEMMA OverrunInv ==
    ASSUME IInv, Overrun, scan' = scan, trail' = "off"
    PROVE  IInv'
  BY ChangedIsHeld, UndefinedInv DEF Overrun

LEMMA CurrIs ==
    /\ \A x \in Nat : call.path = <<x>> => curr = x
    /\ \A x \in Nat, y \in Nat : call.path = <<x, y>> => curr = y
<1>1. ASSUME NEW x \in Nat, call.path = <<x>> PROVE curr = x
  <2>1. Last(<<x>>) = x
    BY FirstTwo
  <2>. QED
    BY <1>1, <2>1 DEF curr
<1>2. ASSUME NEW x \in Nat, NEW y \in Nat, call.path = <<x, y>> PROVE curr = y
  <2>1. Last(<<x, y>>) = y
    BY FirstTwo
  <2>. QED
    BY <1>2, <2>1 DEF curr
<1>. QED
  BY <1>1, <1>2

LEMMA KindIs ==
    ASSUME TreeOf(nodes), NEW p \in DOMAIN nodes
    PROVE  /\ p \in Leaves => IsLeaf(nodes[p], Leaves)
           /\ p \notin Leaves => IsInner(nodes[p], Leaves)
           /\ p \in Leaves <=> nodes[p].kind = "leaf"
           /\ p \notin Leaves <=> nodes[p].kind = "nonleaf"
  BY DEF TreeOf, IsNode, IsLeaf, IsInner, Leaves, LeavesOf

LEMMA ChildIs ==
    ASSUME NEW leaves, NEW node, IsInner(node, leaves), NEW key
    PROVE  node.pageNoArray[Position(node.keyArray, key)] \in leaves
<1>1. /\ node.keyArray \in Seq(Keys) /\ node.pageNoArray \in Seq(leaves)
      /\ Len(node.pageNoArray) = Len(node.keyArray) + 1
  BY DEF IsInner
<1>2. Position(node.keyArray, key) \in 1 .. Len(node.pageNoArray)
  BY <1>1, PositionIs
<1>. QED
  BY <1>1, <1>2, ElementOfSeq

LEMMA DescendInv ==
    ASSUME IInv, Descend, scan' = scan, trail' = "off"
    PROVE  IInv'
<1> DEFINE node == nodes[curr]
           next == node.pageNoArray[Position(node.keyArray, call.key)]
<1>1. /\ call.pc = "down" /\ call.pc # "idle" /\ ~call.leaf /\ node.kind = "nonleaf"
      /\ status = "open" /\ failures < MaxFailures
      /\ call.path = <<rootPageNum>> /\ call.pivot = NoPivot /\ unmarked = {}
  BY DEF Descend, AtNonLeaf, IInv, CallInv, DownInv, ObjectInv, AtRoot
<1>2. /\ rootPageNum \in DOMAIN nodes /\ rootPageNum \in Nat
      /\ Leaves \subseteq Nat \ {0} /\ Leaves \subseteq DOMAIN nodes
      /\ DOMAIN nodes \subseteq DOMAIN pins /\ TreeOf(nodes)
  BY <1>1, PathIs, NewPageIs DEF IInv, PagesInv, Leaves, LeavesOf
<1>3. curr = rootPageNum
  BY <1>1, <1>2, CurrIs
<1>4. rootPageNum \notin Leaves /\ IsInner(node, Leaves)
  BY <1>1, <1>2, <1>3, KindIs
<1>5. next \in Leaves /\ next \in Nat /\ node.level = 1
  <2>. HIDE DEF node
  <2>1. next \in Leaves
    BY <1>4, ChildIs
  <2>2. node.level = 1
    BY <1>4 DEF IsInner, NonLeaf
  <2>. QED
    BY <1>2, <2>1, <2>2
<1>. HIDE DEF next
<1>6. CASE Throw
  BY <1>1, <1>6, ThrowInv
<1>7. CASE /\ call' = [call EXCEPT !.path = Append(call.path, next),
                                   !.leaf = (node.level = 1)]
           /\ pins' = [pins EXCEPT ![next] = @ + 1]
           /\ UNCHANGED <<treeVars, objectVars, unmarked, thrown, inserted>>
  <2>. USE <1>7 DEF treeVars, objectVars
  <2>1. /\ Append(call.path, next) = <<rootPageNum, next>>
        /\ <<rootPageNum, next>> \in Seq(Nat)
    <3>1. call.path = <<rootPageNum>>
      BY <1>1
    <3>2. Append(<<rootPageNum>>, next) = <<rootPageNum, next>>
          /\ <<rootPageNum, next>> \in Seq(Nat)
      BY ONLY <1>2, <1>5, FirstTwo
    <3>. QED
      BY ONLY <3>1, <3>2
  <2>2. call \in Calls /\ IsFiniteSet(inserted)
    BY DEF IInv, ObjectInv
  <2>3. /\ call'.pc = "down" /\ call'.pivot = NoPivot /\ call'.key = call.key
        /\ call'.path = <<rootPageNum, next>> /\ call'.leaf = TRUE
    BY <1>1, <1>5, <2>1, <2>2 DEF Calls
  <2>4. call' \in Calls
    BY <1>5, <2>1, <2>2 DEF Calls
  <2>5. ObjectInv'
    BY <1>1, <2>2, <2>3, <2>4, ObjectKept
  <2>6. Held(call) = {rootPageNum} /\ Held(call') = {rootPageNum, next}
    <3>1. Held(call) = {rootPageNum}
      BY <1>1, HeldIs
    <3>2. Held(call') = {rootPageNum, next}
      <4>1. call'.path = <<rootPageNum, next>> /\ call'.pc # "finish"
        BY <2>3
      <4>. QED
        BY ONLY <4>1, HeldIs
    <3>. QED
      BY <3>1, <3>2
  <2>7. PinsInv' /\ \A p \in DOMAIN pins' : pins'[p] \in Nat
    BY <1>1, <1>2, <1>4, <1>5, <2>6, PinsFollow
  <2>8. PagesInv' /\ TreeOf(nodes)' /\ ScanInv' /\ Leaves' = Leaves
    BY <1>1, <1>2, <2>7, SameTree
  <2>9. BelowRoot'
    BY <1>4, <1>5, <2>3, <2>8 DEF BelowRoot
  <2>10. CallInv'
    BY <1>1, <2>3, <2>9 DEF CallInv, IdleInv, DownInv, UpInv, RereadInv, NewRootInv,
                      NewMetaInv, FinishInv
  <2>. QED
    BY <2>5, <2>7, <2>8, <2>10 DEF IInv
<1>. QED
  <2>1. call \in Calls
    BY DEF IInv, ObjectInv
  <2>. QED
    BY <1>6, <1>7, <2>1 DEF Descend, next, Calls

LEMMA NoSplitBelowInv ==
    ASSUME IInv, NoSplitBelow, scan' = scan, trail' = "off"
    PROVE  IInv'
<1>. USE DEF treeVars, objectVars, NoSplitBelow
<1>1. /\ call.pc = "up" /\ call.pc # "idle" /\ status = "open"
      /\ call.path = <<rootPageNum>> /\ unmarked = {}
  BY DEF IInv, CallInv, UpInv, ObjectInv, AtInnerRoot, AtRoot
<1>2. /\ rootPageNum \in DOMAIN nodes /\ rootPageNum \in Nat
      /\ DOMAIN nodes \subseteq DOMAIN pins
  BY <1>1, PathIs, NewPageIs DEF IInv, PagesInv
<1>3. curr = rootPageNum
  BY <1>1, <1>2, CurrIs
<1>4. call' = Idle /\ ObjectInv' /\ Held(call') = {}
  BY <1>1, ReturnTop
<1>5. Held(call) = {rootPageNum}
  BY <1>1, HeldIs
<1>6. PinsInv' /\ \A p \in DOMAIN pins' : pins'[p] \in Nat
  BY <1>1, <1>2, <1>3, <1>4, <1>5, PinsFollow DEF UnPinCurr
<1>7. PagesInv' /\ TreeOf(nodes)' /\ ScanInv'
  BY <1>1, <1>2, <1>6, SameTree DEF UnPinCurr
<1>8. CallInv'
  BY <1>1, <1>4, CallEnds
<1>. QED
  BY <1>4, <1>6, <1>7, <1>8 DEF IInv

LEMMA SplitDoneIs ==
    ASSUME IInv, NEW child \in Nat, NEW next \in Nat, NEW pivot \in Pivots,
           SplitDone(child, next, pivot)
    PROVE  /\ call' \in Calls /\ call'.key = call.key /\ call'.path = call.path
           /\ call'.pivot = call.pivot /\ call'.others = call.others
           /\ call'.split.curr = child /\ call'.split.next = next
           /\ call'.split.pivot = pivot
           /\ call'.pc = IF child = rootPageNum THEN "newroot" ELSE "finish"
  BY DEF IInv, ObjectInv, Calls, SplitDone

LEMMA RereadStepInv ==
    ASSUME IInv, Reread, scan' = scan, trail' = "off"
    PROVE  IInv'
<1> DEFINE child == call.pivot.pageNo
<1>1. /\ call.pc = "reread" /\ call.pc # "idle" /\ status = "open" /\ call \in Calls
      /\ call.path = <<rootPageNum>> /\ rootPageNum \notin Leaves
      /\ unmarked = {rootPageNum} /\ FreeFrame
      /\ Up(call.pivot) /\ Up(call.split.pivot)
  BY DEF Reread, IInv, CallInv, RereadInv, ObjectInv, AtInnerRoot, AtRoot
<1>2. /\ rootPageNum \in DOMAIN nodes /\ rootPageNum \in Nat
      /\ Leaves \subseteq Nat \ {0} /\ Leaves \subseteq DOMAIN nodes
      /\ DOMAIN nodes \subseteq DOMAIN pins
  BY <1>1, PathIs, NewPageIs DEF IInv, PagesInv, Leaves, LeavesOf
<1>3. /\ child \in Leaves /\ child # rootPageNum /\ child \in Nat
      /\ call.split.next \in Nat /\ call.split.pivot \in Pivots
  BY <1>1, <1>2 DEF Up, Calls
<1>4. /\ pins' = [pins EXCEPT ![child] = @ + 1]
      /\ SplitDone(child, call.split.next, call.split.pivot)
      /\ UNCHANGED <<treeVars, objectVars, unmarked, thrown, inserted>>
  BY <1>1 DEF Reread, Room
<1>. USE DEF treeVars, objectVars
<1>5. /\ call' \in Calls /\ call'.key = call.key /\ call'.path = <<rootPageNum>>
      /\ call'.pivot = call.pivot /\ call'.pc = "finish"
  BY <1>1, <1>3, <1>4, SplitDoneIs
<1>6. ObjectInv'
  <2>1. IsFiniteSet(inserted')
    BY <1>4 DEF IInv, ObjectInv
  <2>. QED
    BY <1>1, <1>4, <1>5, <2>1, ObjectKept
<1>7. Held(call) = {rootPageNum} /\ Held(call') = {rootPageNum, child}
  BY <1>1, <1>2, <1>3, <1>5, HeldIs
<1>8. PinsInv' /\ \A p \in DOMAIN pins' : pins'[p] \in Nat
  BY <1>1, <1>2, <1>3, <1>4, <1>7, PinsFollow
<1>9. PagesInv' /\ TreeOf(nodes)' /\ ScanInv' /\ Leaves' = Leaves
  BY <1>1, <1>2, <1>4, <1>8, SameTree
<1>10. FinishInv'
  <2>1. /\ rootPageNum \in DOMAIN nodes' /\ call'.path = <<rootPageNum>>
        /\ unmarked' = {rootPageNum} /\ rootPageNum \notin Leaves' /\ Up(call.pivot)'
    BY <1>1, <1>2, <1>4, <1>5, <1>9 DEF Up
  <2>. QED
    BY <2>1 DEF FinishInv
<1>11. CallInv'
  BY <1>5, <1>10 DEF CallInv, IdleInv, DownInv, UpInv, RereadInv, NewRootInv, NewMetaInv
<1>. QED
  BY <1>6, <1>8, <1>9, <1>11 DEF IInv

LEMMA NewMetaInvariant ==
    ASSUME IInv, NewMeta, scan' = scan, trail' = "off"
    PROVE  IInv'
<1>1. /\ call.pc = "newmeta" /\ call.pc # "idle" /\ status = "open" /\ call \in Calls
      /\ call.path = <<rootPageNum>> /\ call.pivot = NoPivot
      /\ unmarked = {rootPageNum} /\ FreeFrame
  BY DEF NewMeta, IInv, CallInv, NewMetaInv, ObjectInv, AtRoot
<1>2. /\ rootPageNum \in DOMAIN nodes /\ NewPage - 1 \in DOMAIN nodes
  BY NewPageIs DEF IInv, PagesInv
<1>3. /\ rootPageNo' = NewPage - 1 /\ rootPageNum' = NewPage - 1
      /\ call' = [call EXCEPT !.pc = "finish"]
      /\ UNCHANGED <<nodes, initRootPageNum, status, failures, pins, unmarked,
                     thrown, inserted>>
  BY <1>1 DEF NewMeta, Room, objectVars
<1>4. /\ call' \in Calls /\ call'.key = call.key /\ call'.path = <<rootPageNum>>
      /\ call'.pivot = NoPivot /\ call'.pc = "finish"
  BY <1>1, <1>3 DEF Calls
<1>5. ObjectInv'
  <2>1. IsFiniteSet(inserted')
    BY <1>3 DEF IInv, ObjectInv
  <2>. QED
    BY <1>1, <1>3, <1>4, <2>1, ObjectKept
<1>6. Held(call') = Held(call)
  <2>1. Held(call) = {rootPageNum}
    BY <1>1, HeldIs
  <2>2. Held(call') = {rootPageNum}
    BY ONLY <1>4, HeldIs
  <2>. QED
    BY <2>1, <2>2
<1>7. PinsInv'
  BY <1>1, <1>3, <1>6, PinsFollow
<1>8. PagesInv'
  BY <1>2, <1>3 DEF IInv, PagesInv
<1>9. TreeOf(nodes)' /\ ScanInv' /\ Leaves' = Leaves
  BY <1>1, <1>3, ScanKept DEF IInv, Leaves
<1>10. FinishInv'
  BY <1>1, <1>2, <1>3, <1>4 DEF FinishInv
<1>11. CallInv'
  BY <1>4, <1>10 DEF CallInv, IdleInv, DownInv, UpInv, RereadInv, NewRootInv, NewMetaInv
<1>. QED
  BY <1>5, <1>7, <1>8, <1>9, <1>11 DEF IInv

(* A call that has split the leaf below an inner root goes on with the     *)
(* root; any other call that finishes has come to its end.                 *)
LEMMA FinishStepInv ==
    ASSUME IInv, Finish, scan' = scan, trail' = "off"
    PROVE  IInv'
<1>. USE DEF treeVars, objectVars, Finish
<1>1. /\ call.pc = "finish" /\ call.pc # "idle" /\ status = "open" /\ call \in Calls
  BY DEF IInv, ObjectInv
<1>2. /\ rootPageNum \in DOMAIN nodes /\ rootPageNum \in Nat
      /\ Leaves \subseteq Nat \ {0} /\ Leaves \subseteq DOMAIN nodes
      /\ DOMAIN nodes \subseteq DOMAIN pins /\ DOMAIN nodes \subseteq Nat \ {0}
      /\ 0 \notin DOMAIN pins
  BY <1>1, PathIs, NewPageIs DEF IInv, PagesInv, Leaves, LeavesOf
<1>3. CASE /\ BelowRoot /\ unmarked = {call.path[2]}
           /\ call.pivot = NoPivot /\ Up(call.split.pivot) /\ FreeFrame
  <2>1. PICK l \in Leaves : call.path = <<rootPageNum, l>>
    BY <1>3 DEF BelowRoot
  <2>2. curr = l /\ unmarked = {l} /\ rootPageNum \notin Leaves /\ l \in Nat
    BY <1>2, <1>3, <2>1, CurrIs DEF BelowRoot
  <2>3. /\ ObjectInv' /\ Held(call') = {rootPageNum} /\ inserted' = inserted
        /\ call'.pc = "up" /\ call'.path = <<rootPageNum>>
        /\ call'.pivot = call.split.pivot /\ call'.others = call.others
    <3>1. call.split.pivot \in Pivots
      BY <1>1 DEF Calls
    <3>. QED
      BY <1>1, <2>1, <3>1, ReturnUp
  <2>4. Held(call) = {rootPageNum, l}
    BY <1>3, <2>1, HeldIs
  <2>5. \A p \in DOMAIN pins : pins'[p] = IF p = l THEN pins[p] - 1 ELSE pins[p]
    BY <1>2, <1>3, <2>2 DEF NoPivot
  <2>6. PinsInv' /\ \A p \in DOMAIN pins' : pins'[p] \in Nat
    BY <1>1, <1>2, <2>2, <2>3, <2>4, <2>5, PinsFollow
  <2>7. unmarked' = {}
    BY <2>2
  <2>8. PagesInv' /\ TreeOf(nodes)' /\ ScanInv' /\ Leaves' = Leaves
    BY <1>1, <1>2, <2>6, <2>7, SameTree
  <2>9. FreeFrame'
    <3>1. /\ DOMAIN pins' = DOMAIN pins
          /\ \A p \in DOMAIN pins : pins[p] \in Nat /\ pins'[p] \in Nat
      BY <2>6 DEF IInv, PagesInv
    <3>2. \A p \in DOMAIN pins : pins'[p] <= pins[p]
      BY <2>5, <3>1
    <3>3. call.others \in Nat
      BY <1>1 DEF Calls
    <3>. QED
      BY <1>3, <2>3, <3>1, <3>2, <3>3, FrameGivenBack DEF IInv
  <2>10. UpInv'
    BY <1>3, <2>2, <2>3, <2>7, <2>8, <2>9 DEF UpInv, AtInnerRoot, AtRoot, Up
  <2>11. CallInv'
    BY <2>3, <2>10 DEF CallInv, IdleInv, DownInv, RereadInv, NewRootInv, NewMetaInv,
                       FinishInv
  <2>. QED
    BY <2>3, <2>6, <2>8, <2>11 DEF IInv
<1>4. CASE \E x \in DOMAIN nodes :
             /\ call.path = <<x>> /\ unmarked = {x}
             /\ call.pivot = NoPivot \/ (x \notin Leaves /\ Up(call.pivot))
  <2>1. PICK x \in DOMAIN nodes :
             /\ call.path = <<x>> /\ unmarked = {x}
             /\ call.pivot = NoPivot \/ (x \notin Leaves /\ Up(call.pivot))
    BY <1>4
  <2>2. curr = x /\ x \in Nat /\ x \in DOMAIN pins
    BY <1>2, <2>1, CurrIs
  <2>3. call' = Idle /\ ObjectInv' /\ Held(call') = {}
    BY <1>1, <2>1, ReturnTop
  <2>4. \A p \in DOMAIN pins : p \in Held(call) <=> p = x \/ p = call.pivot.pageNo
    <3>1. CASE call.pivot = NoPivot
      <4>1. Held(call) = {x}
        BY <2>1, <3>1, HeldIs
      <4>2. call.pivot.pageNo = 0
        BY <3>1 DEF NoPivot
      <4>. QED
        BY <1>2, <4>1, <4>2
    <3>2. CASE Up(call.pivot)
      <4>1. call.pivot.pageNo # NoPage
        BY <1>2, <3>2 DEF Up
      <4>2. Held(call) = {x, call.pivot.pageNo}
        BY <1>1, <2>1, <4>1, HeldIs
      <4>. QED
        BY <4>2
    <3>. QED
      BY <2>1, <3>1, <3>2
  <2>5. PinsInv' /\ \A p \in DOMAIN pins' : pins'[p] \in Nat
    BY <1>1, <2>2, <2>3, <2>4, PinsFollow
  <2>6. unmarked' = {}
    BY <2>1, <2>2
  <2>7. PagesInv' /\ TreeOf(nodes)' /\ ScanInv'
    BY <1>1, <1>2, <2>5, <2>6, SameTree
  <2>8. CallInv'
    BY <2>3, <2>6, CallEnds
  <2>. QED
    BY <2>3, <2>5, <2>7, <2>8 DEF IInv
<1>. QED
  BY <1>1, <1>3, <1>4 DEF IInv, CallInv, FinishInv

-----------------------------------------------------------------------------
(* The steps that change one node.                                         *)

(* A node in the place of one of its kind.                                 *)
LEMMA ReplaceNode ==
    ASSUME IInv, status = "open", NEW p \in DOMAIN nodes, NEW x,
           nodes' = [nodes EXCEPT ![p] = x], x.kind = nodes[p].kind,
           IsNode(x, Leaves), rootPageNo' = rootPageNo, rootPageNum' = rootPageNum,
           unmarked' \subseteq DOMAIN nodes, DOMAIN pins' = DOMAIN pins,
           \A q \in DOMAIN pins' : pins'[q] \in Nat,
           scan' = scan, trail' = "off"
    PROVE  PagesInv' /\ TreeOf(nodes)' /\ ScanInv' /\ Leaves' = Leaves
<1>1. LeavesOf(nodes') = Leaves /\ Leaves' = Leaves /\ DOMAIN nodes' = DOMAIN nodes
  BY DEF Leaves, LeavesOf
<1>2. TreeOf(nodes')
  <2>1. \A q \in DOMAIN nodes' : nodes'[q] = nodes[q] \/ IsNode(nodes'[q], LeavesOf(nodes'))
    BY <1>1
  <2>. QED
    BY <1>1, <2>1, TreeGrows DEF IInv, Leaves
<1>3. PagesInv'
  BY <1>1 DEF IInv, PagesInv
<1>4. ScanInv'
  BY <1>1, ScanKept
<1>. QED
  BY <1>1, <1>2, <1>3, <1>4

LEMMA EntryIs ==
    ASSUME IInv, call.pc # "idle"
    PROVE  Entry \in Entries
  BY DEF Entry, Entries, IInv, ObjectInv, Calls

(* AtLeaf: the path of a call that has come to a leaf.                     *)
LEMMA AtLeafIs ==
    ASSUME IInv, AtLeaf
    PROVE  /\ call.pc = "down" /\ call.pc # "idle" /\ status = "open"
           /\ failures < MaxFailures /\ call.pivot = NoPivot /\ unmarked = {}
           /\ curr \in Leaves /\ curr \in DOMAIN nodes /\ curr \in Nat /\ curr # NoPage
           /\ IsLeaf(nodes[curr], Leaves)
           /\ \/ /\ call.path = <<curr>> /\ curr = rootPageNum
                 /\ rootPageNum = initRootPageNum
              \/ call.path = <<rootPageNum, curr>> /\ rootPageNum \notin Leaves
<1>1. /\ call.pc = "down" /\ call.pc # "idle" /\ status = "open"
      /\ failures < MaxFailures /\ call.pivot = NoPivot /\ unmarked = {}
      /\ call.leaf /\ nodes[curr].kind = "leaf"
      /\ (AtRoot /\ rootPageNum = initRootPageNum) \/ BelowRoot
  BY DEF AtLeaf, IInv, CallInv, DownInv, ObjectInv
<1>2. /\ rootPageNum \in DOMAIN nodes /\ rootPageNum \in Nat
      /\ Leaves \subseteq Nat \ {0} /\ Leaves \subseteq DOMAIN nodes
      /\ TreeOf(nodes)
  BY <1>1, PathIs DEF IInv, PagesInv, Leaves, LeavesOf
<1>3. CASE AtRoot /\ rootPageNum = initRootPageNum
  <2>1. call.path = <<rootPageNum>> /\ curr = rootPageNum
    BY <1>2, <1>3, CurrIs DEF AtRoot
  <2>. QED
    BY <1>1, <1>2, <1>3, <2>1, KindIs
<1>4. CASE BelowRoot
  <2>1. PICK l \in Leaves : call.path = <<rootPageNum, l>> /\ rootPageNum \notin Leaves
    BY <1>4 DEF BelowRoot
  <2>2. curr = l
    BY <1>2, <2>1, CurrIs
  <2>. QED
    BY <1>1, <1>2, <2>1, <2>2, KindIs
<1>. QED
  BY <1>1, <1>3, <1>4

LEMMA LeafAddInv ==
    ASSUME IInv, LeafAdd, scan' = scan, trail' = "off"
    PROVE  IInv'
<1>. USE DEF objectVars
<1>1. /\ call.pc = "down" /\ call.pc # "idle" /\ status = "open" /\ unmarked = {}
      /\ curr \in Leaves /\ curr \in DOMAIN nodes /\ curr \in Nat
      /\ IsLeaf(nodes[curr], Leaves) /\ call.pivot = NoPivot
      /\ \/ call.path = <<curr>> /\ curr = rootPageNum
         \/ call.path = <<rootPageNum, curr>> /\ rootPageNum \notin Leaves
  BY AtLeafIs DEF LeafAdd
<1>2. DOMAIN nodes \subseteq DOMAIN pins
  BY NewPageIs DEF IInv
<1> DEFINE es == AddToLeaf(nodes[curr].entries, Entry)
           x == [nodes[curr] EXCEPT !.entries = es]
<1>3. es \in Seq(Entries) /\ Len(es) <= leafOccupancy
  <2>1. nodes[curr].entries \in Seq(Entries) /\ Len(nodes[curr].entries) < leafOccupancy
    BY <1>1 DEF IsLeaf, LeafAdd
  <2>2. Len(nodes[curr].entries) \in Nat /\ leafOccupancy \in Nat
    BY <2>1, LenProperties, Halves
  <2>3. es \in Seq(Entries) /\ Len(es) = Len(nodes[curr].entries) + 1
    BY <1>1, <2>1, EntryIs, AddToLeafIs
  <2>. HIDE DEF es
  <2>. QED
    BY <2>1, <2>2, <2>3
<1>4. x = Leaf(es, nodes[curr].rightSibPageNo)
  <2>1. nodes[curr] = Leaf(nodes[curr].entries, nodes[curr].rightSibPageNo)
    BY <1>1 DEF IsLeaf
  <2>. HIDE DEF es
  <2>. QED
    BY <2>1 DEF Leaf
<1>5. nodes' = [nodes EXCEPT ![curr] = x]
  BY <1>1 DEF LeafAdd
<1>. HIDE DEF es
<1>6. IsNode(x, Leaves) /\ x.kind = nodes[curr].kind
  <2>. HIDE DEF x
  <2>1. nodes[curr].rightSibPageNo \in {NoPage} \cup Leaves /\ nodes[curr].kind = "leaf"
    BY <1>1 DEF IsLeaf
  <2>2. IsLeaf(x, Leaves)
    BY <1>3, <1>4, <2>1, LeafIs
  <2>. QED
    BY <2>1, <2>2 DEF IsNode, IsLeaf
<1>. HIDE DEF x
<1>7. /\ pins' = [pins EXCEPT ![curr] = @ - 1] /\ ReturnWith(NoPivot)
      /\ UNCHANGED <<rootPageNo, rootPageNum, initRootPageNum, status, failures, unmarked>>
  BY DEF LeafAdd, UnPinCurr
<1>8. /\ ObjectInv' /\ curr \in Held(call) /\ Held(call') = Held(call) \ {curr}
      /\ Leaves' = Leaves => CallInv'
  <2>1. CASE call.path = <<curr>>
    <3>1. call' = Idle /\ ObjectInv' /\ Held(call') = {}
      BY <1>1, <1>7, <2>1, ReturnTop
    <3>2. Held(call) = {curr}
      BY <1>1, <2>1, HeldIs
    <3>3. CallInv'
      BY <1>1, <1>7, <3>1, CallEnds
    <3>. QED
      BY <3>1, <3>2, <3>3
  <2>2. CASE call.path = <<rootPageNum, curr>> /\ rootPageNum \notin Leaves
    <3>1. /\ ObjectInv' /\ Held(call') = {rootPageNum}
          /\ call'.pc = "up" /\ call'.path = <<rootPageNum>> /\ call'.pivot = NoPivot
      <4>1. NoPivot \in Pivots
        BY DEF NoPivot, Pivots
      <4>. QED
        BY <1>1, <1>7, <2>2, <4>1, ReturnUp
    <3>2. Held(call) = {rootPageNum, curr} /\ curr # rootPageNum
      BY <1>1, <2>2, HeldIs
    <3>3. Leaves' = Leaves => UpInv'
      BY <1>1, <1>7, <2>2, <3>1 DEF UpInv, AtInnerRoot, AtRoot
    <3>4. Leaves' = Leaves => CallInv'
      BY <3>1, <3>3 DEF CallInv, IdleInv, DownInv, RereadInv, NewRootInv,
                        NewMetaInv, FinishInv
    <3>. QED
      BY <3>1, <3>2, <3>4
  <2>. QED
    BY <1>1, <2>1, <2>2
<1>9. PinsInv' /\ \A p \in DOMAIN pins' : pins'[p] \in Nat
  BY <1>1, <1>2, <1>7, <1>8, PinsFollow
<1>10. PagesInv' /\ TreeOf(nodes)' /\ ScanInv' /\ Leaves' = Leaves
  BY <1>1, <1>5, <1>6, <1>7, <1>9, ReplaceNode
<1>. QED
  BY <1>8, <1>9, <1>10 DEF IInv

(* An inner node, with room or without, that a pivot comes up to.          *)
LEMMA UpIs ==
    ASSUME IInv, call.pc = "up", call.pivot # NoPivot
    PROVE  /\ call.pc # "idle" /\ status = "open" /\ failures < MaxFailures
           /\ call.path = <<rootPageNum>> /\ curr = rootPageNum /\ unmarked = {}
           /\ Up(call.pivot) /\ FreeFrame
           /\ curr \notin Leaves /\ curr \in DOMAIN nodes
           /\ curr \in Nat /\ IsInner(nodes[curr], Leaves)
<1>1. /\ call.pc # "idle" /\ status = "open" /\ failures < MaxFailures
      /\ call.path = <<rootPageNum>> /\ rootPageNum \notin Leaves /\ unmarked = {}
      /\ Up(call.pivot) /\ FreeFrame
  BY DEF IInv, CallInv, UpInv, ObjectInv, AtInnerRoot, AtRoot
<1>2. rootPageNum \in DOMAIN nodes /\ rootPageNum \in Nat /\ TreeOf(nodes)
  BY <1>1, PathIs DEF IInv, PagesInv
<1>3. curr = rootPageNum
  BY <1>1, <1>2, CurrIs
<1>. QED
  BY <1>1, <1>2, <1>3, KindIs

LEMMA AddPivotInv ==
    ASSUME IInv, AddPivot, scan' = scan, trail' = "off"
    PROVE  IInv'
<1>. USE DEF objectVars
<1>1. /\ call.pc = "up" /\ call.pivot # NoPivot /\ Len(nodes[curr].keyArray) < nodeOccupancy
      /\ nodes' = [nodes EXCEPT ![curr] = AddToNonLeaf(nodes[curr], call.pivot)]
      /\ pins' = [pins EXCEPT ![curr] = @ - 1] /\ ReturnWith(NoPivot)
      /\ UNCHANGED <<rootPageNo, rootPageNum, initRootPageNum, status, failures, unmarked>>
  BY DEF AddPivot, UnPinCurr
<1>2. /\ call.pc # "idle" /\ status = "open"
      /\ call.path = <<curr>> /\ unmarked = {} /\ Up(call.pivot)
      /\ curr \in DOMAIN nodes /\ curr \in Nat /\ IsInner(nodes[curr], Leaves)
  BY <1>1, UpIs
<1>3. DOMAIN nodes \subseteq DOMAIN pins
  BY NewPageIs DEF IInv
<1> DEFINE x == AddToNonLeaf(nodes[curr], call.pivot)
<1>4. IsInner(x, Leaves)
  <2> DEFINE keys == nodes[curr].keyArray
             pages == nodes[curr].pageNoArray
  <2>1. /\ keys \in Seq(Keys) /\ Len(keys) \in 1 .. nodeOccupancy
        /\ pages \in Seq(Leaves) /\ Len(pages) = Len(keys) + 1
        /\ nodes[curr] = NonLeaf(1, keys, pages)
    BY <1>2 DEF IsInner
  <2>2. Len(keys) + 1 \in 1 .. nodeOccupancy
    BY <1>1, <2>1, Halves
  <2>. HIDE DEF keys, pages
  <2>. QED
    BY <1>2, <2>1, <2>2, AddToNonLeafIs DEF Up
<1>. HIDE DEF x
<1>5. IsNode(x, Leaves) /\ x.kind = nodes[curr].kind
  BY <1>2, <1>4 DEF IsNode, IsInner
<1>6. call' = Idle /\ ObjectInv' /\ Held(call') = {}
  BY <1>1, <1>2, ReturnTop
<1>7. Held(call) = {curr}
  BY <1>1, <1>2, HeldIs
<1>8. CallInv'
  BY <1>1, <1>2, <1>6, CallEnds
<1>9. PinsInv' /\ \A p \in DOMAIN pins' : pins'[p] \in Nat
  BY <1>1, <1>2, <1>3, <1>6, <1>7, PinsFollow
<1>10. nodes' = [nodes EXCEPT ![curr] = x]
  BY <1>1 DEF x
<1>11. PagesInv' /\ TreeOf(nodes)' /\ ScanInv' /\ Leaves' = Leaves
  BY <1>1, <1>2, <1>5, <1>9, <1>10, ReplaceNode
<1>. QED
  BY <1>6, <1>8, <1>9, <1>11 DEF IInv

-----------------------------------------------------------------------------
(* The steps that allocate a page.                                         *)

(* A node that is replaced by one of its kind, and one on the new page.    *)
LEMMA SplitNode ==
    ASSUME IInv, status = "open", NEW p \in DOMAIN nodes, NEW x, NEW y,
           NEW leaves, leaves = Leaves \cup (IF y.kind = "leaf" THEN {NewPage} ELSE {}),
           nodes' = Grown([nodes EXCEPT ![p] = x], NewPage, y),
           x.kind = nodes[p].kind, IsNode(x, leaves), IsNode(y, leaves),
           pins' = Grown(pins, NewPage, 0),
           rootPageNo' = rootPageNo, rootPageNum' = rootPageNum,
           failures' = failures, Held(call') = Held(call), call.pc # "idle",
           unmarked' \subseteq DOMAIN nodes, scan' = scan, trail' = "off"
    PROVE  /\ PagesInv' /\ TreeOf(nodes)' /\ ScanInv' /\ PinsInv'
           /\ Leaves' = leaves /\ Leaves \subseteq leaves
<1>1. /\ NewPage \notin DOMAIN nodes /\ NewPage \notin DOMAIN pins
      /\ NewPage # NoPage /\ DOMAIN nodes \subseteq DOMAIN pins
  BY NewPageIs DEF IInv
<1>2. /\ DOMAIN nodes' = DOMAIN nodes \cup {NewPage} /\ nodes'[NewPage] = y
      /\ nodes'[p] = x /\ \A q \in DOMAIN nodes \ {p} : nodes'[q] = nodes[q]
  BY <1>1 DEF Grown
<1>3. Leaves' = leaves /\ LeavesOf(nodes') = leaves /\ LeavesOf(nodes) \subseteq leaves
      /\ LeavesOf(nodes) = Leaves
  <2>1. LeavesOf(nodes) = Leaves /\ Leaves' = LeavesOf(nodes')
    BY DEF Leaves, LeavesOf
  <2>2. y.kind = "leaf" \/ y.kind = "nonleaf"
    BY DEF IsNode, IsLeaf, IsInner
  <2>3. \A q \in DOMAIN nodes : nodes'[q].kind = nodes[q].kind
    BY <1>2
  <2>4. LeavesOf(nodes') = LeavesOf(nodes)
                             \cup (IF y.kind = "leaf" THEN {NewPage} ELSE {})
    BY <1>2, <2>2, <2>3 DEF LeavesOf
  <2>. QED
    BY <2>1, <2>4
<1>4. TreeOf(nodes')
  <2>1. \A q \in DOMAIN nodes' : \/ q \in DOMAIN nodes /\ nodes'[q] = nodes[q]
                                 \/ IsNode(nodes'[q], LeavesOf(nodes'))
    BY <1>2, <1>3
  <2>. QED
    BY <1>3, <2>1, TreeGrows DEF IInv
<1>5. PagesInv'
  BY <1>2, PagesGrow DEF IInv
<1>6. ScanInv'
  BY <1>2, <1>3, ScanKept
<1>7. DOMAIN pins' = DOMAIN pins \cup {NewPage} /\ pins'[NewPage] = 0
      /\ \A q \in DOMAIN pins : pins'[q] = pins[q]
  BY <1>1 DEF Grown
<1>8. NewPage \notin Held(call')
  BY <1>1, ChangedIsHeld
<1>9. PinsInv'
  BY <1>1, <1>7, <1>8, PinsFollow
<1>. QED
  BY <1>3, <1>4, <1>5, <1>6, <1>9

(* A full leaf in two halves, one of which takes the entry.                *)
LEMMA LeafHalves ==
    ASSUME NEW es \in Seq(Entries), Len(es) = leafOccupancy, NEW e \in Entries,
           NEW goesRight \in BOOLEAN
    PROVE  LET splitIndex == (leafOccupancy + 1) \div 2
               lower == SubSeq(es, 1, leafOccupancy - splitIndex)
               upper == UpperHalf(es)
               right == IF goesRight THEN AddToLeaf(upper, e) ELSE upper
               left == IF goesRight THEN lower ELSE AddToLeaf(lower, e)
           IN  /\ left \in Seq(Entries) /\ Len(left) <= leafOccupancy
               /\ right \in Seq(Entries) /\ Len(right) <= leafOccupancy
               /\ right[1] \in Entries
<1> DEFINE splitIndex == (leafOccupancy + 1) \div 2
           lower == SubSeq(es, 1, leafOccupancy - splitIndex)
           upper == UpperHalf(es)
           right == IF goesRight THEN AddToLeaf(upper, e) ELSE upper
           left == IF goesRight THEN lower ELSE AddToLeaf(lower, e)
<1>1. PICK h \in Nat : /\ h >= 1 /\ leafOccupancy = 2 * h
                       /\ (leafOccupancy + 1) \div 2 = h
  BY Halves
<1>2. lower \in Seq(Entries) /\ Len(lower) = h
  <2>1. splitIndex = h /\ leafOccupancy - splitIndex = h
    BY <1>1
  <2>2. SubSeq(es, 1, h) \in Seq(Entries) /\ Len(SubSeq(es, 1, h)) = h - 1 + 1
    BY <1>1, PartIs
  <2>. QED
    BY <1>1, <2>1, <2>2
<1>3. upper \in Seq(Entries) /\ Len(upper) = h
  <2>1. upper = SubSeq(es, h + 1, 2 * h)
    BY <1>1 DEF UpperHalf
  <2>2. /\ SubSeq(es, h + 1, 2 * h) \in Seq(Entries)
        /\ Len(SubSeq(es, h + 1, 2 * h)) = 2 * h - (h + 1) + 1
    BY <1>1, PartIs
  <2>. QED
    BY <1>1, <2>1, <2>2
<1>. HIDE DEF lower, upper
<1>4. /\ AddToLeaf(lower, e) \in Seq(Entries) /\ Len(AddToLeaf(lower, e)) = h + 1
      /\ AddToLeaf(upper, e) \in Seq(Entries) /\ Len(AddToLeaf(upper, e)) = h + 1
  BY <1>2, <1>3, AddToLeafIs
<1>5. /\ left \in Seq(Entries) /\ Len(left) \in {h, h + 1}
      /\ right \in Seq(Entries) /\ Len(right) \in {h, h + 1}
  BY <1>2, <1>3, <1>4
<1>. HIDE DEF left, right
<1>6. 1 \in 1 .. Len(right)
  BY <1>1, <1>5
<1>7. right[1] \in Entries
  BY <1>5, <1>6, ElementOfSeq
<1>8. Len(left) <= leafOccupancy /\ Len(right) <= leafOccupancy
  BY <1>1, <1>5
<1>. QED
  BY <1>5, <1>7, <1>8 DEF left, right, lower, upper

LEMMA LeafSplitInv ==
    ASSUME IInv, LeafSplit, scan' = scan, trail' = "off"
    PROVE  IInv'
<1> DEFINE es == nodes[curr].entries
           splitIndex == (leafOccupancy + 1) \div 2
           lower == SubSeq(es, 1, leafOccupancy - splitIndex)
           upper == UpperHalf(es)
           goesRight == call.key > es[splitIndex].key
           right == IF goesRight THEN AddToLeaf(upper, Entry) ELSE upper
           left == IF goesRight THEN lower ELSE AddToLeaf(lower, Entry)
           next == NewPage
           x == Leaf(left, next)
           y == Leaf(right, nodes[curr].rightSibPageNo)
           pivot == [pageNo |-> next, key |-> right[1].key]
           leaves == Leaves \cup {next}
<1>1. /\ call.pc = "down" /\ call.pc # "idle" /\ status = "open"
      /\ failures < MaxFailures /\ call.pivot = NoPivot /\ unmarked = {}
      /\ curr \in Leaves /\ curr \in DOMAIN nodes /\ curr \in Nat /\ curr # NoPage
      /\ IsLeaf(nodes[curr], Leaves)
      /\ \/ /\ call.path = <<curr>> /\ curr = rootPageNum
            /\ rootPageNum = initRootPageNum
         \/ call.path = <<rootPageNum, curr>> /\ rootPageNum \notin Leaves
  BY AtLeafIs DEF LeafSplit
<1>2. CASE ~FreeFrame
  BY <1>1, <1>2, ThrowInv DEF LeafSplit
<1>3. CASE FreeFrame
  <2>1. /\ nodes' = Grown([nodes EXCEPT ![curr] = x], NewPage, y)
        /\ pins' = Grown(pins, NewPage, 0)
        /\ unmarked' = unmarked \cup {curr}
        /\ SplitDone(curr, next, pivot)
        /\ UNCHANGED <<rootPageNo, rootPageNum, initRootPageNum, status, failures,
                       thrown, inserted>>
    BY <1>3 DEF LeafSplit, objectVars
  <2>2. /\ left \in Seq(Entries) /\ Len(left) <= leafOccupancy
        /\ right \in Seq(Entries) /\ Len(right) <= leafOccupancy
        /\ right[1] \in Entries
    <3>1. es \in Seq(Entries) /\ Len(es) = leafOccupancy
      <4>1. es \in Seq(Entries) /\ Len(es) <= leafOccupancy /\ Len(es) >= leafOccupancy
        BY <1>1 DEF IsLeaf, LeafSplit
      <4>2. Len(es) \in Nat /\ leafOccupancy \in Nat
        BY <4>1, LenProperties, Halves
      <4>. QED
        BY <4>1, <4>2
    <3>2. Entry \in Entries /\ goesRight \in BOOLEAN
      BY <1>1, EntryIs
    <3>. HIDE DEF goesRight, es
    <3>. QED
      BY <3>1, <3>2, LeafHalves
  <2>. HIDE DEF left, right
  <2>3. next \in Nat /\ next # NoPage /\ next \notin DOMAIN nodes
    BY NewPageIs DEF IInv
  <2>4. pivot \in Pivots /\ pivot.key \in Keys
    BY <2>2, <2>3 DEF Pivots, Entries
  <2>5. IsNode(x, leaves) /\ IsNode(y, leaves) /\ x.kind = nodes[curr].kind /\ y.kind = "leaf"
    <3>1. nodes[curr].rightSibPageNo \in {NoPage} \cup leaves /\ nodes[curr].kind = "leaf"
      BY <1>1 DEF IsLeaf
    <3>2. IsLeaf(x, leaves)
      BY <2>2, LeafIs
    <3>3. IsLeaf(y, leaves)
      <4>. HIDE DEF leaves
      <4>. QED
        BY <2>2, <3>1, LeafIs
    <3>. HIDE DEF leaves, x, y
    <3>4. x.kind = "leaf" /\ y.kind = "leaf"
      BY <3>2, <3>3 DEF IsLeaf
    <3>. QED
      BY <3>1, <3>2, <3>3, <3>4 DEF IsNode
  <2>. HIDE DEF x, y, pivot
  <2>6. /\ call' \in Calls /\ call'.key = call.key /\ call'.path = call.path
        /\ call'.pivot = NoPivot /\ call'.others = call.others
        /\ call'.split.curr = curr /\ call'.split.next = next
        /\ call'.split.pivot = pivot
        /\ call'.pc = IF curr = rootPageNum THEN "newroot" ELSE "finish"
    BY <1>1, <2>1, <2>3, <2>4, SplitDoneIs
  <2>7. ObjectInv'
    <3>1. IsFiniteSet(inserted')
      BY <2>1 DEF IInv, ObjectInv
    <3>. QED
      BY <1>1, <2>1, <2>6, <3>1, ObjectKept
  <2>8. Held(call') = Held(call)
    <3>1. \A z : call.path = <<z>> => Held(call) = {z} /\ Held(call') = {z}
      BY <1>1, <2>6, HeldIs
    <3>2. \A z, w : call.path = <<z, w>> => Held(call) = {z, w} /\ Held(call') = {z, w}
      BY <1>1, <2>6, HeldIs
    <3>3. call.path = <<curr>> \/ call.path = <<rootPageNum, curr>>
      BY <1>1
    <3>. QED
      BY ONLY <3>1, <3>2, <3>3
  <2>9. unmarked' = {curr} /\ unmarked' \subseteq DOMAIN nodes
    BY <1>1, <2>1
  <2>10. /\ PagesInv' /\ TreeOf(nodes)' /\ ScanInv' /\ PinsInv'
         /\ Leaves' = leaves /\ Leaves \subseteq leaves
    <3>1. leaves = Leaves \cup (IF y.kind = "leaf" THEN {NewPage} ELSE {})
      BY <2>5
    <3>. HIDE DEF leaves
    <3>. QED
      BY <1>1, <2>1, <2>5, <2>8, <2>9, <3>1, SplitNode
  <2>11. CallInv'
    <3>1. CASE curr = rootPageNum
      <4>1. FreeFrame'
        BY <1>3, <2>1, <2>6, FrameKept DEF IInv
      <4>2. call.path = <<curr>> /\ rootPageNum = initRootPageNum
        BY <1>1, <3>1
      <4>3. NewRootInv'
        BY <1>1, <2>1, <2>4, <2>6, <2>9, <2>10, <3>1, <4>1, <4>2 DEF NewRootInv, AtRoot
      <4>. QED
        BY <2>6, <3>1, <4>3 DEF CallInv, IdleInv, DownInv, UpInv, RereadInv,
                                NewMetaInv, FinishInv
    <3>2. CASE curr # rootPageNum
      <4>1. call.path = <<rootPageNum, curr>> /\ rootPageNum \notin Leaves
        BY <1>1, <3>2
      <4>2. call'.path[2] = curr
        BY <2>6, <4>1
      <4>3. rootPageNum \notin Leaves'
        BY <2>3, <2>10, <4>1 DEF IInv, PagesInv
      <4>4. Up(call.split.pivot)'
        BY <2>4, <2>6, <2>10 DEF Up, pivot
      <4>5. BelowRoot'
        BY <1>1, <2>1, <2>6, <2>10, <4>1, <4>3 DEF BelowRoot
      <4>6. FreeFrame'
        BY <1>3, <2>1, <2>6, FrameKept DEF IInv
      <4>7. FinishInv'
        BY <2>6, <2>9, <4>2, <4>4, <4>5, <4>6 DEF FinishInv
      <4>. QED
        BY <2>6, <3>2, <4>7 DEF CallInv, IdleInv, DownInv, UpInv, RereadInv,
                                NewRootInv, NewMetaInv
    <3>. QED
      BY <3>1, <3>2
  <2>. QED
    BY <2>7, <2>10, <2>11 DEF IInv
<1>. QED
  BY <1>2, <1>3

(* A full inner node in two parts, one of which takes the pivot.           *)
LEMMA InnerHalves ==
    ASSUME NEW leaves, NEW node, IsInner(node, leaves),
           Len(node.keyArray) = nodeOccupancy,
           NEW p, p.pageNo \in leaves, p.key \in Keys, NEW goesRight \in BOOLEAN
    PROVE  LET s == (nodeOccupancy + 1) \div 2
               lower == NonLeaf(node.level, SubSeq(node.keyArray, 1, s),
                                SubSeq(node.pageNoArray, 1, s + 1))
               upper == NonLeaf(node.level,
                                SubSeq(node.keyArray, s + 1, nodeOccupancy),
                                SubSeq(node.pageNoArray, s + 1, nodeOccupancy + 1))
               right == IF goesRight THEN AddToNonLeaf(upper, p) ELSE upper
               left == IF goesRight THEN lower ELSE AddToNonLeaf(lower, p)
           IN  /\ IsInner(left, leaves) /\ IsInner(right, leaves)
               /\ right.pageNoArray[1] \in leaves
               /\ (IF goesRight THEN node.keyArray[s + 1]
                                ELSE left.keyArray[s + 1]) \in Keys
<1> DEFINE s == (nodeOccupancy + 1) \div 2
           N == nodeOccupancy
           keys == node.keyArray
           pages == node.pageNoArray
           lowKeys == SubSeq(keys, 1, s)
           lowPages == SubSeq(pages, 1, s + 1)
           highKeys == SubSeq(keys, s + 1, N)
           highPages == SubSeq(pages, s + 1, N + 1)
           lower == NonLeaf(1, lowKeys, lowPages)
           upper == NonLeaf(1, highKeys, highPages)
           right == IF goesRight THEN AddToNonLeaf(upper, p) ELSE upper
           left == IF goesRight THEN lower ELSE AddToNonLeaf(lower, p)
<1>1. s \in Nat /\ N \in Nat /\ 1 <= s /\ s + 1 <= N
  BY Halves
<1>2. /\ keys \in Seq(Keys) /\ Len(keys) = N /\ pages \in Seq(leaves)
      /\ Len(pages) = N + 1 /\ node.level = 1
  BY DEF IsInner, NonLeaf
<1>. HIDE DEF s, N, keys, pages
<1>3. /\ lowKeys \in Seq(Keys) /\ Len(lowKeys) = s - 1 + 1
      /\ highKeys \in Seq(Keys) /\ Len(highKeys) = N - (s + 1) + 1
  BY <1>1, <1>2, PartIs
<1>4. /\ lowPages \in Seq(leaves) /\ Len(lowPages) = s + 1 - 1 + 1
      /\ highPages \in Seq(leaves) /\ Len(highPages) = N + 1 - (s + 1) + 1
  BY <1>1, <1>2, PartIs
<1>. HIDE DEF lowKeys, highKeys, lowPages, highPages
<1>5. /\ Len(lowKeys) = s /\ Len(lowPages) = Len(lowKeys) + 1
      /\ Len(highKeys) = N - s /\ Len(highPages) = Len(highKeys) + 1
      /\ Len(lowKeys) \in 1 .. N /\ Len(highKeys) \in 1 .. N
      /\ Len(lowKeys) + 1 \in 1 .. N /\ Len(highKeys) + 1 \in 1 .. N
  BY <1>1, <1>3, <1>4
<1>6. IsInner(lower, leaves) /\ IsInner(upper, leaves)
  BY <1>3, <1>4, <1>5, InnerIs DEF N
<1>7. /\ IsInner(AddToNonLeaf(lower, p), leaves)
      /\ Len(AddToNonLeaf(lower, p).keyArray) = s + 1
  <2>1. /\ IsInner(AddToNonLeaf(lower, p), leaves)
        /\ Len(AddToNonLeaf(lower, p).keyArray) = Len(lowKeys) + 1
    <3>1. /\ lowKeys \in Seq(Keys) /\ lowPages \in Seq(leaves)
          /\ Len(lowKeys) + 1 \in 1 .. nodeOccupancy
          /\ Len(lowPages) = Len(lowKeys) + 1
      BY <1>3, <1>4, <1>5 DEF N
    <3>. QED
      BY ONLY <3>1, p.pageNo \in leaves, p.key \in Keys, AddToNonLeafIs
  <2>. QED
    BY <1>5, <2>1
<1>8. IsInner(AddToNonLeaf(upper, p), leaves)
  BY <1>3, <1>4, <1>5, AddToNonLeafIs DEF N
<1>. HIDE DEF lower, upper
<1>9. IsInner(left, leaves) /\ IsInner(right, leaves)
  BY <1>6, <1>7, <1>8
<1>10. right.pageNoArray[1] \in leaves
  <2>. HIDE DEF right
  <2>1. right.pageNoArray \in Seq(leaves) /\ 1 \in 1 .. Len(right.pageNoArray)
    BY <1>9 DEF IsInner
  <2>. QED
    BY <2>1, ElementOfSeq
<1>11. (IF goesRight THEN keys[s + 1] ELSE left.keyArray[s + 1]) \in Keys
  <2>1. CASE goesRight
    <3>1. s + 1 \in 1 .. Len(keys)
      BY <1>1, <1>2
    <3>. QED
      BY <1>2, <2>1, <3>1, ElementOfSeq
  <2>2. CASE ~goesRight
    <3> DEFINE lk == AddToNonLeaf(lower, p).keyArray
    <3>1. lk \in Seq(Keys) /\ s + 1 \in 1 .. Len(lk)
      BY <1>1, <1>7 DEF IsInner
    <3>2. lk[s + 1] \in Keys
      <4>. HIDE DEF lk
      <4>. QED
        BY <3>1, ElementOfSeq
    <3>. QED
      BY <2>2, <3>2
  <2>. QED
    BY <2>1, <2>2
<1>. QED
  BY <1>2, <1>9, <1>10, <1>11 DEF left, right, lower, upper, lowKeys, highKeys,
     lowPages, highPages, s, N, keys, pages

LEMMA NonLeafSplitInv ==
    ASSUME IInv, NonLeafSplit, scan' = scan, trail' = "off"
    PROVE  IInv'
<1> DEFINE node == nodes[curr]
           s == (nodeOccupancy + 1) \div 2
           lower == NonLeaf(node.level, SubSeq(node.keyArray, 1, s),
                            SubSeq(node.pageNoArray, 1, s + 1))
           upper == NonLeaf(node.level,
                            SubSeq(node.keyArray, s + 1, nodeOccupancy),
                            SubSeq(node.pageNoArray, s + 1, nodeOccupancy + 1))
           goesRight == call.pivot.key > node.keyArray[s]
           right == IF goesRight THEN AddToNonLeaf(upper, call.pivot)
                                 ELSE upper
           left == IF goesRight THEN lower
                                ELSE AddToNonLeaf(lower, call.pivot)
           pivotKey == IF goesRight THEN node.keyArray[s + 1]
                                    ELSE left.keyArray[s + 1]
           next == NewPage
           pivot == [pageNo |-> right.pageNoArray[1], key |-> pivotKey]
<1>1. /\ call.pc = "up" /\ call.pivot # NoPivot
      /\ Len(node.keyArray) >= nodeOccupancy
  BY DEF NonLeafSplit
<1>2. /\ call.pc # "idle" /\ status = "open" /\ failures < MaxFailures
      /\ call.path = <<rootPageNum>> /\ curr = rootPageNum /\ unmarked = {}
      /\ Up(call.pivot) /\ curr \notin Leaves /\ curr \in DOMAIN nodes
      /\ curr \in Nat /\ IsInner(node, Leaves)
  BY <1>1, UpIs
<1>3. FreeFrame
  BY <1>1, UpIs
<1>4. CASE FreeFrame
  <2>1. /\ nodes' = Grown([nodes EXCEPT ![curr] = left], NewPage, right)
        /\ pins' = Grown(pins, NewPage, 0)
        /\ unmarked' = unmarked \cup {curr}
        /\ call' = [call EXCEPT !.pc = "reread", !.split.next = next,
                                !.split.pivot = pivot]
        /\ UNCHANGED <<rootPageNo, rootPageNum, initRootPageNum, status, failures,
                       thrown, inserted>>
    BY <1>4 DEF NonLeafSplit, objectVars
  <2>2. /\ IsInner(left, Leaves) /\ IsInner(right, Leaves)
        /\ right.pageNoArray[1] \in Leaves /\ pivotKey \in Keys
    <3>1. Len(node.keyArray) = nodeOccupancy
      <4>1. Len(node.keyArray) \in 1 .. nodeOccupancy /\ nodeOccupancy \in Nat
        BY <1>2, Halves DEF IsInner
      <4>. QED
        BY <1>1, <4>1
    <3>2. goesRight \in BOOLEAN
      OBVIOUS
    <3>. HIDE DEF goesRight, node
    <3>. QED
      BY <1>2, <3>1, <3>2, InnerHalves DEF Up
  <2>. HIDE DEF left, right, pivotKey
  <2>3. next \in Nat /\ next # NoPage /\ Leaves \subseteq Nat \ {0}
    BY <1>2, NewPageIs, PathIs DEF IInv
  <2>4. pivot \in Pivots /\ pivot.pageNo \in Leaves /\ pivot.key \in Keys
    BY <2>2, <2>3 DEF Pivots
  <2>5. /\ IsNode(left, Leaves) /\ IsNode(right, Leaves)
        /\ left.kind = nodes[curr].kind /\ right.kind # "leaf"
    BY <1>2, <2>2 DEF IsNode, IsInner
  <2>. HIDE DEF pivot
  <2>6. /\ call' \in Calls /\ call'.key = call.key /\ call'.path = call.path
        /\ call'.pivot = call.pivot /\ call'.others = call.others
        /\ call'.split.pivot = pivot /\ call'.pc = "reread"
    <3>1. call \in Calls
      BY DEF IInv, ObjectInv
    <3>. QED
      BY <2>1, <2>3, <2>4, <3>1 DEF Calls
  <2>7. ObjectInv'
    <3>1. IsFiniteSet(inserted')
      BY <2>1 DEF IInv, ObjectInv
    <3>. QED
      BY <1>2, <2>1, <2>6, <3>1, ObjectKept
  <2>8. Held(call') = Held(call)
    <3>1. Held(call) = {rootPageNum}
      BY <1>1, <1>2, HeldIs
    <3>2. call'.path = <<rootPageNum>> /\ call'.pc # "finish"
      BY <1>2, <2>6
    <3>3. Held(call') = {rootPageNum}
      BY ONLY <3>2, HeldIs
    <3>. QED
      BY <3>1, <3>3
  <2>9. unmarked' = {rootPageNum} /\ unmarked' \subseteq DOMAIN nodes
    BY <1>2, <2>1
  <2>10. /\ PagesInv' /\ TreeOf(nodes)' /\ ScanInv' /\ PinsInv'
         /\ Leaves' = Leaves
    <3>1. Leaves = Leaves \cup (IF right.kind = "leaf" THEN {NewPage} ELSE {})
      BY <2>5
    <3>. QED
      BY <1>2, <2>1, <2>5, <2>8, <2>9, <3>1, SplitNode
  <2>11. CallInv'
    <3>1. FreeFrame'
      BY <1>4, <2>1, <2>6, FrameKept DEF IInv
    <3>2. AtInnerRoot' /\ unmarked' = {rootPageNum'}
      BY <1>2, <2>1, <2>6, <2>9, <2>10 DEF AtInnerRoot, AtRoot
    <3>3. Up(call.pivot)' /\ Up(call.split.pivot)'
      BY <1>2, <2>4, <2>6, <2>10 DEF Up
    <3>4. RereadInv'
      BY <3>1, <3>2, <3>3 DEF RereadInv
    <3>. QED
      BY <2>6, <3>4 DEF CallInv, IdleInv, DownInv, UpInv, NewRootInv,
                        NewMetaInv, FinishInv
  <2>. QED
    BY <2>7, <2>10, <2>11 DEF IInv
<1>. QED
  BY <1>3, <1>4

LEMMA NewRootStepInv ==
    ASSUME IInv, NewRoot, scan' = scan, trail' = "off"
    PROVE  IInv'
<1> DEFINE level == IF call.split.curr = initRootPageNum
                    THEN 1 ELSE nodes[rootPageNum].level + 1
           y == NonLeaf(level, <<call.split.pivot.key>>,
                        <<call.split.curr, call.split.next>>)
<1>1. /\ call.pc = "newroot" /\ call.pc # "idle" /\ status = "open"
      /\ call.path = <<rootPageNum>> /\ rootPageNum \in Leaves
      /\ rootPageNum = initRootPageNum
      /\ unmarked = {rootPageNum} /\ FreeFrame /\ call.pivot = NoPivot
      /\ call.split.curr = rootPageNum /\ call.split.next \in Leaves
      /\ call.split.pivot.key \in Keys
  BY DEF NewRoot, IInv, CallInv, NewRootInv, ObjectInv, AtRoot
<1>2. rootPageNum \in DOMAIN nodes /\ TreeOf(nodes)
  BY DEF IInv, PagesInv
<1>3. /\ nodes' = Grown(nodes, NewPage, y)
      /\ pins' = Grown(pins, NewPage, 0)
      /\ call' = [call EXCEPT !.pc = "newmeta"]
      /\ UNCHANGED <<rootPageNo, rootPageNum, initRootPageNum, status, failures,
                     unmarked, thrown, inserted>>
  BY <1>1 DEF NewRoot, objectVars
<1>4. IsInner(y, Leaves)
  <2> DEFINE keys == <<call.split.pivot.key>>
             pages == <<call.split.curr, call.split.next>>
  <2>1. level = 1 /\ 1 \in 1 .. nodeOccupancy
    BY <1>1, Halves
  <2>2. keys \in Seq(Keys) /\ Len(keys) = 1 /\ pages \in Seq(Leaves) /\ Len(pages) = 2
    BY <1>1
  <2>. HIDE DEF keys, pages
  <2>3. IsInner(NonLeaf(1, keys, pages), Leaves)
    <3>1. Len(keys) \in 1 .. nodeOccupancy /\ Len(pages) = Len(keys) + 1
      BY <2>1, <2>2
    <3>. QED
      BY ONLY <2>2, <3>1, InnerIs
  <2>. QED
    BY <2>1, <2>3 DEF keys, pages
<1>. HIDE DEF y
<1>5. y.kind # "leaf" /\ IsNode(y, Leaves)
  BY <1>4 DEF IsInner, IsNode
<1>6. /\ call' \in Calls /\ call'.key = call.key /\ call'.path = <<rootPageNum>>
      /\ call'.pivot = NoPivot /\ call'.others = call.others /\ call'.pc = "newmeta"
  BY <1>1, <1>3 DEF IInv, ObjectInv, Calls
<1>7. ObjectInv'
  <2>1. IsFiniteSet(inserted')
    BY <1>3 DEF IInv, ObjectInv
  <2>. QED
    BY <1>1, <1>3, <1>6, <2>1, ObjectKept
<1>8. Held(call') = Held(call)
  <2>1. Held(call) = {rootPageNum}
    BY <1>1, HeldIs
  <2>2. Held(call') = {rootPageNum}
    BY ONLY <1>6, HeldIs
  <2>. QED
    BY <2>1, <2>2
<1>9. PagesInv' /\ TreeOf(nodes)' /\ ScanInv' /\ PinsInv' /\ Leaves' = Leaves
  <2> DEFINE x == nodes[rootPageNum]
  <2>1. nodes' = Grown([nodes EXCEPT ![rootPageNum] = x], NewPage, y)
    BY <1>2, <1>3 DEF Grown
  <2>2. IsNode(x, Leaves) /\ x.kind = nodes[rootPageNum].kind
    BY <1>2, KindIs DEF IsNode
  <2>3. Leaves = Leaves \cup (IF y.kind = "leaf" THEN {NewPage} ELSE {})
    BY <1>5
  <2>4. unmarked' \subseteq DOMAIN nodes
    BY <1>1, <1>2, <1>3
  <2>. HIDE DEF x
  <2>. QED
    BY <1>1, <1>2, <1>3, <1>5, <1>8, <2>1, <2>2, <2>3, <2>4, SplitNode
<1>10. FreeFrame'
  BY <1>1, <1>3, <1>6, FrameKept DEF IInv
<1>11. CallInv'
  BY <1>1, <1>2, <1>3, <1>6, <1>9, <1>10 DEF CallInv, IdleInv, DownInv, UpInv, RereadInv,
         NewRootInv, NewMetaInv, FinishInv, AtRoot
<1>. QED
  BY <1>7, <1>9, <1>11 DEF IInv

LEMMA InsertStepInv ==
    ASSUME IInv, InsertStep
    PROVE  IInv'
<1>1. Next /\ scan' = scan /\ trail' = "off"
  BY DEF InsertStep, Untold
<1>2. ASSUME NEW key \in Keys, NEW others \in 0 .. numBufs, InsertEntry(key, others)
      PROVE  IInv'
  BY <1>1, <1>2, InsertEntryInv
<1>3. Misread => IInv'
  BY <1>1, MisreadInv
<1>4. Descend => IInv'
  BY <1>1, DescendInv
<1>5. LeafAdd => IInv'
  BY <1>1, LeafAddInv
<1>6. LeafSplit => IInv'
  BY <1>1, LeafSplitInv
<1>7. NoSplitBelow => IInv'
  BY <1>1, NoSplitBelowInv
<1>8. AddPivot => IInv'
  BY <1>1, AddPivotInv
<1>9. NonLeafSplit => IInv'
  BY <1>1, NonLeafSplitInv
<1>10. Reread => IInv'
  BY <1>1, RereadStepInv
<1>11. NewRoot => IInv'
  BY <1>1, NewRootStepInv
<1>12. NewMeta => IInv'
  BY <1>1, NewMetaInvariant
<1>13. Finish => IInv'
  BY <1>1, FinishStepInv
<1>14. Overrun => IInv'
  BY <1>1, OverrunInv
<1>. QED
  BY <1>1, <1>2, <1>3, <1>4, <1>5, <1>6, <1>7, <1>8, <1>9, <1>10, <1>11, <1>12,
     <1>13, <1>14 DEF Next

-----------------------------------------------------------------------------
(* The chain of leaves: a recursive function, so an induction over the     *)
(* length of the walk.                                                     *)
Size == Cardinality(DOMAIN nodes)

Further(w) ==
    IF nodes[Last(w)].rightSibPageNo = NoPage THEN w
    ELSE Append(w, nodes[Last(w)].rightSibPageNo)

(* at is what the walk makes of the first i steps.                         *)
Steps(at, leaf, i) ==
    /\ DOMAIN at = 0 .. Size
    /\ at[0] = <<leaf>>
    /\ \A j \in 1 .. i : at[j] = Further(at[j - 1])

LEMMA SizeIs == ASSUME IInv PROVE Size \in Nat
<1>1. PICK n \in Nat \ {0} : DOMAIN nodes = 2 .. n + 1
  BY DEF IInv, PagesInv
<1>2. IsFiniteSet(2 .. n + 1)
  BY FS_Interval
<1>. QED
  BY <1>1, <1>2, FS_CardinalityType DEF Size

LEMMA StepsExist ==
    ASSUME IInv, NEW leaf
    PROVE  \E at : Steps(at, leaf, Size)
<1>. Size \in Nat
  BY SizeIs
<1> DEFINE S == {i \in Nat : \E at : Steps(at, leaf, i)}
<1>1. 0 \in S
  <2>1. Steps([j \in 0 .. Size |-> <<leaf>>], leaf, 0)
    BY DEF Steps
  <2>. QED
    BY <2>1
<1>2. ASSUME NEW i \in 0 .. Size - 1, i \in S
      PROVE  i + 1 \in S
  <2>1. PICK at : Steps(at, leaf, i)
    BY <1>2
  <2> DEFINE at1 == [j \in 0 .. Size |-> IF j = i + 1 THEN Further(at[i]) ELSE at[j]]
  <2>2. Steps(at1, leaf, i + 1)
    BY <2>1 DEF Steps
  <2>. HIDE DEF at1
  <2>. QED
    BY <2>2
<1>3. Size \in S
  <2>. HIDE DEF S
  <2>. QED
    BY <1>1, <1>2, Upwards
<1>. QED
  BY <1>3

LEMMA FurtherIs ==
    ASSUME IInv, NEW w \in Seq(Leaves), Len(w) >= 1
    PROVE  Further(w) \in Seq(Leaves) /\ Len(Further(w)) >= 1
<1>1. Len(w) \in Nat /\ Last(w) \in Leaves
  BY LenProperties, ElementOfSeq DEF Last
<1>2. Leaves \subseteq DOMAIN nodes
  BY DEF Leaves, LeavesOf
<1>3. nodes[Last(w)].rightSibPageNo \in {NoPage} \cup Leaves
  BY <1>1, <1>2, KindIs DEF IInv, IsLeaf
<1>. QED
  BY <1>1, <1>3, AppendProperties DEF Further

LEMMA ChainSteps ==
    ASSUME IInv, NEW leaf
    PROVE  \E f : Steps(f, leaf, Size) /\ ChainFrom(leaf) = f[Size]
<1>. Size \in Nat
  BY SizeIs
<1> DEFINE Body(at) ==
             [n \in 0 .. Size |->
                IF n = 0 THEN <<leaf>> ELSE
                IF nodes[Last(at[n - 1])].rightSibPageNo = NoPage THEN at[n - 1]
                ELSE Append(at[n - 1], nodes[Last(at[n - 1])].rightSibPageNo)]
<1>1. PICK at : Steps(at, leaf, Size)
  BY StepsExist
<1> DEFINE at0 == [i \in 0 .. Size |-> at[i]]
<1>2. at0 = Body(at0)
  <2>1. ASSUME NEW n \in 0 .. Size PROVE at0[n] = Body(at0)[n]
    <3>1. CASE n = 0
      BY <1>1, <3>1 DEF Steps
    <3>2. CASE n # 0
      <4>1. n \in 1 .. Size /\ n - 1 \in 0 .. Size
        BY <3>2
      <4>2. at[n] = Further(at[n - 1])
        BY <1>1, <4>1 DEF Steps
      <4>. QED
        BY <3>2, <4>1, <4>2 DEF Further
    <3>. QED
      BY <3>1, <3>2
  <2>. HIDE DEF at0
  <2>2. DOMAIN at0 = 0 .. Size /\ at0 = [n \in DOMAIN at0 |-> at0[n]]
    BY DEF at0
  <2>. QED
    BY <2>1, <2>2
<1>3. \E f : f = Body(f) /\ ChainFrom(leaf) = f[Size]
  <2>. HIDE DEF at0
  <2>1. \E f : f = Body(f)
    BY <1>2
  <2>. QED
    BY <2>1 DEF ChainFrom, Size
<1>4. PICK f : f = Body(f) /\ ChainFrom(leaf) = f[Size]
  BY <1>3
<1>5. Steps(f, leaf, Size)
  <2>1. DOMAIN f = 0 .. Size /\ f[0] = <<leaf>>
    BY <1>4
  <2>2. ASSUME NEW j \in 1 .. Size PROVE f[j] = Further(f[j - 1])
    <3>1. j \in 0 .. Size /\ j # 0
      OBVIOUS
    <3>. QED
      BY <1>4, <3>1 DEF Further
  <2>. QED
    BY <2>1, <2>2 DEF Steps
<1>. QED
  BY <1>4, <1>5

LEMMA ChainIs ==
    ASSUME IInv, NEW leaf \in Leaves
    PROVE  ChainFrom(leaf) \in Seq(Leaves) /\ Len(ChainFrom(leaf)) >= 1
<1>. Size \in Nat
  BY SizeIs
<1>1. PICK f : Steps(f, leaf, Size) /\ ChainFrom(leaf) = f[Size]
  BY ChainSteps
<1> DEFINE S == {i \in Nat : f[i] \in Seq(Leaves) /\ Len(f[i]) >= 1}
<1>2. 0 \in S
  <2>1. f[0] = <<leaf>>
    BY <1>1 DEF Steps
  <2>2. <<leaf>> \in Seq(Leaves) /\ Len(<<leaf>>) = 1
    OBVIOUS
  <2>3. f[0] \in Seq(Leaves) /\ Len(f[0]) >= 1
    BY ONLY <2>1, <2>2
  <2>. QED
    BY <2>3
<1>3. ASSUME NEW i \in 0 .. Size - 1, i \in S PROVE i + 1 \in S
  <2>1. i + 1 \in 1 .. Size /\ (i + 1) - 1 = i
    OBVIOUS
  <2>2. f[i + 1] = Further(f[i])
    BY <1>1, <2>1 DEF Steps
  <2>. QED
    BY <1>3, <2>1, <2>2, FurtherIs
<1>4. \A i \in 0 .. Size : i \in S
  <2>. HIDE DEF S
  <2>. QED
    BY <1>2, <1>3, Upwards
<1>5. Size \in S
  <2>. HIDE DEF S
  <2>. QED
    BY <1>4, SizeIs
<1>. QED
  BY ONLY <1>1, <1>5

-----------------------------------------------------------------------------
(* The search of startScan.                                                *)
LEMMA FirstToSearchIs ==
    ASSUME IInv, NEW r
    PROVE  FirstToSearch(r) \in Leaves
<1>1. rootPageNum \in DOMAIN nodes /\ TreeOf(nodes)
  BY DEF IInv, PagesInv
<1>2. CASE Root.kind = "leaf"
  BY <1>1, <1>2, KindIs DEF FirstToSearch, Root, Leaves, LeavesOf
<1>3. CASE Root.kind # "leaf"
  <2>1. IsInner(Root, Leaves)
    BY <1>1, <1>3, KindIs DEF Root
  <2> DEFINE keys == Root.keyArray
             pages == Root.pageNoArray
             words == <<Root.level>> \o Front(keys)
             J == {j \in DOMAIN words : Low(r, words[j])} \cup {1}
  <2>2. /\ keys \in Seq(Keys) /\ pages \in Seq(Leaves) /\ Len(keys) \in Nat
        /\ 1 <= Len(keys) /\ Len(pages) = Len(keys) + 1 /\ Root.level = 1
    BY <2>1 DEF IsInner, NonLeaf
  <2>. HIDE DEF keys, pages
  <2>3. Front(keys) \in Seq(Int) /\ Len(Front(keys)) = Len(keys) - 1
    <3> DEFINE m == Len(keys) - 1
    <3>1. m \in Nat /\ m <= Len(keys)
      BY <2>2
    <3>. HIDE DEF m
    <3>2. \A i \in 1 .. m : keys[i] \in Keys
      BY <2>2, <3>1, ElementOfSeq
    <3>3. \A i \in 1 .. m : keys[i] \in Int
      BY <3>2
    <3>4. /\ SubSeq(keys, 1, m) \in Seq(Int)
          /\ Len(SubSeq(keys, 1, m)) = IF 1 <= m THEN m - 1 + 1 ELSE 0
      BY <3>1, <3>3, SubSeqProperties
    <3>5. Len(SubSeq(keys, 1, m)) = m
      BY <3>1, <3>4
    <3>. QED
      BY <3>4, <3>5 DEF Front, m
  <2>4. words \in Seq(Int) /\ Len(words) = Len(keys)
    <3>1. <<Root.level>> \in Seq(Int) /\ Len(<<Root.level>>) = 1
      BY <2>2
    <3>2. words \in Seq(Int) /\ Len(words) = Len(<<Root.level>>) + Len(Front(keys))
      BY <2>3, <3>1, ConcatProperties
    <3>. HIDE DEF words
    <3>. QED
      BY <2>2, <2>3, <3>1, <3>2
  <2>. HIDE DEF words
  <2>5. J \subseteq 1 .. Len(keys) /\ J # {}
    BY <2>2, <2>4, LenProperties
  <2>. HIDE DEF J
  <2>6. Max(J) \in J
    BY <2>2, <2>5, MaxIs
  <2>7. Max(J) \in 1 .. Len(pages)
    <3>1. Max(J) \in 1 .. Len(keys)
      BY <2>5, <2>6
    <3>. QED
      BY <2>2, <3>1
  <2>8. pages[Max(J)] \in Leaves
    BY <2>2, <2>7, ElementOfSeq
  <2>. QED
    BY <1>3, <2>8 DEF FirstToSearch, ChildToSearch, WordsAsLeaf, J, words, keys, pages
<1>. QED
  BY <1>2, <1>3

LEMMA StopsIs ==
    ASSUME IInv, NEW r, NEW leaf \in Leaves
    PROVE  Stops(r, leaf) \subseteq 1 .. leafOccupancy
<1>1. leaf \in DOMAIN nodes /\ IsLeaf(nodes[leaf], Leaves)
  BY KindIs DEF IInv, Leaves, LeavesOf
<1>2. /\ nodes[leaf].entries \in Seq(Entries)
      /\ Len(nodes[leaf].entries) <= leafOccupancy
  BY <1>1 DEF IsLeaf
<1>3. /\ DOMAIN nodes[leaf].entries = 1 .. Len(nodes[leaf].entries)
      /\ Len(nodes[leaf].entries) \in Nat /\ leafOccupancy \in Nat
  BY <1>2, LenProperties, Halves
<1>. QED
  BY <1>2, <1>3 DEF Stops

(* Whatever it comes to, the search names a page of the index, or page 0;  *)
(* an entry only on a leaf.                                                *)
LEMMA SearchIs ==
    ASSUME IInv, NEW r, NEW pn, NEW others
    PROVE  /\ Search(r, pn, others).page \in {NoPage} \cup DOMAIN nodes
           /\ Search(r, pn, others).result \in {"match", "high"} =>
                /\ Search(r, pn, others).page \in Leaves
                /\ Search(r, pn, others).entry \in 1 .. leafOccupancy
           /\ Search(r, pn, others).result = "end" => Search(r, pn, others).page = NoPage
<1> DEFINE above == IF Root.kind = "leaf" THEN <<>> ELSE <<rootPageNum>>
           leaves == ChainFrom(FirstToSearch(r))
           met == {n \in DOMAIN leaves : Stops(r, leaves[n]) # {}}
           stop == Min(met \cup {Len(leaves) + 1})
           all == Append(leaves, NoPage)
           way == above \o SubSeq(all, 1, stop)
           missing == {k \in DOMAIN way : ~Had(pn, way[k], others)}
           i == Min(Stops(r, leaves[stop]))
           P == {NoPage} \cup DOMAIN nodes
<1>1. leaves \in Seq(Leaves) /\ Len(leaves) \in Nat /\ 1 <= Len(leaves)
      /\ DOMAIN leaves = 1 .. Len(leaves)
  <2>1. leaves \in Seq(Leaves) /\ 1 <= Len(leaves)
    BY FirstToSearchIs, ChainIs
  <2>. HIDE DEF leaves
  <2>. QED
    BY <2>1, LenProperties
<1>. HIDE DEF leaves
<1>2. stop \in met \cup {Len(leaves) + 1}
  <2> DEFINE T == met \cup {Len(leaves) + 1}
  <2>1. T \subseteq Nat /\ T # {}
    BY <1>1
  <2>2. Min(T) \in T
    <3>. HIDE DEF T
    <3>. QED
      BY <2>1, MinIs
  <2>. QED
    BY <2>2
<1>. HIDE DEF stop
<1>3. stop \in Nat /\ 1 <= stop /\ stop <= Len(leaves) + 1
  BY <1>1, <1>2
<1>4. stop <= Len(leaves) => /\ leaves[stop] \in Leaves
                             /\ i \in 1 .. leafOccupancy
  <2>. SUFFICES ASSUME stop <= Len(leaves)
                PROVE  leaves[stop] \in Leaves /\ i \in 1 .. leafOccupancy
    OBVIOUS
  <2>1. stop \in DOMAIN leaves /\ Stops(r, leaves[stop]) # {}
    BY <1>1, <1>2
  <2>2. leaves[stop] \in Leaves
    BY <1>1, <2>1, ElementOfSeq
  <2>3. Stops(r, leaves[stop]) \subseteq 1 .. leafOccupancy
    BY <2>2, StopsIs
  <2>4. Stops(r, leaves[stop]) \subseteq Nat
    BY <2>3
  <2>. QED
    BY <2>1, <2>2, <2>3, <2>4, MinIs
<1>5. Leaves \subseteq P /\ rootPageNum \in P
  BY DEF Leaves, LeavesOf, IInv, PagesInv
<1>. HIDE DEF P
<1>6. way \in Seq(P)
  <2>1. leaves \in Seq(P) /\ NoPage \in P
    BY <1>1, <1>5, SeqMonotonic DEF P
  <2>2. all \in Seq(P) /\ Len(all) = Len(leaves) + 1
    BY <2>1, AppendProperties
  <2>. HIDE DEF all
  <2>3. SubSeq(all, 1, stop) \in Seq(P)
    BY <1>3, <2>2, PartIs
  <2>4. above \in Seq(P)
    BY <1>5
  <2>. HIDE DEF above
  <2>. QED
    BY <2>3, <2>4, ConcatProperties
<1>. HIDE DEF way
<1>7. missing # {} => way[Min(missing)] \in P
  <2>1. missing \subseteq DOMAIN way /\ DOMAIN way = 1 .. Len(way) /\ Len(way) \in Nat
    BY <1>6, LenProperties
  <2>2. missing \subseteq Nat /\ missing \subseteq 1 .. Len(way)
    BY <2>1
  <2>. HIDE DEF missing
  <2>. QED
    BY <1>6, <2>2, MinIs, ElementOfSeq
<1>. HIDE DEF missing, i
<1> DEFINE found ==
             IF missing # {} THEN
                [result |-> "noframe", page |-> way[Min(missing)], entry |-> 0,
                 moved |-> Min(missing) > Len(above) + 1]
             ELSE IF stop > Len(leaves) THEN
                [result |-> "end", page |-> NoPage, entry |-> 0, moved |-> TRUE]
             ELSE
                [result |-> IF High(r, nodes[leaves[stop]].entries[i].key)
                            THEN "high" ELSE "match",
                 page |-> leaves[stop], entry |-> i, moved |-> stop > 1]
<1>8. Search(r, pn, others) = found
  BY DEF Search, missing, way, stop, leaves, i
<1>9. CASE missing # {}
  <2>1. found.result = "noframe" /\ found.page = way[Min(missing)]
    BY <1>9
  <2>. QED
    BY <1>7, <1>8, <1>9, <2>1 DEF P
<1>10. CASE missing = {} /\ stop > Len(leaves)
  BY <1>8, <1>10
<1>11. CASE missing = {} /\ stop <= Len(leaves)
  <2>1. ~ (stop > Len(leaves))
    BY <1>1, <1>3, <1>11
  <2>2. /\ found.result \in {"match", "high"} /\ found.page = leaves[stop]
        /\ found.entry = i
    BY <1>11, <2>1
  <2>. QED
    BY <1>4, <1>5, <1>8, <1>11, <2>2 DEF P
<1>. QED
  BY <1>1, <1>3, <1>9, <1>10, <1>11

-----------------------------------------------------------------------------
(* The steps of a scan, of the destructor and of the constructor.          *)
ScanRecords ==
    [executing : BOOLEAN, first : BOOLEAN,
     nextEntry : {Unset} \cup -1 .. leafOccupancy - 1,
     page : Nat, holds : BOOLEAN,
     range : [lowVal : Int, lowOp : Operator,
              highVal : Int, highOp : Operator]]

(* What is pinned between two calls, by the scan s.                        *)
OnlyScanPins(s, pn) ==
    \A p \in DOMAIN pn : pn[p] = IF s.holds /\ p = s.page THEN 1 ELSE 0

IsPins(pn) == DOMAIN pn = DOMAIN pins /\ \A p \in DOMAIN pn : pn[p] \in Nat

NonePinned(pn) == \A p \in DOMAIN pn : pn[p] = 0

LEMMA IdleIs ==
    ASSUME IInv, call = Idle, status # "undefined"
    PROVE  /\ unmarked = {} /\ IsPins(pins) /\ Held(call) = {}
           /\ failures = 0 => OnlyScanPins(scan, pins)
           /\ DOMAIN nodes \subseteq DOMAIN pins /\ Leaves \subseteq DOMAIN nodes
           /\ DOMAIN nodes \subseteq Nat \ {0} /\ 0 \notin DOMAIN pins
           /\ scan \in ScanRecords
           /\ scan.page \in {NoPage} \cup DOMAIN nodes
           /\ scan.holds => scan.executing /\ scan.page \in Leaves
<1>1. call.pc = "idle"
  BY DEF Idle
<1>2. Held(call) = {}
  BY HeldIs
<1>3. unmarked = {}
  BY <1>1 DEF IInv, CallInv, IdleInv
<1>4. failures = 0 => OnlyScanPins(scan, pins)
  BY <1>2 DEF IInv, PinsInv, OnlyScanPins
<1>5. /\ DOMAIN nodes \subseteq DOMAIN pins
      /\ DOMAIN nodes \subseteq Nat \ {0} /\ 0 \notin DOMAIN pins
  BY NewPageIs DEF IInv
<1>. QED
  BY <1>2, <1>3, <1>4, <1>5 DEF IInv, PagesInv, IsPins, ScanInv, ScanRecords,
                                Leaves, LeavesOf

LEMMA ScanStepInv ==
    ASSUME IInv, call = Idle, status # "undefined",
           UNCHANGED <<nodes, rootPageNo, unmarked, call, thrown, failures, inserted>>,
           rootPageNum' = rootPageNo,
           status' \in {"open", "closed", "terminated", "undefined"},
           failures = 0 => status' # "terminated",
           IsPins(pins'),
           failures = 0 /\ status' # "undefined" => OnlyScanPins(scan', pins'),
           scan' \in ScanRecords, scan'.page \in {NoPage} \cup DOMAIN nodes,
           scan'.holds => scan'.executing,
           scan'.holds /\ status' # "undefined" => scan'.page \in Leaves,
           trail' \in {"on", "over", "off"}
    PROVE  IInv'
<1>1. call'.pc = "idle" /\ call' = Idle
  BY DEF Idle
<1>2. unmarked = {} /\ Held(call) = {}
  BY IdleIs
<1>3. PagesInv'
  BY <1>2 DEF IInv, PagesInv, IsPins
<1>4. TreeOf(nodes)' /\ Leaves' = Leaves
  BY DEF IInv, Leaves
<1>5. ObjectInv'
  BY <1>1 DEF IInv, ObjectInv
<1>6. CallInv'
  BY <1>1, <1>2, CallEnds
<1>7. PinsInv'
  BY <1>2 DEF PinsInv, OnlyScanPins, IsPins
<1>8. ScanInv'
  BY <1>4 DEF ScanInv, ScanRecords
<1>. QED
  BY <1>3, <1>4, <1>5, <1>6, <1>7, <1>8 DEF IInv

LEMMA UnpinnedIs ==
    ASSUME IInv, NEW p
    PROVE  /\ IsPins(Unpinned(p))
           /\ OnlyScanPins(scan, pins) /\ (scan.holds => p = scan.page) =>
                NonePinned(Unpinned(p))
<1>1. IsPins(pins)
  BY DEF IInv, PagesInv, IsPins
<1>2. CASE Pinned(p)
  BY <1>1, <1>2 DEF Unpinned, Pinned, IsPins, OnlyScanPins, NonePinned
<1>3. CASE ~Pinned(p)
  BY <1>1, <1>3 DEF Unpinned, Pinned, IsPins, OnlyScanPins, NonePinned
<1>. QED
  BY <1>2, <1>3

LEMMA EndedIs ==
    ASSUME IInv, call = Idle, status # "undefined"
    PROVE  /\ IsPins(Ended(scan))
           /\ failures = 0 => NonePinned(Ended(scan))
<1>1. CASE scan.executing
  BY <1>1, IdleIs, UnpinnedIs DEF Ended
<1>2. CASE ~scan.executing
  BY <1>2, IdleIs DEF Ended, OnlyScanPins, NonePinned
<1>. QED
  BY <1>1, <1>2 DEF IInv, ScanInv

(* One pin more, for a scan that had none.                                 *)
LEMMA PinOne ==
    ASSUME NEW pn, IsPins(pn), NEW p \in DOMAIN pins
    PROVE  /\ IsPins([pn EXCEPT ![p] = @ + 1])
           /\ \A s : s.holds /\ s.page = p /\ NonePinned(pn) =>
                OnlyScanPins(s, [pn EXCEPT ![p] = @ + 1])
  BY DEF IsPins, NonePinned, OnlyScanPins

LEMMA PinNone ==
    ASSUME NEW pn, NonePinned(pn), NEW s, ~s.holds
    PROVE  OnlyScanPins(s, pn)
  BY DEF NonePinned, OnlyScanPins

LEMMA StartScanInv ==
    ASSUME IInv, NEW r \in Ranges, NEW others, StartScan(r, others)
    PROVE  IInv'
<1> DEFINE found == Search(r, Ended(scan), others)
           s == [Begun(r) EXCEPT !.page = found.page,
                                 !.nextEntry = IF found.moved THEN 0 ELSE @]
<1>1. status = "open" /\ call = Idle
  BY DEF StartScan, CanScan
<1>2. /\ IsPins(Ended(scan))
      /\ failures = 0 => NonePinned(Ended(scan))
      /\ DOMAIN nodes \subseteq DOMAIN pins /\ Leaves \subseteq DOMAIN nodes
      /\ DOMAIN nodes \subseteq Nat \ {0} /\ scan \in ScanRecords
  BY <1>1, IdleIs, EndedIs
<1>3. /\ found.page \in {NoPage} \cup DOMAIN nodes
      /\ found.result \in {"match", "high"} =>
           found.page \in Leaves /\ found.entry \in 1 .. leafOccupancy
      /\ found.result = "end" => found.page = NoPage
  BY SearchIs
<1>4. \/ /\ found.result = "match"
         /\ scan' = [s EXCEPT !.nextEntry = found.entry - 1, !.holds = TRUE]
         /\ pins' = [Ended(scan) EXCEPT ![found.page] = @ + 1]
         /\ outcome' = "started" /\ status' = status
      \/ /\ found.result = "high"
         /\ scan' = s /\ pins' = Ended(scan)
         /\ outcome' = "NoSuchKeyFound" /\ status' = status
      \/ /\ found.result = "end"
         /\ scan' = [s EXCEPT !.holds = TRUE] /\ pins' = Ended(scan)
         /\ outcome' = "NoSuchKeyFound" /\ status' = "undefined"
      \/ /\ found.result = "noframe"
         /\ scan' = s /\ pins' = Ended(scan)
         /\ outcome' = (IF found.moved THEN "NoSuchKeyFound" ELSE "BufferExceeded")
         /\ status' = status
  BY DEF StartScan
<1>5. trail' \in {"on", "over", "off"}
  BY DEF StartScan
<1>6. /\ UNCHANGED <<nodes, rootPageNo, unmarked, call, thrown, failures, inserted>>
      /\ rootPageNum' = rootPageNo
  BY DEF StartScan, KeepTree, treeVars, IInv, PagesInv
<1>. HIDE DEF found
<1>7. /\ s \in ScanRecords /\ s.page = found.page /\ s.executing /\ ~s.holds
  <2>1. leafOccupancy \in Nat /\ leafOccupancy >= 2
    BY Halves
  <2>2. /\ r \in [lowVal : Int, lowOp : Operator, highVal : Int, highOp : Operator]
        /\ found.page \in Nat /\ rootPageNum \in Nat
    BY <1>2, <1>3 DEF IInv, PagesInv
  <2>3. Begun(r) \in ScanRecords /\ Begun(r).executing /\ ~Begun(r).holds
    <3>1. scan.nextEntry \in {Unset} \cup -1 .. leafOccupancy - 1
      BY <1>2 DEF ScanRecords
    <3>. QED
      BY <2>1, <2>2, <3>1 DEF Begun, ScanRecords
  <2> DEFINE b == Begun(r)
             n == IF found.moved THEN 0 ELSE b.nextEntry
  <2>. HIDE DEF b
  <2>4. n \in {Unset} \cup -1 .. leafOccupancy - 1
    BY <2>1, <2>3 DEF b, ScanRecords
  <2>5. s = [b EXCEPT !.page = found.page, !.nextEntry = n]
    BY <2>3 DEF b, ScanRecords
  <2>. HIDE DEF n, s
  <2>. QED
    BY <2>2, <2>3, <2>4, <2>5 DEF b, ScanRecords
<1>. HIDE DEF s
<1>8. /\ status' \in {"open", "closed", "terminated", "undefined"}
      /\ status' # "terminated"
  BY <1>1, <1>4
<1>9. CASE found.result = "match"
  <2>1. /\ scan' = [s EXCEPT !.nextEntry = found.entry - 1, !.holds = TRUE]
        /\ pins' = [Ended(scan) EXCEPT ![found.page] = @ + 1]
    BY <1>4, <1>9
  <2>2. found.entry - 1 \in 0 .. leafOccupancy - 1
    BY <1>3, <1>9, Halves
  <2>3. /\ scan' \in ScanRecords /\ scan'.page = found.page /\ scan'.holds
        /\ scan'.executing
    <3>1. found.entry - 1 \in {Unset} \cup -1 .. leafOccupancy - 1
      BY <2>2
    <3>. QED
      BY <1>7, <2>1, <3>1 DEF ScanRecords
  <2>4. found.page \in Leaves /\ found.page \in DOMAIN pins
    BY <1>2, <1>3, <1>9
  <2>5. IsPins(pins') /\ (failures = 0 => OnlyScanPins(scan', pins'))
    BY <1>2, <2>1, <2>3, <2>4, PinOne
  <2>. QED
    BY <1>1, <1>3, <1>5, <1>6, <1>8, <2>3, <2>4, <2>5, ScanStepInv
<1>10. CASE found.result \in {"high", "noframe"}
  <2>1. scan' = s /\ pins' = Ended(scan)
    BY <1>4, <1>10
  <2>2. failures = 0 => OnlyScanPins(scan', pins')
    BY <1>2, <1>7, <2>1, PinNone
  <2>. QED
    BY <1>1, <1>2, <1>3, <1>5, <1>6, <1>7, <1>8, <2>1, <2>2, ScanStepInv
<1>11. CASE found.result = "end"
  <2>1. scan' = [s EXCEPT !.holds = TRUE] /\ pins' = Ended(scan) /\ status' = "undefined"
    BY <1>4, <1>11
  <2>2. /\ scan' \in ScanRecords /\ scan'.page = found.page /\ scan'.executing
    BY <1>7, <2>1 DEF ScanRecords
  <2>. QED
    BY <1>1, <1>2, <1>3, <1>5, <1>6, <1>8, <2>1, <2>2, ScanStepInv
<1>. QED
  BY <1>4, <1>9, <1>10, <1>11

(* The same state, or the same but undefined from here on. *)
LEMMA SameStateInv ==
    ASSUME IInv, call = Idle, status # "undefined",
           UNCHANGED <<vars, scan>>, trail' \in {"on", "over", "off"}
    PROVE  IInv'
<1>1. UNCHANGED <<nodes, rootPageNo, rootPageNum, unmarked, call, thrown, failures,
                  inserted, pins, status, scan>>
  BY DEF vars
<1>. QED
  BY <1>1, IdleIs, ScanStepInv DEF IInv, PagesInv, ObjectInv

LEMMA StutterInv ==
    ASSUME IInv, UNCHANGED <<vars, scanVars>>
    PROVE  IInv'
<1>1. UNCHANGED <<nodes, rootPageNo, rootPageNum, initRootPageNum, pins, unmarked,
                  status, call, thrown, failures, inserted, scan, trail>>
  BY DEF vars, scanVars
<1>2. PagesInv' /\ TreeOf(nodes)' /\ ObjectInv' /\ Leaves' = Leaves
  BY <1>1 DEF IInv, PagesInv, ObjectInv, Leaves
<1>3. FreeFrame' = FreeFrame
  BY <1>1 DEF FreeFrame, FrameBeside, PinnedPages
<1>4. CallInv'
  BY <1>1, <1>2, <1>3 DEF IInv, CallInv, IdleInv, DownInv, UpInv, RereadInv,
     NewRootInv, NewMetaInv, FinishInv, AtRoot, AtInnerRoot, BelowRoot, Up
<1>5. PinsInv' /\ ScanInv'
  BY <1>1, <1>2 DEF IInv, PinsInv, ScanInv
<1>. QED
  BY <1>2, <1>4, <1>5 DEF IInv

LEMMA StartRefusedInv ==
    ASSUME IInv, NEW r, StartRefused(r)
    PROVE  IInv'
<1>1. call = Idle /\ status # "undefined" /\ UNCHANGED <<vars, scan>> /\ trail' = trail
  BY DEF StartRefused, CanScan
<1>2. trail \in {"on", "over", "off"}
  BY DEF IInv, ScanInv
<1>. QED
  BY <1>1, <1>2, SameStateInv

LEMMA StartMiscastInv ==
    ASSUME IInv, StartMiscast
    PROVE  IInv'
<1>1. /\ call = Idle /\ status # "undefined" /\ status' = "undefined"
      /\ pins' = pins /\ scan' = scan /\ trail' = trail
      /\ UNCHANGED <<nodes, rootPageNo, rootPageNum, unmarked, call, thrown, failures,
                     inserted>>
  BY DEF StartMiscast, CanScan, KeepTree, treeVars, scanVars
<1>. QED
  BY <1>1, IdleIs, ScanStepInv DEF IInv, PagesInv, ScanInv

LEMMA NextRefusedInv ==
    ASSUME IInv, NextRefused
    PROVE  IInv'
<1>1. /\ call = Idle /\ status # "undefined" /\ trail' = "off"
      /\ UNCHANGED <<vars, scan>>
  BY DEF NextRefused, CanScan, KeepTree, treeVars, Untold, vars
<1>. QED
  BY <1>1, SameStateInv

LEMMA NextAfterLastInv ==
    ASSUME IInv, NextAfterLast
    PROVE  IInv'
<1>1. /\ call = Idle /\ status = "open" /\ status' = status
      /\ pins' = Unpinned(scan.page) /\ rootPageNum' = rootPageNo
      /\ UNCHANGED <<nodes, rootPageNo, unmarked, call, thrown, failures, inserted>>
      /\ trail' \in {"on", "over", "off"} /\ scan.executing
  BY DEF NextAfterLast, CanScan, KeepTree, treeVars, Completed, Untold, IInv, PagesInv
<1>2. /\ scan \in ScanRecords /\ scan.page \in {NoPage} \cup DOMAIN nodes
      /\ failures = 0 => OnlyScanPins(scan, pins)
      /\ scan.holds => scan.page \in Leaves
      /\ Leaves \subseteq DOMAIN nodes /\ DOMAIN nodes \subseteq DOMAIN pins
  BY <1>1, IdleIs
<1>3. /\ IsPins(pins')
      /\ failures = 0 => NonePinned(pins')
  BY <1>1, <1>2, UnpinnedIs
<1>4. -1 \in {Unset} \cup -1 .. leafOccupancy - 1
  BY Halves
<1>5. CASE Pinned(scan.page)
  <2>1. scan' = [scan EXCEPT !.page = NoPage, !.holds = FALSE, !.nextEntry = -1]
    BY <1>5 DEF NextAfterLast
  <2>2. scan' \in ScanRecords /\ scan'.page = NoPage /\ ~scan'.holds
    BY <1>2, <1>4, <2>1 DEF ScanRecords
  <2>. QED
    BY <1>1, <1>3, <2>2, PinNone, ScanStepInv
<1>6. CASE ~Pinned(scan.page)
  <2>1. scan' = [scan EXCEPT !.nextEntry = -1]
    BY <1>6 DEF NextAfterLast
  <2>2. /\ scan' \in ScanRecords /\ scan'.page = scan.page
        /\ scan'.holds = scan.holds /\ scan'.executing
    BY <1>1, <1>2, <1>4, <2>1 DEF ScanRecords
  <2>3. failures = 0 => ~scan.holds
    BY <1>2, <1>6 DEF OnlyScanPins, Pinned
  <2>. QED
    BY <1>1, <1>2, <1>3, <2>2, <2>3, PinNone, ScanStepInv
<1>. QED
  BY <1>5, <1>6

LEMMA NextPositionIs ==
    ASSUME IInv, NEW p \in Leaves, NEW n \in Nat
    PROVE  NextPosition(n, p) \in {Unset} \cup -1 .. leafOccupancy - 1
<1>1. p \in DOMAIN nodes /\ IsLeaf(nodes[p], Leaves)
  BY KindIs DEF IInv, Leaves, LeavesOf
<1>2. /\ Len(nodes[p].entries) \in Nat /\ Len(nodes[p].entries) <= leafOccupancy
      /\ leafOccupancy \in Nat /\ leafOccupancy >= 2
  BY <1>1, Halves, LenProperties DEF IsLeaf
<1>3. CASE n + 1 < Len(nodes[p].entries)
  BY <1>2, <1>3 DEF NextPosition
<1>4. CASE ~(n + 1 < Len(nodes[p].entries))
  <2>1. NextPosition(n, p) \in {0, -1}
    BY <1>4 DEF NextPosition
  <2>. QED
    BY <1>2, <2>1
<1>. QED
  BY <1>3, <1>4

LEMMA EndScanInv ==
    ASSUME IInv, EndScan
    PROVE  IInv'
<1>1. /\ call = Idle /\ status = "open" /\ status' = status
      /\ pins' = Ended(scan) /\ rootPageNum' = rootPageNo
      /\ scan' = (IF scan.executing THEN NoScan(-1) ELSE scan)
      /\ UNCHANGED <<nodes, rootPageNo, unmarked, call, thrown, failures, inserted>>
      /\ trail' = "off"
  BY DEF EndScan, CanScan, KeepTree, treeVars, Untold, IInv, PagesInv
<1>2. /\ scan \in ScanRecords /\ scan.page \in {NoPage} \cup DOMAIN nodes
      /\ scan.holds => scan.executing
      /\ IsPins(Ended(scan))
      /\ failures = 0 => NonePinned(Ended(scan))
  BY <1>1, IdleIs, EndedIs
<1>3. NoScan(-1) \in ScanRecords /\ NoScan(-1).page = NoPage /\ ~NoScan(-1).holds
  <2>1. -1 \in {Unset} \cup -1 .. leafOccupancy - 1
    BY Halves
  <2>. QED
    BY <2>1 DEF NoScan, NoRange, ScanRecords, Operator
<1>4. /\ scan' \in ScanRecords /\ scan'.page \in {NoPage} \cup DOMAIN nodes
      /\ ~scan'.holds
  BY <1>1, <1>2, <1>3
<1>. QED
  BY <1>1, <1>2, <1>4, PinNone, ScanStepInv

LEMMA CloseInv ==
    ASSUME IInv, Close
    PROVE  IInv'
<1>1. /\ call = Idle /\ status = "open"
      /\ status' = (IF \E p \in DOMAIN pins : pins'[p] > 0
                    THEN "terminated" ELSE "closed")
      /\ pins' = Ended(scan) /\ rootPageNum' = rootPageNo
      /\ scan' = NoScan(Unset)
      /\ UNCHANGED <<nodes, rootPageNo, unmarked, call, thrown, failures, inserted>>
      /\ trail' = "off"
  BY DEF Close, KeepTree, treeVars, Untold, IInv, PagesInv
<1>2. /\ IsPins(Ended(scan))
      /\ failures = 0 => NonePinned(Ended(scan))
  BY <1>1, EndedIs
<1>3. scan' \in ScanRecords /\ scan'.page = NoPage /\ ~scan'.holds
  BY <1>1 DEF NoScan, NoRange, ScanRecords, Operator
<1>4. failures = 0 => status' = "closed"
  BY <1>1, <1>2 DEF NonePinned, IsPins
<1>. QED
  BY <1>1, <1>2, <1>3, <1>4, PinNone, ScanStepInv

LEMMA ReopenInv ==
    ASSUME IInv, Reopen
    PROVE  IInv'
<1>1. /\ status # "undefined" /\ status' = "open" /\ status # "open"
      /\ rootPageNum' = rootPageNo /\ pins' = pins /\ scan' = scan
      /\ UNCHANGED <<nodes, rootPageNo, unmarked, call, thrown, failures, inserted>>
      /\ trail' = trail
  BY DEF Reopen, scanVars, IInv, PagesInv
<1>2. call = Idle
  BY <1>1 DEF IInv, ObjectInv, CallInv, IdleInv
<1>. QED
  BY <1>1, <1>2, IdleIs, ScanStepInv DEF IInv, ScanInv

LEMMA ScanNextInv ==
    ASSUME IInv, NEW others, ScanNext(others)
    PROVE  IInv'
<1> DEFINE n == scan.nextEntry
           moves == n = 0 /\ ~scan.first
           right == nodes[scan.page].rightSibPageNo
           p == IF moves THEN right ELSE scan.page
           given == Unpinned(scan.page)
           pn == IF moves THEN [given EXCEPT ![p] = @ + 1] ELSE pins
           at == [scan EXCEPT !.first = FALSE, !.page = p]
           es == nodes[p].entries
           e == es[n + 1]
<1>1. /\ call = Idle /\ status = "open" /\ scan.executing /\ scan.holds /\ n >= 0
      /\ UNCHANGED <<nodes, rootPageNo, unmarked, call, thrown, failures, inserted>>
      /\ rootPageNum' = rootPageNo
  BY DEF ScanNext, CanScan, KeepTree, treeVars, IInv, PagesInv
<1>2. /\ scan \in ScanRecords /\ scan.page \in Leaves
      /\ failures = 0 => OnlyScanPins(scan, pins)
      /\ Leaves \subseteq DOMAIN nodes /\ DOMAIN nodes \subseteq DOMAIN pins
      /\ DOMAIN nodes \subseteq Nat \ {0} /\ IsPins(pins)
  BY <1>1, IdleIs
<1>3. /\ IsPins(given)
      /\ failures = 0 => NonePinned(given)
  BY <1>2, UnpinnedIs
<1>4. p \in {NoPage} \cup Leaves
  <2>1. right \in {NoPage} \cup Leaves
    BY <1>2, KindIs DEF IInv, IsLeaf
  <2>. QED
    BY <1>2, <2>1
<1>5. \/ /\ scan' = [at EXCEPT !.holds = FALSE] /\ pins' = given /\ status' = status
         /\ Completed
      \/ /\ scan' = at /\ pins' = given /\ status' = "undefined" /\ trail' = trail
      \/ /\ scan' = at /\ pins' = pn /\ status' = "undefined" /\ trail' = trail
         /\ p # NoPage
      \/ /\ scan' = [at EXCEPT !.nextEntry = NextPosition(n, p)]
         /\ pins' = pn /\ status' = status /\ trail' = trail /\ p # NoPage
      \/ /\ scan' = [at EXCEPT !.holds = (n = 0)] /\ p # NoPage /\ status' = status
         /\ pins' = (IF n = 0 THEN pn ELSE given)
         /\ Completed
  BY DEF ScanNext
<1>6. trail \in {"on", "over", "off"}
  BY DEF IInv, ScanInv
<1>7. trail' \in {"on", "over", "off"}
  BY <1>5, <1>6 DEF Completed
<1>. HIDE DEF given
<1>8. p # NoPage => /\ IsPins(pn)
                    /\ \A s : s.holds /\ s.page = p /\ failures = 0 => OnlyScanPins(s, pn)
  <2>. SUFFICES ASSUME p # NoPage
                PROVE  /\ IsPins(pn)
                       /\ \A s : s.holds /\ s.page = p /\ failures = 0 => OnlyScanPins(s, pn)
    OBVIOUS
  <2>1. CASE moves
    <3>1. p \in DOMAIN pins /\ pn = [given EXCEPT ![p] = @ + 1]
      BY <1>2, <1>4, <2>1
    <3>. HIDE DEF p, pn
    <3>. QED
      BY <1>3, <3>1, PinOne
  <2>2. CASE ~moves
    BY <1>1, <1>2, <2>2 DEF OnlyScanPins
  <2>. QED
    BY <2>1, <2>2
<1>. HIDE DEF p, pn, moves, e
<1>9. /\ at \in ScanRecords /\ at.page = p /\ at.holds /\ at.executing /\ at.nextEntry = n
      /\ p \in {NoPage} \cup DOMAIN nodes
  <2>1. p \in Nat
    BY <1>2, <1>4
  <2>. QED
    BY <1>1, <1>2, <1>4, <2>1 DEF ScanRecords
<1>. HIDE DEF at
<1>10. CASE /\ scan' = [at EXCEPT !.holds = FALSE] /\ pins' = given /\ status' = status
  <2>1. scan' \in ScanRecords /\ scan'.page = p /\ ~scan'.holds
    BY <1>9, <1>10 DEF ScanRecords
  <2>. QED
    BY <1>1, <1>3, <1>7, <1>9, <1>10, <2>1, PinNone, ScanStepInv
<1>11. CASE /\ scan' = at /\ pins' \in {given, pn} /\ status' = "undefined"
            /\ pins' = pn => p # NoPage \/ pins' = given
  BY <1>1, <1>3, <1>7, <1>8, <1>9, <1>11, ScanStepInv
<1>12. CASE /\ scan' = [at EXCEPT !.nextEntry = NextPosition(n, p)]
            /\ pins' = pn /\ status' = status /\ p # NoPage
  <2>1. n \in Nat /\ p \in Leaves
    BY <1>1, <1>2, <1>4, <1>12 DEF ScanRecords, Unset
  <2>2. NextPosition(n, p) \in {Unset} \cup -1 .. leafOccupancy - 1
    BY <2>1, NextPositionIs
  <2>3. scan' \in ScanRecords /\ scan'.page = p /\ scan'.holds /\ scan'.executing
    BY <1>9, <1>12, <2>2 DEF ScanRecords
  <2>. QED
    BY <1>1, <1>7, <1>8, <1>9, <1>12, <2>1, <2>3, ScanStepInv
<1>13. CASE /\ scan' = [at EXCEPT !.holds = (n = 0)] /\ p # NoPage /\ status' = status
            /\ pins' = (IF n = 0 THEN pn ELSE given)
  <2>1. p \in Leaves
    BY <1>4, <1>13
  <2>2. CASE n = 0
    <3>1. scan' \in ScanRecords /\ scan'.page = p /\ scan'.holds /\ scan'.executing
      BY <1>9, <1>13, <2>2 DEF ScanRecords
    <3>. QED
      BY <1>1, <1>7, <1>8, <1>9, <1>13, <2>1, <2>2, <3>1, ScanStepInv
  <2>3. CASE n # 0
    <3>1. scan' \in ScanRecords /\ scan'.page = p /\ ~scan'.holds
      BY <1>9, <1>13, <2>3 DEF ScanRecords
    <3>. QED
      BY <1>1, <1>3, <1>7, <1>9, <1>13, <2>3, <3>1, PinNone, ScanStepInv
  <2>. QED
    BY <2>2, <2>3
<1>. QED
  BY <1>5, <1>10, <1>11, <1>12, <1>13

(* The page that the scan reads again without a pin of its own.            *)
LEMMA NextUnheldInv ==
    ASSUME IInv, NEW n, NEW high, NEW others, NextUnheld(n, high, others)
    PROVE  IInv'
<1> DEFINE p == scan.page
           at == [scan EXCEPT !.first = FALSE, !.nextEntry = n]
           given == Unpinned(p)
<1>1. /\ call = Idle /\ status = "open" /\ scan.executing /\ ~scan.holds
      /\ n \in NextEntries \ {-1}
      /\ UNCHANGED <<nodes, rootPageNo, unmarked, call, thrown, failures, inserted>>
      /\ rootPageNum' = rootPageNo
  BY DEF NextUnheld, CanScan, KeepTree, treeVars, IInv, PagesInv
<1>2. /\ scan \in ScanRecords /\ p \in {NoPage} \cup DOMAIN nodes
      /\ failures = 0 => OnlyScanPins(scan, pins)
      /\ Leaves \subseteq DOMAIN nodes /\ DOMAIN nodes \subseteq DOMAIN pins
      /\ DOMAIN nodes \subseteq Nat \ {0} /\ IsPins(pins)
  BY <1>1, IdleIs
<1>3. /\ IsPins(given)
      /\ failures = 0 => NonePinned(given)
      /\ failures = 0 => NonePinned(pins)
  <2>1. IsPins(given) /\ (failures = 0 => NonePinned(given))
    BY <1>1, <1>2, UnpinnedIs
  <2>2. failures = 0 => NonePinned(pins)
    BY <1>1, <1>2 DEF OnlyScanPins, NonePinned
  <2>. QED
    BY <2>1, <2>2
<1>4. n \in {Unset} \cup -1 .. leafOccupancy - 1 /\ n \in Nat
  BY <1>1, <1>2, Halves DEF NextEntries, ScanRecords, Unset
<1>5. /\ at \in ScanRecords /\ at.page = p /\ ~at.holds /\ at.executing
  BY <1>1, <1>2, <1>4 DEF ScanRecords
<1>6. trail' \in {"on", "over", "off"}
  BY DEF NextUnheld, Completed, Untold, scanVars, IInv, ScanInv
<1>. HIDE DEF given, at
<1>7. \/ scan' = at /\ pins' = given /\ status' \in {status, "undefined"}
      \/ scan' = at /\ pins' \in {pins, given} /\ status' = status
      \/ scan' = scan /\ pins' = pins /\ status' = "undefined"
      \/ /\ p # NoPage /\ p \notin NonLeaves /\ status' = status
         /\ pins' = [given EXCEPT ![p] = @ + 1]
         /\ scan' = [at EXCEPT !.holds = TRUE, !.nextEntry = NextPosition(n, p)]
  BY DEF NextUnheld, given, at, scanVars
<1>8. CASE /\ scan' = at /\ pins' \in {pins, given} /\ status' \in {status, "undefined"}
  BY <1>1, <1>2, <1>3, <1>5, <1>6, <1>8, PinNone, ScanStepInv
<1>9. CASE scan' = scan /\ pins' = pins /\ status' = "undefined"
  BY <1>1, <1>2, <1>6, <1>9, ScanStepInv
<1>10. CASE /\ p # NoPage /\ p \notin NonLeaves /\ status' = status
            /\ pins' = [given EXCEPT ![p] = @ + 1]
            /\ scan' = [at EXCEPT !.holds = TRUE, !.nextEntry = NextPosition(n, p)]
  <2>1. p \in Leaves /\ p \in DOMAIN pins
    BY <1>2, <1>10, KindIs DEF IInv, NonLeaves
  <2>2. NextPosition(n, p) \in {Unset} \cup -1 .. leafOccupancy - 1
    BY <1>4, <2>1, NextPositionIs
  <2>3. scan' \in ScanRecords /\ scan'.page = p /\ scan'.holds /\ scan'.executing
    BY <1>5, <1>10, <2>2 DEF ScanRecords
  <2>4. IsPins(pins') /\ (failures = 0 => OnlyScanPins(scan', pins'))
    BY <1>3, <1>10, <2>1, <2>3, PinOne
  <2>. QED
    BY <1>1, <1>2, <1>6, <1>10, <2>1, <2>3, <2>4, ScanStepInv
<1>. QED
  BY <1>7, <1>8, <1>9, <1>10

-----------------------------------------------------------------------------
LEMMA InitInv ==
    ASSUME InitIndex
    PROVE  IInv
<1>. USE DEF InitIndex, Init, firstLeaf
<1>1. DOMAIN nodes = {2} /\ DOMAIN pins = {1, 2} /\ nodes[2] = Leaf(<<>>, NoPage)
      /\ \A p \in DOMAIN pins : pins[p] = 0
  OBVIOUS
<1>2. PagesInv
  <2>1. \E n \in Nat \ {0} : DOMAIN nodes = 2 .. n + 1 /\ DOMAIN pins = 1 .. n + 1
    <3>1. {2} = 2 .. 1 + 1 /\ {1, 2} = 1 .. 1 + 1 /\ 1 \in Nat \ {0}
      OBVIOUS
    <3>. QED
      BY <1>1, <3>1
  <2>. QED
    BY <1>1, <2>1 DEF PagesInv
<1>3. TreeOf(nodes)
  <2>1. <<>> \in Seq(Entries) /\ Len(<<>>) <= leafOccupancy
    BY EmptySeq, Halves
  <2>2. IsLeaf(Leaf(<<>>, NoPage), LeavesOf(nodes))
    BY <2>1, LeafIs
  <2>. QED
    BY <1>1, <2>2 DEF TreeOf, IsNode
<1>4. Idle \in Calls /\ Idle.pc = "idle"
  BY DEF Idle, Calls, NoPivot, NoSplit, Pivots
<1>5. ObjectInv
  BY <1>4, FS_EmptySet DEF ObjectInv
<1>6. CallInv
  BY <1>4 DEF CallInv, IdleInv, DownInv, UpInv, RereadInv, NewRootInv, NewMetaInv,
              FinishInv
<1>7. scan = NoScan(Unset) /\ NoScan(Unset).page = NoPage /\ ~NoScan(Unset).holds
      /\ NoScan(Unset) \in ScanRecords
  BY DEF NoScan, NoRange, ScanRecords, Operator
<1>8. PinsInv
  BY <1>1, <1>7, HeldIs DEF PinsInv
<1>9. ScanInv
  BY <1>7 DEF ScanInv, ScanRecords
<1>. QED
  BY <1>2, <1>3, <1>5, <1>6, <1>8, <1>9 DEF IInv

LEMMA StepInv ==
    ASSUME IInv, [NextIndex]_<<vars, scanVars>>
    PROVE  IInv'
<1>1. InsertStep => IInv'
  BY InsertStepInv
<1>2. ASSUME NEW r \in Ranges, StartRefused(r) PROVE IInv'
  BY <1>2, StartRefusedInv
<1>3. ASSUME NEW r \in Ranges, NEW others \in Others, StartScan(r, others) PROVE IInv'
  BY <1>3, StartScanInv
<1>4. StartMiscast => IInv'
  BY StartMiscastInv
<1>5. NextRefused => IInv'
  BY NextRefusedInv
<1>6. NextAfterLast => IInv'
  BY NextAfterLastInv
<1>7. ASSUME NEW others \in Others, ScanNext(others) PROVE IInv'
  BY <1>7, ScanNextInv
<1>8. ASSUME NEW others \in Others, NEW n \in {0, 1} \cup NextEntries,
             NEW high \in BOOLEAN, NextUnheld(n, high, others)
      PROVE  IInv'
  BY <1>8, NextUnheldInv
<1>9. EndScan => IInv'
  BY EndScanInv
<1>10. Close => IInv'
  BY CloseInv
<1>11. Reopen => IInv'
  BY ReopenInv
<1>12. Stopped => IInv'
  BY StutterInv DEF Stopped
<1>13. UNCHANGED <<vars, scanVars>> => IInv'
  BY StutterInv
<1>. QED
  BY <1>1, <1>2, <1>3, <1>4, <1>5, <1>6, <1>7, <1>8, <1>9, <1>10, <1>11, <1>12,
     <1>13 DEF NextIndex

(* The tree has the shape that the insertion takes it to have, what a call *)
(* has pinned is what is on its path, and a scan has at most its own page  *)
(* pinned, in every state of the object.                                   *)
THEOREM Inductive == SpecIndex => []IInv
<1>1. InitIndex => IInv
  BY InitInv
<1>2. IInv /\ [NextIndex]_<<vars, scanVars>> => IInv'
  BY StepInv
<1>. QED
  BY <1>1, <1>2, PTL DEF SpecIndex

-----------------------------------------------------------------------------
(* What follows from it in every state.                                    *)
LEMMA TypesFollow == ASSUME IInv PROVE ScanTypeOK
<1>1. PICK n \in Nat \ {0} : DOMAIN nodes = 2 .. n + 1 /\ DOMAIN pins = 1 .. n + 1
  BY DEF IInv, PagesInv
<1>2. Cardinality(DOMAIN nodes) = n
  <2>1. Cardinality(2 .. n + 1) = (n + 1) - 2 + 1
    BY FS_Interval
  <2>. QED
    BY <1>1, <2>1
<1>3. DOMAIN nodes = 2 .. Cardinality(DOMAIN nodes) + 1
  BY <1>1, <1>2
<1>4. DOMAIN pins = {headerPageNum} \cup DOMAIN nodes
  BY NewPageIs DEF IInv
<1>5. ASSUME NEW p \in DOMAIN nodes
      PROVE  \/ /\ nodes[p].kind = "leaf"
                /\ Len(nodes[p].entries) <= leafOccupancy
                /\ nodes[p].rightSibPageNo \in {NoPage} \cup DOMAIN nodes
             \/ /\ nodes[p].kind = "nonleaf"
                /\ Len(nodes[p].keyArray) <= nodeOccupancy
                /\ Len(nodes[p].pageNoArray) = Len(nodes[p].keyArray) + 1
                /\ ToSet(nodes[p].pageNoArray) \subseteq DOMAIN nodes
  <2>1. CASE IsLeaf(nodes[p], Leaves)
    BY <2>1 DEF IsLeaf, Leaves, LeavesOf
  <2>2. CASE IsInner(nodes[p], Leaves)
    <3>1. nodes[p].pageNoArray \in Seq(Leaves) /\ nodeOccupancy \in Nat
      BY <2>2, Halves DEF IsInner
    <3>2. ToSet(nodes[p].pageNoArray) \subseteq Leaves
      BY <3>1, LenProperties, ElementOfSeq DEF ToSet
    <3>. QED
      BY <2>2, <3>1, <3>2 DEF IsInner, Leaves, LeavesOf
  <2>. QED
    BY <2>1, <2>2, KindIs DEF IInv
<1>6. call.others \in 0 .. numBufs
  BY DEF IInv, ObjectInv, Calls
<1>7. TypeOK
  BY <1>3, <1>4, <1>5, <1>6 DEF TypeOK, IInv, PagesInv, ObjectInv
<1>. QED
  BY <1>7 DEF ScanTypeOK, IInv, ScanInv

(* Every change to a node is made while its page is pinned, and the page   *)
(* stays pinned until it is given back as dirty, whatever the keys and the *)
(* pool are and however the call ends: addEntryAndSplit unpins neither the *)
(* node that it splits nor the root before they are marked.                *)
THEOREM ChangesStayPinned == SpecIndex => []ChangesMarkedDirty
<1>1. IInv => ChangesMarkedDirty
  <2>1. ASSUME IInv, call.pc = "idle" PROVE ChangesMarkedDirty
    BY <2>1 DEF IInv, CallInv, IdleInv, ChangesMarkedDirty
  <2>2. ASSUME IInv, call.pc # "idle" PROVE ChangesMarkedDirty
    BY <2>2, ChangedIsHeld DEF ChangesMarkedDirty
  <2>. QED
    BY <2>1, <2>2
<1>. QED
  BY <1>1, Inductive, PTL

(* Between the calls of an object on which no insertion has failed, nothing *)
(* is pinned but the page of the scan, once, and only while it holds it; no *)
(* node is overfull and no page number leads out of the file.               *)
THEOREM PinsOfTheIndex == SpecIndex => []ScanPins
<1>1. IInv => ScanPins
  <2>1. ASSUME IInv, failures = 0, call = Idle, status # "undefined"
        PROVE  \A p \in DOMAIN pins :
                 pins[p] = IF scan.holds /\ p = scan.page THEN 1 ELSE 0
    BY <2>1, IdleIs DEF OnlyScanPins
  <2>. QED
    BY <2>1, TypesFollow DEF ScanPins
<1>. QED
  BY <1>1, Inductive, PTL

(* The destructor returns in whatever state the scan is, unless an          *)
(* insertion has failed before: flushFile finds no page pinned.             *)
THEOREM DestructorNeverThrows == SpecIndex => []DestructorReturns
<1>1. IInv => DestructorReturns
  BY DEF IInv, ObjectInv, DestructorReturns
<1>. QED
  BY <1>1, Inductive, PTL

(* What a step may never do: put another root over an inner node.          *)
InnerRootKept == rootPageNum \in NonLeaves => rootPageNum' = rootPageNum

(* The tree never has more than one inner level: a root that is an inner    *)
(* node stays the root, through every split and every reopening, because    *)
(* the split of an inner node asks whether its child is the root            *)
(* (btree.cpp, addEntryAndSplit of a NonLeafNodeInt).  So the run that      *)
(* shows an inner node hanging nowhere is no accident of its bounds.        *)
THEOREM InnerRootStays == SpecIndex => [][InnerRootKept]_<<vars, scanVars>>
<1>1. ASSUME IInv, rootPageNum \in NonLeaves, [NextIndex]_<<vars, scanVars>>
      PROVE  rootPageNum' = rootPageNum
  <2>. USE <1>1
  <2>1. rootPageNum = rootPageNo /\ rootPageNum \notin Leaves
    BY DEF IInv, PagesInv, NonLeaves, Leaves, LeavesOf
  <2>2. ~NewMeta
    BY <2>1 DEF NewMeta, IInv, CallInv, NewMetaInv
  <2>3. Reopen => rootPageNum' = rootPageNum
    BY <2>1 DEF Reopen
  <2>4. ASSUME NEW key, NEW others, InsertEntry(key, others)
        PROVE  rootPageNum' = rootPageNum
    BY <2>4 DEF InsertEntry, Throw, treeVars
  <2>5. Misread \/ Descend \/ LeafAdd \/ LeafSplit => rootPageNum' = rootPageNum
    BY DEF Misread, Descend, LeafAdd, LeafSplit, Throw, treeVars
  <2>6. NoSplitBelow \/ AddPivot \/ NonLeafSplit => rootPageNum' = rootPageNum
    BY DEF NoSplitBelow, AddPivot, NonLeafSplit, Throw, treeVars
  <2>7. Reread \/ NewRoot \/ Finish \/ Overrun => rootPageNum' = rootPageNum
    BY DEF Reread, NewRoot, Finish, Overrun, Throw, treeVars
  <2>8. InsertStep => rootPageNum' = rootPageNum
    BY <2>2, <2>4, <2>5, <2>6, <2>7 DEF InsertStep, Next
  <2>9. KeepTree => rootPageNum' = rootPageNum
    BY DEF KeepTree, treeVars
  <2>10. UNCHANGED vars => rootPageNum' = rootPageNum
    BY DEF vars
  <2>11. ASSUME NEW r, StartRefused(r) PROVE rootPageNum' = rootPageNum
    BY <2>10, <2>11 DEF StartRefused
  <2>12. ASSUME NEW r, NEW others, StartScan(r, others) PROVE rootPageNum' = rootPageNum
    BY <2>9, <2>12 DEF StartScan
  <2>13. ASSUME NEW others, ScanNext(others) PROVE rootPageNum' = rootPageNum
    BY <2>9, <2>13 DEF ScanNext
  <2>14. ASSUME NEW n, NEW high, NEW others, NextUnheld(n, high, others)
         PROVE  rootPageNum' = rootPageNum
    BY <2>9, <2>14 DEF NextUnheld
  <2>15. StartMiscast \/ NextRefused \/ NextAfterLast => rootPageNum' = rootPageNum
    BY <2>9 DEF StartMiscast, NextRefused, NextAfterLast
  <2>16. EndScan \/ Close \/ Stopped => rootPageNum' = rootPageNum
    BY <2>9, <2>10 DEF EndScan, Close, Stopped
  <2>17. UNCHANGED <<vars, scanVars>> => rootPageNum' = rootPageNum
    BY <2>10
  <2>. QED
    BY <2>3, <2>8, <2>11, <2>12, <2>13, <2>14, <2>15, <2>16, <2>17 DEF NextIndex
<1>2. IInv /\ [NextIndex]_<<vars, scanVars>> => [InnerRootKept]_<<vars, scanVars>>
  BY <1>1 DEF InnerRootKept
<1>. QED
  BY <1>2, Inductive, PTL DEF SpecIndex

-----------------------------------------------------------------------------
(* What the leaves hold.                                                   *)

(* The leaves in the order of the chain.                                   *)
InOrder(o, n) ==
    /\ o[1] = firstLeaf
    /\ \A l \in Leaves : \E i \in 1 .. n : o[i] = l
    /\ \A i, j \in 1 .. n : o[i] = o[j] => i = j
    /\ \A i \in 1 .. n :
         nodes[o[i]].rightSibPageNo = IF i = n THEN NoPage ELSE o[i + 1]

ChainInv == \E n \in Nat \ {0} : \E o \in [1 .. n -> Leaves] : InOrder(o, n)

(* The entries of a page, and of all pages.                                *)
On(p) == ToSet(nodes[p].entries)
OnLeaves == UNION {On(p) : p \in Leaves}

Distinct(s) == \A i, j \in DOMAIN s : s[i] = s[j] => i = j

NoneTwice ==
    /\ \A p \in Leaves : Distinct(nodes[p].entries)
    /\ \A p, q \in Leaves : p # q => On(p) \cap On(q) = {}

(* The record ids of the insertions are their numbers.                     *)
RidsInv ==
    /\ inserted \subseteq [key : Keys, rid : 1 .. Cardinality(inserted)]
    /\ call.pc # "idle" => call.rid = Cardinality(inserted) + 1

(* The entry that is on a leaf but not yet inserted: insertEntry has not   *)
(* returned.                                                               *)
Pending == IF call.pc \in {"idle", "down"} THEN {} ELSE {Entry}

StoredInv == status # "undefined" => OnLeaves = inserted \cup Pending

ContentInv == ChainInv /\ NoneTwice /\ RidsInv /\ StoredInv

AllInv == IInv /\ ContentInv

-----------------------------------------------------------------------------
(* What an insertion into a sequence and its two halves hold.              *)
LEMMA InsertAtHas ==
    ASSUME NEW S, NEW s \in Seq(S), NEW e \in S, NEW i \in 1 .. Len(s) + 1
    PROVE  /\ DOMAIN InsertAt(s, i, e) = 1 .. Len(s) + 1
           /\ \A j \in 1 .. Len(s) + 1 :
                InsertAt(s, i, e)[j] =
                  IF j < i THEN s[j] ELSE IF j = i THEN e ELSE s[j - 1]
<1> DEFINE low == SubSeq(s, 1, i - 1)
           high == SubSeq(s, i, Len(s))
<1>. Len(s) \in Nat /\ \A j \in 1 .. Len(s) : s[j] \in S
  BY ElementOfSeq, LenProperties
<1>1. /\ low \in Seq(S) /\ Len(low) = i - 1
      /\ \A j \in 1 .. i - 1 : low[j] = s[j]
  <2>1. \A j \in 1 .. i - 1 : s[j] \in S
    OBVIOUS
  <2>2. /\ low \in Seq(S) /\ Len(low) = i - 1
        /\ \A j \in 1 .. i - 1 : low[j] = s[1 + j - 1]
    BY <2>1, SubSeqProperties
  <2>. QED
    BY <2>2
<1>2. /\ high \in Seq(S) /\ Len(high) = Len(s) + 1 - i
      /\ \A j \in 1 .. Len(s) + 1 - i : high[j] = s[i + j - 1]
  <2>1. \A j \in i .. Len(s) : s[j] \in S
    OBVIOUS
  <2>. QED
    BY <2>1, SubSeqProperties
<1>3. <<e>> \in Seq(S) /\ Len(<<e>>) = 1 /\ <<e>>[1] = e
  OBVIOUS
<1>. HIDE DEF low, high
<1> DEFINE lowE == low \o <<e>>
<1>4. /\ lowE \in Seq(S) /\ Len(lowE) = i
      /\ \A j \in 1 .. i : lowE[j] = IF j < i THEN s[j] ELSE e
  <2>1. /\ lowE \in Seq(S) /\ Len(lowE) = i
        /\ \A j \in 1 .. i : lowE[j] = IF j <= i - 1 THEN low[j] ELSE <<e>>[j - (i - 1)]
    BY <1>1, <1>3, ConcatProperties
  <2>2. ASSUME NEW j \in 1 .. i PROVE lowE[j] = IF j < i THEN s[j] ELSE e
    <3>1. CASE j < i
      <4>1. j \in 1 .. i - 1 /\ j <= i - 1
        BY <3>1
      <4>2. lowE[j] = low[j] /\ low[j] = s[j]
        BY <1>1, <2>1, <4>1
      <4>. QED
        BY <3>1, <4>2
    <3>2. CASE j = i
      BY <1>3, <2>1, <3>2
    <3>3. j < i \/ j = i
      OBVIOUS
    <3>. QED
      BY ONLY <3>1, <3>2, <3>3
  <2>. QED
    BY <2>1, <2>2
<1>. HIDE DEF lowE
<1>5. /\ lowE \o high \in Seq(S) /\ Len(lowE \o high) = Len(s) + 1
      /\ \A j \in 1 .. Len(s) + 1 :
           (lowE \o high)[j] = IF j <= i THEN lowE[j] ELSE high[j - i]
  <2>1. Len(lowE) + Len(high) = Len(s) + 1
    BY <1>2, <1>4
  <2>2. /\ lowE \o high \in Seq(S) /\ Len(lowE \o high) = Len(lowE) + Len(high)
        /\ \A j \in 1 .. Len(lowE) + Len(high) :
             (lowE \o high)[j] = IF j <= Len(lowE) THEN lowE[j] ELSE high[j - Len(lowE)]
    BY <1>2, <1>4, ConcatProperties
  <2>. QED
    BY ONLY <1>4, <2>1, <2>2
<1>6. ASSUME NEW j \in 1 .. Len(s) + 1
      PROVE  (lowE \o high)[j] = IF j < i THEN s[j] ELSE IF j = i THEN e ELSE s[j - 1]
  <2>1. CASE j <= i
    <3>1. j \in 1 .. i
      BY <2>1
    <3>. QED
      BY <1>4, <1>5, <2>1, <3>1
  <2>2. CASE j > i
    <3>1. j - i \in 1 .. Len(s) + 1 - i /\ i + (j - i) - 1 = j - 1
      BY <2>2
    <3>. QED
      BY <1>2, <1>5, <2>2, <3>1
  <2>3. j <= i \/ j > i
    OBVIOUS
  <2>. QED
    BY ONLY <2>1, <2>2, <2>3
<1>7. DOMAIN (lowE \o high) = 1 .. Len(s) + 1
  BY <1>5, LenProperties
<1>. QED
  BY <1>6, <1>7 DEF InsertAt, low, high, lowE

LEMMA InsertAtHolds ==
    ASSUME NEW S, NEW s \in Seq(S), NEW e \in S, NEW i \in 1 .. Len(s) + 1
    PROVE  /\ ToSet(InsertAt(s, i, e)) = ToSet(s) \cup {e}
           /\ Distinct(s) /\ e \notin ToSet(s) => Distinct(InsertAt(s, i, e))
<1> DEFINE t == InsertAt(s, i, e)
<1>1. Len(s) \in Nat /\ DOMAIN s = 1 .. Len(s)
  BY LenProperties
<1>2. /\ DOMAIN t = 1 .. Len(s) + 1
      /\ \A j \in 1 .. Len(s) + 1 :
           t[j] = IF j < i THEN s[j] ELSE IF j = i THEN e ELSE s[j - 1]
  BY InsertAtHas
<1>. HIDE DEF t
<1>3. ToSet(t) \subseteq ToSet(s) \cup {e}
  BY <1>1, <1>2 DEF ToSet
<1>4. ASSUME NEW j \in 1 .. Len(s) PROVE s[j] \in ToSet(t)
  <2>1. CASE j < i
    <3>1. j \in 1 .. Len(s) + 1
      BY <1>1
    <3>2. t[j] = s[j]
      BY <1>2, <2>1, <3>1
    <3>. QED
      BY <1>2, <3>1, <3>2 DEF ToSet
  <2>2. CASE j >= i
    <3>1. j + 1 \in 1 .. Len(s) + 1 /\ ~(j + 1 < i) /\ j + 1 # i /\ (j + 1) - 1 = j
      BY <1>1, <2>2
    <3>2. t[j + 1] = s[j]
      BY <1>2, <3>1
    <3>. QED
      BY <1>2, <3>1, <3>2 DEF ToSet
  <2>. QED
    BY <1>1, <2>1, <2>2
<1>5. e \in ToSet(t)
  BY <1>1, <1>2 DEF ToSet
<1>6. ASSUME Distinct(s), e \notin ToSet(s), NEW j \in DOMAIN t, NEW k \in DOMAIN t,
             t[j] = t[k]
      PROVE  j = k
  <2>1. \A m \in 1 .. Len(s) : s[m] # e
    BY <1>1, <1>6 DEF ToSet
  <2>2. \A m, n \in 1 .. Len(s) : s[m] = s[n] => m = n
    BY <1>1, <1>6 DEF Distinct
  <2> DEFINE from(m) == IF m < i THEN m ELSE m - 1
  <2>3. \A m \in DOMAIN t : m # i => from(m) \in 1 .. Len(s) /\ t[m] = s[from(m)]
    BY <1>1, <1>2
  <2>4. t[i] = e /\ i \in DOMAIN t
    BY <1>1, <1>2
  <2>5. j = i <=> k = i
    BY <1>6, <2>1, <2>3, <2>4
  <2>6. j # i /\ k # i => from(j) = from(k)
    BY <1>6, <2>2, <2>3, <2>5
  <2>. QED
    BY <1>1, <1>2, <2>5, <2>6
<1>. QED
  BY <1>1, <1>3, <1>4, <1>5, <1>6 DEF Distinct, ToSet, t

(* Two parts of a sequence that make it up.                                *)
LEMMA PartsHold ==
    ASSUME NEW S, NEW s \in Seq(S), NEW h \in Nat, 1 <= h, h < Len(s)
    PROVE  LET low == SubSeq(s, 1, h)
               high == SubSeq(s, h + 1, Len(s))
           IN  /\ ToSet(low) \cup ToSet(high) = ToSet(s)
               /\ Distinct(s) => /\ Distinct(low) /\ Distinct(high)
                                 /\ ToSet(low) \cap ToSet(high) = {}
<1> DEFINE low == SubSeq(s, 1, h)
           high == SubSeq(s, h + 1, Len(s))
<1>1. Len(s) \in Nat /\ DOMAIN s = 1 .. Len(s) /\ \A j \in 1 .. Len(s) : s[j] \in S
  BY LenProperties, ElementOfSeq
<1>2. DOMAIN low = 1 .. h /\ \A j \in 1 .. h : low[j] = s[j]
  <2>1. \A j \in 1 .. h : s[j] \in S
    BY <1>1
  <2>2. /\ low \in Seq(S) /\ Len(low) = h
        /\ \A j \in 1 .. h : low[j] = s[1 + j - 1]
    BY <2>1, SubSeqProperties
  <2>. HIDE DEF low
  <2>3. \A j \in 1 .. h : 1 + j - 1 = j
    OBVIOUS
  <2>. QED
    BY <2>2, <2>3, LenProperties
<1>3. /\ DOMAIN high = 1 .. Len(s) - h
      /\ \A j \in 1 .. Len(s) - h : high[j] = s[h + j]
  <2>1. \A j \in h + 1 .. Len(s) : s[j] \in S
    BY <1>1
  <2>2. /\ high \in Seq(S) /\ Len(high) = Len(s) - h
        /\ \A j \in 1 .. Len(s) - h : high[j] = s[(h + 1) + j - 1]
    <3>1. Len(s) - (h + 1) + 1 = Len(s) - h /\ h + 1 \in 1 .. Len(s)
      BY <1>1
    <3>2. /\ high \in Seq(S) /\ Len(high) = Len(s) - (h + 1) + 1
          /\ \A j \in 1 .. Len(s) - (h + 1) + 1 : high[j] = s[(h + 1) + j - 1]
      BY <1>1, <2>1, <3>1, SubSeqProperties
    <3>. QED
      BY ONLY <3>1, <3>2
  <2>. HIDE DEF high
  <2>3. \A j \in 1 .. Len(s) - h : (h + 1) + j - 1 = h + j
    BY <1>1
  <2>. QED
    BY <2>2, <2>3, LenProperties
<1>. HIDE DEF low, high
<1>4. ToSet(low) \cup ToSet(high) = ToSet(s)
  <2>1. ToSet(low) \subseteq ToSet(s)
    BY <1>1, <1>2 DEF ToSet
  <2>2. \A j \in 1 .. Len(s) - h : h + j \in 1 .. Len(s)
    BY <1>1
  <2>3. ToSet(high) \subseteq ToSet(s)
    BY <1>1, <1>3, <2>2 DEF ToSet
  <2>4. \A j \in 1 .. Len(s) : j \in 1 .. h \/ (j - h \in 1 .. Len(s) - h /\ h + (j - h) = j)
    BY <1>1
  <2>5. \A j \in 1 .. Len(s) : s[j] \in ToSet(low) \/ s[j] \in ToSet(high)
    BY <1>2, <1>3, <2>4 DEF ToSet
  <2>. QED
    BY <1>1, <2>1, <2>3, <2>5 DEF ToSet
<1>5. ASSUME Distinct(s)
      PROVE  Distinct(low) /\ Distinct(high) /\ ToSet(low) \cap ToSet(high) = {}
  <2>1. \A i, j \in 1 .. Len(s) : s[i] = s[j] => i = j
    BY <1>1, <1>5 DEF Distinct
  <2>2. Distinct(low)
    BY <1>1, <1>2, <2>1 DEF Distinct
  <2>3. Distinct(high)
    <3>1. \A i, j \in 1 .. Len(s) - h : h + i = h + j => i = j
      BY <1>1
    <3>2. \A i \in 1 .. Len(s) - h : h + i \in 1 .. Len(s)
      BY <1>1
    <3>3. ASSUME NEW i \in 1 .. Len(s) - h, NEW j \in 1 .. Len(s) - h, high[i] = high[j]
          PROVE  i = j
      <4>1. s[h + i] = s[h + j]
        BY <1>3, <3>3
      <4>. QED
        BY <2>1, <3>1, <3>2, <4>1
    <3>. QED
      BY <1>3, <3>3 DEF Distinct
  <2>4. ASSUME NEW i \in 1 .. h, NEW j \in 1 .. Len(s) - h, low[i] = high[j] PROVE FALSE
    <3>1. i \in 1 .. Len(s) /\ h + j \in 1 .. Len(s) /\ i # h + j
      BY <1>1
    <3>. QED
      BY <1>2, <1>3, <2>1, <2>4, <3>1
  <2>5. ToSet(low) \cap ToSet(high) = {}
    <3>. SUFFICES ASSUME NEW x \in ToSet(low), x \in ToSet(high) PROVE FALSE
      OBVIOUS
    <3>1. PICK i \in 1 .. h : low[i] = x
      BY <1>2 DEF ToSet
    <3>2. PICK j \in 1 .. Len(s) - h : high[j] = x
      BY <1>3 DEF ToSet
    <3>. QED
      BY <2>4, <3>1, <3>2
  <2>. QED
    BY <2>2, <2>3, <2>5
<1>. QED
  BY <1>4, <1>5 DEF low, high

-----------------------------------------------------------------------------
(* What a step does to the leaves: nothing, one entry more on one of them, *)
(* or a new leaf on the right of another that shares its entries.          *)
LEMMA SameLeaves ==
    ASSUME Leaves' = Leaves, \A p \in Leaves : nodes'[p] = nodes[p]
    PROVE  /\ \A o, n : o \in [1 .. n -> Leaves] => (InOrder(o, n) <=> InOrder(o, n)')
           /\ ChainInv <=> ChainInv'
           /\ NoneTwice <=> NoneTwice'
           /\ OnLeaves' = OnLeaves
<1>1. ASSUME NEW n, NEW o \in [1 .. n -> Leaves] PROVE InOrder(o, n) <=> InOrder(o, n)'
  <2>1. \A i \in 1 .. n : nodes'[o[i]] = nodes[o[i]]
    OBVIOUS
  <2>. QED
    BY <2>1 DEF InOrder
<1>2. ChainInv <=> ChainInv'
  BY <1>1 DEF ChainInv
<1>3. NoneTwice <=> NoneTwice'
  BY DEF NoneTwice, On
<1>4. OnLeaves' = OnLeaves
  BY DEF OnLeaves, On
<1>. QED
  BY <1>1, <1>2, <1>3, <1>4

LEMMA OneLeaf ==
    ASSUME NEW c \in Leaves, NEW e, Leaves' = Leaves,
           \A p \in Leaves \ {c} : nodes'[p] = nodes[p],
           nodes'[c].rightSibPageNo = nodes[c].rightSibPageNo,
           On(c)' = On(c) \cup {e}, Distinct(nodes'[c].entries), e \notin OnLeaves
    PROVE  /\ \A o, n : o \in [1 .. n -> Leaves] => (InOrder(o, n) <=> InOrder(o, n)')
           /\ ChainInv => ChainInv'
           /\ NoneTwice => NoneTwice'
           /\ OnLeaves' = OnLeaves \cup {e}
<1>1. ASSUME NEW n, NEW o \in [1 .. n -> Leaves] PROVE InOrder(o, n) <=> InOrder(o, n)'
  <2>1. \A i \in 1 .. n : nodes'[o[i]].rightSibPageNo = nodes[o[i]].rightSibPageNo
    OBVIOUS
  <2>. QED
    BY <2>1 DEF InOrder
<1>2. ChainInv => ChainInv'
  BY <1>1 DEF ChainInv
<1>3. \A p \in Leaves \ {c} : On(p)' = On(p) /\ e \notin On(p)
  BY DEF On, OnLeaves
<1>4. NoneTwice => NoneTwice'
  <2>. SUFFICES ASSUME NoneTwice PROVE NoneTwice'
    OBVIOUS
  <2>1. \A p \in Leaves : Distinct(nodes'[p].entries)
    BY DEF NoneTwice
  <2>2. \A p, q \in Leaves : p # q => On(p)' \cap On(q)' = {}
    BY <1>3 DEF NoneTwice
  <2>. QED
    BY <2>1, <2>2 DEF NoneTwice
<1>5. OnLeaves' = OnLeaves \cup {e}
  BY <1>3 DEF OnLeaves
<1>. QED
  BY <1>1, <1>2, <1>4, <1>5

(* A page behind the i-th of the chain.                                    *)
Behind(o, n, i, q) ==
    [k \in 1 .. n + 1 |-> IF k <= i THEN o[k] ELSE IF k = i + 1 THEN q ELSE o[k - 1]]

LEMMA BehindInOrder ==
    ASSUME NEW n \in Nat \ {0}, NEW o \in [1 .. n -> Leaves], InOrder(o, n),
           NEW i \in 1 .. n, NEW q, q \notin Leaves, Leaves' = Leaves \cup {q},
           \A p \in Leaves \ {o[i]} : nodes'[p] = nodes[p],
           nodes'[o[i]].rightSibPageNo = q,
           nodes'[q].rightSibPageNo = nodes[o[i]].rightSibPageNo
    PROVE  /\ Behind(o, n, i, q) \in [1 .. n + 1 -> Leaves']
           /\ InOrder(Behind(o, n, i, q), n + 1)'
<1> DEFINE r == Behind(o, n, i, q)
<1>1. /\ r \in [1 .. n + 1 -> Leaves']
      /\ \A k \in 1 .. i : k \in 1 .. n /\ r[k] = o[k]
      /\ r[i + 1] = q /\ i + 1 \in 1 .. n + 1
      /\ \A k \in i + 2 .. n + 1 : k - 1 \in 1 .. n /\ r[k] = o[k - 1]
  BY DEF Behind
<1>2. \A k \in 1 .. n + 1 : k \in 1 .. i \/ k = i + 1 \/ k \in i + 2 .. n + 1
  OBVIOUS
<1>. HIDE DEF r
<1>3. r[1] = firstLeaf
  BY <1>1 DEF InOrder
<1>4. ASSUME NEW l \in Leaves' PROVE \E k \in 1 .. n + 1 : r[k] = l
  <2>1. CASE l = q
    BY <1>1, <2>1
  <2>2. CASE l \in Leaves
    <3>1. PICK k \in 1 .. n : o[k] = l
      BY <2>2 DEF InOrder
    <3>2. CASE k <= i
      <4>1. k \in 1 .. i /\ k \in 1 .. n + 1
        BY <3>2
      <4>. QED
        BY <1>1, <3>1, <4>1
    <3>3. CASE k > i
      <4>1. k + 1 \in i + 2 .. n + 1 /\ (k + 1) - 1 = k /\ k + 1 \in 1 .. n + 1
        BY <3>3
      <4>. QED
        BY <1>1, <3>1, <4>1
    <3>. QED
      BY <3>2, <3>3
  <2>. QED
    BY <2>1, <2>2
<1>5. ASSUME NEW j \in 1 .. n + 1, NEW k \in 1 .. n + 1, r[j] = r[k] PROVE j = k
  <2>1. \A x, y \in 1 .. n : o[x] = o[y] => x = y
    BY DEF InOrder
  <2>2. \A x \in 1 .. n : o[x] # q
    OBVIOUS
  <2>3. CASE j \in 1 .. i
    BY <1>1, <1>2, <1>5, <2>1, <2>2, <2>3
  <2>4. CASE j = i + 1
    BY <1>1, <1>2, <1>5, <2>2, <2>4
  <2>5. CASE j \in i + 2 .. n + 1
    BY <1>1, <1>2, <1>5, <2>1, <2>2, <2>5
  <2>. QED
    BY <1>2, <2>3, <2>4, <2>5
<1>6. ASSUME NEW k \in 1 .. n + 1
      PROVE  nodes'[r[k]].rightSibPageNo = IF k = n + 1 THEN NoPage ELSE r[k + 1]
  <2>1. \A x \in 1 .. n : nodes[o[x]].rightSibPageNo = IF x = n THEN NoPage ELSE o[x + 1]
    BY DEF InOrder
  <2>2. \A x \in 1 .. n : x # i => nodes'[o[x]] = nodes[o[x]]
    BY DEF InOrder
  <2>3. CASE k \in 1 .. i /\ k # i
    <3>1. k \in 1 .. n /\ k # n /\ k # n + 1 /\ k + 1 \in 1 .. i
      BY <2>3
    <3>. QED
      BY <1>1, <2>1, <2>2, <2>3, <3>1
  <2>4. CASE k = i
    BY <1>1, <2>4
  <2>5. CASE k = i + 1
    <3>1. CASE i = n
      BY <1>1, <2>1, <2>5, <3>1
    <3>2. CASE i # n
      <4>1. k + 1 \in i + 2 .. n + 1 /\ (k + 1) - 1 = i + 1 /\ k # n + 1
        BY <2>5, <3>2
      <4>. QED
        BY <1>1, <2>1, <2>5, <3>2, <4>1
    <3>. QED
      BY <3>1, <3>2
  <2>6. CASE k \in i + 2 .. n + 1
    <3>1. k - 1 \in 1 .. n /\ k - 1 # i /\ r[k] = o[k - 1]
      BY <1>1, <2>6
    <3>2. nodes'[r[k]].rightSibPageNo = IF k - 1 = n THEN NoPage ELSE o[(k - 1) + 1]
      BY <2>1, <2>2, <3>1
    <3>3. k # n + 1 => k + 1 \in i + 2 .. n + 1 /\ (k + 1) - 1 = (k - 1) + 1
      BY <2>6
    <3>4. k # n + 1 => r[k + 1] = o[(k - 1) + 1]
      BY <1>1, <3>3
    <3>5. k - 1 = n <=> k = n + 1
      BY <2>6
    <3>. QED
      BY <3>2, <3>4, <3>5
  <2>. QED
    BY <1>2, <2>3, <2>4, <2>5, <2>6
<1>. QED
  BY <1>1, <1>3, <1>4, <1>5, <1>6 DEF InOrder, r

LEMMA TwoLeaves ==
    ASSUME NEW c \in Leaves, NEW e, NEW q, q \notin Leaves, Leaves' = Leaves \cup {q},
           \A p \in Leaves \ {c} : nodes'[p] = nodes[p],
           nodes'[c].rightSibPageNo = q,
           nodes'[q].rightSibPageNo = nodes[c].rightSibPageNo,
           On(c)' \cup On(q)' = On(c) \cup {e}, On(c)' \cap On(q)' = {},
           Distinct(nodes'[c].entries), Distinct(nodes'[q].entries),
           e \notin OnLeaves
    PROVE  /\ ChainInv => ChainInv'
           /\ NoneTwice => NoneTwice'
           /\ OnLeaves' = OnLeaves \cup {e}
<1>1. ASSUME ChainInv PROVE ChainInv'
  <2>1. PICK n \in Nat \ {0} : \E o \in [1 .. n -> Leaves] : InOrder(o, n)
    BY <1>1 DEF ChainInv
  <2>2. PICK o \in [1 .. n -> Leaves] : InOrder(o, n)
    BY <2>1
  <2>3. PICK i \in 1 .. n : o[i] = c
    BY <2>2 DEF InOrder
  <2>4. /\ Behind(o, n, i, q) \in [1 .. n + 1 -> Leaves']
        /\ InOrder(Behind(o, n, i, q), n + 1)'
    BY <2>2, <2>3, BehindInOrder
  <2>5. n + 1 \in Nat \ {0}
    OBVIOUS
  <2>. QED
    BY <2>4, <2>5 DEF ChainInv
<1>2. \A p \in Leaves \ {c} : On(p)' = On(p) /\ e \notin On(p)
  BY DEF On, OnLeaves
<1>3. ASSUME NoneTwice PROVE NoneTwice'
  <2>1. \A p \in Leaves' : Distinct(nodes'[p].entries)
    BY <1>3 DEF NoneTwice
  <2>2. On(c)' \subseteq On(c) \cup {e} /\ On(q)' \subseteq On(c) \cup {e}
    OBVIOUS
  <2>3. \A p \in Leaves \ {c} : On(p) \cap On(c) = {}
    BY <1>3 DEF NoneTwice
  <2>4. \A p \in Leaves \ {c} : On(p)' \cap On(c)' = {} /\ On(p)' \cap On(q)' = {}
    BY <1>2, <2>2, <2>3
  <2>5. \A p, r \in Leaves \ {c} : p # r => On(p)' \cap On(r)' = {}
    BY <1>2, <1>3 DEF NoneTwice
  <2>6. \A p, r \in Leaves' : p # r => On(p)' \cap On(r)' = {}
    BY <2>4, <2>5
  <2>. QED
    BY <2>1, <2>6 DEF NoneTwice
<1>4. OnLeaves' = OnLeaves \cup {e}
  <2>1. \A x : x \in OnLeaves' <=> \E p \in Leaves' : x \in On(p)'
    BY DEF OnLeaves
  <2>2. \A x : x \in OnLeaves <=> \E p \in Leaves : x \in On(p)
    BY DEF OnLeaves
  <2>3. \A x : x \in OnLeaves' <=> x \in OnLeaves \cup {e}
    BY <1>2, <2>1, <2>2
  <2>. QED
    BY <2>3
<1>. QED
  BY <1>1, <1>3, <1>4

-----------------------------------------------------------------------------
(* An entry more in a leaf, and the halves of a full one.                  *)
LEMMA AddToLeafHolds ==
    ASSUME NEW es \in Seq(Entries), NEW e \in Entries
    PROVE  /\ ToSet(AddToLeaf(es, e)) = ToSet(es) \cup {e}
           /\ Distinct(es) /\ e \notin ToSet(es) => Distinct(AddToLeaf(es, e))
<1>1. Position(KeysOf(es), e.key) \in 1 .. Len(es) + 1
  BY PlaceIs
<1>. QED
  BY <1>1, InsertAtHolds DEF AddToLeaf

LEMMA HalvesHold ==
    ASSUME NEW es \in Seq(Entries), Len(es) = leafOccupancy, NEW e \in Entries,
           NEW goesRight \in BOOLEAN, Distinct(es), e \notin ToSet(es)
    PROVE  LET splitIndex == (leafOccupancy + 1) \div 2
               lower == SubSeq(es, 1, leafOccupancy - splitIndex)
               upper == UpperHalf(es)
               right == IF goesRight THEN AddToLeaf(upper, e) ELSE upper
               left == IF goesRight THEN lower ELSE AddToLeaf(lower, e)
           IN  /\ ToSet(left) \cup ToSet(right) = ToSet(es) \cup {e}
               /\ ToSet(left) \cap ToSet(right) = {}
               /\ Distinct(left) /\ Distinct(right)
<1> DEFINE splitIndex == (leafOccupancy + 1) \div 2
           lower == SubSeq(es, 1, leafOccupancy - splitIndex)
           upper == UpperHalf(es)
           right == IF goesRight THEN AddToLeaf(upper, e) ELSE upper
           left == IF goesRight THEN lower ELSE AddToLeaf(lower, e)
<1>1. PICK h \in Nat : /\ h >= 1 /\ leafOccupancy = 2 * h
                       /\ (leafOccupancy + 1) \div 2 = h
  BY Halves
<1>2. lower = SubSeq(es, 1, h) /\ upper = SubSeq(es, h + 1, Len(es))
  BY <1>1 DEF UpperHalf
<1>3. lower \in Seq(Entries) /\ upper \in Seq(Entries)
  <2>1. 1 <= h /\ h <= Len(es) /\ h + 1 <= Len(es) /\ Len(es) \in Nat /\ h + 1 \in Nat
    BY <1>1
  <2>2. SubSeq(es, 1, h) \in Seq(Entries)
    BY <2>1, PartIs
  <2>3. SubSeq(es, h + 1, Len(es)) \in Seq(Entries)
    BY <2>1, PartIs
  <2>. QED
    BY <1>2, <2>2, <2>3
<1>4. /\ ToSet(lower) \cup ToSet(upper) = ToSet(es)
      /\ ToSet(lower) \cap ToSet(upper) = {}
      /\ Distinct(lower) /\ Distinct(upper)
  <2>1. h \in Nat /\ 1 <= h /\ h < Len(es)
    BY <1>1
  <2> DEFINE low == SubSeq(es, 1, h)
             high == SubSeq(es, h + 1, Len(es))
  <2>2. /\ ToSet(low) \cup ToSet(high) = ToSet(es)
        /\ Distinct(es) => /\ Distinct(low) /\ Distinct(high)
                           /\ ToSet(low) \cap ToSet(high) = {}
    BY <2>1, PartsHold
  <2>3. lower = low /\ upper = high
    BY <1>2
  <2>. HIDE DEF low, high, lower, upper
  <2>. QED
    BY <2>2, <2>3
<1>. HIDE DEF lower, upper
<1>5. /\ ToSet(AddToLeaf(lower, e)) = ToSet(lower) \cup {e}
      /\ ToSet(AddToLeaf(upper, e)) = ToSet(upper) \cup {e}
      /\ Distinct(AddToLeaf(lower, e)) /\ Distinct(AddToLeaf(upper, e))
  <2>1. e \notin ToSet(lower) /\ e \notin ToSet(upper)
    BY <1>4
  <2>. QED
    BY <1>3, <1>4, <2>1, AddToLeafHolds
<1>6. /\ ToSet(left) \cup ToSet(right) = ToSet(es) \cup {e}
      /\ ToSet(left) \cap ToSet(right) = {}
      /\ Distinct(left) /\ Distinct(right)
  <2>1. CASE goesRight
    <3>1. left = lower /\ right = AddToLeaf(upper, e)
      BY <2>1
    <3>. HIDE DEF left, right
    <3>. QED
      BY <1>4, <1>5, <3>1
  <2>2. CASE ~goesRight
    <3>1. left = AddToLeaf(lower, e) /\ right = upper
      BY <2>2
    <3>. HIDE DEF left, right
    <3>. QED
      BY <1>4, <1>5, <3>1
  <2>. QED
    BY <2>1, <2>2
<1>. HIDE DEF left, right
<1>. QED
  BY <1>6 DEF left, right, lower, upper

-----------------------------------------------------------------------------
(* What a step makes of the entries that are inserted, and of those that   *)
(* are not yet.                                                            *)
LEMMA EntryIsNew ==
    ASSUME IInv, ContentInv, call.pc # "idle"
    PROVE  /\ Entry \notin inserted /\ Entry \in Entries /\ status = "open"
           /\ call.pc = "down" => Entry \notin OnLeaves
           /\ call.pc # "down" => Entry \in OnLeaves
<1>1. Cardinality(inserted) \in Nat
  BY FS_CardinalityType DEF IInv, ObjectInv
<1>2. Entry \notin inserted
  BY <1>1 DEF Entry, ContentInv, RidsInv
<1>3. status = "open" /\ OnLeaves = inserted \cup Pending
  BY PathIs DEF ContentInv, StoredInv
<1>. QED
  BY <1>2, <1>3, EntryIs DEF Pending

LEMMA NothingStored ==
    ASSUME IInv, ContentInv, ChainInv', NoneTwice', OnLeaves' = OnLeaves,
           inserted' = inserted,
           status' # "undefined" => status # "undefined" /\ Pending' = Pending,
           call'.pc # "idle" => \/ call.pc # "idle" /\ call'.rid = call.rid
                                \/ call'.rid = Cardinality(inserted) + 1
    PROVE  ContentInv'
<1>1. RidsInv'
  BY DEF ContentInv, RidsInv
<1>2. StoredInv'
  BY DEF ContentInv, StoredInv
<1>. QED
  BY <1>1, <1>2 DEF ContentInv

LEMMA PutOnLeaf ==
    ASSUME IInv, ContentInv, ChainInv', NoneTwice', OnLeaves' = OnLeaves \cup {Entry},
           inserted' = inserted, call.pc = "down", call'.pc \notin {"idle", "down"},
           call'.key = call.key, call'.rid = call.rid
    PROVE  ContentInv'
<1>1. RidsInv'
  BY DEF ContentInv, RidsInv
<1>2. Pending = {} /\ Pending' = {Entry}
  BY DEF Pending, Entry
<1>3. status = "open"
  BY EntryIsNew
<1>4. StoredInv'
  BY <1>2, <1>3 DEF ContentInv, StoredInv
<1>. QED
  BY <1>1, <1>4 DEF ContentInv

LEMMA Returned ==
    ASSUME IInv, ContentInv, ChainInv', NoneTwice', OnLeaves' = OnLeaves \cup {Entry},
           inserted' = inserted \cup {Entry}, call.pc # "idle", call' = Idle
    PROVE  ContentInv'
<1>1. /\ Entry \notin inserted /\ status = "open" /\ IsFiniteSet(inserted)
      /\ Idle.pc = "idle"
  BY EntryIsNew DEF IInv, ObjectInv, Idle
<1>2. Cardinality(inserted') = Cardinality(inserted) + 1 /\ Cardinality(inserted) \in Nat
  BY <1>1, FS_AddElement, FS_CardinalityType
<1>3. RidsInv'
  <2>1. Entry \in [key : Keys, rid : 1 .. Cardinality(inserted) + 1]
    <3>1. Entry \in Entries /\ Entry.rid = Cardinality(inserted) + 1
      BY EntryIsNew DEF Entry, ContentInv, RidsInv
    <3>. QED
      BY <1>2, <3>1 DEF Entries, Entry
  <2>2. inserted' \subseteq [key : Keys, rid : 1 .. Cardinality(inserted) + 1]
    <3>1. 1 .. Cardinality(inserted) \subseteq 1 .. Cardinality(inserted) + 1
      BY <1>2
    <3>2. inserted \subseteq [key : Keys, rid : 1 .. Cardinality(inserted)]
      BY DEF ContentInv, RidsInv
    <3>. QED
      BY <2>1, <3>1, <3>2
  <2>. QED
    BY <1>1, <1>2, <2>2 DEF RidsInv
<1>4. Pending \subseteq {Entry} /\ Pending' = {}
  BY <1>1 DEF Pending
<1>5. StoredInv'
  BY <1>1, <1>4 DEF ContentInv, StoredInv
<1>. QED
  BY <1>3, <1>5 DEF ContentInv

-----------------------------------------------------------------------------
(* The steps, one by one.                                                  *)
LEMMA ReturnIs ==
    ASSUME IInv, NEW pivot, ReturnWith(pivot)
    PROVE  \/ call' = Idle /\ inserted' = inserted \cup {Entry}
           \/ /\ call'.pc = "up" /\ call'.key = call.key /\ call'.rid = call.rid
              /\ inserted' = inserted
  BY DEF ReturnWith, IInv, ObjectInv, Calls

LEMMA ReturnContent ==
    ASSUME IInv, ContentInv, ChainInv', NoneTwice', OnLeaves' = OnLeaves \cup {Entry},
           call.pc # "idle", NEW pivot, ReturnWith(pivot)
    PROVE  ContentInv'
<1>1. CASE call' = Idle /\ inserted' = inserted \cup {Entry}
  BY <1>1, Returned
<1>2. CASE /\ call'.pc = "up" /\ call'.key = call.key /\ call'.rid = call.rid
           /\ inserted' = inserted
  <2>1. CASE call.pc = "down"
    BY <1>2, <2>1, PutOnLeaf
  <2>2. CASE call.pc # "down"
    <3>1. OnLeaves' = OnLeaves /\ status = "open"
      BY <2>2, EntryIsNew
    <3>2. Pending' = Pending
      BY <1>2, <2>2 DEF Pending, Entry
    <3>. QED
      BY <1>2, <3>1, <3>2, NothingStored
  <2>. QED
    BY <2>1, <2>2
<1>. QED
  BY <1>1, <1>2, ReturnIs

LEMMA SameNodes ==
    ASSUME ContentInv, nodes' = nodes
    PROVE  Leaves' = Leaves /\ ChainInv' /\ NoneTwice' /\ OnLeaves' = OnLeaves
<1>1. Leaves' = Leaves /\ \A p \in Leaves : nodes'[p] = nodes[p]
  BY DEF Leaves
<1>. QED
  BY <1>1, SameLeaves DEF ContentInv

LEMMA ThrowContent ==
    ASSUME IInv, ContentInv, Throw, call.pc \in {"idle", "down"}
    PROVE  ContentInv'
<1>1. nodes' = nodes /\ inserted' = inserted /\ status' = status
  BY DEF Throw
<1>2. call'.pc = "idle" /\ Pending = {} /\ Pending' = {}
  BY DEF Throw, Idle, Pending
<1>. QED
  BY <1>1, <1>2, SameNodes, NothingStored

(* A step of a call in which nothing returns and no leaf changes.          *)
LEMMA CallGoesOn ==
    ASSUME IInv, ContentInv, Leaves' = Leaves, \A p \in Leaves : nodes'[p] = nodes[p],
           inserted' = inserted, status' = status, call.pc # "idle",
           call'.key = call.key, call'.rid = call.rid,
           call'.pc = "down" <=> call.pc = "down", call'.pc # "idle"
    PROVE  ContentInv'
<1>1. ChainInv' /\ NoneTwice' /\ OnLeaves' = OnLeaves
  BY SameLeaves DEF ContentInv
<1>2. Pending' = Pending
  BY DEF Pending, Entry
<1>. QED
  BY <1>1, <1>2, NothingStored

LEMMA InsertEntryContent ==
    ASSUME IInv, ContentInv, NEW key \in Keys, NEW others, InsertEntry(key, others)
    PROVE  ContentInv'
<1>1. call.pc = "idle" /\ Pending = {}
  BY DEF InsertEntry, Idle, Pending
<1>2. CASE pins[rootPageNum] > 0 \/ FrameBeside(others)
  <2>1. /\ nodes' = nodes /\ inserted' = inserted /\ status' = status
        /\ call'.pc = "down" /\ call'.rid = Cardinality(inserted) + 1
    BY <1>2 DEF InsertEntry, treeVars, objectVars, Idle
  <2>2. Pending' = {}
    BY <2>1 DEF Pending
  <2>. QED
    BY <1>1, <2>1, <2>2, SameNodes, NothingStored
<1>3. CASE ~(pins[rootPageNum] > 0 \/ FrameBeside(others))
  BY <1>1, <1>3, ThrowContent DEF InsertEntry
<1>. QED
  BY <1>2, <1>3

LEMMA UndefinedContent ==
    ASSUME IInv, ContentInv, Misread \/ Overrun
    PROVE  ContentInv'
<1>1. /\ nodes' = nodes /\ inserted' = inserted /\ status' = "undefined"
      /\ call' = Idle /\ Idle.pc = "idle"
  BY DEF Misread, Overrun, treeVars, Idle
<1>. QED
  BY <1>1, SameNodes, NothingStored

LEMMA DescendContent ==
    ASSUME IInv, ContentInv, Descend
    PROVE  ContentInv'
<1>. USE DEF treeVars, objectVars
<1>1. call.pc = "down"
  BY DEF Descend, AtNonLeaf
<1> DEFINE next == nodes[curr].pageNoArray[Position(nodes[curr].keyArray, call.key)]
<1>2. CASE Room(next)
  <2>1. /\ nodes' = nodes /\ inserted' = inserted /\ status' = status
        /\ call' = [call EXCEPT !.path = Append(@, next), !.leaf = (nodes[curr].level = 1)]
    BY <1>2 DEF Descend
  <2>2. call'.pc = "down" /\ call'.rid = call.rid /\ call'.key = call.key
    <3>. HIDE DEF next
    <3>. QED
      BY <1>1, <2>1 DEF IInv, ObjectInv, Calls
  <2>3. Leaves' = Leaves
    BY <2>1 DEF Leaves
  <2>. QED
    BY <1>1, <2>1, <2>2, <2>3, CallGoesOn
<1>3. CASE ~Room(next)
  BY <1>1, <1>3, ThrowContent DEF Descend
<1>. QED
  BY <1>2, <1>3

LEMMA NoSplitBelowContent ==
    ASSUME IInv, ContentInv, NoSplitBelow
    PROVE  ContentInv'
<1>1. /\ call.pc # "idle" /\ call.pc # "down" /\ nodes' = nodes
      /\ ReturnWith(NoPivot)
  BY DEF NoSplitBelow, treeVars
<1>2. OnLeaves' = OnLeaves /\ Entry \in OnLeaves /\ ChainInv' /\ NoneTwice'
  BY <1>1, SameNodes, EntryIsNew
<1>. QED
  BY <1>1, <1>2, ReturnContent

LEMMA FinishContent ==
    ASSUME IInv, ContentInv, Finish
    PROVE  ContentInv'
<1>1. /\ call.pc # "idle" /\ call.pc # "down" /\ nodes' = nodes
      /\ ReturnWith(call.split.pivot)
  BY DEF Finish, treeVars
<1>2. OnLeaves' = OnLeaves /\ Entry \in OnLeaves /\ ChainInv' /\ NoneTwice'
  BY <1>1, SameNodes, EntryIsNew
<1>. QED
  BY <1>1, <1>2, ReturnContent

LEMMA RereadContent ==
    ASSUME IInv, ContentInv, Reread
    PROVE  ContentInv'
<1>. USE DEF treeVars, objectVars
<1>1. call.pc = "reread" /\ FreeFrame
  BY DEF Reread, IInv, CallInv, RereadInv
<1>2. /\ nodes' = nodes /\ inserted' = inserted /\ status' = status
      /\ SplitDone(call.pivot.pageNo, call.split.next, call.split.pivot)
  BY <1>1 DEF Reread, Room
<1>3. /\ call'.key = call.key /\ call'.rid = call.rid
      /\ call'.pc \in {"newroot", "finish"}
  BY <1>2 DEF SplitDone, IInv, ObjectInv, Calls
<1>4. Leaves' = Leaves
  BY <1>2 DEF Leaves
<1>. QED
  BY <1>1, <1>2, <1>3, <1>4, CallGoesOn

LEMMA NewMetaContent ==
    ASSUME IInv, ContentInv, NewMeta
    PROVE  ContentInv'
<1>. USE DEF treeVars, objectVars
<1>1. call.pc = "newmeta" /\ FreeFrame
  BY DEF NewMeta, IInv, CallInv, NewMetaInv
<1>2. /\ nodes' = nodes /\ inserted' = inserted /\ status' = status
      /\ call' = [call EXCEPT !.pc = "finish"]
  BY <1>1 DEF NewMeta, Room
<1>3. call'.key = call.key /\ call'.rid = call.rid /\ call'.pc = "finish"
  BY <1>2 DEF IInv, ObjectInv, Calls
<1>4. Leaves' = Leaves
  BY <1>2 DEF Leaves
<1>. QED
  BY <1>1, <1>2, <1>3, <1>4, CallGoesOn

(* Inner nodes that change or are new.                                     *)
LEMMA InnerChanged ==
    ASSUME NEW p \in DOMAIN nodes, p \notin Leaves, NEW x, x.kind = "nonleaf",
           nodes' = [nodes EXCEPT ![p] = x]
    PROVE  Leaves' = Leaves /\ \A l \in Leaves : nodes'[l] = nodes[l]
  BY DEF Leaves, LeavesOf

LEMMA InnerGrown ==
    ASSUME IInv, NEW p \in DOMAIN nodes, p \notin Leaves, NEW x, x.kind = "nonleaf",
           NEW y, y.kind = "nonleaf",
           nodes' = Grown([nodes EXCEPT ![p] = x], NewPage, y)
    PROVE  Leaves' = Leaves /\ \A l \in Leaves : nodes'[l] = nodes[l]
<1>1. NewPage \notin DOMAIN nodes
  BY NewPageIs DEF IInv
<1>2. /\ DOMAIN nodes' = DOMAIN nodes \cup {NewPage} /\ nodes'[NewPage] = y
      /\ \A q \in DOMAIN nodes \ {p} : nodes'[q] = nodes[q]
      /\ nodes'[p] = x
  BY <1>1 DEF Grown
<1>. QED
  BY <1>1, <1>2 DEF Leaves, LeavesOf

LEMMA AddPivotContent ==
    ASSUME IInv, ContentInv, AddPivot
    PROVE  ContentInv'
<1>1. /\ call.pc # "idle" /\ call.pc # "down" /\ call.pivot # NoPivot /\ call.pc = "up"
      /\ ReturnWith(NoPivot)
  BY DEF AddPivot
<1>2. curr \in DOMAIN nodes /\ curr \notin Leaves /\ IsInner(nodes[curr], Leaves)
  BY <1>1, UpIs
<1> DEFINE x == AddToNonLeaf(nodes[curr], call.pivot)
<1>3. x.kind = "nonleaf"
  <2>1. nodes[curr] = NonLeaf(1, nodes[curr].keyArray, nodes[curr].pageNoArray)
    BY <1>2 DEF IsInner
  <2>. QED
    BY <2>1 DEF AddToNonLeaf, NonLeaf
<1>4. nodes' = [nodes EXCEPT ![curr] = x]
  BY DEF AddPivot
<1>. HIDE DEF x
<1>5. Leaves' = Leaves /\ \A l \in Leaves : nodes'[l] = nodes[l]
  BY <1>2, <1>3, <1>4, InnerChanged
<1>6. ChainInv' /\ NoneTwice' /\ OnLeaves' = OnLeaves
  BY <1>5, SameLeaves DEF ContentInv
<1>7. Entry \in OnLeaves
  BY <1>1, EntryIsNew
<1>. QED
  BY <1>1, <1>6, <1>7, ReturnContent

(* The two nodes that the split of an inner node leaves.                   *)
LEMMA NonLeafSplitIs ==
    ASSUME IInv, NonLeafSplit
    PROVE  \E x, y, pivot :
             /\ IsInner(x, Leaves) /\ IsInner(y, Leaves)
             /\ nodes' = Grown([nodes EXCEPT ![curr] = x], NewPage, y)
             /\ call' = [call EXCEPT !.pc = "reread", !.split.next = NewPage,
                                     !.split.pivot = pivot]
             /\ inserted' = inserted /\ status' = status
             /\ rootPageNum' = rootPageNum
<1> DEFINE node == nodes[curr]
           s == (nodeOccupancy + 1) \div 2
           lower == NonLeaf(node.level, SubSeq(node.keyArray, 1, s),
                            SubSeq(node.pageNoArray, 1, s + 1))
           upper == NonLeaf(node.level,
                            SubSeq(node.keyArray, s + 1, nodeOccupancy),
                            SubSeq(node.pageNoArray, s + 1, nodeOccupancy + 1))
           goesRight == call.pivot.key > node.keyArray[s]
           right == IF goesRight THEN AddToNonLeaf(upper, call.pivot) ELSE upper
           left == IF goesRight THEN lower ELSE AddToNonLeaf(lower, call.pivot)
           pivotKey == IF goesRight THEN node.keyArray[s + 1] ELSE left.keyArray[s + 1]
           pivot == [pageNo |-> right.pageNoArray[1], key |-> pivotKey]
<1>1. /\ call.pc = "up" /\ call.pivot # NoPivot /\ FreeFrame
      /\ IsInner(node, Leaves) /\ Len(node.keyArray) >= nodeOccupancy
      /\ call.pivot.pageNo \in Leaves /\ call.pivot.key \in Keys
  BY UpIs DEF NonLeafSplit, Up
<1>2. /\ nodes' = Grown([nodes EXCEPT ![curr] = left], NewPage, right)
      /\ call' = [call EXCEPT !.pc = "reread", !.split.next = NewPage,
                              !.split.pivot = pivot]
      /\ inserted' = inserted /\ status' = status /\ rootPageNum' = rootPageNum
  BY <1>1 DEF NonLeafSplit, objectVars
<1>3. Len(node.keyArray) = nodeOccupancy /\ goesRight \in BOOLEAN
  <2>1. Len(node.keyArray) <= nodeOccupancy /\ Len(node.keyArray) \in Nat /\ nodeOccupancy \in Nat
    BY <1>1, Halves DEF IsInner
  <2>. QED
    BY <1>1, <2>1
<1>4. IsInner(left, Leaves) /\ IsInner(right, Leaves)
  <2>. HIDE DEF node, goesRight
  <2>. QED
    BY <1>1, <1>3, InnerHalves
<1>. HIDE DEF left, right, pivot
<1>. QED
  BY <1>2, <1>4

LEMMA NonLeafSplitContent ==
    ASSUME IInv, ContentInv, NonLeafSplit
    PROVE  ContentInv'
<1>1. PICK x, y, pivot :
        /\ IsInner(x, Leaves) /\ IsInner(y, Leaves)
        /\ nodes' = Grown([nodes EXCEPT ![curr] = x], NewPage, y)
        /\ call' = [call EXCEPT !.pc = "reread", !.split.next = NewPage,
                                !.split.pivot = pivot]
        /\ inserted' = inserted /\ status' = status
  BY NonLeafSplitIs
<1>2. call.pc = "up" /\ curr \in DOMAIN nodes /\ curr \notin Leaves
  BY UpIs DEF NonLeafSplit
<1>3. x.kind = "nonleaf" /\ y.kind = "nonleaf"
  BY <1>1 DEF IsInner
<1>4. Leaves' = Leaves /\ \A l \in Leaves : nodes'[l] = nodes[l]
  BY <1>1, <1>2, <1>3, InnerGrown
<1>5. call'.pc = "reread" /\ call'.key = call.key /\ call'.rid = call.rid
  BY <1>1 DEF IInv, ObjectInv, Calls
<1>. QED
  BY <1>1, <1>2, <1>4, <1>5, CallGoesOn

LEMMA NewRootContent ==
    ASSUME IInv, ContentInv, NewRoot
    PROVE  ContentInv'
<1>. USE DEF treeVars, objectVars
<1>1. call.pc = "newroot" /\ FreeFrame
  BY DEF NewRoot, IInv, CallInv, NewRootInv
<1> DEFINE level == IF call.split.curr = initRootPageNum
                    THEN 1 ELSE nodes[rootPageNum].level + 1
           y == NonLeaf(level, <<call.split.pivot.key>>,
                        <<call.split.curr, call.split.next>>)
<1>2. /\ nodes' = Grown(nodes, NewPage, y) /\ inserted' = inserted /\ status' = status
      /\ call' = [call EXCEPT !.pc = "newmeta"]
  BY <1>1 DEF NewRoot
<1>3. y.kind = "nonleaf"
  BY DEF NonLeaf
<1>. HIDE DEF y
<1>4. Leaves' = Leaves /\ \A l \in Leaves : nodes'[l] = nodes[l]
  <2>1. NewPage \notin DOMAIN nodes
    BY NewPageIs DEF IInv
  <2>2. /\ DOMAIN nodes' = DOMAIN nodes \cup {NewPage} /\ nodes'[NewPage] = y
        /\ \A q \in DOMAIN nodes : nodes'[q] = nodes[q]
    BY <1>2, <2>1 DEF Grown
  <2>. QED
    BY <1>3, <2>1, <2>2 DEF Leaves, LeavesOf
<1>5. call'.pc = "newmeta" /\ call'.key = call.key /\ call'.rid = call.rid
  BY <1>2 DEF IInv, ObjectInv, Calls
<1>. QED
  BY <1>1, <1>2, <1>4, <1>5, CallGoesOn

LEMMA LeafAddContent ==
    ASSUME IInv, ContentInv, LeafAdd
    PROVE  ContentInv'
<1> DEFINE es == AddToLeaf(nodes[curr].entries, Entry)
           x == [nodes[curr] EXCEPT !.entries = es]
<1>1. /\ call.pc = "down" /\ call.pc # "idle"
      /\ curr \in Leaves /\ curr \in DOMAIN nodes /\ IsLeaf(nodes[curr], Leaves)
  BY AtLeafIs DEF LeafAdd
<1>2. /\ nodes[curr] = Leaf(nodes[curr].entries, nodes[curr].rightSibPageNo)
      /\ nodes[curr].entries \in Seq(Entries)
  BY <1>1 DEF IsLeaf
<1>3. Entry \in Entries /\ Entry \notin OnLeaves
  BY <1>1, EntryIsNew
<1>4. Entry \notin On(curr) /\ Distinct(nodes[curr].entries)
  BY <1>1, <1>3 DEF OnLeaves, ContentInv, NoneTwice
<1>5. ToSet(es) = ToSet(nodes[curr].entries) \cup {Entry} /\ Distinct(es)
  BY <1>2, <1>3, <1>4, AddToLeafHolds DEF On
<1>6. nodes' = [nodes EXCEPT ![curr] = x] /\ ReturnWith(NoPivot)
  BY <1>1 DEF LeafAdd
<1>. HIDE DEF es
<1>7. x.entries = es /\ x.kind = "leaf" /\ x.rightSibPageNo = nodes[curr].rightSibPageNo
  BY <1>2 DEF Leaf
<1>. HIDE DEF x
<1>8. /\ nodes'[curr] = x /\ DOMAIN nodes' = DOMAIN nodes
      /\ \A p \in DOMAIN nodes \ {curr} : nodes'[p] = nodes[p]
  BY <1>1, <1>6
<1>9. Leaves' = Leaves /\ \A p \in Leaves \ {curr} : nodes'[p] = nodes[p]
  BY <1>1, <1>7, <1>8 DEF Leaves, LeavesOf
<1> DEFINE c == curr
<1>10. \E l \in Leaves :
          /\ \A p \in Leaves \ {l} : nodes'[p] = nodes[p]
          /\ nodes'[l].rightSibPageNo = nodes[l].rightSibPageNo
          /\ nodes'[l].entries = es /\ ToSet(es) = ToSet(nodes[l].entries) \cup {Entry}
  BY <1>1, <1>5, <1>7, <1>8, <1>9
<1>11. PICK l \in Leaves :
          /\ \A p \in Leaves \ {l} : nodes'[p] = nodes[p]
          /\ nodes'[l].rightSibPageNo = nodes[l].rightSibPageNo
          /\ nodes'[l].entries = es /\ ToSet(es) = ToSet(nodes[l].entries) \cup {Entry}
  BY <1>10
<1>12. On(l)' = On(l) \cup {Entry} /\ Distinct(nodes'[l].entries)
  BY <1>5, <1>11 DEF On
<1>13. ChainInv' /\ NoneTwice' /\ OnLeaves' = OnLeaves \cup {Entry}
  BY <1>3, <1>9, <1>11, <1>12, OneLeaf DEF ContentInv
<1>. QED
  BY <1>1, <1>6, <1>13, ReturnContent

(* The two leaves that a split leaves.                                     *)
LEMMA LeafSplitIs ==
    ASSUME IInv, LeafSplit, FreeFrame
    PROVE  LET es == nodes[curr].entries
               splitIndex == (leafOccupancy + 1) \div 2
               lower == SubSeq(es, 1, leafOccupancy - splitIndex)
               upper == UpperHalf(es)
               goesRight == call.key > es[splitIndex].key
               right == IF goesRight THEN AddToLeaf(upper, Entry) ELSE upper
               left == IF goesRight THEN lower ELSE AddToLeaf(lower, Entry)
               sibling == nodes[curr].rightSibPageNo
               split == [curr |-> curr, next |-> NewPage,
                         pivot |-> [pageNo |-> NewPage, key |-> right[1].key]]
           IN  /\ es \in Seq(Entries) /\ Len(es) = leafOccupancy /\ goesRight \in BOOLEAN
               /\ NewPage \notin DOMAIN nodes
               /\ DOMAIN nodes' = DOMAIN nodes \cup {NewPage}
               /\ nodes'[curr] = Leaf(left, NewPage)
               /\ nodes'[NewPage] = Leaf(right, sibling)
               /\ \A p \in DOMAIN nodes \ {curr} : nodes'[p] = nodes[p]
               /\ Leaves' = Leaves \cup {NewPage}
               /\ inserted' = inserted /\ status' = status
               /\ rootPageNum' = rootPageNum
               /\ call' = [call EXCEPT !.split = split,
                             !.pc = IF curr = rootPageNum THEN "newroot" ELSE "finish"]
<1> DEFINE es == nodes[curr].entries
           splitIndex == (leafOccupancy + 1) \div 2
           lower == SubSeq(es, 1, leafOccupancy - splitIndex)
           upper == UpperHalf(es)
           goesRight == call.key > es[splitIndex].key
           right == IF goesRight THEN AddToLeaf(upper, Entry) ELSE upper
           left == IF goesRight THEN lower ELSE AddToLeaf(lower, Entry)
           sibling == nodes[curr].rightSibPageNo
           x == Leaf(left, NewPage)
           y == Leaf(right, sibling)
<1>1. curr \in Leaves /\ curr \in DOMAIN nodes /\ IsLeaf(nodes[curr], Leaves)
  BY AtLeafIs DEF LeafSplit
<1>2. /\ nodes' = Grown([nodes EXCEPT ![curr] = x], NewPage, y)
      /\ SplitDone(curr, NewPage, [pageNo |-> NewPage, key |-> right[1].key])
      /\ inserted' = inserted /\ status' = status /\ rootPageNum' = rootPageNum
  BY DEF LeafSplit, objectVars
<1>3. es \in Seq(Entries) /\ Len(es) = leafOccupancy /\ goesRight \in BOOLEAN
  <2>1. es \in Seq(Entries) /\ Len(es) <= leafOccupancy /\ Len(es) >= leafOccupancy
    BY <1>1 DEF IsLeaf, LeafSplit
  <2>2. Len(es) \in Nat /\ leafOccupancy \in Nat
    BY <2>1, LenProperties, Halves
  <2>. QED
    BY <2>1, <2>2
<1>4. NewPage \notin DOMAIN nodes
  BY NewPageIs DEF IInv
<1>5. x.kind = "leaf" /\ y.kind = "leaf"
  BY DEF Leaf
<1>6. /\ DOMAIN nodes' = DOMAIN nodes \cup {NewPage} /\ nodes'[NewPage] = y
      /\ nodes'[curr] = x /\ \A p \in DOMAIN nodes \ {curr} : nodes'[p] = nodes[p]
  <2>. HIDE DEF x, y
  <2>. QED
    BY <1>1, <1>2, <1>4 DEF Grown
<1>7. Leaves' = Leaves \cup {NewPage}
  <2>. HIDE DEF x, y
  <2>. QED
    BY <1>1, <1>5, <1>6 DEF Leaves, LeavesOf
<1>. HIDE DEF left, right
<1>. QED
  BY <1>2, <1>3, <1>4, <1>6, <1>7 DEF SplitDone, left, right

LEMMA LeafSplitContent ==
    ASSUME IInv, ContentInv, LeafSplit
    PROVE  ContentInv'
<1> DEFINE es == nodes[curr].entries
           splitIndex == (leafOccupancy + 1) \div 2
           lower == SubSeq(es, 1, leafOccupancy - splitIndex)
           upper == UpperHalf(es)
           goesRight == call.key > es[splitIndex].key
           right == IF goesRight THEN AddToLeaf(upper, Entry) ELSE upper
           left == IF goesRight THEN lower ELSE AddToLeaf(lower, Entry)
           sibling == nodes[curr].rightSibPageNo
           split == [curr |-> curr, next |-> NewPage,
                     pivot |-> [pageNo |-> NewPage, key |-> right[1].key]]
<1>1. call.pc = "down" /\ call.pc # "idle" /\ curr \in Leaves
  BY AtLeafIs DEF LeafSplit
<1>2. CASE ~FreeFrame
  BY <1>1, <1>2, ThrowContent DEF LeafSplit
<1>3. CASE FreeFrame
  <2>1. /\ es \in Seq(Entries) /\ Len(es) = leafOccupancy /\ goesRight \in BOOLEAN
        /\ NewPage \notin DOMAIN nodes
        /\ nodes'[curr] = Leaf(left, NewPage) /\ nodes'[NewPage] = Leaf(right, sibling)
        /\ \A p \in DOMAIN nodes \ {curr} : nodes'[p] = nodes[p]
        /\ Leaves' = Leaves \cup {NewPage}
        /\ inserted' = inserted /\ status' = status
        /\ call' = [call EXCEPT !.split = split,
                      !.pc = IF curr = rootPageNum THEN "newroot" ELSE "finish"]
    BY <1>3, LeafSplitIs
  <2>2. Entry \in Entries /\ Entry \notin OnLeaves
    BY <1>1, EntryIsNew
  <2>3. Entry \notin ToSet(es) /\ Distinct(es)
    BY <1>1, <2>2 DEF OnLeaves, On, ContentInv, NoneTwice
  <2>4. /\ ToSet(left) \cup ToSet(right) = ToSet(es) \cup {Entry}
        /\ ToSet(left) \cap ToSet(right) = {}
        /\ Distinct(left) /\ Distinct(right)
    <3>. HIDE DEF es, goesRight
    <3>. QED
      BY <2>1, <2>2, <2>3, HalvesHold
  <2>5. /\ call'.pc \notin {"idle", "down"} /\ call'.key = call.key
        /\ call'.rid = call.rid
    <3>. HIDE DEF split
    <3>. QED
      BY <2>1 DEF IInv, ObjectInv, Calls
  <2>. HIDE DEF left, right, split
  <2>6. Leaves \subseteq DOMAIN nodes /\ NewPage \notin Leaves
    BY <2>1 DEF Leaves, LeavesOf
  <2>7. \E c, q :
          /\ c \in Leaves /\ q \notin Leaves /\ Leaves' = Leaves \cup {q}
          /\ \A p \in Leaves \ {c} : nodes'[p] = nodes[p]
          /\ nodes'[c] = Leaf(left, q)
          /\ nodes'[q] = Leaf(right, nodes[c].rightSibPageNo)
          /\ ToSet(left) \cup ToSet(right) = ToSet(nodes[c].entries) \cup {Entry}
    BY <1>1, <2>1, <2>4, <2>6
  <2>8. PICK c, q :
          /\ c \in Leaves /\ q \notin Leaves /\ Leaves' = Leaves \cup {q}
          /\ \A p \in Leaves \ {c} : nodes'[p] = nodes[p]
          /\ nodes'[c] = Leaf(left, q)
          /\ nodes'[q] = Leaf(right, nodes[c].rightSibPageNo)
          /\ ToSet(left) \cup ToSet(right) = ToSet(nodes[c].entries) \cup {Entry}
    BY <2>7
  <2>9. /\ nodes'[c].rightSibPageNo = q /\ nodes'[c].entries = left
        /\ nodes'[q].rightSibPageNo = nodes[c].rightSibPageNo
        /\ nodes'[q].entries = right
    BY <2>8 DEF Leaf
  <2>10. /\ On(c)' \cup On(q)' = On(c) \cup {Entry} /\ On(c)' \cap On(q)' = {}
         /\ Distinct(nodes'[c].entries) /\ Distinct(nodes'[q].entries)
    BY <2>4, <2>8, <2>9 DEF On
  <2>11. ChainInv' /\ NoneTwice' /\ OnLeaves' = OnLeaves \cup {Entry}
    BY <2>2, <2>8, <2>9, <2>10, TwoLeaves DEF ContentInv
  <2>. QED
    BY <1>1, <2>1, <2>5, <2>11, PutOnLeaf
<1>. QED
  BY <1>2, <1>3

LEMMA InsertStepContent ==
    ASSUME IInv, ContentInv, Next
    PROVE  ContentInv'
<1>1. ASSUME NEW key \in Keys, NEW others, InsertEntry(key, others) PROVE ContentInv'
  BY <1>1, InsertEntryContent
<1>2. Misread \/ Overrun => ContentInv'
  BY UndefinedContent
<1>3. Descend => ContentInv'
  BY DescendContent
<1>4. LeafAdd => ContentInv'
  BY LeafAddContent
<1>5. LeafSplit => ContentInv'
  BY LeafSplitContent
<1>6. NoSplitBelow => ContentInv'
  BY NoSplitBelowContent
<1>7. AddPivot => ContentInv'
  BY AddPivotContent
<1>8. NonLeafSplit => ContentInv'
  BY NonLeafSplitContent
<1>9. Reread => ContentInv'
  BY RereadContent
<1>10. NewRoot => ContentInv'
  BY NewRootContent
<1>11. NewMeta => ContentInv'
  BY NewMetaContent
<1>12. Finish => ContentInv'
  BY FinishContent
<1>. QED
  BY <1>1, <1>2, <1>3, <1>4, <1>5, <1>6, <1>7, <1>8, <1>9, <1>10, <1>11, <1>12 DEF Next

(* Every other step leaves the leaves and the insertions as they are.      *)
LEMMA OtherSteps ==
    ASSUME [NextIndex]_<<vars, scanVars>>
    PROVE  \/ Next
           \/ /\ nodes' = nodes /\ inserted' = inserted /\ call' = call
              /\ rootPageNum' \in {rootPageNum, rootPageNo} /\ rootPageNo' = rootPageNo
              /\ status' # "undefined" => status # "undefined"
<1> DEFINE Kept ==
             /\ nodes' = nodes /\ inserted' = inserted /\ call' = call
             /\ rootPageNum' = rootPageNum /\ rootPageNo' = rootPageNo
             /\ status' # "undefined" => status # "undefined"
<1>1. KeepTree /\ status = "open" => Kept
  BY DEF KeepTree, treeVars
<1>2. UNCHANGED vars => Kept
  BY DEF vars
<1>. HIDE DEF Kept
<1>3. ASSUME NEW r, StartRefused(r) PROVE Kept
  BY <1>2, <1>3 DEF StartRefused
<1>4. ASSUME NEW r, NEW others, StartScan(r, others) PROVE Kept
  BY <1>1, <1>4 DEF StartScan, CanScan
<1>5. ASSUME NEW others, ScanNext(others) PROVE Kept
  BY <1>1, <1>5 DEF ScanNext, CanScan
<1>6. ASSUME NEW n, NEW high, NEW others, NextUnheld(n, high, others) PROVE Kept
  BY <1>1, <1>6 DEF NextUnheld, CanScan
<1>7. StartMiscast \/ NextRefused \/ NextAfterLast \/ EndScan \/ Close => Kept
  BY <1>1 DEF StartMiscast, NextRefused, NextAfterLast, EndScan, Close, CanScan
<1>8. Stopped \/ UNCHANGED <<vars, scanVars>> => Kept
  BY <1>2 DEF Stopped
<1>9. InsertStep => Next
  BY DEF InsertStep
<1>. QED
  BY <1>3, <1>4, <1>5, <1>6, <1>7, <1>8, <1>9 DEF NextIndex, Reopen, Kept

LEMMA ContentStep ==
    ASSUME IInv, ContentInv, [NextIndex]_<<vars, scanVars>>
    PROVE  ContentInv'
<1>1. CASE Next
  BY <1>1, InsertStepContent
<1>2. CASE /\ nodes' = nodes /\ inserted' = inserted /\ call' = call
           /\ status' # "undefined" => status # "undefined"
  <2>1. Pending' = Pending
    BY <1>2 DEF Pending, Entry
  <2>. QED
    BY <1>2, <2>1, SameNodes, NothingStored
<1>. QED
  BY <1>1, <1>2, OtherSteps

LEMMA ContentInit == InitIndex => ContentInv
<1>. SUFFICES ASSUME InitIndex PROVE ContentInv
  OBVIOUS
<1>1. /\ nodes = [p \in {firstLeaf} |-> Leaf(<<>>, NoPage)] /\ inserted = {}
      /\ call = Idle /\ Idle.pc = "idle"
  BY DEF InitIndex, Init, Idle
<1>2. /\ DOMAIN nodes = {firstLeaf} /\ nodes[firstLeaf] = Leaf(<<>>, NoPage)
  BY <1>1
<1>3. /\ nodes[firstLeaf].kind = "leaf" /\ nodes[firstLeaf].entries = <<>>
      /\ nodes[firstLeaf].rightSibPageNo = NoPage
  BY <1>2 DEF Leaf
<1>4. Leaves = {firstLeaf}
  BY <1>2, <1>3 DEF Leaves, LeavesOf
<1>5. ChainInv
  <2> DEFINE o == [i \in 1 .. 1 |-> firstLeaf]
  <2>1. o \in [1 .. 1 -> Leaves] /\ InOrder(o, 1)
    BY <1>3, <1>4 DEF InOrder
  <2>. HIDE DEF o
  <2>2. \E n \in Nat \ {0} : n = 1
    OBVIOUS
  <2>3. \E n \in Nat \ {0} : \E f \in [1 .. n -> Leaves] : InOrder(f, n)
    BY <2>1, <2>2
  <2>. QED
    BY <2>3 DEF ChainInv
<1>6. On(firstLeaf) = {} /\ Distinct(nodes[firstLeaf].entries)
  BY <1>3 DEF On, ToSet, Distinct
<1>7. NoneTwice /\ OnLeaves = {}
  BY <1>4, <1>6 DEF NoneTwice, OnLeaves
<1>8. RidsInv /\ StoredInv
  BY <1>1, <1>7 DEF RidsInv, StoredInv, Pending
<1>. QED
  BY <1>5, <1>7, <1>8 DEF ContentInv

(* What the leaves hold are the insertions that returned, and the one that *)
(* is about to, each once; and there is one way along all of them.         *)
THEOREM InductiveContent == SpecIndex => []AllInv
<1>1. InitIndex => AllInv
  BY InitInv, ContentInit DEF AllInv
<1>2. AllInv /\ [NextIndex]_<<vars, scanVars>> => AllInv'
  BY StepInv, ContentStep DEF AllInv
<1>. QED
  BY <1>1, <1>2, PTL DEF SpecIndex

-----------------------------------------------------------------------------
(* Sequences put one behind another.                                       *)
Related(s, R) == \A a, b \in DOMAIN s : a < b => <<s[a], s[b]>> \in R

LEMMA ConcatHolds ==
    ASSUME NEW S, NEW s \in Seq(S), NEW t \in Seq(S), NEW R
    PROVE  /\ s \o t \in Seq(S) /\ ToSet(s \o t) = ToSet(s) \cup ToSet(t)
           /\ Related(s, R) /\ Related(t, R)
                /\ (\A x \in ToSet(s), y \in ToSet(t) : <<x, y>> \in R)
              => Related(s \o t, R)
<1> DEFINE u == s \o t
<1>1. /\ Len(s) \in Nat /\ Len(t) \in Nat
      /\ DOMAIN s = 1 .. Len(s) /\ DOMAIN t = 1 .. Len(t)
  BY LenProperties
<1>2. /\ u \in Seq(S) /\ Len(u) = Len(s) + Len(t)
      /\ \A i \in 1 .. Len(s) + Len(t) :
           u[i] = IF i <= Len(s) THEN s[i] ELSE t[i - Len(s)]
  BY ConcatProperties
<1>. HIDE DEF u
<1>3. DOMAIN u = 1 .. Len(s) + Len(t)
  BY <1>2, LenProperties
<1>4. \A i \in 1 .. Len(s) : i \in DOMAIN u /\ u[i] = s[i]
  BY <1>1, <1>2, <1>3
<1>5. \A i \in 1 .. Len(t) : Len(s) + i \in DOMAIN u /\ u[Len(s) + i] = t[i]
  <2>. SUFFICES ASSUME NEW i \in 1 .. Len(t)
                PROVE  Len(s) + i \in DOMAIN u /\ u[Len(s) + i] = t[i]
    OBVIOUS
  <2>1. /\ Len(s) + i \in 1 .. Len(s) + Len(t) /\ ~(Len(s) + i <= Len(s))
        /\ (Len(s) + i) - Len(s) = i
    BY <1>1
  <2>. QED
    BY <1>2, <1>3, <2>1
<1>6. \A i \in DOMAIN u : \/ i \in 1 .. Len(s)
                          \/ i - Len(s) \in 1 .. Len(t) /\ Len(s) + (i - Len(s)) = i
  BY <1>1, <1>3
<1>7. ToSet(u) = ToSet(s) \cup ToSet(t)
  <2>1. ToSet(s) \subseteq ToSet(u)
    BY <1>1, <1>4 DEF ToSet
  <2>2. ToSet(t) \subseteq ToSet(u)
    BY <1>1, <1>5 DEF ToSet
  <2>3. ToSet(u) \subseteq ToSet(s) \cup ToSet(t)
    BY <1>1, <1>4, <1>5, <1>6 DEF ToSet
  <2>. QED
    BY <2>1, <2>2, <2>3
<1>8. ASSUME Related(s, R), Related(t, R),
             \A x \in ToSet(s), y \in ToSet(t) : <<x, y>> \in R,
             NEW a \in DOMAIN u, NEW b \in DOMAIN u, a < b
      PROVE  <<u[a], u[b]>> \in R
  <2>1. CASE a \in 1 .. Len(s) /\ b \in 1 .. Len(s)
    BY <1>1, <1>4, <1>8, <2>1 DEF Related
  <2>2. CASE a \in 1 .. Len(s) /\ b - Len(s) \in 1 .. Len(t)
    <3>1. u[a] = s[a] /\ u[b] = t[b - Len(s)]
      BY <1>1, <1>3, <1>4, <1>5, <1>6, <2>2
    <3>2. s[a] \in ToSet(s) /\ t[b - Len(s)] \in ToSet(t)
      BY <1>1, <2>2 DEF ToSet
    <3>. QED
      BY <1>8, <3>1, <3>2
  <2>3. CASE a - Len(s) \in 1 .. Len(t) /\ b - Len(s) \in 1 .. Len(t)
    <3>1. u[a] = t[a - Len(s)] /\ u[b] = t[b - Len(s)]
      BY <1>1, <1>3, <1>5, <1>6, <2>3
    <3>2. a - Len(s) < b - Len(s)
      BY <1>1, <1>3, <1>8
    <3>. QED
      BY <1>1, <1>8, <2>3, <3>1, <3>2 DEF Related
  <2>4. ~(a - Len(s) \in 1 .. Len(t) /\ b \in 1 .. Len(s))
    BY <1>1, <1>3, <1>8
  <2>. QED
    BY <1>6, <2>1, <2>2, <2>3, <2>4
<1>9. /\ Related(s, R) /\ Related(t, R)
          /\ (\A x \in ToSet(s), y \in ToSet(t) : <<x, y>> \in R)
      => Related(u, R)
  BY <1>8 DEF Related
<1>. QED
  BY <1>2, <1>7, <1>9 DEF u

(* f has what the first i sequences make, one behind another.              *)
Pieces(f, ss, i) ==
    /\ DOMAIN f = 1 .. Len(ss)
    /\ f[1] = ss[1]
    /\ \A j \in 2 .. i : f[j] = f[j - 1] \o ss[j]

LEMMA PiecesExist ==
    ASSUME NEW ss, Len(ss) \in Nat, Len(ss) # 0
    PROVE  \E f : Pieces(f, ss, Len(ss)) /\ FlattenSeq(ss) = f[Len(ss)]
<1> DEFINE n == Len(ss)
           S == {i \in Nat : \E f : Pieces(f, ss, i + 1)}
           Body(f) == [i \in 1 .. Len(ss) |->
                         IF i = 1 THEN ss[i] ELSE f[i - 1] \o ss[i]]
<1>1. 0 \in S
  <2>1. Pieces([i \in 1 .. n |-> ss[1]], ss, 1)
    BY DEF Pieces
  <2>. QED
    BY <2>1
<1>2. ASSUME NEW i \in 0 .. (n - 1) - 1, i \in S PROVE i + 1 \in S
  <2>1. PICK f : Pieces(f, ss, i + 1)
    BY <1>2
  <2> DEFINE g == [j \in 1 .. n |-> IF j = i + 2 THEN f[i + 1] \o ss[i + 2] ELSE f[j]]
  <2>2. Pieces(g, ss, (i + 1) + 1)
    <3>1. DOMAIN g = 1 .. Len(ss) /\ g[1] = ss[1]
      BY <2>1 DEF Pieces
    <3>2. ASSUME NEW j \in 2 .. (i + 1) + 1 PROVE g[j] = g[j - 1] \o ss[j]
      <4>1. CASE j = i + 2
        <5>1. /\ j \in 1 .. n /\ j - 1 = i + 1 /\ j - 1 \in 1 .. n /\ j - 1 # i + 2
          BY <4>1
        <5>. QED
          BY <4>1, <5>1
      <4>2. CASE j # i + 2
        <5>1. /\ j \in 2 .. i + 1 /\ j \in 1 .. n /\ j - 1 \in 1 .. n /\ j - 1 # i + 2
          BY <4>2
        <5>2. f[j] = f[j - 1] \o ss[j]
          BY <2>1, <5>1 DEF Pieces
        <5>. QED
          BY <4>2, <5>1, <5>2
      <4>. QED
        BY <4>1, <4>2
    <3>. HIDE DEF g
    <3>. QED
      BY <3>1, <3>2 DEF Pieces
  <2>. HIDE DEF g
  <2>. QED
    BY <2>2
<1>3. \E f : Pieces(f, ss, n)
  <2>1. \A i \in 0 .. n - 1 : i \in S
    <3>1. n - 1 \in Nat
      OBVIOUS
    <3>. HIDE DEF S, n
    <3>. QED
      BY <1>1, <1>2, <3>1, Upwards
  <2>2. n - 1 \in 0 .. n - 1 /\ (n - 1) + 1 = n
    OBVIOUS
  <2>. QED
    BY <2>1, <2>2
<1>4. PICK f : Pieces(f, ss, n)
  BY <1>3
<1> DEFINE f0 == [i \in 1 .. Len(ss) |-> f[i]]
<1>5. f0 = Body(f0)
  <2>1. ASSUME NEW i \in 1 .. Len(ss) PROVE f0[i] = Body(f0)[i]
    <3>1. CASE i = 1
      BY <1>4, <3>1 DEF Pieces
    <3>2. CASE i # 1
      <4>1. i \in 2 .. n /\ i - 1 \in 1 .. Len(ss)
        BY <3>2
      <4>. QED
        BY <1>4, <3>2, <4>1 DEF Pieces
    <3>. QED
      BY <3>1, <3>2
  <2>. HIDE DEF f0
  <2>2. DOMAIN f0 = 1 .. Len(ss) /\ f0 = [i \in DOMAIN f0 |-> f0[i]]
    BY DEF f0
  <2>. QED
    BY <2>1, <2>2
<1>6. \E g : g = Body(g) /\ FlattenSeq(ss) = g[Len(ss)]
  <2>. HIDE DEF f0
  <2>1. \E g : g = Body(g)
    BY <1>5
  <2>. QED
    BY <2>1 DEF FlattenSeq
<1>7. PICK g : g = Body(g) /\ FlattenSeq(ss) = g[Len(ss)]
  BY <1>6
<1>8. Pieces(g, ss, n)
  <2>1. /\ DOMAIN g = 1 .. Len(ss)
        /\ \A i \in 1 .. Len(ss) : g[i] = IF i = 1 THEN ss[i] ELSE g[i - 1] \o ss[i]
    <3>1. DOMAIN Body(g) = 1 .. Len(ss)
      OBVIOUS
    <3>2. \A i \in 1 .. Len(ss) :
             Body(g)[i] = IF i = 1 THEN ss[i] ELSE g[i - 1] \o ss[i]
      OBVIOUS
    <3>. HIDE DEF Body
    <3>. QED
      BY <1>7, <3>1, <3>2
  <2>2. g[1] = ss[1]
    <3>1. 1 \in 1 .. Len(ss)
      OBVIOUS
    <3>. QED
      BY ONLY <2>1, <3>1
  <2>3. ASSUME NEW j \in 2 .. n PROVE g[j] = g[j - 1] \o ss[j]
    <3>1. j \in 1 .. Len(ss) /\ j # 1
      OBVIOUS
    <3>. QED
      BY ONLY <2>1, <3>1
  <2>. QED
    BY <2>1, <2>2, <2>3 DEF Pieces
<1>. QED
  BY <1>7, <1>8

LEMMA FlattenHolds ==
    ASSUME NEW S, NEW n \in Nat \ {0}, NEW ss \in [1 .. n -> Seq(S)], NEW R,
           \A i \in 1 .. n : Related(ss[i], R),
           \A i, j \in 1 .. n :
             i < j => \A x \in ToSet(ss[i]), y \in ToSet(ss[j]) : <<x, y>> \in R
    PROVE  /\ FlattenSeq(ss) \in Seq(S) /\ Related(FlattenSeq(ss), R)
           /\ \A x : x \in ToSet(FlattenSeq(ss)) <=> \E i \in 1 .. n : x \in ToSet(ss[i])
<1>1. ss \in Seq(Seq(S)) /\ Len(ss) = n
  <2>1. ss \in Seq(Seq(S)) /\ DOMAIN ss = 1 .. n
    BY SeqDef
  <2>2. Len(ss) \in Nat /\ DOMAIN ss = 1 .. Len(ss)
    BY <2>1, LenProperties
  <2>. QED
    BY <2>1, <2>2
<1>2. PICK f : Pieces(f, ss, n) /\ FlattenSeq(ss) = f[n]
  BY <1>1, PiecesExist
<1> DEFINE Good(i) ==
             /\ f[i] \in Seq(S) /\ Related(f[i], R)
             /\ \A x : x \in ToSet(f[i]) <=> \E k \in 1 .. i : x \in ToSet(ss[k])
           T == {i \in Nat : Good(i + 1)}
<1>3. 0 \in T
  <2>1. f[1] = ss[1] /\ 1 \in 1 .. n /\ ss[1] \in Seq(S)
    BY <1>2 DEF Pieces
  <2>2. \A k \in 1 .. 1 : k = 1
    OBVIOUS
  <2>. QED
    BY <2>1, <2>2
<1>4. ASSUME NEW i \in 0 .. (n - 1) - 1, i \in T PROVE i + 1 \in T
  <2>1. /\ i + 2 \in 1 .. n /\ i + 2 \in 2 .. n /\ (i + 2) - 1 = i + 1
        /\ ss[i + 2] \in Seq(S) /\ (i + 1) + 1 = i + 2
    OBVIOUS
  <2>2. f[i + 2] = f[i + 1] \o ss[i + 2]
    BY <1>2, <2>1 DEF Pieces
  <2>3. Good(i + 1)
    BY <1>4
  <2>4. \A x \in ToSet(f[i + 1]), y \in ToSet(ss[i + 2]) : <<x, y>> \in R
    <3>1. \A k \in 1 .. i + 1 : k \in 1 .. n /\ k < i + 2
      OBVIOUS
    <3>. QED
      BY <2>1, <2>3, <3>1
  <2>5. Related(ss[i + 2], R)
    BY <2>1
  <2>6. /\ f[i + 2] \in Seq(S) /\ Related(f[i + 2], R)
        /\ ToSet(f[i + 2]) = ToSet(f[i + 1]) \cup ToSet(ss[i + 2])
    BY <2>1, <2>2, <2>3, <2>4, <2>5, ConcatHolds
  <2>7. \A k : k \in 1 .. i + 2 <=> k \in 1 .. i + 1 \/ k = i + 2
    OBVIOUS
  <2>8. Good(i + 2)
    BY <2>3, <2>6, <2>7
  <2>. QED
    BY <2>1, <2>8
<1>5. n - 1 \in T
  <2>1. n - 1 \in Nat /\ n - 1 \in 0 .. n - 1
    OBVIOUS
  <2>. HIDE DEF T
  <2>. QED
    BY <1>3, <1>4, <2>1, Upwards
<1>6. Good(n)
  <2>1. (n - 1) + 1 = n
    OBVIOUS
  <2>2. Good((n - 1) + 1)
    BY <1>5
  <2>. HIDE DEF Good
  <2>. QED
    BY <2>1, <2>2
<1>. QED
  BY <1>2, <1>6

-----------------------------------------------------------------------------
(* The chain is the order of the leaves, and Stored is what they hold.     *)
(* What is linked to a leaf are it and the leaves after it.                *)
LEMMA ChainFromIs ==
    ASSUME IInv, NEW n \in Nat \ {0}, NEW o \in [1 .. n -> Leaves], InOrder(o, n),
           NEW m \in 1 .. n
    PROVE  /\ ChainFrom(o[m]) \in Seq(Leaves) /\ Len(ChainFrom(o[m])) = n - m + 1
           /\ \A k \in 1 .. n - m + 1 : ChainFrom(o[m])[k] = o[m + k - 1]
<1>. Size \in Nat
  BY SizeIs
<1>1. PICK f : Steps(f, o[m], Size) /\ ChainFrom(o[m]) = f[Size]
  BY ChainSteps
<1>3. \A l \in Leaves : l # NoPage
  BY NewPageIs DEF IInv, Leaves, LeavesOf
<1>4. n <= Size
  <2>1. Leaves \subseteq DOMAIN nodes /\ IsFiniteSet(DOMAIN nodes)
    <3>1. PICK k \in Nat \ {0} : DOMAIN nodes = 2 .. k + 1
      BY DEF IInv, PagesInv
    <3>. QED
      BY <3>1, FS_Interval DEF Leaves, LeavesOf
  <2>2. o \in Injection(1 .. n, DOMAIN nodes)
    <3>1. o \in [1 .. n -> DOMAIN nodes]
      BY <2>1
    <3>2. \A a, b \in DOMAIN o : o[a] = o[b] => a = b
      BY DEF InOrder
    <3>. QED
      BY <3>1, <3>2 DEF Injection, IsInjective
  <2>3. Cardinality(1 .. n) <= Cardinality(DOMAIN nodes)
    BY <2>1, <2>2, FS_Injection
  <2>4. Cardinality(1 .. n) = n
    BY FS_Interval
  <2>. QED
    BY <2>3, <2>4 DEF Size
<1> DEFINE z == n - m + 1
           Upto(i) == IF i < z THEN i + 1 ELSE z
           W(w, i) == /\ w \in Seq(Leaves) /\ Len(w) = Upto(i)
                      /\ \A k \in 1 .. Upto(i) : w[k] = o[m + k - 1]
           T == {i \in Nat : W(f[i], i)}
<1>2. z \in Nat /\ 1 <= z /\ z <= n /\ \A k \in 1 .. z : m + k - 1 \in 1 .. n
  OBVIOUS
<1>5. 0 \in T
  <2>1. f[0] = <<o[m]>> /\ m + 1 - 1 = m
    BY <1>1 DEF Steps
  <2>2. Upto(0) = 1 /\ o[m] \in Leaves
    BY <1>2
  <2>3. /\ <<o[m]>> \in Seq(Leaves) /\ Len(<<o[m]>>) = 1
        /\ \A k \in 1 .. 1 : <<o[m]>>[k] = o[m + k - 1]
    BY <2>1, <2>2
  <2>. QED
    BY <2>1, <2>2, <2>3
<1>6. ASSUME NEW i \in 0 .. Size - 1, i \in T PROVE i + 1 \in T
  <2> DEFINE w == f[i]
             j == Upto(i)
  <2>1. f[i + 1] = Further(w)
    <3>1. i + 1 \in 1 .. Size /\ (i + 1) - 1 = i
      OBVIOUS
    <3>. QED
      BY <1>1, <3>1 DEF Steps
  <2>2. W(w, i) /\ j \in 1 .. z /\ m + j - 1 \in 1 .. n
    BY <1>2, <1>6
  <2>3. Last(w) = o[m + j - 1]
    <3>1. Len(w) = j /\ w[j] = o[m + j - 1]
      BY <2>2
    <3>. QED
      BY <3>1 DEF Last
  <2>4. /\ m + j - 1 + 1 = m + (j + 1) - 1 /\ (m + j - 1 = n <=> j = z)
        /\ nodes[o[m + j - 1]].rightSibPageNo =
             IF m + j - 1 = n THEN NoPage ELSE o[m + j - 1 + 1]
    <3>1. j \in 1 .. z
      BY <2>2
    <3>2. PICK q \in 1 .. n : q = m + j - 1
      BY <2>2
    <3>3. nodes[o[q]].rightSibPageNo = IF q = n THEN NoPage ELSE o[q + 1]
      BY DEF InOrder
    <3>. HIDE DEF w, j
    <3>4. m + j - 1 + 1 = m + (j + 1) - 1 /\ (m + j - 1 = n <=> j = z)
      BY <3>1
    <3>. QED
      BY <3>2, <3>3, <3>4
  <2>5. CASE j = z
    <3>1. Further(w) = w
      BY <2>3, <2>4, <2>5 DEF Further
    <3>2. Upto(i + 1) = z /\ Upto(i) = z
      BY <1>2, <2>5
    <3>3. W(w, i + 1)
      BY <2>2, <3>2
    <3>. QED
      BY <2>1, <3>1, <3>3
  <2>6. CASE j # z
    <3>1. /\ j = i + 1 /\ Upto(i) = i + 1 /\ Upto(i + 1) = i + 2 /\ i + 2 \in 1 .. z
          /\ j + 1 = i + 2
      BY <1>2, <2>6
    <3> DEFINE x == o[m + (i + 2) - 1]
    <3>2. x \in Leaves /\ x # NoPage
      BY <1>2, <1>3, <3>1
    <3>3. Further(w) = Append(w, x)
      BY <2>3, <2>4, <2>6, <3>1, <3>2 DEF Further
    <3>4. w \in Seq(Leaves) /\ Len(w) = i + 1 /\ \A k \in 1 .. i + 1 : w[k] = o[m + k - 1]
      BY <2>2, <3>1
    <3>5. /\ Further(w) \in Seq(Leaves) /\ Len(Further(w)) = i + 2
          /\ \A k \in 1 .. i + 1 : Further(w)[k] = w[k]
          /\ Further(w)[i + 2] = x
      <4>. HIDE DEF w, x
      <4>1. Len(w) + 1 = i + 2
        BY <3>4
      <4>. QED
        BY <3>2, <3>3, <3>4, <4>1, AppendProperties
    <3>6. \A k \in 1 .. i + 2 : k \in 1 .. i + 1 \/ k = i + 2
      OBVIOUS
    <3>7. \A k \in 1 .. i + 2 : Further(w)[k] = o[m + k - 1]
      BY <3>4, <3>5, <3>6
    <3>8. W(Further(w), i + 1)
      <4>1. Len(Further(w)) = Upto(i + 1)
        BY <3>1, <3>5
      <4>2. \A k \in 1 .. Upto(i + 1) : Further(w)[k] = o[m + k - 1]
        BY <3>1, <3>7
      <4>. HIDE DEF w, Upto
      <4>. QED
        BY <3>5, <4>1, <4>2
    <3>9. W(f[i + 1], i + 1)
      BY <2>1, <3>8
    <3>. HIDE DEF W
    <3>. QED
      BY <3>9
  <2>. QED
    BY <2>5, <2>6
<1>7. Size \in T
  <2>1. Size \in 0 .. Size
    OBVIOUS
  <2>. HIDE DEF T
  <2>. QED
    BY <1>5, <1>6, <2>1, Upwards
<1>8. Upto(Size) = z
  BY <1>2, <1>4
<1>9. W(f[Size], Size)
  BY <1>7
<1>. QED
  BY <1>1, <1>8, <1>9

LEMMA ChainIsOrder ==
    ASSUME IInv, NEW n \in Nat \ {0}, NEW o \in [1 .. n -> Leaves], InOrder(o, n)
    PROVE  Chain = o
<1>1. 1 \in 1 .. n /\ o[1] = firstLeaf /\ n - 1 + 1 = n /\ \A k \in 1 .. n : 1 + k - 1 = k
  BY DEF InOrder
<1>2. Chain \in Seq(Leaves) /\ Len(Chain) = n /\ \A k \in 1 .. n : Chain[k] = o[k]
  <2>1. /\ ChainFrom(o[1]) \in Seq(Leaves) /\ Len(ChainFrom(o[1])) = n - 1 + 1
        /\ \A k \in 1 .. n - 1 + 1 : ChainFrom(o[1])[k] = o[1 + k - 1]
    BY <1>1, ChainFromIs
  <2>. QED
    BY <1>1, <2>1 DEF Chain
<1>3. o \in Seq(Leaves) /\ Len(o) = n
  <2>1. o \in Seq(Leaves) /\ DOMAIN o = 1 .. n
    BY SeqDef
  <2>2. Len(o) \in Nat /\ DOMAIN o = 1 .. Len(o)
    BY <2>1, LenProperties
  <2>. QED
    BY <2>1, <2>2
<1>. QED
  BY <1>2, <1>3, SeqEqual

(* Two entries that are not one. *)
Apart == {xy \in Entries \X Entries : xy[1] # xy[2]}

LEMMA StoredIs ==
    ASSUME IInv, ChainInv, NoneTwice
    PROVE  /\ Stored \in Seq(Entries) /\ ToSet(Stored) = OnLeaves
           /\ Distinct(Stored)
<1>1. PICK n \in Nat \ {0} : \E o \in [1 .. n -> Leaves] : InOrder(o, n)
  BY DEF ChainInv
<1>2. PICK o \in [1 .. n -> Leaves] : InOrder(o, n)
  BY <1>1
<1>3. Chain = o /\ DOMAIN o = 1 .. n
  BY <1>2, ChainIsOrder
<1> DEFINE ss == [i \in 1 .. n |-> nodes[o[i]].entries]
<1>4. Stored = FlattenSeq(ss)
  <2>1. [i \in DOMAIN Chain |-> nodes[Chain[i]].entries] = ss
    BY <1>3
  <2>. QED
    BY <2>1 DEF Stored
<1>5. \A l \in Leaves : nodes[l].entries \in Seq(Entries)
  <2>. SUFFICES ASSUME NEW l \in Leaves PROVE nodes[l].entries \in Seq(Entries)
    OBVIOUS
  <2>1. l \in DOMAIN nodes /\ nodes[l].kind = "leaf" /\ IsNode(nodes[l], Leaves)
    BY DEF IInv, TreeOf, Leaves, LeavesOf
  <2>. QED
    BY <2>1 DEF IsNode, IsLeaf, IsInner
<1>6. ss \in [1 .. n -> Seq(Entries)]
  BY <1>5
<1>7. \A i \in 1 .. n : ss[i] = nodes[o[i]].entries /\ ToSet(ss[i]) = On(o[i])
  BY DEF On
<1>. HIDE DEF ss
<1>8. \A i \in 1 .. n : Related(ss[i], Apart)
  <2>. SUFFICES ASSUME NEW i \in 1 .. n, NEW a \in DOMAIN ss[i],
                       NEW b \in DOMAIN ss[i], a < b
                PROVE  <<ss[i][a], ss[i][b]>> \in Apart
    BY DEF Related
  <2>1. ss[i] \in Seq(Entries) /\ Distinct(ss[i])
    BY <1>5, <1>7 DEF NoneTwice
  <2>2. DOMAIN ss[i] = 1 .. Len(ss[i]) /\ Len(ss[i]) \in Nat
    BY <2>1, LenProperties
  <2>3. a # b
    BY <2>2
  <2>4. ss[i][a] \in Entries /\ ss[i][b] \in Entries
    BY <2>1, <2>2, ElementOfSeq
  <2>. QED
    BY <2>1, <2>3, <2>4 DEF Apart, Distinct
<1>9. ASSUME NEW i \in 1 .. n, NEW j \in 1 .. n, i < j,
             NEW x \in ToSet(ss[i]), NEW y \in ToSet(ss[j])
      PROVE  <<x, y>> \in Apart
  <2>1. i # j /\ o[i] # o[j]
    BY <1>2, <1>9 DEF InOrder
  <2>2. On(o[i]) \cap On(o[j]) = {}
    BY <2>1 DEF NoneTwice
  <2>3. x # y
    BY <1>7, <2>2
  <2>4. x \in Entries /\ y \in Entries
    <3>1. PICK a \in DOMAIN ss[i] : ss[i][a] = x
      BY DEF ToSet
    <3>2. PICK b \in DOMAIN ss[j] : ss[j][b] = y
      BY DEF ToSet
    <3>3. ss[i] \in Seq(Entries) /\ ss[j] \in Seq(Entries)
      BY <1>6
    <3>. QED
      BY <3>1, <3>2, <3>3, ElementOfSeq, LenProperties
  <2>. QED
    BY <2>3, <2>4 DEF Apart
<1>10. /\ Stored \in Seq(Entries) /\ Related(Stored, Apart)
       /\ \A x : x \in ToSet(Stored) <=> \E i \in 1 .. n : x \in ToSet(ss[i])
  <2>1. /\ FlattenSeq(ss) \in Seq(Entries) /\ Related(FlattenSeq(ss), Apart)
        /\ \A x : x \in ToSet(FlattenSeq(ss)) <=> \E i \in 1 .. n : x \in ToSet(ss[i])
    BY <1>6, <1>8, <1>9, FlattenHolds
  <2>. QED
    BY <1>4, <2>1
<1>11. ToSet(Stored) = OnLeaves
  <2>1. \A x : x \in OnLeaves <=> \E l \in Leaves : x \in On(l)
    BY DEF OnLeaves
  <2>2. \A x : (\E l \in Leaves : x \in On(l)) <=> \E i \in 1 .. n : x \in On(o[i])
    BY <1>2 DEF InOrder
  <2>3. \A x : x \in ToSet(Stored) <=> x \in OnLeaves
    BY <1>7, <1>10, <2>1, <2>2
  <2>. QED
    <3>. HIDE DEF On
    <3>. QED
      BY <2>3 DEF ToSet, OnLeaves
<1>12. Distinct(Stored)
  <2>. SUFFICES ASSUME NEW i \in DOMAIN Stored, NEW j \in DOMAIN Stored, i # j
                PROVE  Stored[i] # Stored[j]
    BY DEF Distinct
  <2>1. i < j \/ j < i
    BY <1>10, LenProperties
  <2>. QED
    BY <1>10, <2>1 DEF Related, Apart
<1>. QED
  BY <1>10, <1>11, <1>12

LEMMA LenOfDistinct ==
    ASSUME NEW S, NEW s \in Seq(S), Distinct(s)
    PROVE  Len(s) = Cardinality(ToSet(s))
<1>1. Len(s) \in Nat /\ DOMAIN s = 1 .. Len(s)
  BY LenProperties
<1>2. s \in [1 .. Len(s) -> ToSet(s)]
  <2>1. s \in [1 .. Len(s) -> S]
    BY SeqDef, LenProperties
  <2>2. \A i \in 1 .. Len(s) : s[i] \in ToSet(s)
    BY <1>1 DEF ToSet
  <2>. QED
    BY <2>1, <2>2
<1>3. \A t \in ToSet(s) : \E i \in 1 .. Len(s) : s[i] = t
  BY <1>1 DEF ToSet
<1>4. s \in Bijection(1 .. Len(s), ToSet(s))
  <2>1. IsInjective(s)
    BY DEF IsInjective, Distinct
  <2>. QED
    BY <1>2, <1>3, <2>1 DEF Bijection, Injection, Surjection
<1>5. ExistsBijection(1 .. Len(s), ToSet(s))
  BY <1>4 DEF ExistsBijection
<1>6. IsFiniteSet(1 .. Len(s)) /\ Cardinality(1 .. Len(s)) = Len(s)
  <2>1. 1 \in Int /\ Len(s) \in Int /\ Len(s) - 1 + 1 = Len(s)
    BY <1>1
  <2>2. 1 > Len(s) => Len(s) = 0
    BY <1>1
  <2>. QED
    BY <2>1, <2>2, FS_Interval
<1>. QED
  BY <1>5, <1>6, FS_Bijection

(* AllStored: between calls the chain of leaves holds every entry whose    *)
(* insertion returned, once, and nothing of one that threw, whatever       *)
(* splits, refused reads and reopenings came before.                       *)
THEOREM EveryEntryStored == SpecIndex => []AllStored
<1>1. AllInv => AllStored
  <2>. SUFFICES ASSUME AllInv, call = Idle, status # "undefined"
                PROVE  /\ ToSet(Stored) = inserted
                       /\ Len(Stored) = Cardinality(inserted)
    BY DEF AllStored
  <2>1. OnLeaves = inserted
    <3>1. call.pc = "idle"
      BY DEF Idle
    <3>. QED
      BY <3>1 DEF AllInv, ContentInv, StoredInv, Pending
  <2>2. /\ Stored \in Seq(Entries) /\ ToSet(Stored) = OnLeaves
        /\ Distinct(Stored)
    BY StoredIs DEF AllInv, ContentInv
  <2>. QED
    BY <2>1, <2>2, LenOfDistinct
<1>. QED
  BY <1>1, InductiveContent, PTL

-----------------------------------------------------------------------------
(* The order of the keys.                                                  *)
AtMost == {xy \in Int \X Int : xy[1] <= xy[2]}
Ascending == {xy \in Entries \X Entries : xy[1].key <= xy[2].key}

RootKeys == IF Root.kind = "leaf" THEN <<>> ELSE Root.keyArray

(* The leaves are these, and in this order.                                *)
LinkedUp(pages) ==
    /\ pages[1] = firstLeaf
    /\ \A i \in DOMAIN pages :
         nodes[pages[i]].rightSibPageNo =
           IF i = Len(pages) THEN NoPage ELSE pages[i + 1]

Rising(keys) == Related(keys, AtMost)

(* A key is not below the page on its left and not above that on its right.*)
Separates(keys, pages) ==
    \A i \in DOMAIN keys :
      /\ \A e \in On(pages[i]) : e.key <= keys[i]
      /\ \A e \in On(pages[i + 1]) : keys[i] <= e.key

Arranged(keys, pages) == LinkedUp(pages) /\ Rising(keys) /\ Separates(keys, pages)

(* A new leaf whose pivot is not yet in the root.                          *)
Waiting ==
    IF call.pc = "up" THEN call.pivot
    ELSE IF \/ call.pc \in {"newroot", "newmeta"}
            \/ call.pc = "finish" /\ Len(call.path) = 2
    THEN call.split.pivot ELSE NoPivot

(* The tree with the pivot where it belongs.                               *)
InPlace ==
    IF Waiting = NoPivot THEN Arranged(RootKeys, LeavesBelowRoot)
    ELSE \E j \in DOMAIN LeavesBelowRoot :
           Arranged(InsertAt(RootKeys, j, Waiting.key),
                    InsertAt(LeavesBelowRoot, j + 1, Waiting.pageNo))

(* The split of an inner node, which takes leaves from the root.           *)
Parted ==
    /\ \E p, q \in NonLeaves : p # q
    /\ \E l \in Leaves : l \notin ToSet(LeavesBelowRoot) /\ l # Waiting.pageNo

(* A pivot put behind a key that it is equal to.                           *)
Crossed(o, n, pages) ==
    \E i, j \in DOMAIN pages : \E a, b \in 1 .. n :
      i < j /\ a < b /\ o[a] = pages[j] /\ o[b] = pages[i]

EqualKeys(keys) == \E i, j \in DOMAIN keys : i # j /\ keys[i] = keys[j]

Twisted ==
    /\ \E n \in Nat \ {0} : \E o \in [1 .. n -> Leaves] :
         InOrder(o, n) /\ Crossed(o, n, LeavesBelowRoot)
    /\ EqualKeys(RootKeys)

LeavesSorted == \A l \in Leaves : Related(nodes[l].entries, Ascending)

RootPagesOnce ==
    /\ Distinct(LeavesBelowRoot)
    /\ Waiting # NoPivot => Waiting.pageNo \notin ToSet(LeavesBelowRoot)

(* What an insertion has found on its way, or made.                        *)
WayInv ==
    /\ call.pc = "down" /\ Len(call.path) = 2 =>
         call.path[2] = LeavesBelowRoot[Position(RootKeys, call.key)]
    /\ call.pc \in {"newroot", "newmeta"} => Waiting.pageNo = call.split.next
    /\ call.pc = "newmeta" =>
         nodes[NewPage - 1] = NonLeaf(1, <<Waiting.key>>,
                                      <<rootPageNum, Waiting.pageNo>>)

OrderInv ==
    /\ LeavesSorted
    /\ status = "undefined" => Ordered
    /\ status # "undefined" =>
         RootPagesOnce /\ WayInv /\ (InPlace \/ Parted \/ Twisted)

-----------------------------------------------------------------------------
(* Where a key is put, and what that keeps.                                *)
LEMMA PositionParts ==
    ASSUME NEW S, NEW keys \in Seq(S), NEW key
    PROVE  /\ \A k \in 1 .. Len(keys) : k < Position(keys, key) => ~ (key < keys[k])
           /\ Position(keys, key) <= Len(keys) => key < keys[Position(keys, key)]
<1> DEFINE P == {i \in DOMAIN keys : key < keys[i]} \cup {Len(keys) + 1}
<1>1. /\ P \subseteq 1 .. Len(keys) + 1 /\ P # {} /\ P \subseteq Nat
      /\ Len(keys) \in Nat /\ DOMAIN keys = 1 .. Len(keys)
  BY LenProperties
<1>2. Min(P) \in P /\ \A y \in P : Min(P) <= y
  <2>. HIDE DEF P
  <2>. QED
    BY <1>1, MinIs
<1>3. Position(keys, key) = Min(P)
  BY DEF Position
<1>4. \A k \in 1 .. Len(keys) : key < keys[k] => k \in P
  BY <1>1
<1>5. Min(P) = Len(keys) + 1 \/ key < keys[Min(P)]
  BY <1>2
<1>. HIDE DEF P
<1>6. ASSUME NEW k \in 1 .. Len(keys), k < Position(keys, key) PROVE ~ (key < keys[k])
  <2>1. Min(P) \in Nat
    BY <1>1, <1>2
  <2>. QED
    BY <1>1, <1>2, <1>3, <1>4, <1>6, <2>1
<1>7. Position(keys, key) <= Len(keys) => key < keys[Position(keys, key)]
  BY <1>1, <1>2, <1>3, <1>5
<1>. QED
  BY <1>6, <1>7

LEMMA InsertRelated ==
    ASSUME NEW S, NEW s \in Seq(S), NEW e \in S, NEW i \in 1 .. Len(s) + 1, NEW R,
           Related(s, R), \A k \in 1 .. Len(s) : k < i => <<s[k], e>> \in R,
           \A k \in 1 .. Len(s) : i <= k => <<e, s[k]>> \in R
    PROVE  Related(InsertAt(s, i, e), R)
<1> DEFINE t == InsertAt(s, i, e)
<1>1. /\ DOMAIN t = 1 .. Len(s) + 1
      /\ \A j \in 1 .. Len(s) + 1 :
           t[j] = IF j < i THEN s[j] ELSE IF j = i THEN e ELSE s[j - 1]
      /\ Len(s) \in Nat /\ DOMAIN s = 1 .. Len(s)
  BY InsertAtHas, LenProperties
<1>. HIDE DEF t
<1>2. ASSUME NEW a \in 1 .. Len(s) + 1, NEW b \in 1 .. Len(s) + 1, a < b
      PROVE  <<t[a], t[b]>> \in R
  <2>1. CASE b < i
    <3>1. t[a] = s[a] /\ t[b] = s[b] /\ a \in 1 .. Len(s) /\ b \in 1 .. Len(s)
      BY <1>1, <1>2, <2>1
    <3>. QED
      BY <1>1, <1>2, <3>1 DEF Related
  <2>2. CASE b = i
    <3>1. t[a] = s[a] /\ t[b] = e /\ a \in 1 .. Len(s) /\ a < i
      BY <1>1, <1>2, <2>2
    <3>. QED
      BY <3>1
  <2>3. CASE i < b /\ a = i
    <3>1. t[a] = e /\ t[b] = s[b - 1] /\ b - 1 \in 1 .. Len(s) /\ i <= b - 1
      BY <1>1, <1>2, <2>3
    <3>. QED
      BY <3>1
  <2>4. CASE i < b /\ a < i
    <3>1. /\ t[a] = s[a] /\ t[b] = s[b - 1] /\ a \in 1 .. Len(s)
          /\ b - 1 \in 1 .. Len(s) /\ a < b - 1
      BY <1>1, <1>2, <2>4
    <3>. QED
      BY <1>1, <3>1 DEF Related
  <2>5. CASE i < b /\ i < a
    <3>1. /\ t[a] = s[a - 1] /\ t[b] = s[b - 1] /\ a - 1 \in 1 .. Len(s)
          /\ b - 1 \in 1 .. Len(s) /\ a - 1 < b - 1
      BY <1>1, <1>2, <2>5
    <3>. QED
      BY <1>1, <3>1 DEF Related
  <2>. QED
    BY <2>1, <2>2, <2>3, <2>4, <2>5
<1>. QED
  BY <1>1, <1>2 DEF Related, t

LEMMA AddToLeafRises ==
    ASSUME NEW es \in Seq(Entries), NEW e \in Entries, Related(es, Ascending)
    PROVE  Related(AddToLeaf(es, e), Ascending)
<1> DEFINE keys == KeysOf(es)
           i == Position(keys, e.key)
<1>1. /\ Len(es) \in Nat /\ DOMAIN es = 1 .. Len(es)
      /\ \A k \in 1 .. Len(es) : es[k] \in Entries /\ es[k].key \in Int
      /\ e.key \in Int
  <2>1. \A x \in Entries : x.key \in Int
    BY DEF Entries
  <2>. QED
    BY <2>1, LenProperties, ElementOfSeq
<1>2. keys \in Seq(Int) /\ Len(keys) = Len(es) /\ \A k \in 1 .. Len(es) : keys[k] = es[k].key
  <2>1. keys \in Seq(Int) /\ DOMAIN keys = 1 .. Len(es)
    BY <1>1, SeqDef DEF KeysOf
  <2>2. \A k \in 1 .. Len(es) : keys[k] = es[k].key
    BY <1>1 DEF KeysOf
  <2>3. Len(keys) = Len(es)
    BY <1>1, <2>1, LenProperties
  <2>. QED
    BY <2>1, <2>2, <2>3
<1>. HIDE DEF keys
<1>3. /\ i \in 1 .. Len(es) + 1
      /\ \A k \in 1 .. Len(es) : k < i => ~ (e.key < es[k].key)
      /\ i <= Len(es) => e.key < es[i].key
  <2>1. i \in 1 .. Len(keys) + 1
    BY <1>2, PositionIs
  <2>2. /\ \A k \in 1 .. Len(keys) : k < i => ~ (e.key < keys[k])
        /\ i <= Len(keys) => e.key < keys[i]
    BY <1>2, PositionParts
  <2>3. i <= Len(es) => i \in 1 .. Len(es)
    BY <1>2, <2>1
  <2>. HIDE DEF i
  <2>. QED
    BY <1>2, <2>1, <2>2, <2>3
<1>4. AddToLeaf(es, e) = InsertAt(es, i, e)
  BY DEF AddToLeaf, keys
<1>. HIDE DEF i
<1>5. ASSUME NEW k \in 1 .. Len(es), k < i PROVE <<es[k], e>> \in Ascending
  BY <1>1, <1>3, <1>5 DEF Ascending
<1>6. ASSUME NEW k \in 1 .. Len(es), i <= k PROVE <<e, es[k]>> \in Ascending
  <2>1. i \in 1 .. Len(es) /\ e.key < es[i].key
    BY <1>1, <1>3, <1>6
  <2>2. es[i].key <= es[k].key
    <3>1. CASE i = k
      BY <1>1, <3>1
    <3>2. CASE i < k
      <4>1. <<es[i], es[k]>> \in Ascending
        BY <1>1, <2>1, <3>2 DEF Related
      <4>. QED
        BY <4>1 DEF Ascending
    <3>. QED
      BY <1>6, <2>1, <3>1, <3>2
  <2>. QED
    BY <1>1, <2>1, <2>2 DEF Ascending
<1>. QED
  BY <1>3, <1>4, <1>5, <1>6, InsertRelated

-----------------------------------------------------------------------------
(* The root, and the leaves below it.                                      *)
LEMMA RootIs ==
    ASSUME IInv
    PROVE  /\ rootPageNum \in DOMAIN nodes /\ rootPageNum \in Nat
           /\ RootKeys \in Seq(Keys) /\ Len(RootKeys) \in Nat
           /\ DOMAIN RootKeys = 1 .. Len(RootKeys)
           /\ \A i \in DOMAIN RootKeys : RootKeys[i] \in Keys /\ RootKeys[i] \in Int
           /\ LeavesBelowRoot \in Seq(Leaves)
           /\ Len(LeavesBelowRoot) = Len(RootKeys) + 1
           /\ DOMAIN LeavesBelowRoot = 1 .. Len(RootKeys) + 1
           /\ \A i \in DOMAIN LeavesBelowRoot : LeavesBelowRoot[i] \in Leaves
           /\ rootPageNum \in Leaves =>
                /\ RootKeys = <<>> /\ LeavesBelowRoot = <<rootPageNum>>
                /\ Root.kind = "leaf"
           /\ rootPageNum \notin Leaves =>
                /\ Root = NonLeaf(1, RootKeys, LeavesBelowRoot)
                /\ IsInner(Root, Leaves) /\ Root.kind = "nonleaf"
                /\ RootKeys = Root.keyArray /\ LeavesBelowRoot = Root.pageNoArray
<1>1. rootPageNum \in DOMAIN nodes /\ TreeOf(nodes)
  BY DEF IInv, PagesInv
<1>2. rootPageNum \in Nat
  BY <1>1, NewPageIs DEF IInv
<1>3. CASE rootPageNum \in Leaves
  <2>1. Root.kind = "leaf"
    BY <1>1, <1>3, KindIs DEF Root
  <2>2. RootKeys = <<>> /\ LeavesBelowRoot = <<rootPageNum>>
    BY <2>1 DEF RootKeys, LeavesBelowRoot
  <2>3. RootKeys \in Seq(Keys) /\ Len(RootKeys) = 0 /\ DOMAIN RootKeys = 1 .. 0
    BY <2>2
  <2>4. /\ LeavesBelowRoot \in Seq(Leaves) /\ Len(LeavesBelowRoot) = 1
        /\ DOMAIN LeavesBelowRoot = 1 .. 1 /\ LeavesBelowRoot[1] \in Leaves
    BY <1>3, <2>2
  <2>. QED
    BY <1>1, <1>2, <1>3, <2>1, <2>2, <2>3, <2>4
<1>4. CASE rootPageNum \notin Leaves
  <2>1. IsInner(Root, Leaves) /\ Root.kind = "nonleaf"
    BY <1>1, <1>4, KindIs DEF Root
  <2>2. RootKeys = Root.keyArray /\ LeavesBelowRoot = Root.pageNoArray
    BY <2>1 DEF RootKeys, LeavesBelowRoot
  <2>3. /\ RootKeys \in Seq(Keys) /\ LeavesBelowRoot \in Seq(Leaves)
        /\ Len(LeavesBelowRoot) = Len(RootKeys) + 1
        /\ Root = NonLeaf(1, RootKeys, LeavesBelowRoot)
    BY <2>1, <2>2 DEF IsInner
  <2>. HIDE DEF Root, RootKeys, LeavesBelowRoot
  <2>4. /\ Len(RootKeys) \in Nat /\ DOMAIN RootKeys = 1 .. Len(RootKeys)
        /\ \A i \in 1 .. Len(RootKeys) : RootKeys[i] \in Keys
    BY <2>3, LenProperties, ElementOfSeq
  <2>5. /\ DOMAIN LeavesBelowRoot = 1 .. Len(RootKeys) + 1
        /\ \A i \in 1 .. Len(RootKeys) + 1 : LeavesBelowRoot[i] \in Leaves
    BY <2>3, <2>4, LenProperties, ElementOfSeq
  <2>. QED
    BY <1>1, <1>2, <1>4, <2>1, <2>2, <2>3, <2>4, <2>5
<1>. QED
  BY <1>3, <1>4

LEMMA LeavesAre ==
    ASSUME IInv, NEW l \in Leaves
    PROVE  /\ l \in DOMAIN nodes /\ l \in Nat /\ l # NoPage
           /\ nodes[l].kind = "leaf" /\ nodes[l].entries \in Seq(Entries)
           /\ \A e \in On(l) : e \in Entries /\ e.key \in Int
<1>1. l \in DOMAIN nodes /\ nodes[l].kind = "leaf" /\ IsNode(nodes[l], Leaves)
  BY DEF IInv, TreeOf, Leaves, LeavesOf
<1>2. nodes[l].entries \in Seq(Entries)
  BY <1>1 DEF IsNode, IsLeaf, IsInner
<1>3. DOMAIN nodes \subseteq Nat \ {0}
  BY NewPageIs DEF IInv
<1>4. \A e \in On(l) : e \in Entries /\ e.key \in Int
  <2>. SUFFICES ASSUME NEW e \in On(l) PROVE e \in Entries
    BY DEF Entries
  <2>1. PICK i \in DOMAIN nodes[l].entries : nodes[l].entries[i] = e
    BY DEF On, ToSet
  <2>. QED
    BY <1>2, <2>1, ElementOfSeq, LenProperties
<1>. QED
  BY <1>1, <1>2, <1>3, <1>4

(* There is one way along all leaves.                                      *)
LEMMA UpIsOrder ==
    ASSUME IInv, NEW n \in Nat \ {0}, NEW o \in [1 .. n -> Leaves], InOrder(o, n),
           NEW pages \in Seq(Leaves), Len(pages) >= 1, LinkedUp(pages)
    PROVE  pages = o /\ Len(pages) = n
<1> DEFINE m == Len(pages)
           T == {i \in Nat : i + 1 <= m => i + 1 <= n /\ pages[i + 1] = o[i + 1]}
<1>. m \in Nat
  BY LenProperties
<1>1. /\ DOMAIN pages = 1 .. m
      /\ \A i \in 1 .. m : pages[i] \in Leaves /\ pages[i] # NoPage
      /\ \A i \in 1 .. n : o[i] \in Leaves /\ o[i] # NoPage
  BY LenProperties, ElementOfSeq, LeavesAre
<1>2. 0 \in T
  BY DEF LinkedUp, InOrder
<1>3. ASSUME NEW i \in 0 .. m - 1, i \in T PROVE i + 1 \in T
  <2>. SUFFICES ASSUME i + 2 <= m PROVE i + 2 <= n /\ pages[i + 2] = o[i + 2]
    BY <1>1
  <2>1. /\ i + 1 \in 1 .. m /\ i + 2 \in 1 .. m /\ i + 1 # m
        /\ (i + 1) + 1 = i + 2
    <3>. HIDE DEF T, m
    <3>. QED
      OBVIOUS
  <2>2. i + 1 \in 1 .. n /\ pages[i + 1] = o[i + 1]
    BY <1>1, <1>3
  <2>3. nodes[pages[i + 1]].rightSibPageNo = pages[i + 2]
    BY <1>1, <2>1 DEF LinkedUp
  <2>4. nodes[o[i + 1]].rightSibPageNo = IF i + 1 = n THEN NoPage ELSE o[(i + 1) + 1]
    BY <2>2 DEF InOrder
  <2>5. i + 1 # n
    BY <1>1, <2>1, <2>2, <2>3, <2>4
  <2>. QED
    BY <2>1, <2>2, <2>3, <2>4, <2>5
<1>4. \A i \in 0 .. m : i \in T
  <2>. HIDE DEF T
  <2>. QED
    BY <1>1, <1>2, <1>3, Upwards
<1>5. m <= n /\ \A i \in 1 .. m : pages[i] = o[i]
  <2>1. ASSUME NEW i \in 1 .. m PROVE i <= n /\ pages[i] = o[i]
    <3>1. i - 1 \in 0 .. m /\ (i - 1) + 1 = i
      BY <1>1
    <3>2. i - 1 \in T
      BY <1>4, <3>1
    <3>. QED
      BY <3>1, <3>2
  <2>. QED
    BY <1>1, <2>1
<1>6. m = n
  <2>. SUFFICES ASSUME m < n PROVE FALSE
    <3>. HIDE DEF m
    <3>. QED
      BY <1>5
  <2>1. m \in 1 .. m /\ m \in 1 .. n /\ m # n /\ m + 1 \in 1 .. n
    <3>1. m >= 1
      OBVIOUS
    <3>. HIDE DEF m
    <3>. QED
      BY <3>1
  <2>2. nodes[pages[m]].rightSibPageNo = NoPage
    BY <1>1, <2>1 DEF LinkedUp
  <2>3. nodes[o[m]].rightSibPageNo = o[m + 1]
    BY <2>1 DEF InOrder
  <2>. QED
    BY <1>1, <1>5, <2>1, <2>2, <2>3
<1>7. pages \in [1 .. n -> Leaves]
  BY <1>6, SeqDef, LenProperties
<1>. QED
  BY <1>5, <1>6, <1>7

LEMMA OrderIsUp ==
    ASSUME NEW n \in Nat \ {0}, NEW o \in [1 .. n -> Leaves], InOrder(o, n)
    PROVE  o \in Seq(Leaves) /\ Len(o) = n /\ LinkedUp(o)
<1>1. o \in Seq(Leaves) /\ DOMAIN o = 1 .. n
  BY SeqDef
<1>2. Len(o) \in Nat /\ DOMAIN o = 1 .. Len(o)
  BY <1>1, LenProperties
<1>3. Len(o) = n
  BY <1>1, <1>2
<1>. QED
  BY <1>1, <1>3 DEF InOrder, LinkedUp

LEMMA LinkedIs ==
    ASSUME IInv, NEW n \in Nat \ {0}, NEW o \in [1 .. n -> Leaves], InOrder(o, n)
    PROVE  /\ Linked <=> LeavesBelowRoot = o
           /\ Linked <=> LinkedUp(LeavesBelowRoot)
<1>1. Chain = o
  BY ChainIsOrder
<1>2. LinkedUp(o)
  BY OrderIsUp
<1>3. LinkedUp(LeavesBelowRoot) => LeavesBelowRoot = o
  BY RootIs, UpIsOrder
<1>. QED
  BY <1>1, <1>2, <1>3 DEF Linked

LEMMA WaitingIs ==
    ASSUME IInv, WayInv, Waiting # NoPivot \/ call.pc \in {"newroot", "newmeta"}
    PROVE  Up(Waiting) /\ Waiting # NoPivot
<1>. SUFFICES Up(Waiting)
  BY LeavesAre DEF Up, NoPivot
<1>. UpInv /\ NewRootInv /\ NewMetaInv /\ FinishInv /\ TreeOf(nodes) /\ PagesInv
  BY DEF IInv, CallInv
<1>1. CASE call.pc = "up"
  BY <1>1 DEF Waiting, UpInv
<1>2. CASE call.pc = "newroot"
  BY <1>2 DEF Waiting, NewRootInv, WayInv, Up
<1>3. CASE call.pc = "newmeta"
  <2> DEFINE keys == <<Waiting.key>>
             pages == <<rootPageNum, Waiting.pageNo>>
  <2>1. nodes[NewPage - 1] = NonLeaf(1, keys, pages) /\ NewPage - 1 \in DOMAIN nodes
    BY <1>3, NewPageIs DEF WayInv
  <2>2. nodes[NewPage - 1].kind = "nonleaf"
    BY <2>1 DEF NonLeaf
  <2>3. /\ IsInner(nodes[NewPage - 1], Leaves)
        /\ nodes[NewPage - 1].keyArray = keys /\ nodes[NewPage - 1].pageNoArray = pages
    <3>1. NewPage - 1 \notin Leaves
      BY <2>2 DEF Leaves, LeavesOf
    <3>. QED
      BY <2>1, <3>1, KindIs DEF NonLeaf
  <2>4. keys \in Seq(Keys) /\ pages \in Seq(Leaves)
    BY <2>3 DEF IsInner
  <2>5. Waiting.key = keys[1] /\ Waiting.pageNo = pages[2] /\ Len(keys) = 1 /\ Len(pages) = 2
    OBVIOUS
  <2>. HIDE DEF keys, pages
  <2>6. \A i \in 1 .. Len(keys) : keys[i] \in Keys
    BY <2>4, ElementOfSeq
  <2>7. \A i \in 1 .. Len(pages) : pages[i] \in Leaves
    BY <2>4, ElementOfSeq
  <2>. QED
    BY <2>5, <2>6, <2>7 DEF Up
<1>4. CASE call.pc = "finish" /\ Len(call.path) = 2
  BY <1>4 DEF Waiting, FinishInv
<1>. QED
  BY <1>1, <1>2, <1>3, <1>4 DEF Waiting

(* The entries along the chain are in key order.                           *)
LEMMA StoredRises ==
    ASSUME IInv, LeavesSorted, NEW n \in Nat \ {0}, NEW o \in [1 .. n -> Leaves],
           InOrder(o, n), LeavesBelowRoot = o, Arranged(RootKeys, LeavesBelowRoot)
    PROVE  /\ Stored = FlattenSeq([i \in 1 .. n |-> nodes[o[i]].entries])
           /\ Stored \in Seq(Entries) /\ Related(Stored, Ascending)
<1> DEFINE ss == [i \in 1 .. n |-> nodes[o[i]].entries]
           K == RootKeys
<1>1. Chain = o /\ DOMAIN o = 1 .. n
  BY ChainIsOrder
<1>2. Stored = FlattenSeq(ss)
  <2>1. [i \in DOMAIN Chain |-> nodes[Chain[i]].entries] = ss
    BY <1>1
  <2>. QED
    BY <2>1 DEF Stored
<1>3. /\ ss \in [1 .. n -> Seq(Entries)]
      /\ \A i \in 1 .. n : ToSet(ss[i]) = On(o[i]) /\ Related(ss[i], Ascending)
  <2>1. \A l \in Leaves : nodes[l].entries \in Seq(Entries)
    BY LeavesAre
  <2>. QED
    BY <2>1 DEF On, LeavesSorted
<1>. HIDE DEF ss
<1>4. /\ Len(K) \in Nat /\ n = Len(K) + 1 /\ DOMAIN K = 1 .. Len(K)
      /\ \A i \in 1 .. Len(K) : K[i] \in Int
  <2>1. Len(o) = n
    BY OrderIsUp
  <2>. QED
    BY <2>1, RootIs
<1>5. ASSUME NEW i \in 1 .. n, NEW j \in 1 .. n, i < j,
             NEW x \in ToSet(ss[i]), NEW y \in ToSet(ss[j])
      PROVE  <<x, y>> \in Ascending
  <2>1. x \in On(o[i]) /\ y \in On(o[j])
    BY <1>3
  <2>2. x \in Entries /\ y \in Entries /\ x.key \in Int /\ y.key \in Int
    BY <2>1, LeavesAre
  <2>3. i \in 1 .. Len(K) /\ j - 1 \in 1 .. Len(K) /\ (j - 1) + 1 = j
    BY <1>4, <1>5
  <2>4. x.key <= K[i] /\ K[j - 1] <= y.key
    <3>1. \A k \in 1 .. Len(K) : /\ \A e \in On(o[k]) : e.key <= K[k]
                                 /\ \A e \in On(o[k + 1]) : K[k] <= e.key
      BY <1>4 DEF Arranged, Separates
    <3>2. \A e \in On(o[(j - 1) + 1]) : K[j - 1] <= e.key
      BY <2>3, <3>1
    <3>3. \A e \in On(o[j]) : K[j - 1] <= e.key
      BY <2>3, <3>2
    <3>. QED
      BY <2>1, <2>3, <3>1, <3>3
  <2>5. K[i] <= K[j - 1]
    <3>1. CASE i = j - 1
      BY <1>4, <2>3, <3>1
    <3>2. CASE i # j - 1
      <4>1. i < j - 1
        BY <1>5, <3>2
      <4>2. <<K[i], K[j - 1]>> \in AtMost
        BY <1>4, <2>3, <4>1 DEF Arranged, Rising, Related
      <4>. QED
        BY <4>2 DEF AtMost
    <3>. QED
      BY <3>1, <3>2
  <2>6. x.key <= y.key
    <3>1. K[i] \in Int /\ K[j - 1] \in Int
      BY <1>4, <2>3
    <3>. HIDE DEF K
    <3>. QED
      BY <2>2, <2>4, <2>5, <3>1
  <2>. QED
    BY <2>2, <2>6 DEF Ascending
<1>6. Stored \in Seq(Entries) /\ Related(Stored, Ascending)
  <2>1. FlattenSeq(ss) \in Seq(Entries) /\ Related(FlattenSeq(ss), Ascending)
    BY <1>3, <1>5, FlattenHolds
  <2>. QED
    BY <1>2, <2>1
<1>. QED
  BY <1>2, <1>6 DEF ss

(* With keys between the leaves, and the leaves sorted, all is in order.   *)
LEMMA ArrangedIsOrdered ==
    ASSUME IInv, LeavesSorted, NEW n \in Nat \ {0}, NEW o \in [1 .. n -> Leaves],
           InOrder(o, n), LeavesBelowRoot = o, Arranged(RootKeys, LeavesBelowRoot)
    PROVE  Ordered
<1>1. Stored \in Seq(Entries) /\ Related(Stored, Ascending)
  BY StoredRises
<1>2. /\ n = Len(RootKeys) + 1 /\ DOMAIN RootKeys = 1 .. Len(RootKeys)
      /\ Len(RootKeys) \in Nat /\ \A i \in 1 .. Len(RootKeys) : RootKeys[i] \in Int
  <2>1. Len(o) = n
    BY OrderIsUp
  <2>. QED
    BY <2>1, RootIs
<1>3. ASSUME NEW i \in DOMAIN Stored \ {1} PROVE Stored[i - 1].key <= Stored[i].key
  <2>1. i \in DOMAIN Stored /\ i - 1 \in DOMAIN Stored /\ i - 1 < i
    BY <1>1, LenProperties
  <2>2. <<Stored[i - 1], Stored[i]>> \in Ascending
    BY <1>1, <2>1 DEF Related
  <2>. QED
    BY <2>2 DEF Ascending
<1>4. ASSUME Root.kind = "nonleaf"
      PROVE  \A i \in DOMAIN Root.keyArray :
                /\ \A e \in ToSet(nodes[Root.pageNoArray[i]].entries) :
                      e.key <= Root.keyArray[i]
                /\ \A e \in ToSet(nodes[Root.pageNoArray[i + 1]].entries) :
                      e.key >= Root.keyArray[i]
  <2>1. RootKeys = Root.keyArray /\ LeavesBelowRoot = Root.pageNoArray
    BY <1>4 DEF RootKeys, LeavesBelowRoot
  <2>. SUFFICES ASSUME NEW i \in DOMAIN RootKeys
                PROVE  /\ \A e \in On(o[i]) : e.key <= RootKeys[i]
                       /\ \A e \in On(o[i + 1]) : e.key >= RootKeys[i]
    BY <2>1 DEF On
  <2>2. /\ \A e \in On(o[i]) : e.key <= RootKeys[i]
        /\ \A e \in On(o[i + 1]) : RootKeys[i] <= e.key
    BY DEF Arranged, Separates
  <2>3. i \in 1 .. n /\ i + 1 \in 1 .. n /\ RootKeys[i] \in Int
    BY <1>2
  <2>4. \A e \in On(o[i + 1]) : e.key \in Int
    BY <2>3, LeavesAre
  <2>. QED
    BY <2>2, <2>3, <2>4
<1>. QED
  BY <1>3, <1>4 DEF Ordered

LEMMA LinkedMeans ==
    ASSUME IInv, ChainInv, WayInv, InPlace \/ Parted \/ Twisted, Linked
    PROVE  \E n \in Nat \ {0} : \E o \in [1 .. n -> Leaves] :
             /\ InOrder(o, n) /\ LeavesBelowRoot = o
             /\ Arranged(RootKeys, LeavesBelowRoot)
<1>1. PICK n \in Nat \ {0} : \E o \in [1 .. n -> Leaves] : InOrder(o, n)
  BY DEF ChainInv
<1>2. PICK o \in [1 .. n -> Leaves] : InOrder(o, n)
  BY <1>1
<1>3. LeavesBelowRoot = o /\ Len(o) = n /\ DOMAIN o = 1 .. n
  BY <1>2, LinkedIs, OrderIsUp
<1>4. ~Parted
  <2>1. \A l \in Leaves : \E i \in 1 .. n : o[i] = l
    BY <1>2 DEF InOrder
  <2>2. \A l \in Leaves : l \in ToSet(LeavesBelowRoot)
    BY <1>3, <2>1 DEF ToSet
  <2>. QED
    BY <2>2 DEF Parted
<1>5. ~Twisted
  <2>. SUFFICES ASSUME NEW m \in Nat \ {0}, NEW r \in [1 .. m -> Leaves],
                       InOrder(r, m), Crossed(r, m, LeavesBelowRoot)
                PROVE  FALSE
    BY DEF Twisted
  <2>1. LeavesBelowRoot = r /\ DOMAIN r = 1 .. m
    BY LinkedIs
  <2>2. PICK i \in 1 .. m, j \in 1 .. m, a \in 1 .. m, b \in 1 .. m :
          i < j /\ a < b /\ r[a] = r[j] /\ r[b] = r[i]
    BY <2>1 DEF Crossed
  <2>3. a = j /\ b = i
    BY <2>2 DEF InOrder
  <2>. QED
    BY <2>2, <2>3
<1>6. InPlace
  BY <1>4, <1>5
<1>7. Waiting = NoPivot
  <2>. SUFFICES ASSUME Waiting # NoPivot PROVE FALSE
    OBVIOUS
  <2>1. PICK j \in DOMAIN LeavesBelowRoot :
          Arranged(InsertAt(RootKeys, j, Waiting.key),
                   InsertAt(LeavesBelowRoot, j + 1, Waiting.pageNo))
    BY <1>6 DEF InPlace
  <2> DEFINE pages == InsertAt(LeavesBelowRoot, j + 1, Waiting.pageNo)
  <2>2. Waiting.pageNo \in Leaves
    BY WaitingIs DEF Up
  <2>3. LeavesBelowRoot \in Seq(Leaves) /\ j + 1 \in 1 .. Len(LeavesBelowRoot) + 1
    BY RootIs
  <2>4. pages \in Seq(Leaves) /\ Len(pages) = n + 1
    BY <1>3, <2>2, <2>3, InsertAtIs
  <2>5. LinkedUp(pages)
    BY <2>1 DEF Arranged
  <2>. HIDE DEF pages
  <2>6. Len(pages) = n
    BY <1>2, <2>4, <2>5, UpIsOrder
  <2>. QED
    BY <2>4, <2>6
<1>8. Arranged(RootKeys, LeavesBelowRoot)
  BY <1>6, <1>7 DEF InPlace
<1>. QED
  BY <1>2, <1>3, <1>8

LEMMA OrderedFollows ==
    ASSUME IInv, ChainInv, OrderInv
    PROVE  Ordered
<1>1. CASE status # "undefined" /\ Linked
  BY <1>1, LinkedMeans, ArrangedIsOrdered DEF OrderInv
<1>2. CASE ~Linked
  BY <1>2 DEF Ordered
<1>. QED
  BY <1>1, <1>2 DEF OrderInv

LEMMA LinkedUntilFollows ==
    ASSUME IInv, ChainInv, OrderInv
    PROVE  LinkedUntil
<1>. SUFFICES ASSUME call = Idle, status # "undefined",
                     ~ \E p, q \in NonLeaves : p # q,
                     ~ \E i, j \in DOMAIN Root.keyArray :
                         i # j /\ Root.keyArray[i] = Root.keyArray[j]
              PROVE  Linked /\ rootPageNum = rootPageNo
  BY DEF LinkedUntil
<1>1. ~Parted
  BY DEF Parted
<1>2. ~Twisted
  <2>1. rootPageNum \in Leaves => DOMAIN RootKeys = {}
    BY RootIs
  <2>2. ~EqualKeys(RootKeys)
    BY <2>1, RootIs DEF EqualKeys
  <2>. QED
    BY <2>2 DEF Twisted
<1>3. Waiting = NoPivot
  BY DEF Waiting, Idle
<1>4. LinkedUp(LeavesBelowRoot)
  BY <1>1, <1>2, <1>3 DEF OrderInv, InPlace, Arranged
<1>5. Linked
  <2>1. PICK n \in Nat \ {0} : \E o \in [1 .. n -> Leaves] : InOrder(o, n)
    BY DEF ChainInv
  <2>. QED
    BY <1>4, <2>1, LinkedIs
<1>. QED
  BY <1>5 DEF IInv, PagesInv

-----------------------------------------------------------------------------
(* Steps that leave the leaves, and the root or what is to be its keys.    *)

(* The keys and leaves of the root once the new leaf hangs there.          *)
Hung(keys, pages, pivot, allKeys, all) ==
    IF pivot = NoPivot THEN allKeys = keys /\ all = pages
    ELSE \E j \in DOMAIN pages : /\ allKeys = InsertAt(keys, j, pivot.key)
                                 /\ all = InsertAt(pages, j + 1, pivot.pageNo)

LEMMA InPlaceIs ==
    /\ InPlace <=> \E allKeys, all :
                     /\ Hung(RootKeys, LeavesBelowRoot, Waiting, allKeys, all)
                     /\ Arranged(allKeys, all)
    /\ InPlace' <=> \E allKeys, all :
                      /\ Hung(RootKeys', LeavesBelowRoot', Waiting', allKeys, all)
                      /\ Arranged(allKeys, all)'
<1>1. InPlace <=> \E allKeys, all :
                     /\ Hung(RootKeys, LeavesBelowRoot, Waiting, allKeys, all)
                     /\ Arranged(allKeys, all)
  BY DEF InPlace, Hung
<1>2. InPlace' <=> \E allKeys, all :
                      /\ Hung(RootKeys', LeavesBelowRoot', Waiting', allKeys, all)
                      /\ Arranged(allKeys, all)'
  BY DEF InPlace, Hung
<1>. QED
  BY <1>1, <1>2

(* A sequence of leaves with a key between each two.                       *)
Fits(keys, pages, leaves) ==
    /\ keys \in Seq(Keys) /\ pages \in Seq(leaves)
    /\ Len(keys) \in Nat /\ Len(pages) = Len(keys) + 1
    /\ DOMAIN keys = 1 .. Len(keys) /\ DOMAIN pages = 1 .. Len(keys) + 1
    /\ \A i \in 1 .. Len(keys) : keys[i] \in Keys /\ keys[i] \in Int
    /\ \A i \in 1 .. Len(keys) + 1 : pages[i] \in leaves

LEMMA FitsIs ==
    ASSUME NEW leaves, NEW keys \in Seq(Keys), NEW pages \in Seq(leaves),
           Len(pages) = Len(keys) + 1
    PROVE  Fits(keys, pages, leaves)
<1>1. /\ Len(keys) \in Nat /\ DOMAIN keys = 1 .. Len(keys)
      /\ \A i \in 1 .. Len(keys) : keys[i] \in Keys
  BY LenProperties, ElementOfSeq
<1>2. /\ DOMAIN pages = 1 .. Len(keys) + 1
      /\ \A i \in 1 .. Len(keys) + 1 : pages[i] \in leaves
  BY LenProperties, ElementOfSeq
<1>. QED
  BY <1>1, <1>2 DEF Fits

LEMMA RootFits ==
    ASSUME IInv
    PROVE  Fits(RootKeys, LeavesBelowRoot, Leaves)
  BY RootIs, FitsIs

LEMMA InsertFits ==
    ASSUME NEW leaves, NEW keys, NEW pages, Fits(keys, pages, leaves),
           NEW key \in Keys, NEW page \in leaves, NEW j \in DOMAIN pages
    PROVE  Fits(InsertAt(keys, j, key), InsertAt(pages, j + 1, page), leaves)
<1>1. j \in 1 .. Len(keys) + 1 /\ j + 1 \in 1 .. Len(pages) + 1
  BY DEF Fits
<1>2. /\ InsertAt(keys, j, key) \in Seq(Keys)
      /\ Len(InsertAt(keys, j, key)) = Len(keys) + 1
  BY <1>1, InsertAtIs DEF Fits
<1>3. /\ InsertAt(pages, j + 1, page) \in Seq(leaves)
      /\ Len(InsertAt(pages, j + 1, page)) = Len(pages) + 1
  BY <1>1, InsertAtIs DEF Fits
<1>4. Len(pages) + 1 = (Len(keys) + 1) + 1
  BY DEF Fits
<1>. QED
  BY <1>2, <1>3, <1>4, FitsIs

LEMMA HungFits ==
    ASSUME NEW leaves, NEW keys, NEW pages, Fits(keys, pages, leaves),
           NEW pivot, pivot # NoPivot => pivot.key \in Keys /\ pivot.pageNo \in leaves,
           NEW allKeys, NEW all, Hung(keys, pages, pivot, allKeys, all)
    PROVE  Fits(allKeys, all, leaves)
<1>1. CASE pivot = NoPivot
  BY <1>1 DEF Hung
<1>2. CASE pivot # NoPivot
  BY <1>2, InsertFits DEF Hung
<1>. QED
  BY <1>1, <1>2

LEMMA ArrangedKept ==
    ASSUME NEW leaves, NEW keys, NEW pages, Fits(keys, pages, leaves),
           \A l \in leaves : nodes'[l] = nodes[l]
    PROVE  Arranged(keys, pages) <=> Arranged(keys, pages)'
<1>1. \A i \in DOMAIN pages : nodes'[pages[i]] = nodes[pages[i]]
  BY DEF Fits
<1>2. LinkedUp(pages) <=> LinkedUp(pages)'
  BY <1>1 DEF LinkedUp
<1>3. \A i \in DOMAIN pages : On(pages[i])' = On(pages[i])
  BY <1>1 DEF On
<1>4. \A i \in DOMAIN keys : i \in DOMAIN pages /\ i + 1 \in DOMAIN pages
  BY DEF Fits
<1>5. Separates(keys, pages) <=> Separates(keys, pages)'
  BY <1>3, <1>4 DEF Separates
<1>. QED
  BY <1>2, <1>5 DEF Arranged

LEMMA TreeKept ==
    ASSUME IInv, WayInv, Leaves' = Leaves, \A l \in Leaves : nodes'[l] = nodes[l],
           RootKeys' = RootKeys, LeavesBelowRoot' = LeavesBelowRoot,
           NonLeaves \subseteq NonLeaves', Waiting' = Waiting
    PROVE  /\ LeavesSorted => LeavesSorted'
           /\ RootPagesOnce => RootPagesOnce'
           /\ InPlace => InPlace'
           /\ Parted => Parted'
           /\ Twisted => Twisted'
<1>1. LeavesSorted => LeavesSorted'
  BY DEF LeavesSorted
<1>2. RootPagesOnce => RootPagesOnce'
  BY DEF RootPagesOnce
<1>3. ASSUME InPlace PROVE InPlace'
  <2>1. PICK allKeys, all :
          /\ Hung(RootKeys, LeavesBelowRoot, Waiting, allKeys, all)
          /\ Arranged(allKeys, all)
    BY <1>3, InPlaceIs
  <2>2. Waiting # NoPivot => Waiting.key \in Keys /\ Waiting.pageNo \in Leaves
    BY WaitingIs DEF Up
  <2>3. Fits(allKeys, all, Leaves)
    BY <2>1, <2>2, RootFits, HungFits
  <2>4. Arranged(allKeys, all)'
    BY <2>1, <2>3, ArrangedKept
  <2>. QED
    BY <2>1, <2>4, InPlaceIs
<1>4. Parted => Parted'
  BY DEF Parted
<1>5. Twisted => Twisted'
  BY SameLeaves DEF Twisted
<1>. QED
  BY <1>1, <1>2, <1>3, <1>4, <1>5

LEMMA SameRoot ==
    ASSUME nodes' = nodes, rootPageNum' = rootPageNum
    PROVE  /\ Leaves' = Leaves /\ NonLeaves' = NonLeaves /\ RootKeys' = RootKeys
           /\ LeavesBelowRoot' = LeavesBelowRoot /\ Ordered' = Ordered
<1>1. Leaves' = Leaves /\ NonLeaves' = NonLeaves
  BY DEF Leaves, LeavesOf, NonLeaves
<1>2. RootKeys' = RootKeys /\ LeavesBelowRoot' = LeavesBelowRoot /\ Root' = Root
  BY DEF RootKeys, LeavesBelowRoot, Root
<1>3. Chain' = Chain
  BY DEF Chain, ChainFrom
<1>4. Stored' = Stored
  BY <1>3 DEF Stored
<1>. QED
  BY <1>1, <1>2, <1>3, <1>4 DEF Ordered, Linked

LEMMA SameTreeOrder ==
    ASSUME IInv, OrderInv, status # "undefined", status' # "undefined",
           nodes' = nodes, rootPageNum' = rootPageNum, Waiting' = Waiting, WayInv'
    PROVE  OrderInv'
<1>1. LeavesSorted /\ RootPagesOnce /\ WayInv /\ (InPlace \/ Parted \/ Twisted)
  BY DEF OrderInv
<1>2. /\ Leaves' = Leaves /\ NonLeaves' = NonLeaves /\ RootKeys' = RootKeys
      /\ LeavesBelowRoot' = LeavesBelowRoot
  BY SameRoot
<1>3. LeavesSorted' /\ RootPagesOnce' /\ (InPlace' \/ Parted' \/ Twisted')
  BY <1>1, <1>2, TreeKept
<1>. QED
  BY <1>3 DEF OrderInv

LEMMA ThrowOrder ==
    ASSUME IInv, OrderInv, status # "undefined", Throw, call.pc \in {"idle", "down"}
    PROVE  OrderInv'
<1>1. /\ nodes' = nodes /\ rootPageNum' = rootPageNum /\ status' = status
      /\ call' = Idle /\ Idle.pc = "idle"
  BY DEF Throw, Idle
<1>2. Waiting = NoPivot /\ Waiting' = NoPivot
  BY <1>1 DEF Waiting
<1>3. WayInv'
  BY <1>1 DEF WayInv
<1>. QED
  BY <1>1, <1>2, <1>3, SameTreeOrder

LEMMA InsertEntryOrder ==
    ASSUME IInv, OrderInv, NEW key \in Keys, NEW others, InsertEntry(key, others)
    PROVE  OrderInv'
<1>1. call.pc = "idle" /\ status = "open"
  BY DEF InsertEntry, Idle
<1>2. CASE pins[rootPageNum] > 0 \/ FrameBeside(others)
  <2>1. /\ nodes' = nodes /\ rootPageNum' = rootPageNum /\ status' = status
        /\ call'.pc = "down" /\ call'.path = <<rootPageNum>>
    BY <1>2 DEF InsertEntry, treeVars, objectVars, Idle
  <2>2. Len(call'.path) = 1
    BY <2>1
  <2>3. Waiting = NoPivot /\ Waiting' = NoPivot
    BY <1>1, <2>1 DEF Waiting
  <2>4. WayInv'
    BY <2>1, <2>2 DEF WayInv
  <2>. QED
    BY <1>1, <2>1, <2>3, <2>4, SameTreeOrder
<1>3. CASE ~(pins[rootPageNum] > 0 \/ FrameBeside(others))
  BY <1>1, <1>3, ThrowOrder DEF InsertEntry
<1>. QED
  BY <1>2, <1>3

LEMMA UndefinedOrder ==
    ASSUME IInv, ChainInv, OrderInv, nodes' = nodes, rootPageNum' = rootPageNum,
           status' = "undefined"
    PROVE  OrderInv'
<1>1. Ordered' /\ Leaves' = Leaves
  BY OrderedFollows, SameRoot
<1>2. LeavesSorted'
  BY <1>1 DEF OrderInv, LeavesSorted
<1>. QED
  BY <1>1, <1>2 DEF OrderInv

LEMMA DescendOrder ==
    ASSUME IInv, OrderInv, Descend
    PROVE  OrderInv'
<1>. USE DEF treeVars, objectVars
<1> DEFINE node == nodes[curr]
           next == node.pageNoArray[Position(node.keyArray, call.key)]
<1>1. /\ call.pc = "down" /\ call.pc # "idle" /\ node.kind = "nonleaf"
      /\ status = "open" /\ call.path = <<rootPageNum>>
  BY DEF Descend, AtNonLeaf, IInv, CallInv, DownInv, ObjectInv, AtRoot
<1>2. /\ rootPageNum \in DOMAIN nodes /\ rootPageNum \in Nat
      /\ Leaves \subseteq Nat \ {0} /\ TreeOf(nodes)
  BY <1>1, PathIs DEF IInv, PagesInv
<1>3. curr = rootPageNum /\ node = Root
  BY <1>1, <1>2, CurrIs DEF Root
<1>4. rootPageNum \notin Leaves /\ IsInner(node, Leaves)
  BY <1>1, <1>2, <1>3, KindIs
<1>5. RootKeys = node.keyArray /\ LeavesBelowRoot = node.pageNoArray
  BY <1>3, <1>4, RootIs
<1>6. next \in Nat /\ next = LeavesBelowRoot[Position(RootKeys, call.key)]
  BY <1>2, <1>4, <1>5, ChildIs
<1>. HIDE DEF next
<1>7. CASE Throw
  BY <1>1, <1>7, ThrowOrder
<1>8. CASE /\ call' = [call EXCEPT !.path = Append(call.path, next),
                                   !.leaf = (node.level = 1)]
           /\ UNCHANGED <<treeVars, objectVars>>
  <2>0. Append(<<rootPageNum>>, next) = <<rootPageNum, next>>
    BY <1>2, <1>6, FirstTwo
  <2>1. Append(call.path, next) = <<rootPageNum, next>>
    BY <1>1, <2>0
  <2>2. /\ call'.pc = "down" /\ call'.key = call.key
        /\ call'.path = <<rootPageNum, next>>
    BY <1>1, <1>8, <2>1 DEF IInv, ObjectInv, Calls
  <2>3. call'.path[2] = next
    BY <2>2
  <2>4. Waiting = NoPivot /\ Waiting' = NoPivot
    BY <1>1, <2>2 DEF Waiting
  <2>5. RootKeys' = RootKeys /\ LeavesBelowRoot' = LeavesBelowRoot
    BY <1>8, SameRoot
  <2>6. WayInv'
    BY <1>6, <2>2, <2>3, <2>5 DEF WayInv
  <2>. QED
    BY <1>1, <1>8, <2>4, <2>6, SameTreeOrder
<1>9. CASE Room(next)
  <2>1. /\ call' = [call EXCEPT !.path = Append(call.path, next),
                                !.leaf = (node.level = 1)]
        /\ UNCHANGED <<treeVars, objectVars>>
    BY <1>9 DEF Descend, next
  <2>. QED
    BY <1>8, <2>1
<1>10. CASE ~Room(next)
  BY <1>7, <1>10 DEF Descend, next
<1>. QED
  BY <1>9, <1>10

LEMMA NoSplitBelowOrder ==
    ASSUME IInv, OrderInv, NoSplitBelow
    PROVE  OrderInv'
<1>1. /\ call.pc = "up" /\ call.pivot = NoPivot /\ nodes' = nodes
      /\ rootPageNum' = rootPageNum /\ status' = status
      /\ ReturnWith(NoPivot)
  BY DEF NoSplitBelow, treeVars, objectVars
<1>2. status = "open" /\ call.path = <<rootPageNum>>
  BY <1>1, PathIs DEF IInv, CallInv, UpInv, AtInnerRoot, AtRoot
<1>3. call' = Idle /\ Idle.pc = "idle"
  BY <1>1, <1>2 DEF ReturnWith, Idle
<1>4. Waiting = NoPivot /\ Waiting' = NoPivot
  BY <1>1, <1>3 DEF Waiting
<1>5. WayInv'
  BY <1>3 DEF WayInv
<1>. QED
  BY <1>1, <1>2, <1>4, <1>5, SameTreeOrder

LEMMA FinishOrder ==
    ASSUME IInv, OrderInv, Finish
    PROVE  OrderInv'
<1>1. /\ call.pc = "finish" /\ nodes' = nodes /\ rootPageNum' = rootPageNum
      /\ status' = status /\ ReturnWith(call.split.pivot)
  BY DEF Finish, treeVars, objectVars
<1>2. status = "open"
  BY <1>1, PathIs
<1>3. CASE Len(call.path) = 1
  <2>1. call' = Idle /\ Idle.pc = "idle"
    BY <1>1, <1>3 DEF ReturnWith, Idle
  <2>2. Waiting = NoPivot /\ Waiting' = NoPivot
    BY <1>1, <1>3, <2>1 DEF Waiting
  <2>3. WayInv'
    BY <2>1 DEF WayInv
  <2>. QED
    BY <1>1, <1>2, <2>2, <2>3, SameTreeOrder
<1>4. CASE Len(call.path) = 2
  <2>1. call' = [call EXCEPT !.pc = "up", !.path = Front(call.path),
                             !.pivot = call.split.pivot, !.split = NoSplit]
    BY <1>1, <1>4 DEF ReturnWith
  <2>2. call'.pc = "up" /\ call'.pivot = call.split.pivot
    BY <2>1 DEF IInv, ObjectInv, Calls
  <2>3. Waiting' = Waiting
    BY <1>1, <1>4, <2>2 DEF Waiting
  <2>4. WayInv'
    BY <2>2 DEF WayInv
  <2>. QED
    BY <1>1, <1>2, <2>3, <2>4, SameTreeOrder
<1>5. Len(call.path) = 1 \/ Len(call.path) = 2
  <2>1. \/ \E x \in DOMAIN nodes : call.path = <<x>>
        \/ \E l \in Leaves : call.path = <<rootPageNum, l>>
    BY <1>1, PathIs DEF BelowRoot
  <2>2. ASSUME NEW x, call.path = <<x>> PROVE Len(call.path) = 1
    BY <2>2
  <2>3. ASSUME NEW l, call.path = <<rootPageNum, l>> PROVE Len(call.path) = 2
    BY <2>3
  <2>. QED
    BY <2>1, <2>2, <2>3
<1>. QED
  BY <1>3, <1>4, <1>5

LEMMA RereadOrder ==
    ASSUME IInv, OrderInv, Reread
    PROVE  OrderInv'
<1>. USE DEF treeVars, objectVars
<1>1. /\ call.pc = "reread" /\ FreeFrame /\ call.path = <<rootPageNum>>
      /\ rootPageNum \notin Leaves /\ call.pivot.pageNo \in Leaves /\ status = "open"
  BY PathIs DEF Reread, IInv, CallInv, RereadInv, AtInnerRoot, AtRoot, Up
<1>2. /\ nodes' = nodes /\ rootPageNum' = rootPageNum /\ status' = status
      /\ SplitDone(call.pivot.pageNo, call.split.next, call.split.pivot)
  BY <1>1 DEF Reread, Room
<1>3. call'.pc = "finish" /\ call'.path = call.path
  BY <1>1, <1>2 DEF SplitDone, IInv, ObjectInv, Calls
<1>4. Len(call'.path) = 1
  BY <1>1, <1>3
<1>5. Waiting = NoPivot /\ Waiting' = NoPivot
  BY <1>1, <1>3, <1>4 DEF Waiting
<1>6. WayInv'
  BY <1>3 DEF WayInv
<1>. QED
  BY <1>1, <1>2, <1>5, <1>6, SameTreeOrder

(* A new root, with one key between two leaves.                            *)
LEMMA NewRootOrder ==
    ASSUME IInv, OrderInv, NewRoot
    PROVE  OrderInv'
<1>. USE DEF treeVars, objectVars
<1> DEFINE level == IF call.split.curr = initRootPageNum
                    THEN 1 ELSE nodes[rootPageNum].level + 1
           y == NonLeaf(level, <<call.split.pivot.key>>,
                        <<call.split.curr, call.split.next>>)
<1>1. /\ call.pc = "newroot" /\ FreeFrame /\ status = "open"
      /\ rootPageNum = initRootPageNum /\ call.split.curr = rootPageNum
  BY PathIs DEF NewRoot, IInv, CallInv, NewRootInv
<1>2. /\ nodes' = Grown(nodes, NewPage, y) /\ pins' = Grown(pins, NewPage, 0)
      /\ call' = [call EXCEPT !.pc = "newmeta"]
      /\ status' = status /\ rootPageNum' = rootPageNum
  BY <1>1 DEF NewRoot
<1>3. Waiting = call.split.pivot /\ Waiting.pageNo = call.split.next
  BY <1>1 DEF Waiting, OrderInv, WayInv
<1>4. y = NonLeaf(1, <<Waiting.key>>, <<rootPageNum, Waiting.pageNo>>)
  BY <1>1, <1>3
<1>5. y.kind = "nonleaf"
  BY DEF NonLeaf
<1>. HIDE DEF y
<1>6. /\ NewPage \notin DOMAIN nodes /\ rootPageNum \in DOMAIN nodes
      /\ \E n \in Nat \ {0} : DOMAIN pins = 1 .. n + 1
      /\ NewPage \notin DOMAIN pins
  BY NewPageIs DEF IInv, PagesInv
<1>7. /\ DOMAIN nodes' = DOMAIN nodes \cup {NewPage} /\ nodes'[NewPage] = y
      /\ \A q \in DOMAIN nodes : nodes'[q] = nodes[q]
  BY <1>2, <1>6 DEF Grown
<1>8. Leaves' = Leaves /\ \A l \in Leaves : nodes'[l] = nodes[l]
  BY <1>5, <1>7 DEF Leaves, LeavesOf
<1>9. NonLeaves \subseteq NonLeaves'
  BY <1>7 DEF NonLeaves
<1>10. RootKeys' = RootKeys /\ LeavesBelowRoot' = LeavesBelowRoot
  BY <1>2, <1>6, <1>7 DEF RootKeys, LeavesBelowRoot, Root
<1>11. call'.pc = "newmeta" /\ call'.split = call.split
  BY <1>2 DEF IInv, ObjectInv, Calls
<1>12. Waiting' = Waiting
  BY <1>3, <1>11 DEF Waiting
<1>13. NewPage' - 1 = NewPage
  <2>1. IsFiniteSet(DOMAIN pins) /\ DOMAIN pins' = DOMAIN pins \cup {NewPage}
    <3>1. PICK n \in Nat \ {0} : DOMAIN pins = 1 .. n + 1
      BY <1>6
    <3>2. IsFiniteSet(DOMAIN pins)
      BY <3>1, FS_Interval
    <3>3. DOMAIN pins' = DOMAIN pins \cup {NewPage}
      BY <1>2, <1>6, GrownIs
    <3>. QED
      BY <3>2, <3>3
  <2>2. /\ Cardinality(DOMAIN pins) \in Nat
        /\ Cardinality(DOMAIN pins') = Cardinality(DOMAIN pins) + 1
    BY <1>6, <2>1, FS_AddElement, FS_CardinalityType
  <2>. QED
    BY <2>2 DEF NewPage
<1>14. WayInv'
  BY <1>2, <1>3, <1>4, <1>7, <1>11, <1>12, <1>13 DEF WayInv
<1>15. LeavesSorted /\ RootPagesOnce /\ WayInv /\ (InPlace \/ Parted \/ Twisted)
  BY <1>1 DEF OrderInv
<1>16. LeavesSorted' /\ RootPagesOnce' /\ (InPlace' \/ Parted' \/ Twisted')
  BY <1>8, <1>9, <1>10, <1>12, <1>15, TreeKept
<1>. QED
  BY <1>1, <1>2, <1>14, <1>16 DEF OrderInv

LEMMA AppendIs ==
    ASSUME NEW S, NEW s \in Seq(S), NEW e \in S
    PROVE  InsertAt(s, Len(s) + 1, e) = Append(s, e)
<1> DEFINE i == Len(s) + 1
<1>1. Len(s) \in Nat /\ i \in 1 .. Len(s) + 1
  BY LenProperties
<1>2. InsertAt(s, i, e) \in Seq(S) /\ Len(InsertAt(s, i, e)) = Len(s) + 1
  BY <1>1, InsertAtIs
<1>3. \A j \in 1 .. Len(s) + 1 :
         InsertAt(s, i, e)[j] = IF j < i THEN s[j] ELSE IF j = i THEN e ELSE s[j - 1]
  BY <1>1, InsertAtHas
<1>4. /\ Append(s, e) \in Seq(S) /\ Len(Append(s, e)) = Len(s) + 1
      /\ \A j \in 1 .. Len(s) : Append(s, e)[j] = s[j]
      /\ Append(s, e)[Len(s) + 1] = e
  BY AppendProperties
<1>5. ASSUME NEW j \in 1 .. Len(s) + 1 PROVE InsertAt(s, i, e)[j] = Append(s, e)[j]
  <2>1. CASE j = i
    BY <1>1, <1>3, <1>4, <2>1
  <2>2. CASE j # i
    <3>1. j \in 1 .. Len(s) /\ j < i
      BY <1>1, <2>2
    <3>. QED
      BY <1>3, <1>4, <3>1
  <2>. QED
    BY <2>1, <2>2
<1>. HIDE DEF i
<1>. QED
  <2>. QED
    BY <1>2, <1>4, <1>5, SeqEqual DEF i

LEMMA OneAndTwo ==
    ASSUME NEW S, NEW x \in S, NEW y \in S
    PROVE  InsertAt(<<>>, 1, x) = <<x>> /\ InsertAt(<<x>>, 2, y) = <<x, y>>
<1>1. \A s \in Seq(S), e \in S : InsertAt(s, Len(s) + 1, e) = Append(s, e)
  BY AppendIs
<1>2. /\ <<>> \in Seq(S) /\ Len(<<>>) + 1 = 1 /\ Append(<<>>, x) = <<x>>
      /\ <<x>> \in Seq(S) /\ Len(<<x>>) + 1 = 2 /\ Append(<<x>>, y) = <<x, y>>
  <2>1. /\ <<>> \in Seq(S) /\ Len(<<>>) = 0 /\ <<x>> \in Seq(S) /\ Len(<<x>>) = 1
        /\ <<x, y>> \in Seq(S) /\ Len(<<x, y>>) = 2
        /\ <<x>>[1] = x /\ <<x, y>>[1] = x /\ <<x, y>>[2] = y
    OBVIOUS
  <2>2. Append(<<>>, x) = <<x>>
    OBVIOUS
  <2>3. /\ Append(<<x>>, y) \in Seq(S) /\ Len(Append(<<x>>, y)) = 2
        /\ Append(<<x>>, y)[1] = x /\ Append(<<x>>, y)[2] = y
    BY <2>1, AppendProperties
  <2>4. \A i \in 1 .. 2 : Append(<<x>>, y)[i] = <<x, y>>[i]
    BY <2>1, <2>3
  <2>5. Append(<<x>>, y) = <<x, y>>
    BY <2>1, <2>3, <2>4, SeqEqual
  <2>. QED
    BY <2>1, <2>2, <2>5
<1>3. PICK s \in Seq(S) : s = <<>>
  BY <1>2
<1>4. PICK t \in Seq(S) : t = <<x>>
  BY <1>2
<1>5. Len(s) + 1 = 1 /\ Len(t) + 1 = 2 /\ Append(s, x) = <<x>> /\ Append(t, y) = <<x, y>>
  BY <1>2, <1>3, <1>4
<1>6. InsertAt(s, 1, x) = <<x>> /\ InsertAt(t, 2, y) = <<x, y>>
  <2>1. InsertAt(s, Len(s) + 1, x) = Append(s, x) /\ InsertAt(t, Len(t) + 1, y) = Append(t, y)
    BY <1>1
  <2>. QED
    BY ONLY <1>5, <2>1
<1>. QED
  BY <1>3, <1>4, <1>6

LEMMA NewMetaOrder ==
    ASSUME IInv, OrderInv, NewMeta
    PROVE  OrderInv'
<1>. USE DEF treeVars, objectVars
<1>1. /\ call.pc = "newmeta" /\ FreeFrame /\ status = "open"
      /\ call.path = <<rootPageNum>> /\ rootPageNum \in Leaves
  BY PathIs DEF NewMeta, IInv, CallInv, NewMetaInv, AtRoot
<1>2. /\ nodes' = nodes /\ status' = status /\ rootPageNum' = NewPage - 1
      /\ call' = [call EXCEPT !.pc = "finish"]
  BY <1>1 DEF NewMeta, Room
<1>3. call'.pc = "finish" /\ call'.path = call.path
  BY <1>2 DEF IInv, ObjectInv, Calls
<1>4. Waiting' = NoPivot
  <2>1. Len(call'.path) = 1
    BY <1>1, <1>3
  <2>. QED
    BY <1>3, <2>1 DEF Waiting
<1>5. WayInv'
  BY <1>3 DEF WayInv
<1>6. LeavesSorted /\ RootPagesOnce /\ WayInv /\ (InPlace \/ Parted \/ Twisted)
  BY <1>1 DEF OrderInv
<1>7. Up(Waiting) /\ Waiting # NoPivot
  BY <1>1, <1>6, WaitingIs
<1>8. PICK r, key, page : r = rootPageNum /\ key = Waiting.key /\ page = Waiting.pageNo
  OBVIOUS
<1>9. /\ r \in Leaves /\ page \in Leaves /\ key \in Keys /\ r # NoPage
      /\ RootKeys = <<>> /\ LeavesBelowRoot = <<r>>
  BY <1>1, <1>7, <1>8, RootIs, LeavesAre DEF Up
<1>10. RootKeys' = <<key>> /\ LeavesBelowRoot' = <<r, page>>
  <2>1. nodes[NewPage - 1] = NonLeaf(1, <<key>>, <<r, page>>)
    BY <1>1, <1>6, <1>8 DEF WayInv
  <2>2. Root' = NonLeaf(1, <<key>>, <<r, page>>)
    BY <1>2, <2>1 DEF Root
  <2>. QED
    BY <2>2 DEF RootKeys, LeavesBelowRoot, NonLeaf
<1>11. Leaves' = Leaves /\ NonLeaves' = NonLeaves
  BY <1>2 DEF Leaves, NonLeaves
<1>12. LeavesSorted'
  BY <1>2, <1>6, <1>11 DEF LeavesSorted
<1>13. ToSet(<<r>>) = {r} /\ ToSet(<<r, page>>) = {r, page}
  BY DEF ToSet
<1>14. RootPagesOnce'
  <2>1. r # page
    BY <1>6, <1>7, <1>8, <1>9, <1>13 DEF RootPagesOnce
  <2>2. Distinct(<<r, page>>)
    BY <2>1 DEF Distinct
  <2>. QED
    BY <1>4, <1>10, <2>2 DEF RootPagesOnce
<1>15. InPlace => InPlace'
  <2>. SUFFICES ASSUME InPlace PROVE InPlace'
    OBVIOUS
  <2>1. PICK j \in DOMAIN <<r>> : Arranged(InsertAt(<<>>, j, key), InsertAt(<<r>>, j + 1, page))
    BY <1>7, <1>8, <1>9 DEF InPlace
  <2>2. j = 1 /\ j + 1 = 2
    OBVIOUS
  <2>3. Arranged(<<key>>, <<r, page>>)
    BY <1>9, <2>1, <2>2, OneAndTwo
  <2>4. Arranged(<<key>>, <<r, page>>)'
    BY <1>2, <2>3 DEF Arranged, LinkedUp, Separates, On
  <2>. QED
    BY <1>4, <1>10, <2>4 DEF InPlace
<1>16. Parted => Parted'
  <2>1. \A l \in Leaves : l # NoPage
    BY LeavesAre
  <2>2. Waiting'.pageNo = NoPage
    BY <1>4 DEF NoPivot
  <2>. QED
    BY <1>8, <1>9, <1>10, <1>11, <1>13, <2>1, <2>2 DEF Parted
<1>17. ~Twisted
  <2>1. DOMAIN RootKeys = {}
    BY <1>9
  <2>. QED
    BY <2>1 DEF Twisted, EqualKeys
<1>. QED
  BY <1>1, <1>2, <1>5, <1>6, <1>12, <1>14, <1>15, <1>16, <1>17 DEF OrderInv

-----------------------------------------------------------------------------
(* An entry more on a leaf, between the keys where it belongs.             *)
LEMMA RisingIs ==
    ASSUME NEW leaves, NEW keys, NEW pages, Fits(keys, pages, leaves), Rising(keys),
           NEW i \in DOMAIN keys, NEW k \in DOMAIN keys, i <= k
    PROVE  keys[i] <= keys[k]
<1>. USE DEF Fits
<1>1. CASE i = k
  BY <1>1
<1>2. CASE i # k
  <2>1. i < k
    BY <1>2
  <2>2. <<keys[i], keys[k]>> \in AtMost
    BY <2>1 DEF Rising, Related
  <2>. QED
    BY <2>2 DEF AtMost
<1>. QED
  BY <1>1, <1>2

LEMMA PlaceBetween ==
    ASSUME NEW leaves, NEW keys, NEW pages, Fits(keys, pages, leaves), Rising(keys),
           NEW key \in Int, NEW j, j = Position(keys, key)
    PROVE  /\ j \in DOMAIN pages
           /\ \A k \in DOMAIN keys : /\ k < j => keys[k] <= key
                                     /\ j <= k => key < keys[k]
<1>. USE DEF Fits
<1>1. j \in 1 .. Len(keys) + 1
  BY PositionIs
<1>2. /\ \A k \in 1 .. Len(keys) : k < j => ~ (key < keys[k])
      /\ j <= Len(keys) => key < keys[j]
  BY PositionParts
<1>3. ASSUME NEW k \in DOMAIN keys, j <= k PROVE key < keys[k]
  <2>1. j \in DOMAIN keys /\ j <= Len(keys)
    BY <1>1, <1>3
  <2>2. keys[j] <= keys[k]
    BY <1>3, <2>1, RisingIs
  <2>3. key < keys[j] /\ keys[j] \in Int /\ keys[k] \in Int
    BY <1>2, <2>1
  <2>. QED
    BY <2>2, <2>3
<1>4. ASSUME NEW k \in DOMAIN keys, k < j PROVE keys[k] <= key
  <2>1. keys[k] \in Int /\ ~ (key < keys[k])
    BY <1>2, <1>4
  <2>. QED
    BY <2>1
<1>. QED
  BY <1>1, <1>3, <1>4

(* The entries of a leaf are between all keys on its two sides.            *)
LEMMA EntriesBetween ==
    ASSUME NEW keys, NEW pages, Fits(keys, pages, Leaves), Arranged(keys, pages), IInv,
           NEW j \in DOMAIN pages, NEW x \in On(pages[j]), NEW k \in DOMAIN keys
    PROVE  (k < j => keys[k] <= x.key) /\ (j <= k => x.key <= keys[k])
<1>. USE DEF Fits
<1>1. x.key \in Int /\ Rising(keys) /\ Separates(keys, pages)
  BY LeavesAre DEF Arranged
<1>2. ASSUME k < j PROVE keys[k] <= x.key
  <2>1. j - 1 \in DOMAIN keys /\ (j - 1) + 1 = j /\ k <= j - 1
    BY <1>2
  <2>2. \A e \in On(pages[(j - 1) + 1]) : keys[j - 1] <= e.key
    BY <1>1, <2>1 DEF Separates
  <2>3. keys[j - 1] <= x.key
    BY <2>1, <2>2
  <2>4. keys[k] <= keys[j - 1]
    BY <1>1, <2>1, RisingIs
  <2>5. keys[k] \in Int /\ keys[j - 1] \in Int
    BY <2>1
  <2>. QED
    BY <1>1, <2>3, <2>4, <2>5
<1>3. ASSUME j <= k PROVE x.key <= keys[k]
  <2>1. j \in DOMAIN keys
    BY <1>3
  <2>2. x.key <= keys[j]
    BY <1>1, <2>1 DEF Separates
  <2>3. keys[j] <= keys[k]
    BY <1>1, <1>3, <2>1, RisingIs
  <2>4. keys[j] \in Int /\ keys[k] \in Int
    BY <2>1
  <2>. QED
    BY <1>1, <2>2, <2>3, <2>4
<1>. QED
  BY <1>2, <1>3

LEMMA ArrangedAdd ==
    ASSUME NEW keys, NEW pages, Fits(keys, pages, Leaves), Arranged(keys, pages), IInv,
           Distinct(pages), NEW j \in DOMAIN pages, NEW e,
           \A k \in DOMAIN keys : /\ k < j => keys[k] <= e.key
                                  /\ j <= k => e.key <= keys[k],
           \A l \in Leaves \ {pages[j]} : nodes'[l] = nodes[l],
           nodes'[pages[j]].rightSibPageNo = nodes[pages[j]].rightSibPageNo,
           On(pages[j])' = On(pages[j]) \cup {e}
    PROVE  Arranged(keys, pages)'
<1>. USE DEF Fits
<1>1. LinkedUp(pages)'
  <2>1. \A i \in DOMAIN pages :
          nodes'[pages[i]].rightSibPageNo = nodes[pages[i]].rightSibPageNo
    OBVIOUS
  <2>. QED
    BY <2>1 DEF Arranged, LinkedUp
<1>2. \A i \in DOMAIN pages : i # j => On(pages[i])' = On(pages[i])
  BY DEF On, Distinct
<1>3. ASSUME NEW i \in DOMAIN keys, NEW x \in On(pages[i])' PROVE x.key <= keys[i]
  <2>1. i \in DOMAIN pages
    OBVIOUS
  <2>2. CASE x \in On(pages[i])
    BY <2>2 DEF Arranged, Separates
  <2>3. CASE i = j /\ x = e
    BY <2>3
  <2>. QED
    BY <1>2, <1>3, <2>1, <2>2, <2>3
<1>4. ASSUME NEW i \in DOMAIN keys, NEW x \in On(pages[i + 1])' PROVE keys[i] <= x.key
  <2>1. i + 1 \in DOMAIN pages
    OBVIOUS
  <2>2. CASE x \in On(pages[i + 1])
    BY <2>2 DEF Arranged, Separates
  <2>3. CASE i + 1 = j /\ x = e
    <3>1. i < j
      BY <2>3
    <3>. QED
      BY <2>3, <3>1
  <2>. QED
    BY <1>2, <1>4, <2>1, <2>2, <2>3
<1>5. Separates(keys, pages)'
  BY <1>3, <1>4 DEF Separates
<1>. QED
  BY <1>1, <1>5 DEF Arranged

-----------------------------------------------------------------------------
(* An entry that is put on a leaf with room.                               *)
LEMMA RootStays ==
    ASSUME IInv, rootPageNum' = rootPageNum,
           \/ rootPageNum \in Leaves /\ nodes'[rootPageNum].kind = "leaf"
           \/ nodes'[rootPageNum] = nodes[rootPageNum]
    PROVE  RootKeys' = RootKeys /\ LeavesBelowRoot' = LeavesBelowRoot
<1>1. CASE rootPageNum \in Leaves /\ nodes'[rootPageNum].kind = "leaf"
  <2>1. RootKeys = <<>> /\ LeavesBelowRoot = <<rootPageNum>>
    BY <1>1, RootIs
  <2>2. RootKeys' = <<>> /\ LeavesBelowRoot' = <<rootPageNum>>
    BY <1>1 DEF RootKeys, LeavesBelowRoot, Root
  <2>. QED
    BY <2>1, <2>2
<1>2. CASE nodes'[rootPageNum] = nodes[rootPageNum]
  BY <1>2 DEF RootKeys, LeavesBelowRoot, Root
<1>. QED
  BY <1>1, <1>2

LEMMA SiblingsKept ==
    ASSUME Leaves' = Leaves, RootKeys' = RootKeys, LeavesBelowRoot' = LeavesBelowRoot,
           \A l \in Leaves : nodes'[l].rightSibPageNo = nodes[l].rightSibPageNo
    PROVE  Twisted => Twisted'
<1>1. ASSUME NEW n, NEW o \in [1 .. n -> Leaves] PROVE InOrder(o, n) <=> InOrder(o, n)'
  <2>1. \A i \in 1 .. n : nodes'[o[i]].rightSibPageNo = nodes[o[i]].rightSibPageNo
    OBVIOUS
  <2>. QED
    BY <2>1 DEF InOrder
<1>. QED
  BY <1>1 DEF Twisted

LEMMA LeafPlace ==
    ASSUME IInv, WayInv, AtLeaf
    PROVE  /\ Position(RootKeys, call.key) \in DOMAIN LeavesBelowRoot
           /\ curr = LeavesBelowRoot[Position(RootKeys, call.key)]
           /\ call.key \in Int /\ Waiting = NoPivot
<1>1. /\ call.pc = "down" /\ curr \in Leaves
      /\ \/ call.path = <<curr>> /\ curr = rootPageNum
         \/ call.path = <<rootPageNum, curr>> /\ rootPageNum \notin Leaves
  BY AtLeafIs
<1>2. call.key \in Int /\ Waiting = NoPivot
  BY <1>1 DEF IInv, ObjectInv, Calls, Waiting
<1>3. /\ Position(RootKeys, call.key) \in 1 .. Len(RootKeys) + 1
      /\ DOMAIN LeavesBelowRoot = 1 .. Len(RootKeys) + 1
  BY RootIs, PositionIs
<1>4. CASE curr = rootPageNum
  <2>1. LeavesBelowRoot = <<curr>>
    BY <1>1, <1>4, RootIs
  <2>2. Position(RootKeys, call.key) = 1
    BY <1>3, <2>1
  <2>. QED
    BY <1>2, <1>3, <2>1, <2>2
<1>5. CASE call.path = <<rootPageNum, curr>>
  <2>1. Len(call.path) = 2 /\ call.path[2] = curr
    BY <1>5
  <2>. QED
    BY <1>1, <1>2, <1>3, <2>1 DEF WayInv
<1>. QED
  BY <1>1, <1>4, <1>5

LEMMA LeafAddOrder ==
    ASSUME IInv, OrderInv, LeafAdd
    PROVE  OrderInv'
<1> DEFINE es == AddToLeaf(nodes[curr].entries, Entry)
           x == [nodes[curr] EXCEPT !.entries = es]
<1>1. /\ AtLeaf /\ call.pc = "down" /\ call.pc # "idle" /\ status = "open"
      /\ curr \in Leaves /\ curr \in DOMAIN nodes /\ IsLeaf(nodes[curr], Leaves)
      /\ status' = status /\ rootPageNum' = rootPageNum
  BY AtLeafIs DEF LeafAdd, objectVars
<1>2. LeavesSorted /\ RootPagesOnce /\ WayInv /\ (InPlace \/ Parted \/ Twisted)
  BY <1>1 DEF OrderInv
<1>3. /\ nodes[curr] = Leaf(nodes[curr].entries, nodes[curr].rightSibPageNo)
      /\ nodes[curr].entries \in Seq(Entries)
      /\ Related(nodes[curr].entries, Ascending)
  BY <1>1, <1>2 DEF IsLeaf, LeavesSorted
<1>4. Entry \in Entries /\ Entry.key = call.key
  BY <1>1, EntryIs DEF Entry
<1>5. ToSet(es) = ToSet(nodes[curr].entries) \cup {Entry} /\ Related(es, Ascending)
  BY <1>3, <1>4, AddToLeafHolds, AddToLeafRises
<1>6. nodes' = [nodes EXCEPT ![curr] = x] /\ ReturnWith(NoPivot)
  BY <1>1 DEF LeafAdd
<1>. HIDE DEF es
<1>7. x.entries = es /\ x.kind = "leaf" /\ x.rightSibPageNo = nodes[curr].rightSibPageNo
  BY <1>3 DEF Leaf
<1>. HIDE DEF x
<1>8. /\ nodes'[curr] = x /\ DOMAIN nodes' = DOMAIN nodes
      /\ \A p \in DOMAIN nodes \ {curr} : nodes'[p] = nodes[p]
  BY <1>1, <1>6
<1>9. /\ Leaves' = Leaves /\ NonLeaves' = NonLeaves
      /\ \A p \in Leaves \ {curr} : nodes'[p] = nodes[p]
  <2>1. nodes[curr].kind = "leaf"
    BY <1>1 DEF IsLeaf
  <2>. QED
    BY <1>1, <1>7, <1>8, <2>1 DEF Leaves, LeavesOf, NonLeaves
<1>10. RootKeys' = RootKeys /\ LeavesBelowRoot' = LeavesBelowRoot
  <2>1. rootPageNum \in DOMAIN nodes
    BY RootIs
  <2>2. rootPageNum = curr \/ nodes'[rootPageNum] = nodes[rootPageNum]
    BY <1>8, <2>1
  <2>. QED
    BY <1>1, <1>7, <1>8, <2>2, RootStays
<1>11. call' = Idle \/ (call'.pc = "up" /\ call'.pivot = NoPivot)
  BY <1>6 DEF ReturnWith, IInv, ObjectInv, Calls
<1>12. Waiting = NoPivot /\ Waiting' = NoPivot
  BY <1>1, <1>11 DEF Waiting, Idle
<1>13. WayInv'
  <2>1. call'.pc \in {"idle", "up"}
    BY <1>11 DEF Idle
  <2>. QED
    BY <2>1 DEF WayInv
<1>14. LeavesSorted'
  BY <1>2, <1>5, <1>7, <1>8, <1>9 DEF LeavesSorted
<1>15. RootPagesOnce'
  BY <1>2, <1>10, <1>12 DEF RootPagesOnce
<1>16. Parted => Parted'
  BY <1>9, <1>10, <1>12 DEF Parted
<1>17. Twisted => Twisted'
  <2>1. \A l \in Leaves : nodes'[l].rightSibPageNo = nodes[l].rightSibPageNo
    BY <1>7, <1>8, <1>9
  <2>. QED
    BY <1>9, <1>10, <2>1, SiblingsKept
<1>18. InPlace => InPlace'
  <2>. SUFFICES ASSUME InPlace PROVE InPlace'
    OBVIOUS
  <2>1. PICK keys, pages, e, j, c :
          /\ keys = RootKeys /\ pages = LeavesBelowRoot /\ e = Entry /\ c = curr
          /\ j = Position(keys, e.key)
    OBVIOUS
  <2>2. Arranged(keys, pages) /\ Fits(keys, pages, Leaves) /\ Distinct(pages)
    BY <1>2, <1>12, <2>1, RootFits DEF InPlace, RootPagesOnce
  <2>3. j \in DOMAIN pages /\ pages[j] = c /\ e.key \in Int
    BY <1>1, <1>2, <1>4, <2>1, LeafPlace
  <2>4. \A k \in DOMAIN keys : /\ k < j => keys[k] <= e.key
                               /\ j <= k => e.key < keys[k]
    BY <2>1, <2>2, <2>3, PlaceBetween DEF Arranged
  <2>5. \A k \in DOMAIN keys : /\ k < j => keys[k] <= e.key
                               /\ j <= k => e.key <= keys[k]
    BY <2>2, <2>3, <2>4 DEF Fits
  <2>6. /\ \A l \in Leaves \ {pages[j]} : nodes'[l] = nodes[l]
        /\ nodes'[pages[j]].rightSibPageNo = nodes[pages[j]].rightSibPageNo
        /\ On(pages[j])' = On(pages[j]) \cup {e}
    <3>1. nodes'[c].entries = es /\ nodes'[c].rightSibPageNo = nodes[c].rightSibPageNo
      BY <1>7, <1>8, <2>1
    <3>2. ToSet(nodes'[c].entries) = ToSet(nodes[c].entries) \cup {e}
      BY <1>5, <2>1, <3>1
    <3>3. \A l \in Leaves \ {c} : nodes'[l] = nodes[l]
      BY <1>9, <2>1
    <3>. QED
      BY <2>3, <3>1, <3>2, <3>3 DEF On
  <2>7. Arranged(keys, pages)'
    BY <2>2, <2>3, <2>5, <2>6, ArrangedAdd
  <2>. QED
    BY <1>10, <1>12, <2>1, <2>7 DEF InPlace
<1>. QED
  BY <1>1, <1>2, <1>13, <1>14, <1>15, <1>16, <1>17, <1>18 DEF OrderInv

-----------------------------------------------------------------------------
(* A leaf that is split.                                                   *)
LEMMA ArrangedSplit ==
    ASSUME NEW keys, NEW pages, Fits(keys, pages, Leaves), Arranged(keys, pages), IInv,
           Distinct(pages), NEW j \in DOMAIN pages, NEW e, NEW q, NEW p \in Keys,
           \A k \in DOMAIN keys : /\ k < j => keys[k] <= e.key
                                  /\ j <= k => e.key <= keys[k],
           \A l \in Leaves \ {pages[j]} : nodes'[l] = nodes[l],
           nodes'[pages[j]].rightSibPageNo = q,
           nodes'[q].rightSibPageNo = nodes[pages[j]].rightSibPageNo,
           On(pages[j])' \cup On(q)' \subseteq On(pages[j]) \cup {e},
           \A x \in On(pages[j])' : x.key <= p,
           \A y \in On(q)' : p <= y.key,
           \E y \in On(q)' : y.key = p
    PROVE  Arranged(InsertAt(keys, j, p), InsertAt(pages, j + 1, q))'
<1> DEFINE newKeys == InsertAt(keys, j, p)
           newPages == InsertAt(pages, j + 1, q)
           n == Len(keys)
           Old(m) == IF m <= j THEN m ELSE m - 1
<1>. USE DEF Fits
<1>1. /\ n \in Nat /\ j \in 1 .. n + 1 /\ DOMAIN keys = 1 .. n
      /\ DOMAIN pages = 1 .. n + 1 /\ Len(pages) = n + 1
  OBVIOUS
<1>2. /\ DOMAIN newKeys = 1 .. n + 1
      /\ \A i \in 1 .. n + 1 :
           newKeys[i] = IF i < j THEN keys[i] ELSE IF i = j THEN p ELSE keys[i - 1]
  BY <1>1, InsertAtHas
<1>3. /\ DOMAIN newPages = 1 .. n + 2
      /\ \A i \in 1 .. n + 2 :
           newPages[i] = IF i < j + 1 THEN pages[i]
                         ELSE IF i = j + 1 THEN q ELSE pages[i - 1]
      /\ Len(newPages) = n + 2
  <2>1. j + 1 \in 1 .. Len(pages) + 1 /\ (n + 1) + 1 = n + 2
    BY <1>1
  <2>2. PICK S : pages \in Seq(S) /\ q \in S
    <3>1. pages \in Seq(Leaves \cup {q}) /\ q \in Leaves \cup {q}
      BY SeqMonotonic
    <3>. QED
      BY <3>1
  <2>5. PICK i : i = j + 1
    OBVIOUS
  <2>6. i \in 1 .. Len(pages) + 1 /\ newPages = InsertAt(pages, i, q)
    BY <2>1, <2>5
  <2>. HIDE DEF newPages, n
  <2>3. /\ DOMAIN newPages = 1 .. Len(pages) + 1
        /\ \A m \in 1 .. Len(pages) + 1 :
             newPages[m] = IF m < i THEN pages[m] ELSE IF m = i THEN q ELSE pages[m - 1]
    BY <2>2, <2>6, InsertAtHas
  <2>4. Len(newPages) = Len(pages) + 1
    <3>1. /\ InsertAt(pages, i, q) \in Seq(S)
          /\ Len(InsertAt(pages, i, q)) = Len(pages) + 1
      <4>1. i \in 1 .. Len(pages) + 1
        BY <2>6
      <4>. HIDE DEF Fits
      <4>. QED
        BY <2>2, <4>1, InsertAtIs
    <3>. QED
      BY <2>6, <3>1
  <2>. QED
    BY <1>1, <2>1, <2>3, <2>4, <2>5
<1>. HIDE DEF newKeys, newPages, n
<1>4. /\ \A i \in 1 .. n + 1 : i < j => newKeys[i] = keys[i]
      /\ newKeys[j] = p
      /\ \A i \in 1 .. n + 1 : j < i => newKeys[i] = keys[i - 1]
  BY <1>1, <1>2
<1>5. /\ \A i \in 1 .. n + 2 : i <= j => newPages[i] = pages[i]
      /\ newPages[j + 1] = q
      /\ \A i \in 1 .. n + 2 : j + 1 < i => newPages[i] = pages[i - 1]
  BY <1>1, <1>3
<1>6. \A i \in 1 .. n + 1 : i # j =>
        pages[i] \in Leaves \ {pages[j]} /\ nodes'[pages[i]] = nodes[pages[i]]
  BY <1>1 DEF Distinct
<1>7. ASSUME NEW m \in 1 .. n + 2, NEW x \in On(newPages[m])', NEW k \in 1 .. n
      PROVE  /\ k < Old(m) => keys[k] <= x.key
             /\ Old(m) <= k => x.key <= keys[k]
  <2>1. Old(m) \in 1 .. n + 1
    BY <1>1
  <2>2. CASE Old(m) # j
    <3>1. newPages[m] = pages[Old(m)]
      BY <1>1, <1>5, <2>2
    <3>2. nodes'[pages[Old(m)]] = nodes[pages[Old(m)]]
      BY <1>6, <2>1, <2>2
    <3>. HIDE DEF Old
    <3>3. x \in On(pages[Old(m)])
      BY <1>7, <3>1, <3>2 DEF On
    <3>. QED
      BY <1>1, <2>1, <3>3, EntriesBetween
  <2>3. CASE Old(m) = j
    <3>1. m = j \/ m = j + 1
      BY <1>1, <2>3
    <3>2. newPages[m] = pages[j] \/ newPages[m] = q
      BY <1>1, <1>5, <3>1
    <3>3. x \in On(pages[j]) \cup {e}
      BY <1>7, <3>2
    <3>. HIDE DEF Old
    <3>4. CASE x \in On(pages[j])
      BY <1>1, <2>3, <3>4, EntriesBetween
    <3>5. CASE x = e
      BY <1>1, <2>3, <3>5
    <3>. QED
      BY <3>3, <3>4, <3>5
  <2>. QED
    BY <2>2, <2>3
<1>8. \A k \in 1 .. n : /\ k < j => keys[k] <= p
                        /\ j <= k => p <= keys[k]
  <2>1. PICK y \in On(q)' : y.key = p
    OBVIOUS
  <2>2. y \in On(newPages[j + 1])' /\ j + 1 \in 1 .. n + 2 /\ Old(j + 1) = j
    BY <1>1, <1>5, <2>1
  <2>. HIDE DEF Old
  <2>. QED
    BY <1>7, <2>1, <2>2
<1>9. Separates(newKeys, newPages)'
  <2>1. ASSUME NEW i \in 1 .. n + 1, i < j
        PROVE  /\ \A x \in On(newPages[i])' : x.key <= newKeys[i]
               /\ \A x \in On(newPages[i + 1])' : newKeys[i] <= x.key
    <3>1. /\ i \in 1 .. n /\ i + 1 \in 1 .. n + 2 /\ Old(i) = i /\ Old(i + 1) = i + 1
          /\ i \in 1 .. n + 2 /\ newKeys[i] = keys[i]
      BY <1>1, <1>4, <2>1
    <3>2. i < i + 1 /\ i <= i
      OBVIOUS
    <3>. HIDE DEF Old
    <3>. QED
      BY <1>7, <3>1, <3>2
  <2>2. ASSUME NEW i \in 1 .. n + 1, j < i
        PROVE  /\ \A x \in On(newPages[i])' : x.key <= newKeys[i]
               /\ \A x \in On(newPages[i + 1])' : newKeys[i] <= x.key
    <3>1. /\ i - 1 \in 1 .. n /\ i + 1 \in 1 .. n + 2 /\ Old(i) = i - 1 /\ Old(i + 1) = i
          /\ i \in 1 .. n + 2 /\ newKeys[i] = keys[i - 1]
      BY <1>1, <1>4, <2>2
    <3>2. i - 1 < i /\ i - 1 <= i - 1
      OBVIOUS
    <3>. HIDE DEF Old
    <3>. QED
      BY <1>7, <3>1, <3>2
  <2>3. /\ \A x \in On(newPages[j])' : x.key <= newKeys[j]
        /\ \A x \in On(newPages[j + 1])' : newKeys[j] <= x.key
    BY <1>1, <1>4, <1>5 DEF On
  <2>4. ASSUME NEW i \in 1 .. n + 1
        PROVE  /\ \A x \in On(newPages[i])' : x.key <= newKeys[i]
               /\ \A x \in On(newPages[i + 1])' : newKeys[i] <= x.key
    <3>1. CASE i < j
      BY <2>1, <3>1
    <3>2. CASE j < i
      BY <2>2, <3>2
    <3>3. CASE i = j
      BY <2>3, <3>3 DEF On
    <3>. QED
      BY <1>1, <3>1, <3>2, <3>3
  <2>. QED
    BY <1>2, <2>4 DEF Separates
<1>10. LinkedUp(newPages)'
  <2>1. /\ pages[1] = firstLeaf
        /\ \A i \in 1 .. n + 1 : nodes[pages[i]].rightSibPageNo =
                                   IF i = n + 1 THEN NoPage ELSE pages[i + 1]
    BY <1>1 DEF Arranged, LinkedUp
  <2>2. newPages[1] = firstLeaf
    BY <1>1, <1>5, <2>1
  <2>3. ASSUME NEW m \in 1 .. n + 2
        PROVE  nodes'[newPages[m]].rightSibPageNo =
                 IF m = n + 2 THEN NoPage ELSE newPages[m + 1]
    <3>1. CASE m < j
      <4>1. m \in 1 .. n + 1 /\ m # j /\ m # n + 1 /\ m # n + 2 /\ m + 1 \in 1 .. n + 2 /\ m + 1 <= j
        BY <1>1, <3>1
      <4>2. newPages[m] = pages[m] /\ newPages[m + 1] = pages[m + 1]
        BY <1>5, <3>1, <4>1
      <4>3. nodes'[pages[m]] = nodes[pages[m]]
        BY <1>6, <4>1
      <4>. QED
        BY <2>1, <4>1, <4>2, <4>3
    <3>2. CASE m = j
      BY <1>1, <1>5, <3>2
    <3>3. CASE m = j + 1
      <4>1. nodes'[newPages[m]].rightSibPageNo = IF j = n + 1 THEN NoPage ELSE pages[j + 1]
        BY <1>1, <1>5, <2>1, <3>3
      <4>2. m = n + 2 <=> j = n + 1
        BY <1>1, <3>3
      <4>3. m # n + 2 => newPages[m + 1] = pages[j + 1]
        <5>. SUFFICES ASSUME m # n + 2 PROVE newPages[m + 1] = pages[j + 1]
          OBVIOUS
        <5>1. m + 1 \in 1 .. n + 2 /\ j + 1 < m + 1 /\ (m + 1) - 1 = j + 1
          BY <1>1, <3>3
        <5>. QED
          BY <1>5, <5>1
      <4>. QED
        BY <4>1, <4>2, <4>3
    <3>4. CASE j + 1 < m
      <4>1. m - 1 \in 1 .. n + 1 /\ m - 1 # j /\ (m - 1) + 1 = m /\ (m = n + 2 <=> m - 1 = n + 1)
        BY <1>1, <3>4
      <4>2. newPages[m] = pages[m - 1] /\ nodes'[pages[m - 1]] = nodes[pages[m - 1]]
        BY <1>5, <1>6, <3>4, <4>1
      <4>3. m # n + 2 => newPages[m + 1] = pages[m]
        <5>. SUFFICES ASSUME m # n + 2 PROVE newPages[m + 1] = pages[m]
          OBVIOUS
        <5>1. m + 1 \in 1 .. n + 2 /\ j + 1 < m + 1 /\ (m + 1) - 1 = m
          BY <1>1, <3>4
        <5>. QED
          BY <1>5, <5>1
      <4>4. nodes[pages[m - 1]].rightSibPageNo = IF m - 1 = n + 1 THEN NoPage ELSE pages[m]
        BY <2>1, <4>1
      <4>. QED
        BY <4>1, <4>2, <4>3, <4>4
    <3>. QED
      BY <1>1, <3>1, <3>2, <3>3, <3>4
  <2>. QED
    BY <1>3, <2>2, <2>3 DEF LinkedUp
<1>11. Rising(newKeys)
  <2>1. keys \in Seq(Int) /\ p \in Int /\ j \in 1 .. Len(keys) + 1
    BY SeqMonotonic
  <2>2. \A k \in 1 .. n : /\ k < j => <<keys[k], p>> \in AtMost
                          /\ j <= k => <<p, keys[k]>> \in AtMost
    BY <1>1, <1>8, <2>1 DEF AtMost
  <2>3. Related(keys, AtMost)
    BY DEF Arranged, Rising
  <2>. QED
    BY <2>1, <2>2, <2>3, InsertRelated DEF Rising, newKeys, n
<1>. QED
  BY <1>9, <1>10, <1>11 DEF Arranged, newKeys, newPages

LEMMA HalvesOrdered ==
    ASSUME NEW es \in Seq(Entries), Len(es) = leafOccupancy, NEW e \in Entries,
           Related(es, Ascending), NEW goesRight \in BOOLEAN,
           goesRight <=> e.key > es[(leafOccupancy + 1) \div 2].key
    PROVE  LET splitIndex == (leafOccupancy + 1) \div 2
               lower == SubSeq(es, 1, leafOccupancy - splitIndex)
               upper == UpperHalf(es)
               right == IF goesRight THEN AddToLeaf(upper, e) ELSE upper
               left == IF goesRight THEN lower ELSE AddToLeaf(lower, e)
           IN  /\ Related(left, Ascending) /\ Related(right, Ascending)
               /\ right[1].key \in Keys /\ right[1] \in ToSet(right)
               /\ \A x \in ToSet(left) : x.key <= right[1].key
               /\ \A y \in ToSet(right) : right[1].key <= y.key
<1> DEFINE splitIndex == (leafOccupancy + 1) \div 2
           lower == SubSeq(es, 1, leafOccupancy - splitIndex)
           upper == UpperHalf(es)
           right == IF goesRight THEN AddToLeaf(upper, e) ELSE upper
           left == IF goesRight THEN lower ELSE AddToLeaf(lower, e)
<1>1. PICK h \in Nat : /\ h >= 1 /\ leafOccupancy = 2 * h
                       /\ (leafOccupancy + 1) \div 2 = h
  BY Halves
<1>2. /\ \A k \in 1 .. 2 * h : es[k] \in Entries /\ es[k].key \in Int
      /\ e.key \in Int /\ DOMAIN es = 1 .. 2 * h
      /\ \A x \in Entries : x.key \in Int /\ x.key \in Keys
  <2>1. \A x \in Entries : x.key \in Int /\ x.key \in Keys
    BY DEF Entries
  <2>. QED
    BY <1>1, <2>1, LenProperties, ElementOfSeq
<1>3. /\ lower \in Seq(Entries) /\ Len(lower) = h /\ DOMAIN lower = 1 .. h
      /\ \A k \in 1 .. h : lower[k] = es[k]
  <2>1. lower = SubSeq(es, 1, h)
    BY <1>1
  <2>2. 1 <= h + 1 /\ \A k \in 1 .. h : es[k] \in Entries
    BY <1>1, <1>2
  <2>3. /\ SubSeq(es, 1, h) \in Seq(Entries) /\ Len(SubSeq(es, 1, h)) = h - 1 + 1
        /\ \A k \in 1 .. h - 1 + 1 : SubSeq(es, 1, h)[k] = es[1 + k - 1]
    BY <1>1, <2>2, SubSeqProperties
  <2>. HIDE DEF lower
  <2>5. h - 1 + 1 = h /\ \A k \in 1 .. h : 1 + k - 1 = k
    OBVIOUS
  <2>4. lower \in Seq(Entries) /\ Len(lower) = h /\ \A k \in 1 .. h : lower[k] = es[k]
    BY <2>1, <2>3, <2>5
  <2>. QED
    BY <2>4, LenProperties
<1>4. /\ upper \in Seq(Entries) /\ Len(upper) = h /\ DOMAIN upper = 1 .. h
      /\ \A k \in 1 .. h : upper[k] = es[h + k]
  <2>1. upper = SubSeq(es, h + 1, 2 * h)
    BY <1>1 DEF UpperHalf
  <2>2. h + 1 <= 2 * h + 1 /\ \A k \in h + 1 .. 2 * h : es[k] \in Entries
    BY <1>1, <1>2
  <2>3. /\ SubSeq(es, h + 1, 2 * h) \in Seq(Entries)
        /\ Len(SubSeq(es, h + 1, 2 * h)) = 2 * h - (h + 1) + 1
        /\ \A k \in 1 .. 2 * h - (h + 1) + 1 :
             SubSeq(es, h + 1, 2 * h)[k] = es[h + 1 + k - 1]
    BY <1>1, <2>2, SubSeqProperties
  <2>. HIDE DEF upper
  <2>5. 2 * h - (h + 1) + 1 = h /\ \A k \in 1 .. h : h + 1 + k - 1 = h + k
    OBVIOUS
  <2>4. upper \in Seq(Entries) /\ Len(upper) = h /\ \A k \in 1 .. h : upper[k] = es[h + k]
    BY <2>1, <2>3, <2>5
  <2>. QED
    BY <2>4, LenProperties
<1>5. goesRight <=> e.key > es[h].key
  BY <1>1
<1>. HIDE DEF lower, upper
<1>6. ASSUME NEW k \in 1 .. 2 * h, NEW m \in 1 .. 2 * h, k <= m PROVE es[k].key <= es[m].key
  <2>1. CASE k = m
    BY <1>2, <2>1
  <2>2. CASE k # m
    <3>2. k < m /\ k \in DOMAIN es /\ m \in DOMAIN es
      BY <1>2, <1>6, <2>2
    <3>1. <<es[k], es[m]>> \in Ascending
      BY <3>2 DEF Related
    <3>. QED
      BY <3>1 DEF Ascending
  <2>. QED
    BY <2>1, <2>2
<1>7. Related(lower, Ascending)
  BY <1>1, <1>2, <1>3 DEF Related
<1>8. Related(upper, Ascending)
  <2>. SUFFICES ASSUME NEW a \in 1 .. h, NEW b \in 1 .. h, a < b
                PROVE  <<upper[a], upper[b]>> \in Ascending
    BY <1>4 DEF Related
  <2>1. h + a \in DOMAIN es /\ h + b \in DOMAIN es /\ h + a < h + b
    BY <1>2
  <2>. QED
    BY <1>4, <2>1 DEF Related
<1>9. /\ \A x \in ToSet(lower) : \E k \in 1 .. h : x = es[k]
      /\ \A y \in ToSet(upper) : \E k \in 1 .. h : y = es[h + k]
  BY <1>3, <1>4 DEF ToSet
<1>10. /\ \A x \in ToSet(lower) : x \in Entries /\ x.key <= es[h].key
       /\ \A y \in ToSet(upper) : y \in Entries /\ es[h].key <= y.key
  <2>1. ASSUME NEW x \in ToSet(lower) PROVE x \in Entries /\ x.key <= es[h].key
    <3>1. PICK k \in 1 .. h : x = es[k]
      BY <1>9
    <3>2. k \in 1 .. 2 * h /\ h \in 1 .. 2 * h /\ k <= h
      BY <1>1
    <3>. QED
      BY <1>2, <1>6, <3>1, <3>2
  <2>2. ASSUME NEW y \in ToSet(upper) PROVE y \in Entries /\ es[h].key <= y.key
    <3>1. PICK k \in 1 .. h : y = es[h + k]
      BY <1>9
    <3>2. h + k \in 1 .. 2 * h /\ h \in 1 .. 2 * h /\ h <= h + k
      BY <1>1
    <3>. QED
      BY <1>2, <1>6, <3>1, <3>2
  <2>. QED
    BY <2>1, <2>2
<1>11. /\ Related(left, Ascending) /\ Related(right, Ascending)
       /\ right \in Seq(Entries) /\ Len(right) \in Nat /\ Len(right) >= 1
       /\ \A x \in ToSet(left) : x \in Entries /\ (x.key <= es[h].key)
       /\ \A y \in ToSet(right) : y \in Entries /\ (es[h].key <= y.key)
  <2>1. h \in 1 .. 2 * h
    BY <1>1
  <2>2. CASE goesRight
    <3>1. left = lower /\ right = AddToLeaf(upper, e)
      BY <2>2
    <3>2. /\ AddToLeaf(upper, e) \in Seq(Entries) /\ Len(AddToLeaf(upper, e)) = h + 1
          /\ ToSet(AddToLeaf(upper, e)) = ToSet(upper) \cup {e}
          /\ Related(AddToLeaf(upper, e), Ascending)
      BY <1>4, <1>8, AddToLeafIs, AddToLeafHolds, AddToLeafRises
    <3>3. es[h].key <= e.key
      BY <1>2, <1>5, <2>1, <2>2
    <3>. HIDE DEF left, right
    <3>. QED
      BY <1>1, <1>7, <1>10, <3>1, <3>2, <3>3
  <2>3. CASE ~goesRight
    <3>1. left = AddToLeaf(lower, e) /\ right = upper
      BY <2>3
    <3>2. /\ ToSet(AddToLeaf(lower, e)) = ToSet(lower) \cup {e}
          /\ Related(AddToLeaf(lower, e), Ascending)
      BY <1>3, <1>7, AddToLeafHolds, AddToLeafRises
    <3>3. e.key <= es[h].key
      BY <1>2, <1>5, <2>1, <2>3
    <3>. HIDE DEF left, right
    <3>. QED
      BY <1>1, <1>4, <1>8, <1>10, <3>1, <3>2, <3>3
  <2>. QED
    BY <2>2, <2>3
<1>. HIDE DEF left, right
<1>12. DOMAIN right = 1 .. Len(right) /\ 1 \in 1 .. Len(right)
  BY <1>11, LenProperties
<1>13. right[1] \in ToSet(right) /\ right[1] \in Entries
  BY <1>11, <1>12 DEF ToSet
<1>14. \A x \in ToSet(left) : x.key <= right[1].key
  <2>. SUFFICES ASSUME NEW x \in ToSet(left) PROVE x.key <= right[1].key
    OBVIOUS
  <2>1. x.key <= es[h].key /\ es[h].key <= right[1].key
    BY <1>11, <1>13
  <2>2. x.key \in Int /\ es[h].key \in Int /\ right[1].key \in Int
    <3>1. h \in 1 .. 2 * h
      BY <1>1
    <3>. QED
      BY <1>2, <1>11, <1>13, <3>1
  <2>. QED
    BY <2>1, <2>2
<1>15. ASSUME NEW y \in ToSet(right) PROVE right[1].key <= y.key
  <2>1. PICK k \in 1 .. Len(right) : y = right[k]
    BY <1>12 DEF ToSet
  <2>2. CASE k = 1
    BY <1>2, <1>13, <2>1, <2>2
  <2>3. CASE k # 1
    <3>1. 1 < k
      BY <1>11, <2>3
    <3>2. <<right[1], right[k]>> \in Ascending
      BY <1>11, <1>12, <3>1 DEF Related
    <3>. QED
      BY <2>1, <3>2 DEF Ascending
  <2>. QED
    BY <2>2, <2>3
<1>16. right[1].key \in Keys
  BY <1>2, <1>13
<1>. QED
  BY <1>11, <1>13, <1>14, <1>15, <1>16 DEF left, right, lower, upper

LEMMA BehindCrossed ==
    ASSUME NEW n \in Nat \ {0}, NEW o, NEW i \in 1 .. n, NEW q, NEW pages,
           Crossed(o, n, pages)
    PROVE  Crossed(Behind(o, n, i, q), n + 1, pages)
<1> DEFINE r == Behind(o, n, i, q)
           New(a) == IF a <= i THEN a ELSE a + 1
<1>1. PICK g \in DOMAIN pages, h \in DOMAIN pages, a \in 1 .. n, b \in 1 .. n :
        g < h /\ a < b /\ o[a] = pages[h] /\ o[b] = pages[g]
  BY DEF Crossed
<1>2. ASSUME NEW c \in 1 .. n PROVE New(c) \in 1 .. n + 1 /\ r[New(c)] = o[c]
  <2>1. New(c) \in 1 .. n + 1
    OBVIOUS
  <2>2. r[New(c)] = IF New(c) <= i THEN o[New(c)]
                    ELSE IF New(c) = i + 1 THEN q ELSE o[New(c) - 1]
    BY <2>1 DEF Behind
  <2>3. CASE c <= i
    BY <2>1, <2>2, <2>3
  <2>4. CASE ~(c <= i)
    <3>1. New(c) = c + 1 /\ ~(c + 1 <= i) /\ c + 1 # i + 1 /\ (c + 1) - 1 = c
      BY <2>4
    <3>. HIDE DEF New, r
    <3>. QED
      BY <2>1, <2>2, <3>1
  <2>. QED
    BY <2>3, <2>4
<1>3. New(a) < New(b)
  BY <1>1
<1>. HIDE DEF r, New
<1>4. /\ New(a) \in 1 .. n + 1 /\ New(b) \in 1 .. n + 1
      /\ r[New(a)] = pages[h] /\ r[New(b)] = pages[g]
  BY <1>1, <1>2
<1>. QED
  BY <1>1, <1>3, <1>4 DEF Crossed, r

LEMMA LeafSplitOrder ==
    ASSUME IInv, ContentInv, OrderInv, LeafSplit
    PROVE  OrderInv'
<1>1. /\ AtLeaf /\ call.pc = "down" /\ call.pc # "idle" /\ status = "open"
      /\ curr \in Leaves /\ curr # NoPage /\ rootPageNum \in DOMAIN nodes
      /\ \/ call.path = <<curr>> /\ curr = rootPageNum
         \/ call.path = <<rootPageNum, curr>> /\ rootPageNum \notin Leaves
  BY AtLeafIs, RootIs DEF LeafSplit
<1>2. CASE ~FreeFrame
  BY <1>1, <1>2, ThrowOrder DEF LeafSplit
<1>3. CASE FreeFrame
  <2> DEFINE es == nodes[curr].entries
             splitIndex == (leafOccupancy + 1) \div 2
             lower == SubSeq(es, 1, leafOccupancy - splitIndex)
             upper == UpperHalf(es)
             goesRight == call.key > es[splitIndex].key
             right == IF goesRight THEN AddToLeaf(upper, Entry) ELSE upper
             left == IF goesRight THEN lower ELSE AddToLeaf(lower, Entry)
             sibling == nodes[curr].rightSibPageNo
             pivot == [pageNo |-> NewPage, key |-> right[1].key]
             split == [curr |-> curr, next |-> NewPage, pivot |-> pivot]
  <2>1. /\ es \in Seq(Entries) /\ Len(es) = leafOccupancy /\ goesRight \in BOOLEAN
        /\ NewPage \notin DOMAIN nodes
        /\ DOMAIN nodes' = DOMAIN nodes \cup {NewPage}
        /\ nodes'[curr] = Leaf(left, NewPage) /\ nodes'[NewPage] = Leaf(right, sibling)
        /\ \A p \in DOMAIN nodes \ {curr} : nodes'[p] = nodes[p]
        /\ Leaves' = Leaves \cup {NewPage}
        /\ status' = status /\ rootPageNum' = rootPageNum
        /\ call' = [call EXCEPT !.split = split,
                      !.pc = IF curr = rootPageNum THEN "newroot" ELSE "finish"]
    BY <1>3, LeafSplitIs
  <2>2. LeavesSorted /\ RootPagesOnce /\ WayInv /\ (InPlace \/ Parted \/ Twisted)
    BY <1>1 DEF OrderInv
  <2>3. Entry \in Entries /\ Entry.key = call.key
    BY <1>1, EntryIs DEF Entry
  <2>4. Related(es, Ascending)
    BY <1>1, <2>2 DEF LeavesSorted
  <2>5. /\ Related(left, Ascending) /\ Related(right, Ascending)
        /\ right[1].key \in Keys /\ right[1] \in ToSet(right)
        /\ \A x \in ToSet(left) : x.key <= right[1].key
        /\ \A y \in ToSet(right) : right[1].key <= y.key
    <3>1. goesRight <=> Entry.key > es[(leafOccupancy + 1) \div 2].key
      BY <2>3
    <3>. HIDE DEF es, goesRight
    <3>. QED
      BY <2>1, <2>3, <2>4, <3>1, HalvesOrdered
  <2>6. ToSet(left) \cup ToSet(right) = ToSet(es) \cup {Entry}
    <3>1. Entry \notin ToSet(es) /\ Distinct(es)
      BY <1>1, EntryIsNew DEF OnLeaves, On, ContentInv, NoneTwice
    <3>. HIDE DEF es, goesRight
    <3>. QED
      BY <2>1, <2>3, <3>1, HalvesHold
  <2>. HIDE DEF left, right, goesRight, es, sibling
  <2>7. /\ Leaves \subseteq DOMAIN nodes /\ NewPage \notin Leaves
        /\ \A l \in Leaves \ {curr} : nodes'[l] = nodes[l]
        /\ NewPage # NoPage /\ curr # NewPage /\ curr \in DOMAIN nodes
    <3>1. NewPage # NoPage
      BY NewPageIs DEF IInv
    <3>2. Leaves \subseteq DOMAIN nodes
      BY DEF Leaves, LeavesOf
    <3>. QED
      BY <1>1, <2>1, <3>1, <3>2
  <2>8. /\ nodes'[curr].kind = "leaf" /\ nodes'[NewPage].kind = "leaf"
        /\ nodes'[curr].entries = left /\ nodes'[NewPage].entries = right
        /\ nodes'[curr].rightSibPageNo = NewPage
        /\ nodes'[NewPage].rightSibPageNo = nodes[curr].rightSibPageNo
    BY <2>1 DEF Leaf, sibling
  <2>9. NonLeaves' = NonLeaves
    <3>1. nodes[curr].kind = "leaf"
      BY <1>1 DEF Leaves, LeavesOf
    <3>. QED
      BY <2>1, <2>7, <2>8, <3>1 DEF NonLeaves
  <2>10. RootKeys' = RootKeys /\ LeavesBelowRoot' = LeavesBelowRoot
    <3>1. rootPageNum = curr \/ nodes'[rootPageNum] = nodes[rootPageNum]
      BY <1>1, <2>1
    <3>. QED
      BY <1>1, <2>1, <2>8, <3>1, RootStays
  <2>11. /\ call'.split = split /\ call'.path = call.path
         /\ call'.pc = IF curr = rootPageNum THEN "newroot" ELSE "finish"
    <3>. HIDE DEF split
    <3>. QED
      BY <2>1 DEF IInv, ObjectInv, Calls
  <2>12. Waiting' = pivot /\ call'.split.next = NewPage
    <3>1. call'.split.pivot = pivot /\ call'.split.next = NewPage
      BY <2>11
    <3>2. CASE curr = rootPageNum
      BY <2>11, <3>1, <3>2 DEF Waiting
    <3>3. CASE curr # rootPageNum
      <4>2. call.path = <<rootPageNum, curr>>
        BY <1>1, <3>3
      <4>3. Len(call.path) = 2
        BY <4>2
      <4>1. Len(call'.path) = 2
        BY <2>11, <4>3
      <4>. QED
        BY <2>11, <3>1, <3>3, <4>1 DEF Waiting
    <3>. QED
      BY <3>2, <3>3
  <2>13. Waiting'.pageNo = NewPage /\ Waiting'.key = right[1].key /\ Waiting' # NoPivot
    BY <2>7, <2>12 DEF NoPivot
  <2>. HIDE DEF pivot, split
  <2>14. WayInv'
    BY <2>11, <2>12, <2>13 DEF WayInv
  <2>15. LeavesSorted'
    BY <2>1, <2>2, <2>5, <2>7, <2>8 DEF LeavesSorted
  <2>16. RootPagesOnce'
    <3>1. \A l \in ToSet(LeavesBelowRoot) : l \in Leaves
      BY RootIs DEF ToSet
    <3>. QED
      BY <2>2, <2>7, <2>10, <2>13, <3>1 DEF RootPagesOnce
  <2>17. Parted => Parted'
    BY <2>1, <2>7, <2>9, <2>10, <2>13 DEF Parted
  <2>18. PICK keys, pages, e, j, c, q, p :
           /\ keys = RootKeys /\ pages = LeavesBelowRoot /\ e = Entry /\ c = curr
           /\ j = Position(keys, e.key) /\ q = NewPage /\ p = right[1].key
    OBVIOUS
  <2>19. Twisted => Twisted'
    <3>. SUFFICES ASSUME Twisted PROVE Twisted'
      OBVIOUS
    <3>0. PICK n \in Nat \ {0} : \E f \in [1 .. n -> Leaves] :
            InOrder(f, n) /\ Crossed(f, n, pages)
      BY <2>18 DEF Twisted
    <3>1. PICK o \in [1 .. n -> Leaves] : InOrder(o, n) /\ Crossed(o, n, pages)
      BY <3>0
    <3>2. PICK i \in 1 .. n : o[i] = c
      BY <1>1, <2>18, <3>1 DEF InOrder
    <3>3. /\ q \notin Leaves /\ Leaves' = Leaves \cup {q}
          /\ \A l \in Leaves \ {o[i]} : nodes'[l] = nodes[l]
          /\ nodes'[o[i]].rightSibPageNo = q
          /\ nodes'[q].rightSibPageNo = nodes[o[i]].rightSibPageNo
      BY <2>1, <2>7, <2>8, <2>18, <3>2
    <3>4. /\ Behind(o, n, i, q) \in [1 .. n + 1 -> Leaves']
          /\ InOrder(Behind(o, n, i, q), n + 1)'
      BY <3>1, <3>3, BehindInOrder
    <3>5. Crossed(Behind(o, n, i, q), n + 1, pages)
      BY <3>1, BehindCrossed
    <3>6. PICK m \in Nat \ {0} : m = n + 1
      OBVIOUS
    <3>7. PICK r \in [1 .. m -> Leaves'] : InOrder(r, m)' /\ Crossed(r, m, pages)
      BY <3>4, <3>5, <3>6
    <3>8. Crossed(r, m, LeavesBelowRoot)'
      BY <2>10, <2>18, <3>7 DEF Crossed
    <3>. QED
      BY <2>10, <3>7, <3>8 DEF Twisted
  <2>20. InPlace => InPlace'
    <3>. SUFFICES ASSUME InPlace PROVE InPlace'
      OBVIOUS
    <3>1. j \in DOMAIN pages /\ pages[j] = c /\ e.key \in Int /\ Waiting = NoPivot
      BY <1>1, <2>2, <2>3, <2>18, LeafPlace
    <3>2. Arranged(keys, pages) /\ Fits(keys, pages, Leaves) /\ Distinct(pages)
      BY <2>2, <2>18, <3>1, RootFits DEF InPlace, RootPagesOnce
    <3>3. \A k \in DOMAIN keys : /\ k < j => keys[k] <= e.key
                                 /\ j <= k => e.key < keys[k]
      BY <2>18, <3>1, <3>2, PlaceBetween DEF Arranged
    <3>4. \A k \in DOMAIN keys : /\ k < j => keys[k] <= e.key
                                 /\ j <= k => e.key <= keys[k]
      BY <3>1, <3>2, <3>3 DEF Fits
    <3>5. /\ \A l \in Leaves \ {pages[j]} : nodes'[l] = nodes[l]
          /\ nodes'[pages[j]].rightSibPageNo = q
          /\ nodes'[q].rightSibPageNo = nodes[pages[j]].rightSibPageNo
      BY <2>7, <2>8, <2>18, <3>1
    <3>6. /\ On(pages[j])' = ToSet(left) /\ On(q)' = ToSet(right)
          /\ On(pages[j]) = ToSet(es)
      BY <2>8, <2>18, <3>1 DEF On, es
    <3>7. /\ On(pages[j])' \cup On(q)' \subseteq On(pages[j]) \cup {e}
          /\ \A x \in On(pages[j])' : x.key <= p
          /\ \A y \in On(q)' : p <= y.key
          /\ \E y \in On(q)' : y.key = p
          /\ p \in Keys
      BY <2>5, <2>6, <2>18, <3>6
    <3>8. Arranged(InsertAt(keys, j, p), InsertAt(pages, j + 1, q))'
      BY <3>1, <3>2, <3>4, <3>5, <3>7, ArrangedSplit
    <3>9. /\ RootKeys' = keys /\ LeavesBelowRoot' = pages /\ Waiting'.key = p
          /\ Waiting'.pageNo = q
      BY <2>10, <2>13, <2>18
    <3>. QED
      BY <2>13, <3>1, <3>8, <3>9 DEF InPlace
  <2>. QED
    BY <1>1, <2>1, <2>2, <2>14, <2>15, <2>16, <2>17, <2>19, <2>20 DEF OrderInv
<1>. QED
  BY <1>2, <1>3

-----------------------------------------------------------------------------
(* A pivot that is put into the root.                                      *)
LEMMA AddedIs ==
    ASSUME NEW keys \in Seq(Keys), NEW pages, NEW pivot
    PROVE  AddToNonLeaf(NonLeaf(1, keys, pages), pivot) =
             NonLeaf(1, InsertAt(keys, Position(keys, pivot.key), pivot.key),
                     InsertAt(pages, Position(keys, pivot.key) + 1, pivot.pageNo))
<1> DEFINE node == NonLeaf(1, keys, pages)
           i == Position(keys, pivot.key)
           keys2 == InsertAt(keys, i, pivot.key)
           pages2 == InsertAt(pages, i + 1, pivot.pageNo)
<1>1. node.keyArray = keys /\ node.pageNoArray = pages
  BY DEF NonLeaf
<1>2. AddToNonLeaf(node, pivot) =
        [node EXCEPT !.keyArray = InsertAt(@, i, pivot.key),
                     !.pageNoArray = InsertAt(@, i + 1, pivot.pageNo)]
  BY <1>1 DEF AddToNonLeaf
<1>3. AddToNonLeaf(node, pivot) =
        [node EXCEPT !.keyArray = keys2, !.pageNoArray = pages2]
  BY <1>1, <1>2
<1>. HIDE DEF keys2, pages2, i
<1>4. AddToNonLeaf(node, pivot) = NonLeaf(1, keys2, pages2)
  BY <1>3 DEF NonLeaf
<1>. QED
  BY <1>4 DEF keys2, pages2, i

(* Where the elements of a sequence are after an insertion.                *)
Shift(i, a) == IF a < i THEN a ELSE a + 1

LEMMA ShiftIs ==
    ASSUME NEW S, NEW s \in Seq(S), NEW e \in S, NEW i \in 1 .. Len(s) + 1
    PROVE  /\ \A a \in DOMAIN s : /\ Shift(i, a) \in DOMAIN InsertAt(s, i, e)
                                  /\ InsertAt(s, i, e)[Shift(i, a)] = s[a]
           /\ \A a, b \in DOMAIN s : a < b => Shift(i, a) < Shift(i, b)
           /\ i \in DOMAIN InsertAt(s, i, e) /\ InsertAt(s, i, e)[i] = e
<1> DEFINE t == InsertAt(s, i, e)
<1>1. /\ DOMAIN t = 1 .. Len(s) + 1
      /\ \A j \in 1 .. Len(s) + 1 :
           t[j] = IF j < i THEN s[j] ELSE IF j = i THEN e ELSE s[j - 1]
      /\ Len(s) \in Nat /\ DOMAIN s = 1 .. Len(s)
  BY InsertAtHas, LenProperties
<1>. HIDE DEF t
<1>2. ASSUME NEW a \in DOMAIN s PROVE Shift(i, a) \in DOMAIN t /\ t[Shift(i, a)] = s[a]
  <2>1. CASE a < i
    BY <1>1, <2>1 DEF Shift
  <2>2. CASE ~(a < i)
    <3>1. Shift(i, a) = a + 1 /\ a + 1 \in 1 .. Len(s) + 1 /\ (a + 1) - 1 = a
          /\ ~(a + 1 < i) /\ a + 1 # i
      BY <1>1, <2>2 DEF Shift
    <3>. QED
      BY <1>1, <3>1
  <2>. QED
    BY <2>1, <2>2
<1>3. \A a, b \in DOMAIN s : a < b => Shift(i, a) < Shift(i, b)
  BY <1>1 DEF Shift
<1>4. i \in DOMAIN t /\ t[i] = e
  BY <1>1
<1>. QED
  BY <1>2, <1>3, <1>4 DEF t

LEMMA InsertCrossed ==
    ASSUME NEW S, NEW pages \in Seq(S), NEW q \in S, NEW i \in 1 .. Len(pages) + 1,
           NEW o, NEW n, Crossed(o, n, pages)
    PROVE  Crossed(o, n, InsertAt(pages, i, q))
<1>1. PICK g \in DOMAIN pages, h \in DOMAIN pages, a \in 1 .. n, b \in 1 .. n :
        g < h /\ a < b /\ o[a] = pages[h] /\ o[b] = pages[g]
  BY DEF Crossed
<1> DEFINE t == InsertAt(pages, i, q)
<1>2. /\ Shift(i, g) \in DOMAIN t /\ t[Shift(i, g)] = pages[g]
      /\ Shift(i, h) \in DOMAIN t /\ t[Shift(i, h)] = pages[h]
      /\ Shift(i, g) < Shift(i, h)
  BY <1>1, ShiftIs
<1>. HIDE DEF t
<1>3. Crossed(o, n, t)
  BY <1>1, <1>2 DEF Crossed
<1>. QED
  BY <1>3 DEF t

LEMMA InsertEqual ==
    ASSUME NEW S, NEW keys \in Seq(S), NEW key \in S, NEW i \in 1 .. Len(keys) + 1,
           EqualKeys(keys)
    PROVE  EqualKeys(InsertAt(keys, i, key))
<1>1. PICK a \in DOMAIN keys, b \in DOMAIN keys : a # b /\ keys[a] = keys[b]
  BY DEF EqualKeys
<1> DEFINE t == InsertAt(keys, i, key)
<1>2. /\ Shift(i, a) \in DOMAIN t /\ t[Shift(i, a)] = keys[a]
      /\ Shift(i, b) \in DOMAIN t /\ t[Shift(i, b)] = keys[b]
      /\ a < b => Shift(i, a) < Shift(i, b)
      /\ b < a => Shift(i, b) < Shift(i, a)
  BY <1>1, ShiftIs
<1>3. Shift(i, a) # Shift(i, b)
  <2>1. a \in Int /\ b \in Int /\ i \in Int
    BY <1>1, LenProperties
  <2>. QED
    BY <1>1, <2>1 DEF Shift
<1>. HIDE DEF t
<1>4. EqualKeys(t)
  BY <1>1, <1>2, <1>3 DEF EqualKeys
<1>. QED
  BY <1>4 DEF t

(* A pivot that is equal to keys of the root is put behind them.           *)
LEMMA PutBehind ==
    ASSUME IInv, ChainInv, NEW keys, NEW pages, Fits(keys, pages, Leaves),
           NEW p \in Keys, NEW q \in Leaves, NEW j \in DOMAIN pages,
           Arranged(InsertAt(keys, j, p), InsertAt(pages, j + 1, q)),
           NEW i, i = Position(keys, p), i # j
    PROVE  /\ EqualKeys(InsertAt(keys, i, p))
           /\ \E n \in Nat \ {0} : \E o \in [1 .. n -> Leaves] :
                InOrder(o, n) /\ Crossed(o, n, InsertAt(pages, i + 1, q))
<1> DEFINE N == Len(keys)
           oldKeys == InsertAt(keys, j, p)
           oldPages == InsertAt(pages, j + 1, q)
           newKeys == InsertAt(keys, i, p)
           newPages == InsertAt(pages, i + 1, q)
<1>1. /\ N \in Nat /\ j \in 1 .. N + 1 /\ DOMAIN keys = 1 .. N
      /\ DOMAIN pages = 1 .. N + 1 /\ Len(pages) = N + 1 /\ p \in Int
      /\ keys \in Seq(Keys) /\ pages \in Seq(Leaves)
      /\ \A k \in 1 .. N : keys[k] \in Int
  BY DEF Fits
<1>2. /\ i \in 1 .. N + 1
      /\ \A k \in 1 .. N : k < i => ~(p < keys[k])
      /\ i <= N => p < keys[i]
  BY <1>1, PositionIs, PositionParts
<1>3. Fits(oldKeys, oldPages, Leaves)
  BY InsertFits
<1>4. /\ DOMAIN oldKeys = 1 .. N + 1
      /\ \A k \in 1 .. N + 1 :
           oldKeys[k] = IF k < j THEN keys[k] ELSE IF k = j THEN p ELSE keys[k - 1]
  BY <1>1, InsertAtHas
<1>5. j < i
  <2>. SUFFICES ASSUME i < j PROVE FALSE
    BY <1>1, <1>2
  <2>1. i \in 1 .. N /\ i \in DOMAIN oldKeys /\ j \in DOMAIN oldKeys
        /\ oldKeys[i] = keys[i] /\ oldKeys[j] = p
    BY <1>1, <1>2, <1>4
  <2>. HIDE DEF oldKeys, oldPages
  <2>2. <<oldKeys[i], oldKeys[j]>> \in AtMost
    BY <2>1 DEF Arranged, Rising, Related, oldKeys, oldPages
  <2>3. keys[i] <= p
    BY <2>1, <2>2 DEF AtMost
  <2>. QED
    BY <1>1, <1>2, <2>1, <2>3
<1>6. j \in 1 .. N /\ keys[j] = p
  <2>1. j \in 1 .. N /\ j + 1 \in 1 .. N + 1 /\ j < j + 1 /\ (j + 1) - 1 = j
        /\ ~(j + 1 < j) /\ j + 1 # j /\ ~(j < j)
    BY <1>1, <1>2, <1>5
  <2>2. oldKeys[j] = p /\ oldKeys[j + 1] = keys[j]
    BY <1>1, <1>4, <2>1
  <2>. HIDE DEF oldKeys, oldPages
  <2>3. <<oldKeys[j], oldKeys[j + 1]>> \in AtMost
    BY <1>4, <2>1 DEF Arranged, Rising, Related, oldKeys, oldPages
  <2>4. p <= keys[j]
    BY <2>2, <2>3 DEF AtMost
  <2>. QED
    BY <1>1, <1>2, <1>5, <2>1, <2>4
<1>7. EqualKeys(newKeys)
  <2>1. /\ Shift(i, j) \in DOMAIN newKeys /\ newKeys[Shift(i, j)] = keys[j]
        /\ i \in DOMAIN newKeys /\ newKeys[i] = p
    BY <1>1, <1>2, <1>6, ShiftIs
  <2>2. Shift(i, j) = j
    BY <1>5 DEF Shift
  <2>. HIDE DEF newKeys
  <2>. QED
    BY <1>6, <2>1, <2>2 DEF EqualKeys
<1>8. PICK n \in Nat \ {0} : \E o \in [1 .. n -> Leaves] : InOrder(o, n)
  BY DEF ChainInv
<1>9. PICK o \in [1 .. n -> Leaves] : InOrder(o, n)
  BY <1>8
<1>10. oldPages = o /\ n = N + 2
  <2>1. oldPages \in Seq(Leaves) /\ Len(oldPages) = N + 2
    <3>1. /\ oldPages \in Seq(Leaves) /\ Len(oldPages) = Len(oldKeys) + 1
          /\ DOMAIN oldKeys = 1 .. Len(oldKeys) /\ Len(oldKeys) \in Nat
      BY <1>3 DEF Fits
    <3>. HIDE DEF oldKeys, oldPages
    <3>. QED
      BY <1>1, <1>4, <3>1
  <2>2. LinkedUp(oldPages) /\ Len(oldPages) >= 1
    BY <1>1, <2>1 DEF Arranged
  <2>. HIDE DEF oldPages
  <2>. QED
    BY <1>9, <2>1, <2>2, UpIsOrder
<1>11. /\ j + 1 \in 1 .. n /\ j + 2 \in 1 .. n /\ o[j + 1] = q /\ o[j + 2] = pages[j + 1]
  <2>1. /\ j + 1 \in DOMAIN pages /\ Shift(j + 1, j + 1) = j + 2
        /\ j + 1 \in 1 .. Len(pages) + 1
    BY <1>1, <1>6 DEF Shift
  <2>2. /\ oldPages[Shift(j + 1, j + 1)] = pages[j + 1] /\ oldPages[j + 1] = q
    BY <1>1, <2>1, ShiftIs
  <2>. HIDE DEF oldPages
  <2>. QED
    BY <1>6, <1>10, <2>1, <2>2
<1>12. /\ j + 1 \in DOMAIN newPages /\ newPages[j + 1] = pages[j + 1]
       /\ i + 1 \in DOMAIN newPages /\ newPages[i + 1] = q
  <2>1. /\ j + 1 \in DOMAIN pages /\ Shift(i + 1, j + 1) = j + 1
        /\ i + 1 \in 1 .. Len(pages) + 1
    BY <1>1, <1>2, <1>5, <1>6 DEF Shift
  <2>2. /\ Shift(i + 1, j + 1) \in DOMAIN newPages
        /\ newPages[Shift(i + 1, j + 1)] = pages[j + 1]
        /\ i + 1 \in DOMAIN newPages /\ newPages[i + 1] = q
    BY <1>1, <2>1, ShiftIs
  <2>. QED
    BY <2>1, <2>2
<1>. HIDE DEF newPages, newKeys
<1>13. j + 1 < i + 1 /\ j + 1 < j + 2
  BY <1>1, <1>2, <1>5
<1>14. Crossed(o, n, newPages)
  BY <1>11, <1>12, <1>13 DEF Crossed
<1>. QED
  BY <1>7, <1>9, <1>14 DEF newPages, newKeys

LEMMA AddPivotOrder ==
    ASSUME IInv, ChainInv, OrderInv, AddPivot
    PROVE  OrderInv'
<1>1. /\ call.pc = "up" /\ call.pivot # NoPivot /\ call.pc # "idle" /\ status = "open"
      /\ nodes' = [nodes EXCEPT ![curr] = AddToNonLeaf(nodes[curr], call.pivot)]
      /\ status' = status /\ rootPageNum' = rootPageNum /\ ReturnWith(NoPivot)
      /\ call.path = <<rootPageNum>> /\ curr = rootPageNum
      /\ Up(call.pivot) /\ rootPageNum \notin Leaves /\ rootPageNum \in DOMAIN nodes
  BY UpIs DEF AddPivot, objectVars
<1>2. LeavesSorted /\ RootPagesOnce /\ WayInv /\ (InPlace \/ Parted \/ Twisted)
  BY <1>1 DEF OrderInv
<1>3. Waiting = call.pivot
  BY <1>1 DEF Waiting
<1>4. PICK keys, pages, p, q, i :
        /\ keys = RootKeys /\ pages = LeavesBelowRoot /\ p = call.pivot.key
        /\ q = call.pivot.pageNo /\ i = Position(keys, p)
  OBVIOUS
<1>5. /\ Fits(keys, pages, Leaves) /\ p \in Keys /\ q \in Leaves
      /\ keys \in Seq(Keys) /\ pages \in Seq(Leaves)
      /\ i \in 1 .. Len(keys) + 1 /\ i + 1 \in 1 .. Len(pages) + 1
      /\ DOMAIN pages = 1 .. Len(keys) + 1
  <2>1. Fits(keys, pages, Leaves) /\ p \in Keys /\ q \in Leaves
    BY <1>1, <1>4, RootFits DEF Up
  <2>2. keys \in Seq(Keys) /\ i \in 1 .. Len(keys) + 1
    BY <1>4, <2>1, PositionIs DEF Fits
  <2>. QED
    BY <2>1, <2>2 DEF Fits
<1>6. nodes[curr] = NonLeaf(1, keys, pages)
  BY <1>1, <1>4, RootIs DEF Root
<1> DEFINE x == NonLeaf(1, InsertAt(keys, i, p), InsertAt(pages, i + 1, q))
<1>7. nodes' = [nodes EXCEPT ![curr] = x]
  <2>1. PICK pivot : pivot = call.pivot
    OBVIOUS
  <2>2. AddToNonLeaf(NonLeaf(1, keys, pages), pivot) =
          NonLeaf(1, InsertAt(keys, Position(keys, pivot.key), pivot.key),
                  InsertAt(pages, Position(keys, pivot.key) + 1, pivot.pageNo))
    BY <1>5, AddedIs
  <2>3. p = pivot.key /\ q = pivot.pageNo /\ i = Position(keys, pivot.key)
    BY <1>4, <2>1
  <2>4. AddToNonLeaf(NonLeaf(1, keys, pages), pivot) = x
    BY <2>2, <2>3
  <2>. HIDE DEF x
  <2>. QED
    BY <1>1, <1>6, <2>1, <2>4
<1>8. /\ x.kind = "nonleaf" /\ x.keyArray = InsertAt(keys, i, p)
      /\ x.pageNoArray = InsertAt(pages, i + 1, q)
  BY DEF NonLeaf
<1>. HIDE DEF x
<1>9. Leaves' = Leaves /\ \A l \in Leaves : nodes'[l] = nodes[l]
  BY <1>1, <1>7, <1>8, InnerChanged
<1>10. NonLeaves \subseteq NonLeaves'
  BY <1>1, <1>7, <1>8 DEF NonLeaves
<1>11. /\ RootKeys' = InsertAt(keys, i, p)
       /\ LeavesBelowRoot' = InsertAt(pages, i + 1, q)
  <2>1. Root' = x
    BY <1>1, <1>7 DEF Root
  <2>. QED
    BY <1>8, <2>1 DEF RootKeys, LeavesBelowRoot
<1>12. call' = Idle /\ Idle.pc = "idle"
  BY <1>1 DEF ReturnWith, Idle
<1>13. Waiting' = NoPivot
  BY <1>12 DEF Waiting
<1>14. WayInv'
  BY <1>12 DEF WayInv
<1>15. LeavesSorted'
  BY <1>2, <1>9 DEF LeavesSorted
<1>16. ToSet(LeavesBelowRoot') = ToSet(pages) \cup {q}
  BY <1>5, <1>11, InsertAtHolds
<1>17. RootPagesOnce'
  <2>1. Distinct(pages) /\ q \notin ToSet(pages)
    BY <1>1, <1>2, <1>3, <1>4 DEF RootPagesOnce
  <2>2. Distinct(InsertAt(pages, i + 1, q))
    BY <1>5, <2>1, InsertAtHolds
  <2>. QED
    BY <1>11, <1>13, <2>2 DEF RootPagesOnce
<1>18. Parted => Parted'
  <2>1. \A l \in Leaves : l # NoPage
    BY LeavesAre
  <2>2. Waiting'.pageNo = NoPage
    BY <1>13 DEF NoPivot
  <2>. QED
    BY <1>3, <1>4, <1>9, <1>10, <1>16, <2>1, <2>2 DEF Parted
<1>19. ASSUME EqualKeys(InsertAt(keys, i, p)), NEW n \in Nat \ {0},
              NEW o \in [1 .. n -> Leaves], InOrder(o, n),
              Crossed(o, n, InsertAt(pages, i + 1, q))
       PROVE  Twisted'
  <2>1. o \in [1 .. n -> Leaves'] /\ InOrder(o, n)'
    BY <1>9, <1>19, SameLeaves
  <2>2. Crossed(o, n, LeavesBelowRoot)'
    BY <1>11, <1>19 DEF Crossed
  <2>3. EqualKeys(RootKeys)'
    BY <1>11, <1>19 DEF EqualKeys
  <2>. QED
    BY <2>1, <2>2, <2>3 DEF Twisted
<1>20. Twisted => Twisted'
  <2>. SUFFICES ASSUME Twisted PROVE Twisted'
    OBVIOUS
  <2>1. PICK n \in Nat \ {0} : \E f \in [1 .. n -> Leaves] :
          InOrder(f, n) /\ Crossed(f, n, pages)
    BY <1>4 DEF Twisted
  <2>2. PICK o \in [1 .. n -> Leaves] : InOrder(o, n) /\ Crossed(o, n, pages)
    BY <2>1
  <2>3. EqualKeys(InsertAt(keys, i, p))
    BY <1>4, <1>5, InsertEqual DEF Twisted
  <2>4. Crossed(o, n, InsertAt(pages, i + 1, q))
    BY <1>5, <2>2, InsertCrossed
  <2>. QED
    BY <1>19, <2>2, <2>3, <2>4
<1>21. InPlace => InPlace' \/ Twisted'
  <2>. SUFFICES ASSUME InPlace PROVE InPlace' \/ Twisted'
    OBVIOUS
  <2>1. PICK j \in DOMAIN pages :
          Arranged(InsertAt(keys, j, p), InsertAt(pages, j + 1, q))
    BY <1>1, <1>3, <1>4 DEF InPlace
  <2>2. CASE j = i
    <3>1. Fits(InsertAt(keys, i, p), InsertAt(pages, i + 1, q), Leaves)
      BY <1>5, <2>2, InsertFits
    <3>2. Arranged(InsertAt(keys, i, p), InsertAt(pages, i + 1, q))'
      BY <1>9, <2>1, <2>2, <3>1, ArrangedKept
    <3>. QED
      BY <1>11, <1>13, <3>2 DEF InPlace
  <2>3. CASE j # i
    BY <1>4, <1>5, <1>19, <2>1, <2>3, PutBehind
  <2>. QED
    BY <2>2, <2>3
<1>. QED
  BY <1>1, <1>2, <1>14, <1>15, <1>17, <1>18, <1>20, <1>21 DEF OrderInv

-----------------------------------------------------------------------------
(* A root that is split keeps the first half of its leaves.                *)
LEMMA FirstPart ==
    ASSUME NEW S, NEW s \in Seq(S), Distinct(s), NEW h \in Nat, 1 <= h, h < Len(s)
    PROVE  /\ SubSeq(s, 1, h) \in Seq(S) /\ Len(SubSeq(s, 1, h)) = h
           /\ Distinct(SubSeq(s, 1, h)) /\ ToSet(SubSeq(s, 1, h)) \subseteq ToSet(s)
           /\ s[h + 1] \in S /\ s[h + 1] \in ToSet(s)
           /\ s[h + 1] \notin ToSet(SubSeq(s, 1, h))
<1> DEFINE low == SubSeq(s, 1, h)
<1>1. /\ Len(s) \in Nat /\ DOMAIN s = 1 .. Len(s) /\ \A k \in 1 .. Len(s) : s[k] \in S
      /\ h + 1 \in 1 .. Len(s) /\ h <= Len(s) /\ h - 1 + 1 = h
      /\ \A k \in 1 .. h : 1 + k - 1 = k /\ k \in 1 .. Len(s) /\ k # h + 1
  BY LenProperties, ElementOfSeq
<1>2. /\ low \in Seq(S) /\ Len(low) = h - 1 + 1
      /\ \A k \in 1 .. h - 1 + 1 : low[k] = s[1 + k - 1]
  <2>1. 1 <= h + 1 /\ \A k \in 1 .. h : s[k] \in S
    BY <1>1
  <2>. QED
    BY <1>1, <2>1, SubSeqProperties
<1>3. low \in Seq(S) /\ Len(low) = h /\ DOMAIN low = 1 .. h /\ \A k \in 1 .. h : low[k] = s[k]
  <2>. HIDE DEF low
  <2>1. low \in Seq(S) /\ Len(low) = h /\ \A k \in 1 .. h : low[k] = s[k]
    BY <1>1, <1>2
  <2>. QED
    BY <2>1, LenProperties
<1>. HIDE DEF low
<1>4. Distinct(low) /\ ToSet(low) \subseteq ToSet(s)
  BY <1>1, <1>3 DEF Distinct, ToSet
<1>5. s[h + 1] \notin ToSet(low)
  BY <1>1, <1>3 DEF Distinct, ToSet
<1>. QED
  BY <1>1, <1>3, <1>4, <1>5 DEF low, ToSet

LEMMA NonLeafSplitOrder ==
    ASSUME IInv, OrderInv, NonLeafSplit
    PROVE  OrderInv'
<1> DEFINE node == nodes[curr]
           s == (nodeOccupancy + 1) \div 2
           lower == NonLeaf(node.level, SubSeq(node.keyArray, 1, s),
                            SubSeq(node.pageNoArray, 1, s + 1))
           upper == NonLeaf(node.level,
                            SubSeq(node.keyArray, s + 1, nodeOccupancy),
                            SubSeq(node.pageNoArray, s + 1, nodeOccupancy + 1))
           goesRight == call.pivot.key > node.keyArray[s]
           right == IF goesRight THEN AddToNonLeaf(upper, call.pivot) ELSE upper
           left == IF goesRight THEN lower ELSE AddToNonLeaf(lower, call.pivot)
           pivotKey == IF goesRight THEN node.keyArray[s + 1] ELSE left.keyArray[s + 1]
           pivot == [pageNo |-> right.pageNoArray[1], key |-> pivotKey]
<1>1. /\ call.pc = "up" /\ call.pivot # NoPivot /\ FreeFrame /\ status = "open"
      /\ IsInner(node, Leaves) /\ Len(node.keyArray) >= nodeOccupancy
      /\ call.pivot.pageNo \in Leaves /\ call.pivot.key \in Keys
      /\ curr = rootPageNum /\ curr \in DOMAIN nodes /\ curr \notin Leaves
  BY UpIs DEF NonLeafSplit, Up
<1>2. /\ nodes' = Grown([nodes EXCEPT ![curr] = left], NewPage, right)
      /\ call' = [call EXCEPT !.pc = "reread", !.split.next = NewPage,
                              !.split.pivot = pivot]
      /\ status' = status /\ rootPageNum' = rootPageNum
  BY <1>1 DEF NonLeafSplit, objectVars
<1>3. Len(node.keyArray) = nodeOccupancy /\ goesRight \in BOOLEAN
  <2>1. Len(node.keyArray) <= nodeOccupancy /\ Len(node.keyArray) \in Nat /\ nodeOccupancy \in Nat
    BY <1>1, Halves DEF IsInner
  <2>. QED
    BY <1>1, <2>1
<1>4. IsInner(left, Leaves) /\ IsInner(right, Leaves)
  <2>. HIDE DEF node, goesRight
  <2>. QED
    BY <1>1, <1>3, InnerHalves
<1>5. LeavesSorted /\ RootPagesOnce /\ WayInv /\ (InPlace \/ Parted \/ Twisted)
  BY <1>1 DEF OrderInv
<1>6. PICK keys, pages, p, q :
        /\ keys = RootKeys /\ pages = LeavesBelowRoot
        /\ p = call.pivot /\ q = call.pivot.pageNo
  OBVIOUS
<1>7. /\ node = NonLeaf(1, keys, pages) /\ node.keyArray = keys /\ node.pageNoArray = pages
      /\ node.level = 1 /\ keys \in Seq(Keys) /\ pages \in Seq(Leaves)
      /\ Len(pages) = Len(keys) + 1
  <2>1. node = NonLeaf(1, keys, pages)
    BY <1>1, <1>6, RootIs DEF Root
  <2>2. node.keyArray = keys /\ node.pageNoArray = pages /\ node.level = 1
    BY <2>1 DEF NonLeaf
  <2>. QED
    BY <1>6, <2>1, <2>2, RootIs
<1>8. Distinct(pages) /\ q \notin ToSet(pages) /\ q \in Leaves
  <2>1. Waiting = call.pivot
    BY <1>1 DEF Waiting
  <2>. QED
    BY <1>1, <1>5, <1>6, <2>1 DEF RootPagesOnce
<1>9. /\ s \in Nat /\ 1 <= s /\ s < nodeOccupancy /\ nodeOccupancy \in Nat
      /\ Len(keys) = nodeOccupancy /\ Len(pages) = nodeOccupancy + 1
      /\ s + 1 \in Nat /\ 1 <= s + 1 /\ s + 1 < Len(pages) /\ s <= Len(keys)
  BY <1>3, <1>7, Halves
<1> DEFINE lowKeys == SubSeq(keys, 1, s)
           low == SubSeq(pages, 1, s + 1)
           l == pages[(s + 1) + 1]
<1>. HIDE DEF s
<1>10. /\ low \in Seq(Leaves) /\ Len(low) = s + 1 /\ Distinct(low)
       /\ ToSet(low) \subseteq ToSet(pages)
       /\ l \in Leaves /\ l \in ToSet(pages) /\ l \notin ToSet(low)
  BY <1>7, <1>8, <1>9, FirstPart
<1>11. lowKeys \in Seq(Keys) /\ Len(lowKeys) = s
  <2>1. SubSeq(keys, 1, s) \in Seq(Keys) /\ Len(SubSeq(keys, 1, s)) = s - 1 + 1
    BY <1>7, <1>9, PartIs
  <2>. QED
    BY <1>9, <2>1
<1>12. lower = NonLeaf(1, lowKeys, low)
  BY <1>7
<1>. HIDE DEF lowKeys, low, l, lower, upper
<1>13. /\ Distinct(left.pageNoArray)
       /\ ToSet(left.pageNoArray) \subseteq ToSet(low) \cup {q}
  <2>1. CASE goesRight
    <3>1. left = lower
      BY <2>1
    <3>2. left.pageNoArray = low
      BY <1>12, <3>1 DEF NonLeaf
    <3>. HIDE DEF left
    <3>. QED
      BY <1>10, <3>2
  <2>2. CASE ~goesRight
    <3>1. left = AddToNonLeaf(lower, call.pivot)
      BY <2>2
    <3>. HIDE DEF left
    <3> DEFINE i == Position(lowKeys, p.key)
    <3>2. AddToNonLeaf(NonLeaf(1, lowKeys, low), p) =
            NonLeaf(1, InsertAt(lowKeys, i, p.key), InsertAt(low, i + 1, p.pageNo))
      BY <1>11, AddedIs
    <3>3. left = NonLeaf(1, InsertAt(lowKeys, i, p.key), InsertAt(low, i + 1, q))
      BY <1>6, <1>12, <3>1, <3>2
    <3>4. left.pageNoArray = InsertAt(low, i + 1, q)
      BY <3>3 DEF NonLeaf
    <3>5. i + 1 \in 1 .. Len(low) + 1
      <4>1. i \in 1 .. Len(lowKeys) + 1
        BY <1>11, PositionIs
      <4>. HIDE DEF i
      <4>. QED
        BY <1>9, <1>10, <1>11, <4>1
    <3>6. q \notin ToSet(low)
      BY <1>8, <1>10
    <3>. HIDE DEF i
    <3>7. /\ ToSet(InsertAt(low, i + 1, q)) = ToSet(low) \cup {q}
          /\ Distinct(InsertAt(low, i + 1, q))
      BY <1>8, <1>10, <3>5, <3>6, InsertAtHolds
    <3>. QED
      BY <3>4, <3>7
  <2>. QED
    BY <2>1, <2>2
<1>. HIDE DEF left, right, pivot, node
<1>14. left.kind = "nonleaf" /\ right.kind = "nonleaf"
  BY <1>4 DEF IsInner
<1>15. Leaves' = Leaves /\ \A f \in Leaves : nodes'[f] = nodes[f]
  BY <1>1, <1>2, <1>14, InnerGrown
<1>16. NewPage \notin DOMAIN nodes
  BY NewPageIs DEF IInv
<1>17. /\ DOMAIN nodes' = DOMAIN nodes \cup {NewPage} /\ nodes'[NewPage] = right
       /\ nodes'[curr] = left
  BY <1>1, <1>2, <1>16 DEF Grown
<1>18. LeavesBelowRoot' = left.pageNoArray
  <2>1. Root' = left
    BY <1>1, <1>2, <1>17 DEF Root
  <2>. QED
    BY <1>14, <2>1 DEF LeavesBelowRoot
<1>19. call'.pc = "reread"
  BY <1>2 DEF IInv, ObjectInv, Calls
<1>20. Waiting' = NoPivot /\ WayInv'
  BY <1>19 DEF Waiting, WayInv
<1>21. Parted'
  <2>1. curr \in NonLeaves' /\ NewPage \in NonLeaves' /\ curr # NewPage
    BY <1>1, <1>14, <1>16, <1>17 DEF NonLeaves
  <2>2. l # NoPage
    BY <1>10, LeavesAre
  <2>3. Waiting'.pageNo = NoPage
    BY <1>20 DEF NoPivot
  <2>4. l \notin ToSet(LeavesBelowRoot')
    BY <1>8, <1>10, <1>13, <1>18
  <2>. QED
    BY <1>10, <1>15, <2>1, <2>2, <2>3, <2>4 DEF Parted
<1>22. LeavesSorted'
  BY <1>5, <1>15 DEF LeavesSorted
<1>23. RootPagesOnce'
  BY <1>13, <1>18, <1>20 DEF RootPagesOnce
<1>. QED
  BY <1>1, <1>2, <1>20, <1>21, <1>22, <1>23 DEF OrderInv

-----------------------------------------------------------------------------
LEMMA InsertStepOrder ==
    ASSUME IInv, ContentInv, OrderInv, Next
    PROVE  OrderInv'
<1>0. ChainInv
  BY DEF ContentInv
<1>1. ASSUME NEW key \in Keys, NEW others, InsertEntry(key, others) PROVE OrderInv'
  BY <1>1, InsertEntryOrder
<1>2. Misread \/ Overrun => OrderInv'
  BY <1>0, UndefinedOrder DEF Misread, Overrun, treeVars
<1>3. Descend => OrderInv'
  BY DescendOrder
<1>4. LeafAdd => OrderInv'
  BY LeafAddOrder
<1>5. LeafSplit => OrderInv'
  BY LeafSplitOrder
<1>6. NoSplitBelow => OrderInv'
  BY NoSplitBelowOrder
<1>7. AddPivot => OrderInv'
  BY <1>0, AddPivotOrder
<1>8. NonLeafSplit => OrderInv'
  BY NonLeafSplitOrder
<1>9. Reread => OrderInv'
  BY RereadOrder
<1>10. NewRoot => OrderInv'
  BY NewRootOrder
<1>11. NewMeta => OrderInv'
  BY NewMetaOrder
<1>12. Finish => OrderInv'
  BY FinishOrder
<1>. QED
  BY <1>1, <1>2, <1>3, <1>4, <1>5, <1>6, <1>7, <1>8, <1>9, <1>10, <1>11, <1>12 DEF Next

LEMMA OrderStep ==
    ASSUME IInv, ContentInv, OrderInv, [NextIndex]_<<vars, scanVars>>
    PROVE  OrderInv'
<1>1. CASE Next
  BY <1>1, InsertStepOrder
<1>2. CASE /\ nodes' = nodes /\ call' = call
           /\ rootPageNum' \in {rootPageNum, rootPageNo}
           /\ status' # "undefined" => status # "undefined"
  <2>1. rootPageNum' = rootPageNum
    BY <1>2 DEF IInv, PagesInv
  <2>2. CASE status' = "undefined"
    BY <1>2, <2>1, <2>2, UndefinedOrder DEF ContentInv
  <2>3. CASE status' # "undefined"
    <3>1. Waiting' = Waiting
      BY <1>2 DEF Waiting
    <3>2. RootKeys' = RootKeys /\ LeavesBelowRoot' = LeavesBelowRoot
      BY <1>2, <2>1, SameRoot
    <3>3. WayInv'
      <4>1. NewPage' = NewPage
        <5>1. PICK n \in Nat \ {0} : DOMAIN nodes = 2 .. n + 1 /\ DOMAIN pins = 1 .. n + 1
          BY DEF IInv, PagesInv
        <5>2. PagesInv'
          BY StepInv DEF IInv
        <5>3. PICK m \in Nat \ {0} : DOMAIN nodes' = 2 .. m + 1 /\ DOMAIN pins' = 1 .. m + 1
          BY <5>2 DEF PagesInv
        <5>4. n + 1 \in 2 .. m + 1 /\ m + 1 \in 2 .. n + 1
          BY <1>2, <5>1, <5>3
        <5>5. n = m
          BY <5>4
        <5>. QED
          BY <5>1, <5>3, <5>5 DEF NewPage
      <4>. QED
        BY <1>2, <2>1, <2>3, <3>1, <3>2, <4>1 DEF WayInv, OrderInv
    <3>. QED
      BY <1>2, <2>1, <2>3, <3>1, <3>3, SameTreeOrder
  <2>. QED
    BY <2>2, <2>3
<1>. QED
  BY <1>1, <1>2, OtherSteps

LEMMA OrderInit == InitIndex => OrderInv
<1>. SUFFICES ASSUME InitIndex PROVE OrderInv
  OBVIOUS
<1>1. /\ nodes = [p \in {firstLeaf} |-> Leaf(<<>>, NoPage)] /\ status = "open"
      /\ call = Idle /\ Idle.pc = "idle" /\ rootPageNum = firstLeaf
  BY DEF InitIndex, Init, Idle
<1>2. /\ DOMAIN nodes = {firstLeaf} /\ nodes[firstLeaf] = Leaf(<<>>, NoPage)
  BY <1>1
<1>3. /\ nodes[firstLeaf].kind = "leaf" /\ nodes[firstLeaf].entries = <<>>
      /\ nodes[firstLeaf].rightSibPageNo = NoPage
  BY <1>2 DEF Leaf
<1>4. Leaves = {firstLeaf}
  BY <1>2, <1>3 DEF Leaves, LeavesOf
<1>5. RootKeys = <<>> /\ LeavesBelowRoot = <<firstLeaf>>
  BY <1>1, <1>3 DEF RootKeys, LeavesBelowRoot, Root
<1>6. Waiting = NoPivot /\ WayInv
  BY <1>1 DEF Waiting, WayInv
<1>7. LeavesSorted
  BY <1>3, <1>4 DEF LeavesSorted, Related
<1>8. RootPagesOnce
  BY <1>5, <1>6 DEF RootPagesOnce, Distinct
<1>9. InPlace
  <2>1. LinkedUp(<<firstLeaf>>)
    BY <1>3 DEF LinkedUp
  <2>2. Rising(<<>>) /\ Separates(<<>>, <<firstLeaf>>)
    BY DEF Rising, Related, Separates
  <2>. QED
    BY <1>5, <1>6, <2>1, <2>2 DEF InPlace, Arranged
<1>. QED
  BY <1>1, <1>6, <1>7, <1>8, <1>9 DEF OrderInv

(* Each leaf is sorted; and as long as the index is described, either the  *)
(* keys of the root, with the pivot on its way to them, separate all the   *)
(* leaves in their order, or an inner node has been split, or a pivot was  *)
(* put behind a key that it is equal to.                                   *)
THEOREM InductiveOrder == SpecIndex => [](AllInv /\ OrderInv)
<1>1. InitIndex => AllInv /\ OrderInv
  BY InitInv, ContentInit, OrderInit DEF AllInv
<1>2. AllInv /\ OrderInv /\ [NextIndex]_<<vars, scanVars>> => (AllInv /\ OrderInv)'
  BY StepInv, ContentStep, OrderStep DEF AllInv
<1>. QED
  BY <1>1, <1>2, PTL DEF SpecIndex

(* Ordered of BTree: as long as all leaves hang below the root, the chain  *)
(* is in key order, whatever pages and pool are, and each key of the root  *)
(* separates the leaves on its two sides.                                  *)
THEOREM KeysInOrder == SpecIndex => []Ordered
<1>1. AllInv /\ OrderInv => Ordered
  BY OrderedFollows DEF AllInv, ContentInv
<1>. QED
  BY <1>1, InductiveOrder, PTL

(* LinkedUntil of BTree: only the split of an inner node, or a pivot equal *)
(* to a key of the root, takes a leaf out of its place below the root.     *)
THEOREM LeavesLinked == SpecIndex => []LinkedUntil
<1>1. AllInv /\ OrderInv => LinkedUntil
  BY LinkedUntilFollows DEF AllInv, ContentInv
<1>. QED
  BY <1>1, InductiveOrder, PTL

-----------------------------------------------------------------------------
(* t is in s behind the first a.                                           *)
PartAt(s, a, t) ==
    /\ a \in Nat /\ a + Len(t) <= Len(s)
    /\ \A x \in 1 .. Len(t) : s[a + x] = t[x]

(* A part of s, and t itself, are parts of s followed by t.                *)
LEMMA ConcatParts ==
    ASSUME NEW S, NEW s \in Seq(S), NEW t \in Seq(S)
    PROVE  /\ s \o t \in Seq(S) /\ Len(s \o t) = Len(s) + Len(t)
           /\ PartAt(s \o t, Len(s), t)
           /\ \A a : \A w \in Seq(S) : PartAt(s, a, w) => PartAt(s \o t, a, w)
<1> DEFINE u == s \o t
<1>1. /\ u \in Seq(S) /\ Len(u) = Len(s) + Len(t)
      /\ \A x \in 1 .. Len(s) + Len(t) :
           u[x] = IF x <= Len(s) THEN s[x] ELSE t[x - Len(s)]
  BY ConcatProperties
<1>2. Len(s) \in Nat /\ Len(t) \in Nat
  BY LenProperties
<1>. HIDE DEF u
<1>3. PartAt(u, Len(s), t)
  <2>1. ASSUME NEW x \in 1 .. Len(t) PROVE u[Len(s) + x] = t[x]
    <3>1. /\ Len(s) + x \in 1 .. Len(s) + Len(t) /\ ~(Len(s) + x <= Len(s))
          /\ (Len(s) + x) - Len(s) = x
      BY <1>2
    <3>. QED
      BY <1>1, <3>1
  <2>. QED
    BY <1>1, <1>2, <2>1 DEF PartAt
<1>4. ASSUME NEW w \in Seq(S), NEW a, PartAt(s, a, w) PROVE PartAt(u, a, w)
  <2>1. a \in Nat /\ Len(w) \in Nat /\ a + Len(w) <= Len(s)
    BY <1>4, LenProperties DEF PartAt
  <2>2. ASSUME NEW x \in 1 .. Len(w) PROVE u[a + x] = w[x]
    <3>1. a + x \in 1 .. Len(s) + Len(t) /\ a + x <= Len(s)
      BY <1>2, <2>1
    <3>2. u[a + x] = s[a + x]
      BY <1>1, <3>1
    <3>. QED
      BY <1>4, <3>2 DEF PartAt
  <2>3. a + Len(w) <= Len(u)
    BY <1>1, <1>2, <2>1
  <2>. QED
    BY <2>1, <2>2, <2>3 DEF PartAt
<1>. QED
  BY <1>1, <1>3, <1>4 DEF u

(* Where the sequences ss begin in s, which is them one behind another.    *)
Starts(b, ss, s) ==
    /\ b \in [1 .. Len(ss) + 1 -> 0 .. Len(s)]
    /\ b[1] = 0 /\ b[Len(ss) + 1] = Len(s)
    /\ \A k \in 1 .. Len(ss) : b[k + 1] = b[k] + Len(ss[k]) /\ PartAt(s, b[k], ss[k])

(* There is always such a division.                                        *)
LEMMA StartsExist ==
    ASSUME NEW S, NEW n \in Nat \ {0}, NEW ss \in [1 .. n -> Seq(S)], Len(ss) = n
    PROVE  \E b : Starts(b, ss, FlattenSeq(ss))
<1>1. PICK f : Pieces(f, ss, n) /\ FlattenSeq(ss) = f[n]
  BY PiecesExist
<1>2. \A k \in 1 .. n : ss[k] \in Seq(S) /\ Len(ss[k]) \in Nat
  BY LenProperties
<1> DEFINE Good(i) ==
             /\ f[i] \in Seq(S)
             /\ i > 1 => Len(f[i]) = Len(f[i - 1]) + Len(ss[i])
             /\ \A k \in 2 .. i : PartAt(f[i], Len(f[k - 1]), ss[k])
             /\ PartAt(f[i], 0, ss[1])
           T == {i \in Nat : \A j \in 1 .. i + 1 : Good(j)}
<1>3. f[1] = ss[1] /\ ss[1] \in Seq(S) /\ Len(ss[1]) \in Nat
  <2>1. 1 \in 1 .. n
    OBVIOUS
  <2>. QED
    BY <1>1, <1>2, <2>1 DEF Pieces
<1>4. 0 \in T
  <2>1. Good(1)
    BY <1>3 DEF PartAt
  <2>2. \A j \in 1 .. 0 + 1 : j = 1
    OBVIOUS
  <2>. HIDE DEF Good
  <2>. QED
    BY <2>1, <2>2
<1>5. ASSUME NEW i \in 0 .. (n - 1) - 1, i \in T PROVE i + 1 \in T
  <2>1. PICK p : p = i + 1
    OBVIOUS
  <2>2. PICK q : q = i + 2
    OBVIOUS
  <2>3. /\ q \in 1 .. n /\ q \in 2 .. n /\ q - 1 = p /\ p + 1 = q /\ p \in 1 .. n
        /\ q > 1 /\ p \in 1 .. i + 1
        /\ q = (i + 1) + 1 /\ \A k \in 2 .. q : k \in 2 .. p \/ k = q
        /\ \A j \in 1 .. (i + 1) + 1 : j \in 1 .. i + 1 \/ j = q
    BY <2>1, <2>2
  <2>4. \A j \in 1 .. i + 1 : Good(j)
    BY <1>5
  <2>5. /\ f[p] \in Seq(S) /\ PartAt(f[p], 0, ss[1])
        /\ \A k \in 2 .. p : PartAt(f[p], Len(f[k - 1]), ss[k])
    BY <2>3, <2>4
  <2>6. f[q] = f[p] \o ss[q]
    BY <1>1, <2>3 DEF Pieces
  <2>7. ss[q] \in Seq(S)
    BY <1>2, <2>3
  <2>. HIDE DEF Good, T
  <2>8. /\ f[q] \in Seq(S) /\ Len(f[q]) = Len(f[p]) + Len(ss[q])
        /\ PartAt(f[q], Len(f[p]), ss[q])
        /\ \A a : \A w \in Seq(S) : PartAt(f[p], a, w) => PartAt(f[q], a, w)
    <3>1. ASSUME NEW s \in Seq(S), NEW t \in Seq(S), NEW u, u = s \o t
          PROVE  /\ u \in Seq(S) /\ Len(u) = Len(s) + Len(t)
                 /\ PartAt(u, Len(s), t)
                 /\ \A a : \A w \in Seq(S) : PartAt(s, a, w) => PartAt(u, a, w)
      BY <3>1, ConcatParts
    <3>2. f[p] \in Seq(S)
      BY <2>5
    <3>. QED
      BY <2>6, <2>7, <3>1, <3>2
  <2>9. PartAt(f[q], 0, ss[1])
    BY <1>3, <2>5, <2>8
  <2>10. \A k \in 2 .. q : PartAt(f[q], Len(f[k - 1]), ss[k])
    <3>1. ASSUME NEW k \in 2 .. p PROVE PartAt(f[q], Len(f[k - 1]), ss[k])
      <4>1. ss[k] \in Seq(S)
        BY <1>2, <2>3
      <4>2. PartAt(f[p], Len(f[k - 1]), ss[k])
        BY <2>5
      <4>. QED
        BY <2>8, <4>1, <4>2, Zenon
    <3>2. PartAt(f[q], Len(f[q - 1]), ss[q])
      BY <2>3, <2>8
    <3>. QED
      BY <2>3, <3>1, <3>2
  <2>11. Good(q)
    BY <2>3, <2>8, <2>9, <2>10 DEF Good
  <2>12. \A j \in 1 .. (i + 1) + 1 : Good(j)
    BY <2>3, <2>4, <2>11
  <2>. QED
    BY <2>12 DEF T
<1>6. \A j \in 1 .. n : Good(j)
  <2>1. n - 1 \in Nat /\ n - 1 \in 0 .. n - 1 /\ (n - 1) + 1 = n
    OBVIOUS
  <2>2. n - 1 \in T
    <3>. HIDE DEF T
    <3>. QED
      BY <1>4, <1>5, <2>1, Upwards
  <2>3. \A j \in 1 .. (n - 1) + 1 : Good(j)
    BY <2>2
  <2>. HIDE DEF Good
  <2>. QED
    BY <2>1, <2>3
<1> DEFINE b == [k \in 1 .. n + 1 |-> IF k = 1 THEN 0 ELSE Len(f[k - 1])]
<1>7. b[1] = 0 /\ \A k \in 1 .. n : b[k + 1] = Len(f[k])
  <2>. SUFFICES ASSUME NEW k \in 1 .. n PROVE b[k + 1] = Len(f[k])
    OBVIOUS
  <2>1. k + 1 \in 1 .. n + 1 /\ k + 1 # 1 /\ (k + 1) - 1 = k
    OBVIOUS
  <2>. QED
    BY <2>1
<1>8. \A k \in 1 .. n : k > 1 => b[k] = Len(f[k - 1])
  OBVIOUS
<1>9. DOMAIN b = 1 .. n + 1 /\ b = [k \in 1 .. n + 1 |-> b[k]]
  OBVIOUS
<1>. HIDE DEF b
<1>10. n \in 1 .. n
  OBVIOUS
<1>11. ASSUME NEW k \in 1 .. n
       PROVE b[k + 1] = b[k] + Len(ss[k]) /\ PartAt(f[n], b[k], ss[k])
  <2>1. CASE k = 1
    <3>1. b[k + 1] = 0 + Len(ss[k])
      BY <1>3, <1>7, <1>10, <2>1
    <3>2. PartAt(f[n], 0, ss[1])
      BY <1>6, <1>10
    <3>. QED
      BY <1>7, <2>1, <3>1, <3>2
  <2>2. CASE k # 1
    <3>1. k > 1 /\ k \in 2 .. n
      BY <2>2
    <3>2. b[k] = Len(f[k - 1]) /\ b[k + 1] = Len(f[k])
      BY <1>7, <1>8, <3>1
    <3>3. Len(f[k]) = Len(f[k - 1]) + Len(ss[k])
      BY <1>6, <3>1
    <3>4. PartAt(f[n], Len(f[k - 1]), ss[k])
      <4>1. Good(n)
        BY <1>6, <1>10
      <4>. QED
        BY <3>1, <4>1
    <3>. HIDE DEF Good
    <3>. QED
      BY <3>2, <3>3, <3>4
  <2>. QED
    BY <2>1, <2>2
<1>12. b[n + 1] = Len(f[n]) /\ Len(f[n]) \in Nat
  <2>1. f[n] \in Seq(S)
    BY <1>6, <1>10
  <2>. QED
    BY <1>7, <1>10, <2>1, LenProperties
<1>13. \A k \in 1 .. n + 1 : b[k] \in 0 .. Len(f[n])
  <2>. SUFFICES ASSUME NEW k \in 1 .. n + 1 PROVE b[k] \in 0 .. Len(f[n])
    OBVIOUS
  <2>1. CASE k \in 1 .. n
    <3>1. b[k] \in Nat /\ b[k] + Len(ss[k]) <= Len(f[n]) /\ Len(ss[k]) \in Nat
      BY <1>2, <1>11, <2>1 DEF PartAt
    <3>. QED
      BY <1>12, <3>1
  <2>2. CASE k = n + 1
    BY <1>12, <2>2
  <2>. QED
    BY <2>1, <2>2
<1>14. b \in [1 .. n + 1 -> 0 .. Len(f[n])]
  BY <1>9, <1>13
<1>. HIDE DEF Good, T
<1>15. Starts(b, ss, f[n])
  BY <1>7, <1>11, <1>12, <1>14 DEF Starts
<1>. QED
  BY <1>1, <1>15

-----------------------------------------------------------------------------
(* The entries of a range: a recursive function over the stored ones.      *)
Unwanted(r, e) == Low(r, e.key) \/ High(r, e.key)

FilterStep(w, r, e) == IF Unwanted(r, e) THEN w ELSE Append(w, e)

(* f has what the first i entries leave.                                   *)
Filters(f, r, s, i) ==
    /\ DOMAIN f = 0 .. Len(s) /\ f[0] = <<>>
    /\ \A j \in 1 .. i : f[j] = FilterStep(f[j - 1], r, s[j])

(* There is such a function.                                               *)
LEMMA FiltersExist ==
    ASSUME NEW r, NEW s, Len(s) \in Nat
    PROVE  \E f : Filters(f, r, s, Len(s))
<1> DEFINE S == {i \in Nat : \E f : Filters(f, r, s, i)}
<1>1. 0 \in S
  <2>1. Filters([j \in 0 .. Len(s) |-> <<>>], r, s, 0)
    BY DEF Filters
  <2>. QED
    BY <2>1
<1>2. ASSUME NEW i \in 0 .. Len(s) - 1, i \in S PROVE i + 1 \in S
  <2>1. PICK f : Filters(f, r, s, i)
    BY <1>2
  <2> DEFINE g == [j \in 0 .. Len(s) |-> IF j = i + 1 THEN FilterStep(f[i], r, s[i + 1])
                                                      ELSE f[j]]
  <2>2. Filters(g, r, s, i + 1)
    BY <2>1 DEF Filters
  <2>. HIDE DEF g
  <2>. QED
    BY <2>2
<1>3. Len(s) \in S
  <2>1. PICK k \in Nat : k = Len(s)
    OBVIOUS
  <2>2. k \in 0 .. k /\ \A i \in 0 .. k - 1 : i \in S => i + 1 \in S
    BY <1>2, <2>1
  <2>. HIDE DEF S
  <2>3. k \in S
    BY <1>1, <2>2, Upwards
  <2>. QED
    BY <2>1, <2>3
<1>. QED
  BY <1>3

(* The definition of MatchingIn, one entry at a time.                      *)
LEMMA MatchingIs ==
    ASSUME NEW r, NEW s, Len(s) \in Nat
    PROVE  /\ MatchingIn(r, s, 0) = <<>>
           /\ \A j \in 1 .. Len(s) :
                MatchingIn(r, s, j) = FilterStep(MatchingIn(r, s, j - 1), r, s[j])
<1> DEFINE Body(f) ==
             [i \in 0 .. Len(s) |->
                IF i = 0 THEN <<>>
                ELSE IF Low(r, s[i].key) \/ High(r, s[i].key)
                THEN f[i - 1] ELSE Append(f[i - 1], s[i])]
<1>1. PICK f : Filters(f, r, s, Len(s))
  BY FiltersExist
<1> DEFINE f0 == [i \in 0 .. Len(s) |-> f[i]]
<1>2. f0 = Body(f0)
  <2>1. ASSUME NEW i \in 0 .. Len(s) PROVE f0[i] = Body(f0)[i]
    <3>1. CASE i = 0
      BY <1>1, <3>1 DEF Filters
    <3>2. CASE i # 0
      <4>1. i \in 1 .. Len(s) /\ i - 1 \in 0 .. Len(s)
        BY <3>2
      <4>2. f[i] = FilterStep(f[i - 1], r, s[i])
        BY <1>1, <4>1 DEF Filters
      <4>. QED
        BY <3>2, <4>1, <4>2 DEF FilterStep, Unwanted
    <3>. QED
      BY <3>1, <3>2
  <2>. HIDE DEF f0
  <2>2. DOMAIN f0 = 0 .. Len(s) /\ f0 = [i \in DOMAIN f0 |-> f0[i]]
    BY DEF f0
  <2>. QED
    BY <2>1, <2>2
<1>3. \E g : g = Body(g) /\ \A n : MatchingIn(r, s, n) = g[n]
  <2>. HIDE DEF f0
  <2>1. \E g : g = Body(g)
    BY <1>2
  <2>. QED
    BY <2>1 DEF MatchingIn
<1>4. PICK g : g = Body(g) /\ \A n : MatchingIn(r, s, n) = g[n]
  BY <1>3
<1>5. \A i \in 0 .. Len(s) :
        g[i] = IF i = 0 THEN <<>> ELSE FilterStep(g[i - 1], r, s[i])
  <2>1. \A i \in 0 .. Len(s) :
          Body(g)[i] = IF i = 0 THEN <<>> ELSE FilterStep(g[i - 1], r, s[i])
    BY DEF FilterStep, Unwanted
  <2>. HIDE DEF Body
  <2>. QED
    BY <1>4, <2>1
<1>6. 0 \in 0 .. Len(s) /\ \A j \in 1 .. Len(s) : j \in 0 .. Len(s) /\ j # 0
  OBVIOUS
<1>. HIDE DEF Body
<1>. QED
  BY <1>4, <1>5, <1>6

(* What is found is a sequence of entries.                                 *)
LEMMA MatchingIsSeq ==
    ASSUME NEW S, NEW s \in Seq(S), NEW r
    PROVE  \A i \in 0 .. Len(s) : MatchingIn(r, s, i) \in Seq(S)
<1>. Len(s) \in Nat
  BY LenProperties
<1> DEFINE T == {i \in Nat : MatchingIn(r, s, i) \in Seq(S)}
<1>0. /\ MatchingIn(r, s, 0) = <<>>
      /\ \A j \in 1 .. Len(s) :
           MatchingIn(r, s, j) = FilterStep(MatchingIn(r, s, j - 1), r, s[j])
  BY MatchingIs
<1>1. 0 \in T
  <2>1. <<>> \in Seq(S)
    OBVIOUS
  <2>. QED
    BY <1>0, <2>1
<1>2. ASSUME NEW i \in 0 .. Len(s) - 1, i \in T PROVE i + 1 \in T
  <2>1. i + 1 \in 1 .. Len(s) /\ (i + 1) - 1 = i
    OBVIOUS
  <2>2. MatchingIn(r, s, i + 1) = FilterStep(MatchingIn(r, s, i), r, s[i + 1])
    BY <1>0, <2>1
  <2>3. s[i + 1] \in S /\ MatchingIn(r, s, i) \in Seq(S)
    BY <1>2, <2>1, ElementOfSeq
  <2>4. Append(MatchingIn(r, s, i), s[i + 1]) \in Seq(S)
    BY <2>3, AppendProperties
  <2>5. MatchingIn(r, s, i + 1) \in Seq(S)
    BY <2>2, <2>3, <2>4 DEF FilterStep
  <2>. QED
    BY <2>5
<1>. HIDE DEF T
<1>3. \A i \in 0 .. Len(s) : i \in T
  BY <1>1, <1>2, Upwards
<1>. QED
  BY <1>3 DEF T

(* Nothing is added where nothing is wanted.                               *)
LEMMA MatchingSame ==
    ASSUME NEW r, NEW s, Len(s) \in Nat, NEW c \in 0 .. Len(s), NEW d \in 0 .. Len(s),
           c <= d, \A j \in c + 1 .. d : Unwanted(r, s[j])
    PROVE  MatchingIn(r, s, d) = MatchingIn(r, s, c)
<1> DEFINE T == {i \in Nat : MatchingIn(r, s, c + i) = MatchingIn(r, s, c)}
<1>0. \A j \in 1 .. Len(s) :
        MatchingIn(r, s, j) = FilterStep(MatchingIn(r, s, j - 1), r, s[j])
  BY MatchingIs
<1>1. 0 \in T
  OBVIOUS
<1>2. ASSUME NEW i \in 0 .. (d - c) - 1, i \in T PROVE i + 1 \in T
  <2>1. /\ c + (i + 1) \in 1 .. Len(s) /\ c + (i + 1) \in c + 1 .. d
        /\ c + (i + 1) - 1 = c + i
    OBVIOUS
  <2>2. MatchingIn(r, s, c + (i + 1)) = MatchingIn(r, s, c + i)
    <3>1. MatchingIn(r, s, c + (i + 1))
            = FilterStep(MatchingIn(r, s, c + (i + 1) - 1), r, s[c + (i + 1)])
      BY <1>0, <2>1
    <3>2. Unwanted(r, s[c + (i + 1)])
      BY <2>1
    <3>. QED
      BY <2>1, <3>1, <3>2 DEF FilterStep
  <2>. QED
    BY <1>2, <2>2
<1>3. d - c \in Nat /\ d - c \in 0 .. d - c /\ c + (d - c) = d
  OBVIOUS
<1>4. d - c \in T
  <2>. HIDE DEF T
  <2>. QED
    BY <1>1, <1>2, <1>3, Upwards
<1>5. MatchingIn(r, s, c + (d - c)) = MatchingIn(r, s, c)
  BY <1>4
<1>. QED
  BY <1>3, <1>5

(* What is found among the first c is where what is found in all begins.   *)
LEMMA MatchingPrefix ==
    ASSUME NEW S, NEW s \in Seq(S), NEW r, NEW c \in 0 .. Len(s)
    PROVE  IsPrefix(MatchingIn(r, s, c), MatchingIn(r, s, Len(s)))
<1>. Len(s) \in Nat
  BY LenProperties
<1> DEFINE w == MatchingIn(r, s, c)
           Goes(v) == /\ v \in Seq(S) /\ Len(w) <= Len(v)
                      /\ \A i \in 1 .. Len(w) : v[i] = w[i]
           T == {i \in Nat : Goes(MatchingIn(r, s, c + i))}
<1>0. w \in Seq(S) /\ Len(w) \in Nat
  <2>1. w \in Seq(S)
    BY MatchingIsSeq
  <2>. HIDE DEF w
  <2>. QED
    BY <2>1, LenProperties
<1>. HIDE DEF w
<1>9. \A j \in 1 .. Len(s) :
        MatchingIn(r, s, j) = FilterStep(MatchingIn(r, s, j - 1), r, s[j])
  BY MatchingIs
<1>1. 0 \in T
  <2>1. MatchingIn(r, s, c + 0) = w
    BY DEF w
  <2>2. Goes(w)
    BY <1>0
  <2>. HIDE DEF Goes
  <2>. QED
    BY <2>1, <2>2
<1>2. ASSUME NEW i \in 0 .. (Len(s) - c) - 1, i \in T PROVE i + 1 \in T
  <2>1. /\ c + (i + 1) \in 1 .. Len(s) /\ c + (i + 1) - 1 = c + i
    OBVIOUS
  <2>2. PICK v : v = MatchingIn(r, s, c + i)
    OBVIOUS
  <2>3. PICK e : e = s[c + (i + 1)]
    OBVIOUS
  <2>4. MatchingIn(r, s, c + (i + 1)) = FilterStep(v, r, e)
    <3>1. MatchingIn(r, s, c + (i + 1))
            = FilterStep(MatchingIn(r, s, c + (i + 1) - 1), r, s[c + (i + 1)])
      BY <1>9, <2>1
    <3>. QED
      BY <2>1, <2>2, <2>3, <3>1
  <2>5. e \in S
    BY <2>1, <2>3, ElementOfSeq
  <2>6. Goes(v)
    BY <1>2, <2>2
  <2>7. v \in Seq(S) /\ Len(w) <= Len(v) /\ Len(v) \in Nat
        /\ \A x \in 1 .. Len(w) : v[x] = w[x]
    BY <2>6, LenProperties
  <2>8. Goes(Append(v, e))
    <3>1. /\ Append(v, e) \in Seq(S) /\ Len(Append(v, e)) = Len(v) + 1
          /\ \A x \in 1 .. Len(v) : Append(v, e)[x] = v[x]
      BY <2>5, <2>7, AppendProperties
    <3>2. \A x \in 1 .. Len(w) : x \in 1 .. Len(v)
      BY <1>0, <2>7
    <3>3. Len(w) <= Len(Append(v, e))
      BY <1>0, <2>7, <3>1
    <3>4. \A x \in 1 .. Len(w) : Append(v, e)[x] = w[x]
      BY <2>7, <3>1, <3>2
    <3>. QED
      BY <3>1, <3>3, <3>4
  <2>. HIDE DEF Goes
  <2>9. Goes(MatchingIn(r, s, c + (i + 1)))
    BY <2>4, <2>6, <2>8 DEF FilterStep
  <2>. QED
    BY <2>9
<1>3. Len(s) - c \in Nat /\ Len(s) - c \in 0 .. Len(s) - c /\ c + (Len(s) - c) = Len(s)
  OBVIOUS
<1>4. Len(s) - c \in T
  <2>. HIDE DEF T
  <2>. QED
    BY <1>1, <1>2, <1>3, Upwards
<1>5. PICK v : v = MatchingIn(r, s, Len(s))
  OBVIOUS
<1>6. Goes(v)
  <2>1. Goes(MatchingIn(r, s, c + (Len(s) - c)))
    BY <1>4
  <2>. HIDE DEF Goes
  <2>. QED
    BY <1>3, <1>5, <2>1
<1>7. /\ v \in Seq(S) /\ Len(w) <= Len(v) /\ Len(v) \in Nat
      /\ \A i \in 1 .. Len(w) : v[i] = w[i]
  BY <1>6, LenProperties
<1>8. SubSeq(w, 1, Len(w)) = SubSeq(v, 1, Len(w))
  <2>1. \A i \in 1 .. Len(w) : w[i] \in S /\ v[i] \in S
    BY <1>0, <1>7, ElementOfSeq
  <2>2. /\ SubSeq(w, 1, Len(w)) \in Seq(S)
        /\ Len(SubSeq(w, 1, Len(w))) = IF 1 <= Len(w) THEN Len(w) - 1 + 1 ELSE 0
        /\ \A i \in 1 .. Len(w) - 1 + 1 : SubSeq(w, 1, Len(w))[i] = w[1 + i - 1]
    BY <1>0, <2>1, SubSeqProperties
  <2>3. /\ SubSeq(v, 1, Len(w)) \in Seq(S)
        /\ Len(SubSeq(v, 1, Len(w))) = IF 1 <= Len(w) THEN Len(w) - 1 + 1 ELSE 0
        /\ \A i \in 1 .. Len(w) - 1 + 1 : SubSeq(v, 1, Len(w))[i] = v[1 + i - 1]
    BY <1>0, <2>1, SubSeqProperties
  <2>4. Len(w) - 1 + 1 = Len(w) /\ \A i \in 1 .. Len(w) : 1 + i - 1 = i
    BY <1>0
  <2>5. /\ Len(SubSeq(w, 1, Len(w))) = Len(w)
        /\ Len(SubSeq(v, 1, Len(w))) = Len(w)
    <3>1. 1 <= Len(w) \/ Len(w) = 0
      BY <1>0
    <3>. QED
      BY <2>2, <2>3, <2>4, <3>1
  <2>6. \A i \in 1 .. Len(w) : SubSeq(w, 1, Len(w))[i] = SubSeq(v, 1, Len(w))[i]
    BY <1>7, <2>2, <2>3, <2>4
  <2> DEFINE x == SubSeq(w, 1, Len(w))
             y == SubSeq(v, 1, Len(w))
  <2>. HIDE DEF x, y
  <2>7. /\ x \in Seq(S) /\ y \in Seq(S) /\ Len(x) = Len(y)
        /\ \A i \in 1 .. Len(x) : x[i] = y[i]
    BY <2>2, <2>3, <2>5, <2>6 DEF x, y
  <2>8. x = y
    BY <2>7, SeqEqual
  <2>. QED
    BY <2>8 DEF x, y
<1>. QED
  BY <1>5, <1>7, <1>8 DEF IsPrefix, w

(* Keys below one that is too low are too low, and keys above one that is  *)
(* too high are too high.                                                  *)
IsRange(r) == r.lowVal \in Int /\ r.highVal \in Int

LEMMA LowDown ==
    ASSUME NEW r, IsRange(r), NEW x \in Int, NEW y \in Int, y <= x, Low(r, x)
    PROVE  Low(r, y)
  BY DEF IsRange, Low

LEMMA HighUp ==
    ASSUME NEW r, IsRange(r), NEW x \in Int, NEW y \in Int, x <= y, High(r, x)
    PROVE  High(r, y)
  BY DEF IsRange, High

-----------------------------------------------------------------------------
(* The leaves below the root are the chain, in key order, and the entries  *)
(* of the leaf o[k] are in Stored from b[k] on.                            *)
Laid(n, o, b) ==
    /\ n \in Nat \ {0} /\ o \in [1 .. n -> Leaves] /\ InOrder(o, n)
    /\ LeavesBelowRoot = o /\ Arranged(RootKeys, LeavesBelowRoot)
    /\ Stored \in Seq(Entries) /\ Related(Stored, Ascending)
    /\ b \in [1 .. n + 1 -> 0 .. Len(Stored)] /\ b[1] = 0 /\ b[n + 1] = Len(Stored)
    /\ \A k \in 1 .. n : /\ b[k + 1] = b[k] + Len(nodes[o[k]].entries)
                         /\ PartAt(Stored, b[k], nodes[o[k]].entries)

(* The state of an index in which all leaves hang below the root.          *)
LEMMA LaidOut ==
    ASSUME IInv, ChainInv, OrderInv, status # "undefined", Linked
    PROVE  \E n, o, b : Laid(n, o, b)
<1>1. PICK n \in Nat \ {0} : \E o \in [1 .. n -> Leaves] :
             /\ InOrder(o, n) /\ LeavesBelowRoot = o
             /\ Arranged(RootKeys, LeavesBelowRoot)
  BY LinkedMeans DEF OrderInv
<1>2. PICK o \in [1 .. n -> Leaves] :
             /\ InOrder(o, n) /\ LeavesBelowRoot = o
             /\ Arranged(RootKeys, LeavesBelowRoot)
  BY <1>1
<1> DEFINE ss == [i \in 1 .. n |-> nodes[o[i]].entries]
<1>3. Stored = FlattenSeq(ss) /\ Stored \in Seq(Entries) /\ Related(Stored, Ascending)
  BY <1>2, StoredRises DEF OrderInv
<1>4. ss \in [1 .. n -> Seq(Entries)] /\ \A k \in 1 .. n : ss[k] = nodes[o[k]].entries
  <2>1. \A l \in Leaves : nodes[l].entries \in Seq(Entries)
    BY LeavesAre
  <2>. QED
    BY <2>1
<1>. HIDE DEF ss
<1>5. Len(ss) = n
  <2>1. ss \in Seq(Seq(Entries)) /\ DOMAIN ss = 1 .. n
    BY <1>4, SeqDef
  <2>2. Len(ss) \in Nat /\ DOMAIN ss = 1 .. Len(ss)
    BY <2>1, LenProperties
  <2>. QED
    BY <2>1, <2>2
<1>6. PICK b : Starts(b, ss, Stored)
  BY <1>3, <1>4, <1>5, StartsExist
<1>7. /\ b \in [1 .. n + 1 -> 0 .. Len(Stored)] /\ b[1] = 0 /\ b[n + 1] = Len(Stored)
      /\ \A k \in 1 .. n : b[k + 1] = b[k] + Len(ss[k]) /\ PartAt(Stored, b[k], ss[k])
  BY <1>5, <1>6 DEF Starts
<1>8. Laid(n, o, b)
  BY <1>2, <1>3, <1>4, <1>7 DEF Laid
<1>. QED
  BY <1>8

(* What is laid out, in numbers.                                           *)
LEMMA LaidIs ==
    ASSUME IInv, NEW n, NEW o, NEW b, Laid(n, o, b)
    PROVE  /\ n \in Nat \ {0} /\ Len(Stored) \in Nat
           /\ \A k \in 1 .. n + 1 : b[k] \in 0 .. Len(Stored)
           /\ \A k \in 1 .. n :
                /\ o[k] \in Leaves /\ k \in 1 .. n + 1 /\ k + 1 \in 1 .. n + 1
                /\ Len(nodes[o[k]].entries) \in Nat
                /\ DOMAIN nodes[o[k]].entries = 1 .. Len(nodes[o[k]].entries)
                /\ b[k + 1] = b[k] + Len(nodes[o[k]].entries)
                /\ \A i \in 1 .. Len(nodes[o[k]].entries) :
                     /\ b[k] + i \in 1 .. Len(Stored)
                     /\ Stored[b[k] + i] = nodes[o[k]].entries[i]
           /\ \A i \in 1 .. Len(Stored) : Stored[i] \in Entries /\ Stored[i].key \in Int
           /\ \A i, j \in 1 .. Len(Stored) : i <= j => Stored[i].key <= Stored[j].key
<1>1. n \in Nat \ {0} /\ Len(Stored) \in Nat /\ DOMAIN Stored = 1 .. Len(Stored)
  BY LenProperties DEF Laid
<1>2. \A k \in 1 .. n + 1 : b[k] \in 0 .. Len(Stored)
  BY DEF Laid
<1>3. ASSUME NEW k \in 1 .. n
      PROVE  /\ o[k] \in Leaves /\ k \in 1 .. n + 1 /\ k + 1 \in 1 .. n + 1
             /\ Len(nodes[o[k]].entries) \in Nat
             /\ DOMAIN nodes[o[k]].entries = 1 .. Len(nodes[o[k]].entries)
             /\ b[k + 1] = b[k] + Len(nodes[o[k]].entries)
             /\ \A i \in 1 .. Len(nodes[o[k]].entries) :
                  /\ b[k] + i \in 1 .. Len(Stored)
                  /\ Stored[b[k] + i] = nodes[o[k]].entries[i]
  <2>1. o[k] \in Leaves
    BY DEF Laid
  <2>2. PICK es : es = nodes[o[k]].entries
    OBVIOUS
  <2>3. Len(es) \in Nat /\ DOMAIN es = 1 .. Len(es)
    <3>1. es \in Seq(Entries)
      BY <2>1, <2>2, LeavesAre
    <3>. QED
      BY <3>1, LenProperties
  <2>4. b[k + 1] = b[k] + Len(es) /\ PartAt(Stored, b[k], es)
    BY <2>2 DEF Laid
  <2>5. \A i \in 1 .. Len(es) : b[k] + i \in 1 .. Len(Stored)
                                /\ Stored[b[k] + i] = es[i]
    BY <1>1, <2>3, <2>4 DEF PartAt
  <2>6. k \in 1 .. n + 1 /\ k + 1 \in 1 .. n + 1
    BY <1>1
  <2>. QED
    BY <2>1, <2>2, <2>3, <2>4, <2>5, <2>6
<1>4. \A i \in 1 .. Len(Stored) : Stored[i] \in Entries
  BY ElementOfSeq DEF Laid
<1>5. \A i \in 1 .. Len(Stored) : Stored[i].key \in Int
  BY <1>4 DEF Entries
<1>6. ASSUME NEW i \in 1 .. Len(Stored), NEW j \in 1 .. Len(Stored), i <= j
      PROVE  Stored[i].key <= Stored[j].key
  <2>1. CASE i = j
    BY <1>5, <2>1
  <2>2. CASE i # j
    <3>1. i < j
      BY <1>1, <1>6, <2>2
    <3>2. <<Stored[i], Stored[j]>> \in Ascending
      BY <1>1, <3>1 DEF Laid, Related
    <3>. QED
      BY <3>2 DEF Ascending
  <2>. QED
    BY <2>1, <2>2
<1>. QED
  BY <1>1, <1>2, <1>3, <1>4, <1>5, <1>6

(* The same of one leaf.                                                   *)
LEMMA LeafIsPart ==
    ASSUME IInv, NEW n, NEW o, NEW b, Laid(n, o, b), NEW k \in 1 .. n
    PROVE  /\ b[k] \in Nat /\ Len(nodes[o[k]].entries) \in Nat
           /\ b[k + 1] = b[k] + Len(nodes[o[k]].entries)
           /\ \A i \in 1 .. Len(nodes[o[k]].entries) :
                /\ b[k] + i \in 1 .. Len(Stored)
                /\ Stored[b[k] + i] = nodes[o[k]].entries[i]
<1>1. k \in 1 .. n + 1 /\ n \in Nat \ {0} /\ Len(Stored) \in Nat
  BY LaidIs
<1>2. b[k] \in 0 .. Len(Stored)
  BY <1>1, LaidIs
<1>3. \A q \in 1 .. n :
        /\ Len(nodes[o[q]].entries) \in Nat
        /\ b[q + 1] = b[q] + Len(nodes[o[q]].entries)
        /\ \A i \in 1 .. Len(nodes[o[q]].entries) :
             /\ b[q] + i \in 1 .. Len(Stored)
             /\ Stored[b[q] + i] = nodes[o[q]].entries[i]
  BY LaidIs
<1>4. b[k] \in Nat
  BY <1>1, <1>2
<1>. QED
  BY ONLY <1>3, <1>4, k \in 1 .. n

(* The scan changes no node.                                               *)
LEMMA SameLaid ==
    ASSUME nodes' = nodes, rootPageNum' = rootPageNum, NEW n, NEW o, NEW b,
           Laid(n, o, b)
    PROVE  Laid(n, o, b)' /\ Stored' = Stored /\ Linked' = Linked
<1>1. Leaves' = Leaves /\ RootKeys' = RootKeys /\ LeavesBelowRoot' = LeavesBelowRoot
  BY SameRoot
<1>2. Chain' = Chain
  BY DEF Chain, ChainFrom
<1>3. Stored' = Stored
  BY <1>2 DEF Stored
<1>4. InOrder(o, n)' = InOrder(o, n)
  BY <1>1 DEF InOrder
<1>5. Arranged(RootKeys, LeavesBelowRoot)' = Arranged(RootKeys, LeavesBelowRoot)
  BY <1>1 DEF Arranged, LinkedUp, Separates, On, Rising, Related
<1>. QED
  BY <1>1, <1>2, <1>3, <1>4, <1>5 DEF Laid, Linked

(* Up to a leaf before which everything is too low.                        *)
LEMMA LowBefore ==
    ASSUME IInv, NEW n, NEW o, NEW b, Laid(n, o, b), NEW r, NEW k \in 1 .. n + 1,
           \A i \in 1 .. n : i < k => \A e \in On(o[i]) : Low(r, e.key)
    PROVE  \A j \in 1 .. b[k] : Low(r, Stored[j].key)
<1>1. n \in Nat \ {0} /\ Len(Stored) \in Nat
  BY LaidIs
<1> DEFINE T == {i \in Nat : \A j \in 1 .. b[i + 1] : Low(r, Stored[j].key)}
<1>2. 0 \in T
  <2>1. b[0 + 1] = 0
    BY DEF Laid
  <2>. QED
    BY <2>1
<1>3. ASSUME NEW i \in 0 .. (k - 1) - 1, i \in T PROVE i + 1 \in T
  <2>1. PICK p : p = i + 1
    OBVIOUS
  <2>2. p \in 1 .. n /\ p < k
    BY <1>1, <2>1
  <2>3. PICK es : es = nodes[o[p]].entries
    OBVIOUS
  <2>4. /\ b[p] \in Nat /\ Len(es) \in Nat /\ b[p + 1] = b[p] + Len(es)
        /\ DOMAIN es = 1 .. Len(es)
        /\ \A x \in 1 .. Len(es) : Stored[b[p] + x] = es[x]
    BY <1>1, <2>2, <2>3, LaidIs
  <2>5. \A x \in 1 .. Len(es) : Low(r, es[x].key)
    <3>1. \A x \in 1 .. Len(es) : es[x] \in On(o[p])
      BY <2>3, <2>4 DEF On, ToSet
    <3>. QED
      BY <2>2, <3>1
  <2>6. ASSUME NEW j \in 1 .. b[p + 1] PROVE Low(r, Stored[j].key)
    <3>1. CASE j \in 1 .. b[p]
      BY <1>3, <2>1, <3>1
    <3>2. CASE j \notin 1 .. b[p]
      <4>1. PICK x : x = j - b[p]
        OBVIOUS
      <4>2. x \in 1 .. Len(es) /\ b[p] + x = j
        BY <2>4, <3>2, <4>1
      <4>. QED
        BY <2>4, <2>5, <4>2
    <3>. QED
      BY <3>1, <3>2
  <2>. QED
    BY <2>1, <2>6
<1>4. PICK m \in Nat : m = k - 1 /\ m + 1 = k
  BY <1>1
<1>5. m \in T
  <2>1. m \in 0 .. m /\ \A i \in 0 .. m - 1 : i \in T => i + 1 \in T
    BY <1>3, <1>4
  <2>. HIDE DEF T
  <2>. QED
    BY <1>2, <2>1, Upwards
<1>. QED
  BY <1>4, <1>5

-----------------------------------------------------------------------------
(* The search skips only leaves that are too low: the comparison with the  *)
(* keys moved by one word never goes past the leaf of the first match.     *)
LEMMA FirstIs ==
    ASSUME IInv, NEW n, NEW o, NEW b, Laid(n, o, b), NEW r, IsRange(r)
    PROVE  \E m \in 1 .. n :
             /\ FirstToSearch(r) = o[m]
             /\ \A i \in 1 .. n : i < m => \A e \in On(o[i]) : Low(r, e.key)
<1>1. /\ n \in Nat \ {0} /\ o \in [1 .. n -> Leaves] /\ LeavesBelowRoot = o
      /\ Arranged(RootKeys, LeavesBelowRoot)
  BY DEF Laid
<1>2. CASE rootPageNum \in Leaves
  <2>1. FirstToSearch(r) = rootPageNum /\ o = <<rootPageNum>>
    BY <1>1, <1>2, RootIs DEF FirstToSearch
  <2>2. 1 \in 1 .. n /\ o[1] = rootPageNum /\ ~ \E i \in 1 .. n : i < 1
    BY <1>1, <2>1
  <2>. QED
    BY <2>1, <2>2
<1>3. CASE rootPageNum \notin Leaves
  <2> DEFINE keys == RootKeys
             words == <<Root.level>> \o Front(keys)
             J == {j \in DOMAIN words : Low(r, words[j])} \cup {1}
  <2>1. /\ Root = NonLeaf(1, keys, o) /\ IsInner(Root, Leaves) /\ Root.kind = "nonleaf"
        /\ keys = Root.keyArray /\ o = Root.pageNoArray
    BY <1>1, <1>3, RootIs
  <2>2. /\ keys \in Seq(Keys) /\ Len(keys) \in Nat /\ 1 <= Len(keys)
        /\ n = Len(keys) + 1 /\ Root.level = 1 /\ DOMAIN keys = 1 .. Len(keys)
        /\ \A i \in 1 .. Len(keys) : keys[i] \in Int
    <3>1. Len(o) = n
      BY <1>1, OrderIsUp DEF Laid
    <3>2. 1 <= Len(keys) /\ Root.level = 1
      BY <2>1 DEF IsInner, NonLeaf
    <3>. QED
      BY <1>1, <3>1, <3>2, RootIs
  <2>3. FirstToSearch(r) = o[Max(J)]
    BY <2>1 DEF FirstToSearch, ChildToSearch, WordsAsLeaf
  <2>. HIDE DEF keys
  <2>4. /\ Front(keys) \in Seq(Int) /\ Len(Front(keys)) = Len(keys) - 1
        /\ \A i \in 1 .. Len(keys) - 1 : Front(keys)[i] = keys[i]
    <3> DEFINE m == Len(keys) - 1
    <3>1. m \in Nat /\ m <= Len(keys)
      BY <2>2
    <3>. HIDE DEF m
    <3>2. \A i \in 1 .. m : keys[i] \in Int
      BY <2>2, <3>1
    <3>3. /\ SubSeq(keys, 1, m) \in Seq(Int)
          /\ Len(SubSeq(keys, 1, m)) = IF 1 <= m THEN m - 1 + 1 ELSE 0
          /\ \A i \in 1 .. m - 1 + 1 : SubSeq(keys, 1, m)[i] = keys[1 + i - 1]
      BY <3>1, <3>2, SubSeqProperties
    <3>4. m - 1 + 1 = m /\ \A i \in 1 .. m : 1 + i - 1 = i
      BY <3>1
    <3>5. Len(SubSeq(keys, 1, m)) = m
      BY <3>1, <3>3
    <3>6. \A i \in 1 .. m : SubSeq(keys, 1, m)[i] = keys[i]
      BY <3>3, <3>4
    <3>. QED
      BY <3>3, <3>5, <3>6 DEF Front, m
  <2>5. /\ words \in Seq(Int) /\ Len(words) = Len(keys) /\ DOMAIN words = 1 .. Len(keys)
        /\ \A i \in 1 .. Len(keys) : i > 1 => words[i] = keys[i - 1]
    <3>1. <<Root.level>> \in Seq(Int) /\ Len(<<Root.level>>) = 1
      BY <2>2
    <3>2. /\ words \in Seq(Int) /\ Len(words) = Len(<<Root.level>>) + Len(Front(keys))
          /\ \A i \in 1 .. Len(<<Root.level>>) + Len(Front(keys)) :
               words[i] = IF i <= Len(<<Root.level>>) THEN <<Root.level>>[i]
                          ELSE Front(keys)[i - Len(<<Root.level>>)]
      BY <2>4, <3>1, ConcatProperties
    <3>. HIDE DEF words
    <3>3. Len(words) = Len(keys)
      BY <2>2, <2>4, <3>1, <3>2
    <3>4. ASSUME NEW i \in 1 .. Len(keys), i > 1 PROVE words[i] = keys[i - 1]
      <4>1. /\ i \in 1 .. Len(<<Root.level>>) + Len(Front(keys))
            /\ ~(i <= Len(<<Root.level>>)) /\ i - Len(<<Root.level>>) = i - 1
            /\ i - 1 \in 1 .. Len(keys) - 1
        BY <2>2, <2>4, <3>1, <3>4
      <4>2. words[i] = Front(keys)[i - 1]
        BY <3>2, <4>1
      <4>. QED
        BY <2>4, <4>1, <4>2
    <3>. QED
      BY <2>2, <3>2, <3>3, <3>4, LenProperties
  <2>. HIDE DEF words
  <2>6. J \subseteq 1 .. Len(keys) /\ J # {}
    BY <2>2, <2>5
  <2>7. \A j \in J : j # 1 => Low(r, words[j])
    OBVIOUS
  <2>. HIDE DEF J
  <2>8. PICK m \in J : m = Max(J)
    BY <2>2, <2>6, MaxIs
  <2>9. m \in 1 .. n /\ m \in 1 .. Len(keys)
    BY <2>2, <2>6, <2>8
  <2>10. ASSUME NEW i \in 1 .. n, i < m, NEW e \in On(o[i]) PROVE Low(r, e.key)
    <3>1. m # 1 /\ m > 1 /\ m - 1 \in 1 .. Len(keys) /\ i \in 1 .. Len(keys)
      BY <2>2, <2>9, <2>10
    <3>2. Low(r, keys[m - 1])
      BY <2>5, <2>7, <2>8, <2>9, <3>1
    <3>3. e.key <= keys[i] /\ e.key \in Int
      <4>1. e.key <= keys[i]
        BY <1>1, <2>2, <3>1 DEF Arranged, Separates, keys
      <4>2. o[i] \in Leaves
        BY <1>1
      <4>. QED
        BY <4>1, <4>2, LeavesAre
    <3>4. keys[i] <= keys[m - 1]
      <4>1. CASE i = m - 1
        BY <2>2, <3>1, <4>1
      <4>2. CASE i # m - 1
        <5>1. i < m - 1
          BY <2>9, <2>10, <4>2
        <5>2. <<keys[i], keys[m - 1]>> \in AtMost
          BY <1>1, <2>2, <3>1, <5>1 DEF Arranged, Rising, Related, keys
        <5>. QED
          BY <5>2 DEF AtMost
      <4>. QED
        BY <4>1, <4>2
    <3>5. keys[i] \in Int /\ keys[m - 1] \in Int
      BY <2>2, <3>1
    <3>6. e.key <= keys[m - 1]
      BY <3>3, <3>4, <3>5
    <3>. QED
      BY <3>2, <3>3, <3>5, <3>6, LowDown
  <2>. QED
    BY <2>3, <2>8, <2>9, <2>10
<1>. QED
  BY <1>2, <1>3

(* Before an entry at which a leaf does not stop the search all are low.   *)
LEMMA StopsAre ==
    ASSUME IInv, NEW r, NEW l \in Leaves
    PROVE  /\ Stops(r, l) \subseteq Nat
           /\ \A i \in 1 .. Len(nodes[l].entries) :
                i \notin Stops(r, l) => Low(r, nodes[l].entries[i].key)
           /\ \A i \in Stops(r, l) :
                /\ i \in 1 .. Len(nodes[l].entries)
                /\ ~Low(r, nodes[l].entries[i].key) \/ High(r, nodes[l].entries[i].key)
           /\ Stops(r, l) = {} => \A e \in On(l) : Low(r, e.key)
<1>1. PICK es : es = nodes[l].entries
  OBVIOUS
<1>2. Len(es) \in Nat /\ DOMAIN es = 1 .. Len(es)
  <2>1. es \in Seq(Entries)
    BY <1>1, LeavesAre
  <2>. QED
    BY <2>1, LenProperties
<1>3. Stops(r, l) = {i \in 1 .. Len(es) : ~Low(r, es[i].key) \/ High(r, es[i].key)}
  BY <1>1, <1>2 DEF Stops
<1>4. Stops(r, l) = {} => \A e \in On(l) : Low(r, e.key)
  <2>1. \A e \in On(l) : \E i \in 1 .. Len(es) : e = es[i]
    BY <1>1, <1>2 DEF On, ToSet
  <2>. QED
    BY <1>3, <2>1
<1>. QED
  BY <1>1, <1>2, <1>3, <1>4

(* What the search finds when no page of the index is pinned: no frame for *)
(* the first page, or the first entry that is not too low.                 *)
FoundAt(found, r, n, o, b, k, i) ==
    /\ found.page = o[k] /\ found.entry = i
    /\ found.result = "high" <=> High(r, nodes[o[k]].entries[i].key)
    /\ \/ ~Low(r, nodes[o[k]].entries[i].key)
       \/ High(r, nodes[o[k]].entries[i].key)
    /\ \A j \in 1 .. (b[k] + i) - 1 : Low(r, Stored[j].key)

Finds(found, r, n, o, b) ==
    \/ found.result = "noframe" /\ ~found.moved
    \/ found.result = "end" /\ \A j \in 1 .. Len(Stored) : Low(r, Stored[j].key)
    \/ /\ found.result \in {"match", "high"}
       /\ \E k \in 1 .. n : \E i \in 1 .. Len(nodes[o[k]].entries) :
            FoundAt(found, r, n, o, b, k, i)

(* What startScan finds, in one leaf or below a root above leaves.         *)
LEMMA SearchFinds ==
    ASSUME IInv, NEW n, NEW o, NEW b, Laid(n, o, b), NEW r, IsRange(r),
           NEW pn, NonePinned(pn), NEW others
    PROVE  Finds(Search(r, pn, others), r, n, o, b)
<1> DEFINE above == IF Root.kind = "leaf" THEN <<>> ELSE <<rootPageNum>>
           leaves == ChainFrom(FirstToSearch(r))
           met == {x \in DOMAIN leaves : Stops(r, leaves[x]) # {}}
           stop == Min(met \cup {Len(leaves) + 1})
           all == Append(leaves, NoPage)
           way == above \o SubSeq(all, 1, stop)
           missing == {k \in DOMAIN way : ~Had(pn, way[k], others)}
           i == Min(Stops(r, leaves[stop]))
           found0 ==
             IF missing # {} THEN
                [result |-> "noframe", page |-> way[Min(missing)], entry |-> 0,
                 moved |-> Min(missing) > Len(above) + 1]
             ELSE IF stop > Len(leaves) THEN
                [result |-> "end", page |-> NoPage, entry |-> 0, moved |-> TRUE]
             ELSE
                [result |-> IF High(r, nodes[leaves[stop]].entries[i].key)
                            THEN "high" ELSE "match",
                 page |-> leaves[stop], entry |-> i, moved |-> stop > 1]
<1>1. PICK m \in 1 .. n :
        /\ FirstToSearch(r) = o[m]
        /\ \A x \in 1 .. n : x < m => \A e \in On(o[x]) : Low(r, e.key)
  BY FirstIs
<1>2. n \in Nat \ {0} /\ o \in [1 .. n -> Leaves] /\ InOrder(o, n)
  BY DEF Laid
<1>3. /\ leaves \in Seq(Leaves) /\ Len(leaves) = n - m + 1
      /\ \A k \in 1 .. n - m + 1 : leaves[k] = o[m + k - 1]
  <2>1. /\ ChainFrom(o[m]) \in Seq(Leaves) /\ Len(ChainFrom(o[m])) = n - m + 1
        /\ \A k \in 1 .. n - m + 1 : ChainFrom(o[m])[k] = o[m + k - 1]
    BY <1>2, ChainFromIs
  <2>2. leaves = ChainFrom(o[m])
    BY <1>1
  <2>. HIDE DEF leaves
  <2>. QED
    BY <2>1, <2>2
<1> DEFINE found == Search(r, pn, others)
<1>4. found = found0
  BY DEF Search
<1>. HIDE DEF found
<1>. HIDE DEF leaves, found0
<1>5. DOMAIN leaves = 1 .. n - m + 1 /\ n - m + 1 \in Nat
  BY <1>1, <1>2, <1>3, LenProperties
<1>6. /\ stop \in met \cup {n - m + 2}
      /\ \A x \in met : stop <= x
  <2> DEFINE U == met \cup {Len(leaves) + 1}
  <2>1. U \subseteq Nat /\ U # {} /\ Len(leaves) + 1 = n - m + 2
    BY <1>2, <1>3, <1>5
  <2>2. Min(U) \in U /\ \A y \in U : Min(U) <= y
    <3>. HIDE DEF U
    <3>. QED
      BY <2>1, MinIs
  <2>. HIDE DEF met
  <2>. QED
    BY <2>1, <2>2
<1>. HIDE DEF stop
<1>7. stop \in 1 .. n - m + 2
  BY <1>2, <1>5, <1>6
<1>8. \A x \in 1 .. n - m + 1 : x < stop => Stops(r, leaves[x]) = {}
  BY <1>2, <1>5, <1>6, <1>7
<1>. HIDE DEF met
<1>9. PICK k : k = m + stop - 1
  OBVIOUS
<1>10. k \in 1 .. n + 1 /\ (k \in 1 .. n <=> stop \in 1 .. n - m + 1)
       /\ (k = n + 1 <=> stop = n - m + 2)
  BY <1>1, <1>2, <1>7, <1>9
<1>11. \A x \in 1 .. n : x < k => \A e \in On(o[x]) : Low(r, e.key)
  <2>. SUFFICES ASSUME NEW x \in 1 .. n, x < k, ~(x < m)
                PROVE  \A e \in On(o[x]) : Low(r, e.key)
    BY <1>1
  <2>1. PICK y : y = x - m + 1
    OBVIOUS
  <2>2. y \in 1 .. n - m + 1 /\ y < stop /\ m + y - 1 = x
    BY <1>2, <1>7, <1>9, <2>1
  <2>3. Stops(r, o[x]) = {}
    BY <1>3, <1>8, <2>2
  <2>4. o[x] \in Leaves
    BY <1>2
  <2>. QED
    BY <2>3, <2>4, StopsAre
<1>12. \A j \in 1 .. b[k] : Low(r, Stored[j].key)
  BY <1>10, <1>11, LowBefore
<1>13. CASE missing # {}
  <2>1. missing = DOMAIN way
    <3>1. \A p : ~(p \in DOMAIN pn /\ pn[p] > 0)
      BY DEF NonePinned
    <3>2. \A p, q : Had(pn, p, others) => Had(pn, q, others)
      BY <3>1 DEF Had
    <3>. HIDE DEF way
    <3>. QED
      BY <1>13, <3>2
  <2>2. way \in Seq(Nat)
    <3>1. Leaves \subseteq Nat /\ rootPageNum \in Nat /\ NoPage \in Nat
      BY LeavesAre, RootIs
    <3>2. leaves \in Seq(Nat)
      BY <1>3, <3>1, SeqMonotonic
    <3>3. all \in Seq(Nat) /\ Len(all) = Len(leaves) + 1
      BY <3>1, <3>2, AppendProperties
    <3>. HIDE DEF all
    <3>4. SubSeq(all, 1, stop) \in Seq(Nat)
      <4>1. stop \in Nat /\ 1 <= stop /\ stop <= Len(all)
        BY <1>2, <1>3, <1>5, <1>7, <3>3
      <4>. QED
        BY <3>3, <4>1, PartIs
    <3>5. above \in Seq(Nat)
      BY <3>1
    <3>. HIDE DEF above
    <3>. QED
      BY <3>4, <3>5, ConcatProperties
  <2>3. Len(above) \in Nat
    OBVIOUS
  <2>. HIDE DEF way, above
  <2>4. DOMAIN way = 1 .. Len(way) /\ Len(way) \in Nat
    BY <2>2, LenProperties
  <2>. HIDE DEF missing
  <2>5. 1 \in missing /\ missing \subseteq Nat
    BY <1>13, <2>1, <2>4
  <2>6. Min(missing) \in Nat /\ Min(missing) <= 1
    BY <2>5, MinIs
  <2>7. ~(Min(missing) > Len(above) + 1)
    BY <2>3, <2>6
  <2>8. found.result = "noframe" /\ ~found.moved
    <3>1. found = [result |-> "noframe", page |-> way[Min(missing)], entry |-> 0,
                   moved |-> Min(missing) > Len(above) + 1]
      BY <1>4, <1>13 DEF found0, way, above, missing
    <3>2. found.result = "noframe" /\ found.moved = (Min(missing) > Len(above) + 1)
      BY <3>1
    <3>. QED
      BY <2>7, <3>2
  <2>. QED
    BY <2>8 DEF Finds, found
<1>. HIDE DEF missing
<1>14. CASE missing = {} /\ stop = n - m + 2
  <2>1. stop > Len(leaves)
    BY <1>2, <1>3, <1>5, <1>14
  <2>2. found.result = "end"
    BY <1>4, <1>14, <2>1 DEF found0
  <2>3. b[k] = Len(Stored)
    BY <1>10, <1>14 DEF Laid
  <2>. QED
    BY <1>12, <2>2, <2>3 DEF Finds, found
<1>15. CASE missing = {} /\ stop \in 1 .. n - m + 1
  <2>1. ~(stop > Len(leaves)) /\ k \in 1 .. n
    BY <1>2, <1>3, <1>5, <1>10, <1>15
  <2>2. leaves[stop] = o[k] /\ o[k] \in Leaves
    BY <1>2, <1>3, <1>9, <1>15, <2>1
  <2>3. Stops(r, o[k]) # {}
    <3>1. stop # n - m + 2
      BY <1>2, <1>5, <1>15
    <3>2. stop \in met
      BY <1>6, <3>1
    <3>. QED
      BY <2>2, <3>2 DEF met
  <2>4. i = Min(Stops(r, o[k]))
    BY <2>2
  <2>. HIDE DEF i
  <2>5. i \in Stops(r, o[k]) /\ \A y \in Stops(r, o[k]) : i <= y
    <3>1. Stops(r, o[k]) \subseteq Nat
      BY <2>2, StopsAre
    <3>. QED
      BY <2>3, <2>4, <3>1, MinIs
  <2>6. PICK es : es = nodes[o[k]].entries
    OBVIOUS
  <2>7. /\ i \in 1 .. Len(es) /\ (~Low(r, es[i].key) \/ High(r, es[i].key))
        /\ \A x \in 1 .. Len(es) : x \notin Stops(r, o[k]) => Low(r, es[x].key)
    BY <2>2, <2>5, <2>6, StopsAre
  <2>8. /\ b[k] \in Nat /\ Len(es) \in Nat
        /\ \A x \in 1 .. Len(es) : Stored[b[k] + x] = es[x]
    <3>1. /\ b[k] \in Nat /\ Len(nodes[o[k]].entries) \in Nat
          /\ \A x \in 1 .. Len(nodes[o[k]].entries) :
               Stored[b[k] + x] = nodes[o[k]].entries[x]
      <4>1. PICK q \in 1 .. n : q = k
        BY <2>1
      <4>2. /\ b[q] \in Nat /\ Len(nodes[o[q]].entries) \in Nat
            /\ \A x \in 1 .. Len(nodes[o[q]].entries) :
                 Stored[b[q] + x] = nodes[o[q]].entries[x]
        BY LeafIsPart
      <4>. QED
        BY <4>1, <4>2
    <3>. QED
      BY <2>6, <3>1
  <2>9. ASSUME NEW j \in 1 .. (b[k] + i) - 1 PROVE Low(r, Stored[j].key)
    <3>1. CASE j \in 1 .. b[k]
      BY <1>12, <3>1
    <3>2. CASE j \notin 1 .. b[k]
      <4>1. PICK x : x = j - b[k]
        OBVIOUS
      <4>2. x \in 1 .. Len(es) /\ x < i /\ b[k] + x = j /\ ~(i <= x)
        BY <2>7, <2>8, <3>2, <4>1
      <4>3. x \notin Stops(r, o[k])
        BY <2>5, <4>2
      <4>. QED
        BY <2>7, <2>8, <4>2, <4>3
    <3>. QED
      BY <3>1, <3>2
  <2>10. /\ found.result = (IF High(r, es[i].key) THEN "high" ELSE "match")
         /\ found.page = o[k] /\ found.entry = i
    BY <1>4, <1>15, <2>1, <2>2, <2>6 DEF found0
  <2>11. found.result \in {"match", "high"}
    BY <2>10
  <2>12. FoundAt(found, r, n, o, b, k, i)
    BY <2>6, <2>7, <2>9, <2>10 DEF FoundAt
  <2>. HIDE DEF FoundAt
  <2>. QED
    BY <2>1, <2>6, <2>7, <2>11, <2>12 DEF Finds, found
<1>. QED
  BY <1>2, <1>5, <1>7, <1>13, <1>14, <1>15

-----------------------------------------------------------------------------
(* The cursor of a scan: what was returned are the wanted ones of the      *)
(* first c entries of st, none of the others is too low, and the next one  *)
(* is the one that the page and nextEntry point to.                        *)
OnAt(s, ret, st, n, o, b, k, c) ==
    /\ k \in 1 .. n /\ c \in 0 .. Len(st)
    /\ s.holds /\ s.page = o[k] /\ ret = MatchingIn(s.range, st, c)
    /\ \A j \in c + 1 .. Len(st) : ~Low(s.range, st[j].key)
    /\ \/ s.nextEntry = -1 /\ c = Len(st)
       \/ s.nextEntry = 0 /\ ~s.first /\ k < n /\ c = b[k + 1]
       \/ /\ s.nextEntry >= 0 /\ (s.nextEntry = 0 => s.first)
          /\ c = b[k] + s.nextEntry /\ c < b[k + 1]

OnTrail ==
    \E n, o, b : Laid(n, o, b) /\ \E k, c : OnAt(scan, returned, Stored, n, o, b, k, c)

(* A scan that was told of its end and still holds a page has the first    *)
(* entry of that page, which is too high, before it.                       *)
OverTrail ==
    scan.holds =>
      /\ scan.nextEntry = 0 /\ ~scan.first /\ scan.page \in Leaves
      /\ Len(nodes[scan.page].entries) >= 1
      /\ High(scan.range, nodes[scan.page].entries[1].key)

TrailInv ==
    failures = 0 /\ trail # "off" /\ Linked =>
      /\ IsPrefix(returned, Matching)
      /\ trail = "over" => returned = Matching
      /\ status # "undefined" /\ trail = "on" => OnTrail
      /\ status # "undefined" /\ trail = "over" => OverTrail

(* Where no node changes, what is stored does not change.                  *)
LEMMA SameStored ==
    ASSUME nodes' = nodes, rootPageNum' = rootPageNum
    PROVE  Stored' = Stored /\ Linked' = Linked /\ Leaves' = Leaves
<1>1. Leaves' = Leaves /\ LeavesBelowRoot' = LeavesBelowRoot
  BY SameRoot
<1>2. Chain' = Chain
  BY DEF Chain, ChainFrom
<1>3. Stored' = Stored
  BY <1>2 DEF Stored
<1>. QED
  BY <1>1, <1>2, <1>3 DEF Linked

(* A step that leaves the nodes and the place of the scan alone.           *)
LEMMA TrailKept ==
    ASSUME TrailInv, nodes' = nodes, rootPageNum' = rootPageNum, failures' = failures,
           returned' = returned, trail' = trail,
           scan'.range = scan.range,
           status' # "undefined" => scan' = scan /\ status # "undefined"
    PROVE  TrailInv'
<1>. SUFFICES ASSUME failures = 0, trail # "off", Linked
              PROVE  /\ IsPrefix(returned', Matching')
                     /\ trail' = "over" => returned' = Matching'
                     /\ status' # "undefined" /\ trail' = "on" => OnTrail'
                     /\ status' # "undefined" /\ trail' = "over" => OverTrail'
  BY SameStored DEF TrailInv
<1>1. Stored' = Stored /\ Linked' = Linked /\ Leaves' = Leaves
  BY SameStored
<1>2. Matching' = Matching
  BY <1>1 DEF Matching
<1>3. IsPrefix(returned', Matching') /\ (trail' = "over" => returned' = Matching')
  BY <1>2 DEF TrailInv
<1>4. ASSUME status' # "undefined", trail' = "on" PROVE OnTrail'
  <2>1. OnTrail
    BY <1>4 DEF TrailInv
  <2>2. PICK n, o, b : Laid(n, o, b)
                       /\ \E k, c : OnAt(scan, returned, Stored, n, o, b, k, c)
    BY <2>1 DEF OnTrail
  <2>3. Laid(n, o, b)'
    BY <2>2, SameLaid
  <2>4. \E k, c : OnAt(scan', returned', Stored', n, o, b, k, c)
    BY <1>1, <1>4, <2>2
  <2>. QED
    BY <2>3, <2>4 DEF OnTrail
<1>5. ASSUME status' # "undefined", trail' = "over" PROVE OverTrail'
  <2>1. OverTrail
    BY <1>5 DEF TrailInv
  <2>. QED
    BY <1>1, <1>5, <2>1 DEF OverTrail
<1>. QED
  BY <1>3, <1>4, <1>5

(* A step after which the scan goes on.                                    *)
LEMMA TrailGoesOn ==
    ASSUME nodes' = nodes, rootPageNum' = rootPageNum,
           NEW n, NEW o, NEW b, Laid(n, o, b), trail' = "on",
           NEW k, NEW c, OnAt(scan', returned', Stored, n, o, b, k, c)
    PROVE  TrailInv'
<1>1. Stored' = Stored /\ Laid(n, o, b)'
  BY SameLaid
<1>2. OnTrail'
  BY <1>1 DEF OnTrail
<1>3. IsPrefix(returned', Matching')
  <2>1. Stored \in Seq(Entries)
    BY DEF Laid
  <2>2. IsPrefix(MatchingIn(scan'.range, Stored, c),
                 MatchingIn(scan'.range, Stored, Len(Stored)))
    BY <2>1, MatchingPrefix DEF OnAt
  <2>. QED
    BY <1>1, <2>2 DEF OnAt, Matching
<1>. QED
  BY <1>2, <1>3 DEF TrailInv

(* A step that tells the client that there is no more.                     *)
LEMMA TrailEnds ==
    ASSUME nodes' = nodes, rootPageNum' = rootPageNum, NEW n, NEW o, NEW b,
           Laid(n, o, b), trail' = "over",
           NEW c \in 0 .. Len(Stored), returned' = MatchingIn(scan'.range, Stored, c),
           \A j \in c + 1 .. Len(Stored) : Unwanted(scan'.range, Stored[j]),
           status' # "undefined" => OverTrail'
    PROVE  TrailInv'
<1>1. Stored' = Stored
  BY SameLaid
<1>2. Stored \in Seq(Entries) /\ Len(Stored) \in Nat
  BY LenProperties DEF Laid
<1>3. returned' = MatchingIn(scan'.range, Stored, Len(Stored))
  <2>1. Len(Stored) \in 0 .. Len(Stored) /\ c <= Len(Stored)
    BY <1>2
  <2>. QED
    BY <1>2, <2>1, MatchingSame
<1>4. returned' = Matching'
  BY <1>1, <1>3 DEF Matching
<1>5. IsPrefix(returned', Matching')
  <2>1. Len(Stored) \in 0 .. Len(Stored)
    BY <1>2
  <2>2. IsPrefix(MatchingIn(scan'.range, Stored, Len(Stored)),
                 MatchingIn(scan'.range, Stored, Len(Stored)))
    BY <1>2, <2>1, MatchingPrefix
  <2>. QED
    BY <1>3, <1>4, <2>2
<1>. QED
  BY <1>4, <1>5 DEF TrailInv

(* The order of the stored keys and the bounds of a range.                 *)
LEMMA RangeIn ==
    ASSUME IInv, NEW n, NEW o, NEW b, Laid(n, o, b), NEW r, IsRange(r),
           NEW i \in 1 .. Len(Stored), NEW j \in 1 .. Len(Stored), i <= j
    PROVE  /\ High(r, Stored[i].key) => High(r, Stored[j].key)
           /\ ~Low(r, Stored[i].key) => ~Low(r, Stored[j].key)
<1>1. /\ Stored[i].key \in Int /\ Stored[j].key \in Int
      /\ Stored[i].key <= Stored[j].key
  BY LaidIs
<1>. QED
  BY <1>1, LowDown, HighUp

(* startScan.                                                              *)
LEMMA StartScanTrail ==
    ASSUME IInv, ChainInv, OrderInv, NEW r \in Ranges, NEW others, StartScan(r, others)
    PROVE  TrailInv'
<1>1. /\ call = Idle /\ status = "open" /\ returned' = <<>>
      /\ nodes' = nodes /\ rootPageNum' = rootPageNum /\ failures' = failures
      /\ IsRange(r)
  BY DEF StartScan, CanScan, KeepTree, treeVars, IsRange
<1>. SUFFICES ASSUME failures = 0, trail' # "off", Linked PROVE TrailInv'
  BY <1>1, SameStored DEF TrailInv
<1>2. PICK found :
        /\ found = Search(r, Ended(scan), others)
        /\ LET s == [Begun(r) EXCEPT !.page = found.page,
                                     !.nextEntry = IF found.moved THEN 0 ELSE @]
           IN  \/ /\ found.result = "match"
                  /\ scan' = [s EXCEPT !.nextEntry = found.entry - 1, !.holds = TRUE]
                  /\ outcome' = "started" /\ status' = status
               \/ /\ found.result = "high" /\ scan' = s
                  /\ outcome' = "NoSuchKeyFound" /\ status' = status
               \/ /\ found.result = "end" /\ scan' = [s EXCEPT !.holds = TRUE]
                  /\ outcome' = "NoSuchKeyFound" /\ status' = "undefined"
               \/ /\ found.result = "noframe" /\ scan' = s
                  /\ outcome' = IF found.moved THEN "NoSuchKeyFound"
                                               ELSE "BufferExceeded"
  BY DEF StartScan
<1>3. trail' = CASE outcome' = "started" -> "on"
                 [] outcome' = "NoSuchKeyFound" -> "over"
                 [] OTHER -> "off"
  BY DEF StartScan
<1>4. NonePinned(Ended(scan))
  BY <1>1, EndedIs
<1>5. PICK n, o, b : Laid(n, o, b)
  BY <1>1, LaidOut
<1>6. /\ n \in Nat \ {0} /\ Len(Stored) \in Nat
      /\ MatchingIn(r, Stored, 0) = <<>>
  BY <1>5, LaidIs, MatchingIs
<1>7. ASSUME NEW c \in 0 .. Len(Stored), \A j \in 1 .. c : Low(r, Stored[j].key)
      PROVE  MatchingIn(r, Stored, c) = <<>>
  <2>1. 0 \in 0 .. Len(Stored) /\ 0 <= c /\ \A j \in 0 + 1 .. c : Unwanted(r, Stored[j])
    BY <1>6, <1>7 DEF Unwanted
  <2>. QED
    BY <1>6, <2>1, MatchingSame
<1>8. scan'.range = r /\ scan'.first /\ (found.result # "match" => scan'.page = found.page)
  BY <1>2 DEF Begun
<1>9. Finds(found, r, n, o, b)
  BY <1>1, <1>2, <1>4, <1>5, SearchFinds
<1>10. CASE found.result = "noframe" /\ ~found.moved
  <2>1. trail' = "off"
    BY <1>2, <1>3, <1>10
  <2>. QED
    BY <2>1
<1>11. CASE /\ found.result = "end"
            /\ \A j \in 1 .. Len(Stored) : Low(r, Stored[j].key)
  <2>1. trail' = "over" /\ status' = "undefined"
    BY <1>2, <1>3, <1>11
  <2>2. Len(Stored) \in 0 .. Len(Stored) /\ Len(Stored) + 1 .. Len(Stored) = {}
    BY <1>6
  <2>3. returned' = MatchingIn(scan'.range, Stored, Len(Stored))
    BY <1>1, <1>7, <1>8, <1>11, <2>2
  <2>. QED
    BY <1>1, <1>5, <2>1, <2>2, <2>3, TrailEnds
<1>12. CASE found.result \in {"match", "high"}
  <2>0. PICK k \in 1 .. n : \E i \in 1 .. Len(nodes[o[k]].entries) :
                              FoundAt(found, r, n, o, b, k, i)
    BY <1>9, <1>12 DEF Finds
  <2>1. PICK i \in 1 .. Len(nodes[o[k]].entries) : FoundAt(found, r, n, o, b, k, i)
    BY <2>0
  <2>2. PICK es : es = nodes[o[k]].entries
    OBVIOUS
  <2>3. /\ b[k] \in Nat /\ Len(es) \in Nat /\ i \in 1 .. Len(es)
        /\ b[k + 1] = b[k] + Len(es)
        /\ \A x \in 1 .. Len(es) : b[k] + x \in 1 .. Len(Stored) /\ Stored[b[k] + x] = es[x]
    BY <1>5, <2>1, <2>2, LaidIs
  <2>9. PICK c : c = (b[k] + i) - 1
    OBVIOUS
  <2>4. /\ c \in 0 .. Len(Stored) /\ c + 1 = b[k] + i /\ c < b[k + 1]
        /\ c = b[k] + (i - 1) /\ i - 1 >= 0 /\ c + 1 \in 1 .. Len(Stored)
    <3>1. b[k] + i \in 1 .. Len(Stored)
      BY <2>3
    <3>2. i \in Nat /\ 1 <= i /\ i <= Len(es)
      BY <2>3
    <3>3. b[k] \in Nat /\ Len(es) \in Nat /\ b[k + 1] = b[k] + Len(es)
      BY <2>3
    <3>4. c + 1 = b[k] + i /\ c = b[k] + (i - 1) /\ i - 1 >= 0 /\ c \in Nat
      BY ONLY <2>9, <3>2, <3>3
    <3>5. c + 1 \in 1 .. Len(Stored) /\ c \in 0 .. Len(Stored)
      BY ONLY <1>6, <3>1, <3>4
    <3>6. c < b[k + 1]
      BY ONLY <3>2, <3>3, <3>4
    <3>. QED
      BY <3>4, <3>5, <3>6
  <2>10. Stored[c + 1] = nodes[o[k]].entries[i] /\ \A j \in 1 .. c : Low(r, Stored[j].key)
    BY <2>1, <2>2, <2>3, <2>4, <2>9 DEF FoundAt
  <2>5. returned' = MatchingIn(scan'.range, Stored, c)
    BY <1>1, <1>7, <1>8, <2>4, <2>10
  <2>6. \A j \in c + 1 .. Len(Stored) : j \in 1 .. Len(Stored) /\ c + 1 <= j
    BY <1>6, <2>4
  <2>7. CASE found.result = "match"
    <3>1. trail' = "on"
      BY <1>2, <1>3, <2>7
    <3>2. /\ scan'.holds /\ scan'.page = o[k] /\ scan'.nextEntry = i - 1
      BY <1>2, <2>1, <2>7 DEF Begun, FoundAt
    <3>3. ~Low(r, Stored[c + 1].key)
      BY <2>1, <2>7, <2>10 DEF FoundAt
    <3>4. \A j \in c + 1 .. Len(Stored) : ~Low(r, Stored[j].key)
      BY <1>1, <1>5, <2>4, <2>6, <3>3, RangeIn
    <3>5. OnAt(scan', returned', Stored, n, o, b, k, c)
      BY <1>8, <2>4, <2>5, <3>2, <3>4 DEF OnAt
    <3>. QED
      BY <1>1, <1>5, <3>1, <3>5, TrailGoesOn
  <2>8. CASE found.result = "high"
    <3>1. trail' = "over"
      BY <1>2, <1>3, <2>8
    <3>2. ~scan'.holds
      BY <1>2, <2>8 DEF Begun
    <3>3. High(r, Stored[c + 1].key)
      BY <2>1, <2>8, <2>10 DEF FoundAt
    <3>4. \A j \in c + 1 .. Len(Stored) : Unwanted(scan'.range, Stored[j])
      BY <1>1, <1>5, <1>8, <2>4, <2>6, <3>3, RangeIn DEF Unwanted
    <3>5. OverTrail'
      BY <3>2 DEF OverTrail
    <3>. QED
      BY <1>1, <1>5, <2>4, <2>5, <3>1, <3>4, <3>5, TrailEnds
  <2>. QED
    BY <1>12, <2>7, <2>8
<1>. QED
  BY <1>9, <1>10, <1>11, <1>12 DEF Finds

-----------------------------------------------------------------------------
(* When the scan gives back its page and reads another, there is a frame.  *)
LEMMA FrameForNext ==
    ASSUME IInv, call = Idle, status # "undefined", failures = 0, scan.holds,
           NEW others \in Others, NEW p
    PROVE  Had(Unpinned(scan.page), p, others)
<1>1. OnlyScanPins(scan, pins) /\ scan.page \in DOMAIN pins
  BY IdleIs
<1>2. NonePinned(Unpinned(scan.page))
  BY <1>1, UnpinnedIs
<1>3. PinnedPages = {scan.page}
  BY <1>1 DEF PinnedPages, OnlyScanPins
<1>4. Cardinality(PinnedPages) = 1
  BY <1>3, FS_Singleton
<1>5. others < numBufs /\ others \in Nat
  BY <1>4 DEF Others
<1>6. {q \in DOMAIN Unpinned(scan.page) : Unpinned(scan.page)[q] > 0} = {}
  BY <1>2 DEF NonePinned
<1>7. Cardinality({q \in DOMAIN Unpinned(scan.page) : Unpinned(scan.page)[q] > 0}) = 0
  BY <1>6, FS_EmptySet
<1>. QED
  BY <1>5, <1>7 DEF Had

(* The page that the cursor moves to, and the entry that is read there.    *)
LEMMA NextEntryIs ==
    ASSUME IInv, NEW n, NEW o, NEW b, Laid(n, o, b), NEW k, NEW c,
           OnAt(scan, returned, Stored, n, o, b, k, c), scan.nextEntry >= 0,
           scan.nextEntry \in Int,
           NEW p, p = IF scan.nextEntry = 0 /\ ~scan.first
                      THEN nodes[scan.page].rightSibPageNo ELSE scan.page
    PROVE  \E m \in 1 .. n : p = o[m] /\ c = b[m] + scan.nextEntry
<1>1. n \in Nat \ {0} /\ k \in 1 .. n /\ scan.page = o[k]
  BY LaidIs DEF OnAt
<1>2. CASE scan.nextEntry = 0 /\ ~scan.first
  <2>1. k < n /\ c = b[k + 1]
    BY <1>2 DEF OnAt
  <2>2. k + 1 \in 1 .. n
    BY <1>1, <2>1
  <2>3. nodes[o[k]].rightSibPageNo = o[k + 1]
    <3>1. nodes[o[k]].rightSibPageNo = IF k = n THEN NoPage ELSE o[k + 1]
      BY <1>1 DEF Laid, InOrder
    <3>2. k # n
      BY <1>1, <2>1
    <3>. QED
      BY <3>1, <3>2
  <2>4. b[k + 1] \in Nat
    BY <2>2, LaidIs
  <2>. QED
    BY <1>1, <1>2, <2>1, <2>2, <2>3, <2>4
<1>3. CASE ~(scan.nextEntry = 0 /\ ~scan.first)
  <2>1. c = b[k] + scan.nextEntry
    BY <1>3 DEF OnAt
  <2>. QED
    BY <1>1, <1>3, <2>1
<1>. QED
  BY <1>2, <1>3

(* scanNext with a page.                                                   *)
LEMMA ScanNextTrail ==
    ASSUME IInv, ChainInv, OrderInv, TrailInv, NEW others \in Others, ScanNext(others)
    PROVE  TrailInv'
<1> DEFINE x == scan.nextEntry
           moves == x = 0 /\ ~scan.first
           right == nodes[scan.page].rightSibPageNo
           p == IF moves THEN right ELSE scan.page
           given == Unpinned(scan.page)
           at == [scan EXCEPT !.first = FALSE, !.page = p]
           es == nodes[p].entries
           e == es[x + 1]
<1>1. /\ call = Idle /\ status = "open" /\ scan.executing /\ scan.holds /\ x >= 0
      /\ nodes' = nodes /\ rootPageNum' = rootPageNum /\ failures' = failures
  BY DEF ScanNext, CanScan, KeepTree, treeVars
<1>. SUFFICES ASSUME failures = 0, trail' # "off", Linked PROVE TrailInv'
  BY <1>1, SameStored DEF TrailInv
<1>2. /\ scan \in ScanRecords /\ scan.page \in Leaves
      /\ Leaves \subseteq DOMAIN nodes /\ DOMAIN nodes \subseteq Nat \ {0}
  BY <1>1, IdleIs
<1>3. \/ moves /\ ~Had(given, p, others) /\ Completed /\ status' = status
      \/ /\ scan' = at /\ status' = "undefined" /\ returned' = returned
         /\ trail' = trail
      \/ /\ p # NoPage /\ x + 1 <= Len(es) /\ ~High(scan.range, e.key)
         /\ scan' = [at EXCEPT !.nextEntry = NextPosition(x, p)]
         /\ returned' = (IF trail = "on" THEN Append(returned, e) ELSE <<>>)
         /\ status' = status /\ trail' = trail
      \/ /\ p # NoPage /\ x + 1 <= Len(es) /\ High(scan.range, e.key)
         /\ scan' = [at EXCEPT !.holds = (x = 0)]
         /\ Completed /\ status' = status
  BY DEF ScanNext
<1>4. Had(given, p, others)
  BY <1>1, FrameForNext
<1>5. /\ at.range = scan.range /\ at.page = p /\ ~at.first /\ at.holds
      /\ at.nextEntry = x /\ at \in ScanRecords
      /\ x \in Int /\ IsRange(scan.range)
  <2>1. scan.range.lowVal \in Int /\ scan.range.highVal \in Int /\ x \in Int
    BY <1>2 DEF ScanRecords, Unset
  <2>2. p \in Nat
    <3>1. right \in {NoPage} \cup Leaves
      BY <1>2, KindIs DEF IInv, IsLeaf
    <3>. QED
      BY <1>2, <3>1
  <2>. HIDE DEF p
  <2>3. at \in ScanRecords
    BY <1>2, <2>2 DEF ScanRecords
  <2>. QED
    BY <1>1, <1>2, <2>1, <2>3 DEF ScanRecords, IsRange
<1>6. p # NoPage => p \in Leaves
  <2>1. right \in {NoPage} \cup Leaves
    BY <1>2, KindIs DEF IInv, IsLeaf
  <2>. QED
    BY <1>2, <2>1
<1>. HIDE DEF given, at
<1>7. CASE /\ scan' = at /\ status' = "undefined" /\ returned' = returned
           /\ trail' = trail
  BY <1>1, <1>5, <1>7, TrailKept
<1> DEFINE Found ==
             /\ p # NoPage /\ x + 1 <= Len(es) /\ ~High(scan.range, e.key)
             /\ scan' = [at EXCEPT !.nextEntry = NextPosition(x, p)]
             /\ returned' = (IF trail = "on" THEN Append(returned, e) ELSE <<>>)
             /\ status' = status /\ trail' = trail
           TooHigh ==
             /\ p # NoPage /\ x + 1 <= Len(es) /\ High(scan.range, e.key)
             /\ scan' = [at EXCEPT !.holds = (x = 0)]
             /\ Completed /\ status' = status
<1>8. Found \/ TooHigh \/ (scan' = at /\ status' = "undefined" /\ returned' = returned
                           /\ trail' = trail)
  BY <1>3, <1>4
<1>9. ASSUME trail = "on", Found \/ TooHigh PROVE TrailInv'
  <2>1. OnTrail
    BY <1>1, <1>9 DEF TrailInv
  <2>2. PICK n, o, b : Laid(n, o, b)
                       /\ \E k, c : OnAt(scan, returned, Stored, n, o, b, k, c)
    BY <2>1 DEF OnTrail
  <2>3. PICK k, c : OnAt(scan, returned, Stored, n, o, b, k, c)
    BY <2>2
  <2>4. PICK m \in 1 .. n : p = o[m] /\ c = b[m] + x
    BY <1>1, <1>5, <2>2, <2>3, NextEntryIs
  <2>5. /\ n \in Nat \ {0} /\ Len(Stored) \in Nat /\ b[m] \in Nat
        /\ Len(es) \in Nat /\ b[m + 1] = b[m] + Len(es)
        /\ \A i \in 1 .. Len(es) : b[m] + i \in 1 .. Len(Stored) /\ Stored[b[m] + i] = es[i]
    <3>1. /\ n \in Nat \ {0} /\ Len(Stored) \in Nat /\ b[m] \in Nat
          /\ Len(nodes[o[m]].entries) \in Nat
          /\ b[m + 1] = b[m] + Len(nodes[o[m]].entries)
          /\ \A i \in 1 .. Len(nodes[o[m]].entries) :
               /\ b[m] + i \in 1 .. Len(Stored)
               /\ Stored[b[m] + i] = nodes[o[m]].entries[i]
      <4>1. n \in Nat \ {0} /\ Len(Stored) \in Nat
        BY <2>2, LaidIs
      <4>. QED
        BY <2>2, <4>1, LeafIsPart
    <3>. QED
      BY <2>4, <3>1
  <2>6. /\ x + 1 \in 1 .. Len(es) /\ c + 1 = b[m] + (x + 1)
        /\ c \in Nat /\ x \in Nat
    <3>1. x + 1 <= Len(es)
      BY <1>9
    <3>2. Len(es) \in Nat /\ b[m] \in Nat
      BY <2>5
    <3>. HIDE DEF x, es
    <3>. QED
      BY <1>1, <1>5, <2>4, <3>1, <3>2 DEF x
  <2>7. c + 1 \in 1 .. Len(Stored) /\ Stored[c + 1] = e
    <3>1. PICK i \in 1 .. Len(es) : i = x + 1
      BY <2>6
    <3>2. b[m] + i \in 1 .. Len(Stored) /\ Stored[b[m] + i] = es[i]
      BY <2>5, <3>1
    <3>3. b[m] + i = c + 1 /\ es[i] = e
      BY <2>6, <3>1
    <3>. QED
      BY <3>2, <3>3
  <2>8. /\ returned = MatchingIn(scan.range, Stored, c)
        /\ \A j \in c + 1 .. Len(Stored) : ~Low(scan.range, Stored[j].key)
        /\ c \in 0 .. Len(Stored)
    BY <2>3 DEF OnAt
  <2>. HIDE DEF p, moves, es, e
  <2>9. CASE Found
    <3>1. trail' = "on" /\ returned' = Append(returned, e) /\ ~High(scan.range, e.key)
          /\ scan' = [at EXCEPT !.nextEntry = NextPosition(x, p)]
      BY <1>9, <2>9
    <3>2. returned' = MatchingIn(scan.range, Stored, c + 1)
      <4>1. ~Unwanted(scan.range, Stored[c + 1])
        <5>1. c + 1 \in c + 1 .. Len(Stored)
          BY <2>5, <2>6, <2>7
        <5>. QED
          BY <2>7, <2>8, <3>1, <5>1 DEF Unwanted
      <4>2. MatchingIn(scan.range, Stored, c + 1)
              = FilterStep(MatchingIn(scan.range, Stored, (c + 1) - 1), scan.range,
                           Stored[c + 1])
        <5>1. \A j \in 1 .. Len(Stored) :
                MatchingIn(scan.range, Stored, j)
                  = FilterStep(MatchingIn(scan.range, Stored, j - 1), scan.range, Stored[j])
          BY <2>5, MatchingIs
        <5>. QED
          BY <2>7, <5>1
      <4>3. (c + 1) - 1 = c
        BY <2>6
      <4>. QED
        BY <2>7, <2>8, <3>1, <4>1, <4>2, <4>3 DEF FilterStep
    <3>3. /\ scan'.range = scan.range /\ scan'.page = o[m] /\ scan'.holds /\ ~scan'.first
          /\ scan'.nextEntry = NextPosition(x, p)
      BY <1>5, <2>4, <3>1 DEF ScanRecords
    <3>4. \A j \in (c + 1) + 1 .. Len(Stored) : ~Low(scan.range, Stored[j].key)
      <4>1. \A j \in (c + 1) + 1 .. Len(Stored) : j \in c + 1 .. Len(Stored)
        BY <2>5, <2>6
      <4>. QED
        BY <2>8, <4>1
    <3>5. /\ (x + 1 < Len(es)) => NextPosition(x, p) = x + 1
          /\ ~(x + 1 < Len(es)) =>
               NextPosition(x, p) = IF nodes[p].rightSibPageNo # NoPage THEN 0 ELSE -1
      BY DEF NextPosition, es
    <3>6. CASE x + 1 < Len(es)
      <4>1. /\ scan'.nextEntry = x + 1 /\ x + 1 >= 0 /\ x + 1 # 0
            /\ c + 1 < b[m + 1]
        <5>1. Len(es) \in Nat /\ b[m] \in Nat /\ b[m + 1] = b[m] + Len(es)
          BY <2>5
        <5>2. x \in Nat /\ c \in Nat /\ c + 1 = b[m] + (x + 1)
          BY <2>6
        <5>3. scan'.nextEntry = x + 1
          BY <3>3, <3>5, <3>6
        <5>. HIDE DEF x
        <5>4. c + 1 < b[m + 1]
          BY <3>6, <5>1, <5>2
        <5>. QED
          BY <5>2, <5>3, <5>4
      <4>2. c + 1 \in 0 .. Len(Stored)
        BY <2>7
      <4>3. OnAt(scan', returned', Stored, n, o, b, m, c + 1)
        BY <2>6, <3>2, <3>3, <3>4, <4>1, <4>2 DEF OnAt
      <4>. QED
        BY <1>1, <2>2, <3>1, <4>3, TrailGoesOn
    <3>7. CASE ~(x + 1 < Len(es))
      <4>1. c + 1 = b[m + 1] /\ c + 1 \in 0 .. Len(Stored)
        <5>1. Len(es) \in Nat /\ b[m] \in Nat /\ b[m + 1] = b[m] + Len(es)
          BY <2>5
        <5>2. x + 1 = Len(es)
          BY <2>6, <3>7, <5>1
        <5>. QED
          BY <2>6, <2>7, <5>1, <5>2
      <4>2. nodes[o[m]].rightSibPageNo = IF m = n THEN NoPage ELSE o[m + 1]
        BY <2>2 DEF Laid, InOrder
      <4>3. CASE m = n
        <5>1. scan'.nextEntry = -1 /\ c + 1 = Len(Stored)
          BY <2>2, <2>4, <3>3, <3>5, <3>7, <4>1, <4>2, <4>3 DEF Laid
        <5>2. OnAt(scan', returned', Stored, n, o, b, m, c + 1)
          BY <3>2, <3>3, <3>4, <4>1, <5>1 DEF OnAt
        <5>. QED
          BY <1>1, <2>2, <3>1, <5>2, TrailGoesOn
      <4>4. CASE m # n
        <5>1. m < n /\ m + 1 \in 1 .. n
          BY <2>5, <4>4
        <5>2. o[m + 1] # NoPage
          <6>1. o[m + 1] \in Leaves
            BY <2>2, <5>1 DEF Laid
          <6>. QED
            BY <6>1, LeavesAre
        <5>3. scan'.nextEntry = 0
          BY <2>4, <3>3, <3>5, <3>7, <4>2, <4>4, <5>2
        <5>4. OnAt(scan', returned', Stored, n, o, b, m, c + 1)
          BY <3>2, <3>3, <3>4, <4>1, <5>1, <5>3 DEF OnAt
        <5>. QED
          BY <1>1, <2>2, <3>1, <5>4, TrailGoesOn
      <4>. QED
        BY <4>3, <4>4
    <3>. QED
      BY <3>6, <3>7
  <2>10. CASE TooHigh
    <3>1. /\ trail' = "over" /\ returned' = returned /\ High(scan.range, e.key)
          /\ scan' = [at EXCEPT !.holds = (x = 0)] /\ p # NoPage
      BY <1>9, <2>10 DEF Completed
    <3>2. /\ scan'.range = scan.range /\ scan'.page = p /\ ~scan'.first
          /\ scan'.nextEntry = x /\ (scan'.holds <=> x = 0)
      BY <1>5, <3>1 DEF ScanRecords
    <3>3. High(scan.range, Stored[c + 1].key)
      BY <2>7, <3>1
    <3>4. \A j \in c + 1 .. Len(Stored) : j \in 1 .. Len(Stored) /\ c + 1 <= j
      BY <2>5, <2>6
    <3>5. \A j \in c + 1 .. Len(Stored) : Unwanted(scan'.range, Stored[j])
      BY <1>5, <2>2, <2>7, <3>2, <3>3, <3>4, RangeIn DEF Unwanted
    <3>6. OverTrail'
      <4>. SUFFICES ASSUME scan'.holds
                    PROVE  /\ scan'.nextEntry = 0 /\ ~scan'.first /\ scan'.page \in Leaves'
                           /\ Len(nodes'[scan'.page].entries) >= 1
                           /\ High(scan'.range, nodes'[scan'.page].entries[1].key)
        BY DEF OverTrail
      <4>1. x = 0 /\ x + 1 = 1
        BY <3>2
      <4>2. e = nodes[p].entries[1] /\ es = nodes[p].entries
        BY <4>1 DEF e, es
      <4>3. Leaves' = Leaves
        BY <1>1, SameStored
      <4>4. Len(es) >= 1
        BY <2>5, <2>6, <4>1
      <4>. QED
        BY <1>1, <1>6, <3>1, <3>2, <4>1, <4>2, <4>3, <4>4
    <3>. QED
      BY <1>1, <2>2, <2>8, <3>1, <3>2, <3>5, <3>6, TrailEnds
  <2>. QED
    BY <1>9, <2>9, <2>10
<1>10. ASSUME trail = "over", Found PROVE FALSE
  <2>1. OverTrail
    BY <1>1, <1>10 DEF TrailInv
  <2>2. /\ x = 0 /\ moves /\ Len(nodes[scan.page].entries) >= 1
        /\ High(scan.range, nodes[scan.page].entries[1].key)
    BY <1>1, <2>1 DEF OverTrail
  <2>3. PICK n, o, b : Laid(n, o, b)
    BY <1>1, LaidOut
  <2>4. n \in Nat \ {0} /\ Len(Stored) \in Nat
    BY <2>3, LaidIs
  <2>5. PICK k \in 1 .. n : o[k] = scan.page
    BY <1>2, <2>3 DEF Laid, InOrder
  <2>6. p = (IF k = n THEN NoPage ELSE o[k + 1]) /\ p # NoPage
    BY <1>10, <2>2, <2>3, <2>5 DEF Laid, InOrder
  <2>7. k + 1 \in 1 .. n /\ p = o[k + 1]
    BY <2>4, <2>6
  <2>8. PICK fs : fs = nodes[scan.page].entries
    OBVIOUS
  <2>9. /\ b[k] \in Nat /\ Len(fs) \in Nat /\ b[k + 1] = b[k] + Len(fs)
        /\ \A i \in 1 .. Len(fs) : b[k] + i \in 1 .. Len(Stored) /\ Stored[b[k] + i] = fs[i]
    <3>1. /\ b[k] \in Nat /\ Len(nodes[o[k]].entries) \in Nat
          /\ b[k + 1] = b[k] + Len(nodes[o[k]].entries)
          /\ \A i \in 1 .. Len(nodes[o[k]].entries) :
               /\ b[k] + i \in 1 .. Len(Stored)
               /\ Stored[b[k] + i] = nodes[o[k]].entries[i]
      BY <2>3, LeafIsPart
    <3>. QED
      BY <2>5, <2>8, <3>1
  <2>10. /\ Len(es) \in Nat
         /\ \A i \in 1 .. Len(es) : b[k + 1] + i \in 1 .. Len(Stored)
                                    /\ Stored[b[k + 1] + i] = es[i]
    <3>1. /\ Len(nodes[o[k + 1]].entries) \in Nat
          /\ \A i \in 1 .. Len(nodes[o[k + 1]].entries) :
               /\ b[k + 1] + i \in 1 .. Len(Stored)
               /\ Stored[b[k + 1] + i] = nodes[o[k + 1]].entries[i]
      <4>1. PICK q \in 1 .. n : q = k + 1
        BY <2>7
      <4>2. /\ Len(nodes[o[q]].entries) \in Nat
            /\ \A i \in 1 .. Len(nodes[o[q]].entries) :
                 /\ b[q] + i \in 1 .. Len(Stored)
                 /\ Stored[b[q] + i] = nodes[o[q]].entries[i]
        BY <2>3, LeafIsPart
      <4>. QED
        BY <4>1, <4>2
    <3>. QED
      BY <2>7, <3>1
  <2>11. 1 \in 1 .. Len(fs) /\ 1 \in 1 .. Len(es) /\ e = es[1] /\ ~High(scan.range, es[1].key)
    <3>1. 1 <= Len(fs)
      BY <2>2, <2>8, <2>9
    <3>2. 1 <= Len(es) /\ e = es[1] /\ ~High(scan.range, e.key)
      BY <1>10, <2>2
    <3>. HIDE DEF es, e
    <3>. QED
      BY <2>9, <2>10, <3>1, <3>2
  <2>. HIDE DEF p, moves, es, e, x
  <2>12. /\ b[k] + 1 \in 1 .. Len(Stored) /\ b[k + 1] + 1 \in 1 .. Len(Stored)
         /\ Stored[b[k] + 1] = fs[1] /\ Stored[b[k + 1] + 1] = es[1]
    BY <2>9, <2>10, <2>11
  <2>13. b[k] + 1 <= b[k + 1] + 1
    BY <2>9
  <2>14. High(scan.range, Stored[b[k] + 1].key)
    BY <2>2, <2>8, <2>12
  <2>15. High(scan.range, Stored[b[k + 1] + 1].key)
    BY <1>5, <2>3, <2>12, <2>13, <2>14, RangeIn
  <2>. QED
    BY <2>11, <2>12, <2>15
<1>11. ASSUME trail = "over", TooHigh PROVE FALSE
  BY <1>11 DEF Completed
<1>12. trail # "off" /\ trail \in {"on", "over", "off"}
  <2>1. trail \in {"on", "over", "off"}
    BY DEF IInv, ScanInv
  <2>. QED
    BY <1>3, <2>1 DEF Completed
<1>. HIDE DEF Found, TooHigh
<1>. QED
  BY <1>7, <1>8, <1>9, <1>10, <1>11, <1>12

(* scanNext after the last entry of the last leaf.                         *)
LEMMA NextAfterLastTrail ==
    ASSUME IInv, TrailInv, NextAfterLast
    PROVE  TrailInv'
<1>1. /\ call = Idle /\ status = "open" /\ status' = status /\ -1 \in NextEntries
      /\ nodes' = nodes /\ rootPageNum' = rootPageNum /\ failures' = failures
  BY DEF NextAfterLast, CanScan, KeepTree, treeVars
<1>. SUFFICES ASSUME failures = 0, trail' # "off", Linked PROVE TrailInv'
  BY <1>1, SameStored DEF TrailInv
<1>2. /\ trail = "on" /\ trail' = "over" /\ returned' = returned
      /\ scan' = [scan EXCEPT !.page = NoPage, !.holds = FALSE, !.nextEntry = -1]
  BY DEF NextAfterLast, Completed, Untold
<1>3. scan \in ScanRecords
  BY <1>1, IdleIs
<1>4. scan'.range = scan.range /\ ~scan'.holds
  BY <1>2, <1>3 DEF ScanRecords
<1>5. scan.nextEntry \in {-1, Unset}
  BY <1>1 DEF NextEntries
<1>6. PICK n, o, b : Laid(n, o, b)
                     /\ \E k, c : OnAt(scan, returned, Stored, n, o, b, k, c)
  BY <1>1, <1>2 DEF TrailInv, OnTrail
<1>7. PICK k, c : OnAt(scan, returned, Stored, n, o, b, k, c)
  BY <1>6
<1>8. c = Len(Stored) /\ c \in 0 .. Len(Stored)
      /\ returned = MatchingIn(scan.range, Stored, c)
  BY <1>5, <1>7 DEF OnAt, Unset
<1>9. Len(Stored) \in Nat
  BY <1>6, LaidIs
<1>10. \A j \in c + 1 .. Len(Stored) : Unwanted(scan'.range, Stored[j])
  BY <1>8, <1>9
<1>11. OverTrail'
  BY <1>4 DEF OverTrail
<1>. QED
  BY <1>1, <1>2, <1>4, <1>6, <1>8, <1>10, <1>11, TrailEnds

(* scanNext without a page.                                                *)
LEMMA NextUnheldTrail ==
    ASSUME IInv, TrailInv, NEW n, NEW high, NEW others, NextUnheld(n, high, others)
    PROVE  TrailInv'
<1>1. /\ status = "open" /\ ~scan.holds
      /\ nodes' = nodes /\ rootPageNum' = rootPageNum /\ failures' = failures
  BY DEF NextUnheld, CanScan, KeepTree, treeVars
<1>2. \/ status' = "undefined" /\ UNCHANGED scanVars
      \/ Completed \/ trail' = "off"
  BY DEF NextUnheld, Untold
<1>. SUFFICES ASSUME failures = 0, trail' # "off", Linked PROVE TrailInv'
  BY <1>1, SameStored DEF TrailInv
<1>3. CASE status' = "undefined" /\ UNCHANGED scanVars
  BY <1>1, <1>3, TrailKept DEF scanVars
<1>4. CASE Completed
  <2>1. trail = "on"
    BY <1>4 DEF Completed
  <2>2. OnTrail
    BY <1>1, <2>1 DEF TrailInv
  <2>3. scan.holds
    BY <2>2 DEF OnTrail, OnAt
  <2>. QED
    BY <1>1, <2>3
<1>. QED
  BY <1>2, <1>3, <1>4

LEMMA TrailStep ==
    ASSUME IInv, ChainInv, OrderInv, TrailInv, [NextIndex]_<<vars, scanVars>>
    PROVE  TrailInv'
<1>1. rootPageNum = rootPageNo
  BY DEF IInv, PagesInv
<1>2. ASSUME NEW r, StartRefused(r) PROVE TrailInv'
  BY <1>2, TrailKept DEF StartRefused, vars, CanScan
<1>3. StartMiscast => TrailInv'
  BY TrailKept DEF StartMiscast, KeepTree, treeVars, scanVars
<1>4. Reopen => TrailInv'
  BY <1>1, TrailKept DEF Reopen, scanVars
<1>5. Stopped \/ UNCHANGED <<vars, scanVars>> => TrailInv'
  BY TrailKept DEF Stopped, vars, scanVars
<1>6. InsertStep \/ NextRefused \/ EndScan \/ Close => TrailInv'
  <2>1. InsertStep \/ NextRefused \/ EndScan \/ Close => trail' = "off"
    BY DEF InsertStep, NextRefused, EndScan, Close, Untold
  <2>. QED
    BY <2>1 DEF TrailInv
<1>. QED
  BY <1>2, <1>3, <1>4, <1>5, <1>6, StartScanTrail, ScanNextTrail, NextAfterLastTrail,
     NextUnheldTrail DEF NextIndex

(* Between the calls of startScan and scanNext, the page and the position  *)
(* that the index keeps stand for a place in the order of all entries:     *)
(* what is wanted before it has been returned, and nothing after it is too *)
(* low.  The mark 0 is the first entry of the next leaf or of the leaf the *)
(* scan begins at, whichever first says, and -1 is the end of the last.    *)
THEOREM InductiveTrail == SpecIndex => [](AllInv /\ OrderInv /\ TrailInv)
<1>1. InitIndex => AllInv /\ OrderInv /\ TrailInv
  <2>1. InitIndex => TrailInv
    BY DEF InitIndex, TrailInv
  <2>. QED
    BY <2>1, InitInv, ContentInit, OrderInit DEF AllInv
<1>2. AllInv /\ OrderInv /\ TrailInv /\ [NextIndex]_<<vars, scanVars>>
        => (AllInv /\ OrderInv /\ TrailInv)'
  BY StepInv, ContentStep, OrderStep, TrailStep DEF AllInv, ContentInv
<1>. QED
  BY <1>1, <1>2, PTL DEF SpecIndex

(* ScanExact of BTreeIndex: for leaves and nodes of any size, any keys and *)
(* any range, a scan of an index that no insertion disturbs returns the    *)
(* entries of the range, in order, each once and none left out, although   *)
(* startScan reads the keys of an inner node from one word too far.        *)
THEOREM ScanTellsAll == SpecIndex => []ScanExact
<1>1. TrailInv => ScanExact
  BY DEF TrailInv, ScanExact
<1>. QED
  BY <1>1, InductiveTrail, PTL

=============================================================================
