------------------------------- MODULE BTree -------------------------------
(***************************************************************************)
(* Insertion into the B+ tree index of the third assignment                *)
(* (src/p3/src/btree.cpp): nodes on the pages of one file, read and        *)
(* changed while they are pinned in the buffer pool.  BTreeIndex adds the  *)
(* scans, the destructor and the reopening.                                *)
(*                                                                         *)
(* insertEntry is a run of steps: one per level on the way down, one per   *)
(* level on the way up, and one for every page that a split allocates,     *)
(* because each of them may find the pool full and throw.  Other users of  *)
(* the pool run between the calls only; a call finds some frames pinned by *)
(* them.                                                                   *)
(*                                                                         *)
(* The buffer manager is taken at its promise: a page is had when it is    *)
(* pinned already or when some frame is not pinned, and what is changed    *)
(* while pinned and given back dirty is what the next reader sees.         *)
(***************************************************************************)
EXTENDS Integers, FiniteSets, SequencesExt

CONSTANTS
    Keys,           \* the integers that are inserted
    pageWords,      \* size of a page in words of four bytes (2048 in the code)
    numBufs,        \* frames of the pool
    MaxEntries,     \* bound: entries inserted
    MaxFailures     \* bound: calls that find the pool full

ASSUME KeysAssumption == Keys \subseteq Int

(* INTARRAYLEAFSIZE: a sibling, then a key and a record id of two words    *)
(* each.  INTARRAYNONLEAFSIZE: a level and one page, then a key and a page *)
(* each.  Neither counts the word that numEntries takes.                   *)
leafOccupancy == (pageWords - 1) \div 3
nodeOccupancy == (pageWords - 2) \div 2

(* So it is in the code: 682 entries in a leaf, 1023 keys in a node. *)
ASSUME PageAssumption ==
    /\ pageWords \in Nat /\ nodeOccupancy >= 2
    /\ leafOccupancy > 0 /\ leafOccupancy % 2 = 0
    /\ 3 * leafOccupancy + 2 <= pageWords

(* The constructor of a new index has two pages pinned at a time. *)
ASSUME BoundsAssumption ==
    /\ numBufs \in Nat /\ numBufs >= 2
    /\ MaxEntries \in Nat /\ MaxFailures \in Nat

NoPage == 0
headerPageNum == 1
firstLeaf == 2

VARIABLES
    nodes,          \* page -> the node on it
    rootPageNo,     \* in the meta page: the root
    rootPageNum, initRootPageNum,   \* members of the BTreeIndex object
    pins,           \* page -> its pin count
    unmarked,       \* pages changed and not yet given back as dirty
    status,         \* of the BTreeIndex object
    call,           \* the insertEntry in progress
    thrown,         \* the exception the last call ended with
    failures,       \* how many calls found the pool full
    inserted        \* the entries whose insertEntry has returned

treeVars == <<nodes, rootPageNo, rootPageNum, initRootPageNum>>
objectVars == <<status, failures>>
vars == <<nodes, rootPageNo, rootPageNum, initRootPageNum, pins, unmarked,
          status, call, thrown, failures, inserted>>

Leaf(es, sibling) ==
    [kind |-> "leaf", entries |-> es, rightSibPageNo |-> sibling]

NonLeaf(level, keys, pages) ==
    [kind |-> "nonleaf", level |-> level,
     keyArray |-> keys, pageNoArray |-> pages]

NoPivot == [pageNo |-> NoPage, key |-> 0]
NoSplit == [curr |-> NoPage, next |-> NoPage, pivot |-> NoPivot]

Idle == [pc |-> "idle", key |-> 0, rid |-> 0, leaf |-> FALSE,
         path |-> <<>>, pivot |-> NoPivot, split |-> NoSplit, others |-> 0]

(* A new index: the meta page and an empty leaf as root. *)
Init ==
    /\ nodes = [p \in {firstLeaf} |-> Leaf(<<>>, NoPage)]
    /\ rootPageNo = firstLeaf
    /\ rootPageNum = firstLeaf
    /\ initRootPageNum = firstLeaf
    /\ pins = [p \in {headerPageNum, firstLeaf} |-> 0]
    /\ unmarked = {}
    /\ status = "open"
    /\ call = Idle
    /\ thrown = "none"
    /\ failures = 0
    /\ inserted = {}

-----------------------------------------------------------------------------
(* The buffer pool and the file below it. *)
PinnedPages == {p \in DOMAIN pins : pins[p] > 0}

FrameBeside(others) == Cardinality(PinnedPages) + others < numBufs
FreeFrame == FrameBeside(call.others)

Room(p) == pins[p] > 0 \/ FreeFrame

(* BlobFile gives out page numbers in order. *)
NewPage == Cardinality(DOMAIN pins) + 1

(* A table of pages with one more page. *)
Grown(table, p, x) == [q \in DOMAIN table \cup {p} |-> IF q = p THEN x ELSE table[q]]

Throw ==
    /\ call' = Idle
    /\ thrown' = "BufferExceeded"
    /\ failures' = failures + 1
    /\ UNCHANGED <<nodes, rootPageNo, rootPageNum, initRootPageNum, pins,
                   unmarked, status, inserted>>

(* Where a key goes among keys: before the first one that is greater. *)
Position(keys, key) ==
    Min({i \in DOMAIN keys : key < keys[i]} \cup {Len(keys) + 1})

KeysOf(es) == [i \in DOMAIN es |-> es[i].key]

(* addEntry for a leaf. *)
(* Slip: the default place, the end, is never changed. *)
AddToLeaf_AtEnd(es, e) == Append(es, e)

AddToLeaf(es, e) == InsertAt(es, Position(KeysOf(es), e.key), e)

(* addEntry for an inner node. *)
AddToNonLeaf(node, pivot) ==
    LET i == Position(node.keyArray, pivot.key) IN
    [node EXCEPT !.keyArray = InsertAt(@, i, pivot.key),
                 !.pageNoArray = InsertAt(@, i + 1, pivot.pageNo)]

curr == Last(call.path)
Entry == [key |-> call.key, rid |-> call.rid]

-----------------------------------------------------------------------------
(* insertEntry reads the root, and takes it for a leaf if it is the page   *)
(* the index began with.                                                   *)
InsertEntry(key, others) ==
    /\ status = "open" /\ call = Idle
    /\ Cardinality(inserted) < MaxEntries /\ failures < MaxFailures
    /\ IF pins[rootPageNum] > 0 \/ FrameBeside(others)
       THEN /\ call' = [Idle EXCEPT !.pc = "down", !.key = key,
                          !.rid = Cardinality(inserted) + 1,
                          !.leaf = (rootPageNum = initRootPageNum),
                          !.path = <<rootPageNum>>, !.others = others]
            /\ pins' = [pins EXCEPT ![rootPageNum] = @ + 1]
            /\ thrown' = "none"
            /\ UNCHANGED <<treeVars, objectVars, unmarked, inserted>>
       ELSE Throw

(* What a page cast to the wrong kind of node does to the tree is not      *)
(* modelled: nothing is said of the index from here on.                    *)
Misread ==
    /\ call.pc = "down" /\ call.leaf # (nodes[curr].kind = "leaf")
    /\ status' = "undefined"
    /\ call' = Idle
    /\ UNCHANGED <<treeVars, pins, unmarked, failures, thrown, inserted>>

AtNonLeaf == call.pc = "down" /\ ~call.leaf /\ nodes[curr].kind = "nonleaf"
AtLeaf == call.pc = "down" /\ call.leaf /\ nodes[curr].kind = "leaf"

(* One level down: the parent stays pinned. *)
Descend ==
    /\ AtNonLeaf
    /\ LET node == nodes[curr]
           next == node.pageNoArray[Position(node.keyArray, call.key)]
       IN  IF Room(next)
           THEN /\ call' = [call EXCEPT !.path = Append(@, next),
                                        !.leaf = (node.level = 1)]
                /\ pins' = [pins EXCEPT ![next] = @ + 1]
                /\ UNCHANGED <<treeVars, objectVars, unmarked, thrown,
                               inserted>>
           ELSE Throw

(* recInsertEntry returns to the level above, or to the caller. *)
ReturnWith(pivot) ==
    IF Len(call.path) = 1
    THEN /\ call' = Idle
         /\ inserted' = inserted \cup {Entry}
         /\ UNCHANGED thrown
    ELSE /\ call' = [call EXCEPT !.pc = "up", !.path = Front(@),
                                 !.pivot = pivot, !.split = NoSplit]
         /\ UNCHANGED <<inserted, thrown>>

UnPinCurr == pins' = [pins EXCEPT ![curr] = @ - 1]

LeafAdd ==
    /\ AtLeaf /\ Len(nodes[curr].entries) < leafOccupancy
    /\ nodes' = [nodes EXCEPT ![curr].entries = AddToLeaf(@, Entry)]
    /\ UnPinCurr
    /\ ReturnWith(NoPivot)
    /\ UNCHANGED <<rootPageNo, rootPageNum, initRootPageNum, objectVars,
                   unmarked>>

-----------------------------------------------------------------------------
(* addEntryAndSplit.  The node `child' is the one that it was told is the  *)
(* current one: it decides whether the root has to grow.                   *)
SplitDone(child, next, pivot) ==
    call' = [call EXCEPT
               !.split = [curr |-> child, next |-> next, pivot |-> pivot],
               !.pc = IF child = rootPageNum THEN "newroot" ELSE "finish"]

(* Slip: the entry below the cut is copied as well. *)
UpperHalf_OneMore(es) == SubSeq(es, (leafOccupancy + 1) \div 2, leafOccupancy)

UpperHalf(es) == SubSeq(es, (leafOccupancy + 1) \div 2 + 1, leafOccupancy)

(* The upper half of a full leaf moves to a new leaf on its right. *)
LeafSplit ==
    /\ AtLeaf /\ Len(nodes[curr].entries) >= leafOccupancy
    /\ IF ~FreeFrame THEN Throw ELSE
       LET es == nodes[curr].entries
           splitIndex == (leafOccupancy + 1) \div 2
           lower == SubSeq(es, 1, leafOccupancy - splitIndex)
           upper == UpperHalf(es)
           goesRight == call.key > es[splitIndex].key
           right == IF goesRight THEN AddToLeaf(upper, Entry) ELSE upper
           left == IF goesRight THEN lower ELSE AddToLeaf(lower, Entry)
           next == NewPage
       IN  /\ nodes' = Grown([nodes EXCEPT ![curr] = Leaf(left, next)],
                          next, Leaf(right, nodes[curr].rightSibPageNo))
           /\ pins' = Grown(pins, next, 0)
           /\ unmarked' = unmarked \cup {curr}
           /\ SplitDone(curr, next, [pageNo |-> next, key |-> right[1].key])
           /\ UNCHANGED <<rootPageNo, rootPageNum, initRootPageNum,
                          objectVars, thrown, inserted>>

NoSplitBelow ==
    /\ call.pc = "up" /\ call.pivot = NoPivot
    /\ UnPinCurr
    /\ ReturnWith(NoPivot)
    /\ UNCHANGED <<treeVars, objectVars, unmarked>>

AddPivot ==
    /\ call.pc = "up" /\ call.pivot # NoPivot
    /\ Len(nodes[curr].keyArray) < nodeOccupancy
    /\ nodes' = [nodes EXCEPT ![curr] = AddToNonLeaf(@, call.pivot)]
    /\ UnPinCurr
    /\ ReturnWith(NoPivot)
    /\ UNCHANGED <<rootPageNo, rootPageNum, initRootPageNum, objectVars,
                   unmarked>>

(* The upper part of a full inner node moves to a new one.  The child at   *)
(* the cut stays in both; the key and page handed up are read from the     *)
(* arrays as the insertion has left them.                                  *)
NonLeafSplit ==
    /\ call.pc = "up" /\ call.pivot # NoPivot
    /\ Len(nodes[curr].keyArray) >= nodeOccupancy
    /\ IF ~FreeFrame THEN Throw ELSE
       LET node == nodes[curr]
           s == (nodeOccupancy + 1) \div 2
           lower == NonLeaf(node.level, SubSeq(node.keyArray, 1, s),
                            SubSeq(node.pageNoArray, 1, s + 1))
           upper == NonLeaf(node.level,
                            SubSeq(node.keyArray, s + 1, nodeOccupancy),
                            SubSeq(node.pageNoArray, s + 1, nodeOccupancy + 1))
           goesRight == call.pivot.key > node.keyArray[s]
           right == IF goesRight THEN AddToNonLeaf(upper, call.pivot)
                                 ELSE upper
           left == IF goesRight THEN lower
                                ELSE AddToNonLeaf(lower, call.pivot)
           pivotKey == IF goesRight THEN node.keyArray[s + 1]
                                    ELSE left.keyArray[s + 1]
           next == NewPage
       IN  /\ nodes' = Grown([nodes EXCEPT ![curr] = left], next, right)
           /\ pins' = Grown(pins, next, 0)
           /\ unmarked' = unmarked \cup {curr}
           /\ call' = [call EXCEPT !.pc = "reread",
                         !.split.next = next,
                         !.split.pivot = [pageNo |-> right.pageNoArray[1],
                                          key |-> pivotKey]]
           /\ UNCHANGED <<rootPageNo, rootPageNum, initRootPageNum,
                          objectVars, thrown, inserted>>

(* The split of an inner node was given the child's page number as its     *)
(* own: it reads that page, and asks whether that page is the root.        *)
Reread ==
    /\ call.pc = "reread"
    /\ IF Room(call.pivot.pageNo)
       THEN /\ pins' = [pins EXCEPT ![call.pivot.pageNo] = @ + 1]
            /\ SplitDone(call.pivot.pageNo, call.split.next, call.split.pivot)
            /\ UNCHANGED <<treeVars, objectVars, unmarked, thrown, inserted>>
       ELSE Throw

(* A new root above the node that was split and its new sibling. *)
NewRoot ==
    /\ call.pc = "newroot"
    /\ IF ~FreeFrame THEN Throw ELSE
       LET level == IF call.split.curr = initRootPageNum
                    THEN 1 ELSE nodes[rootPageNum].level + 1
       IN  /\ nodes' = Grown(nodes, NewPage,
                          NonLeaf(level, <<call.split.pivot.key>>,
                                  <<call.split.curr, call.split.next>>))
           /\ pins' = Grown(pins, NewPage, 0)
           /\ call' = [call EXCEPT !.pc = "newmeta"]
           /\ UNCHANGED <<rootPageNo, rootPageNum, initRootPageNum,
                          objectVars, unmarked, thrown, inserted>>

(* Slip: the meta page keeps the old root. *)
NewMeta_MemberOnly ==
    /\ call.pc = "newmeta"
    /\ IF ~Room(headerPageNum) THEN Throw ELSE
       /\ rootPageNum' = NewPage - 1
       /\ call' = [call EXCEPT !.pc = "finish"]
       /\ UNCHANGED <<nodes, rootPageNo, initRootPageNum, objectVars, pins,
                      unmarked, thrown, inserted>>

NewMeta ==
    /\ call.pc = "newmeta"
    /\ IF ~Room(headerPageNum) THEN Throw ELSE
       /\ rootPageNo' = NewPage - 1
       /\ rootPageNum' = NewPage - 1
       /\ call' = [call EXCEPT !.pc = "finish"]
       /\ UNCHANGED <<nodes, initRootPageNum, objectVars, pins, unmarked,
                      thrown, inserted>>

(* addEntryAndSplit gives back the page it has read again, its caller the  *)
(* node that was split.                                                    *)
(* Slip: the node that was split is given back clean. *)
Finish_Clean ==
    /\ call.pc = "finish"
    /\ pins' = [p \in DOMAIN pins |->
                  IF p = curr \/ p = call.pivot.pageNo THEN pins[p] - 1
                                                       ELSE pins[p]]
    /\ ReturnWith(call.split.pivot)
    /\ UNCHANGED <<treeVars, objectVars, unmarked>>

(* Slip: the page that was read again stays pinned. *)
Finish_KeepsChild ==
    /\ call.pc = "finish"
    /\ UnPinCurr
    /\ unmarked' = unmarked \ {curr}
    /\ ReturnWith(call.split.pivot)
    /\ UNCHANGED <<treeVars, objectVars>>

Finish ==
    /\ call.pc = "finish"
    /\ pins' = [p \in DOMAIN pins |->
                  IF p = curr \/ p = call.pivot.pageNo THEN pins[p] - 1
                                                       ELSE pins[p]]
    /\ unmarked' = unmarked \ {curr, call.pivot.pageNo}
    /\ ReturnWith(call.split.pivot)
    /\ UNCHANGED <<treeVars, objectVars>>

-----------------------------------------------------------------------------
(* The last word that a node uses, as NonLeafNodeInt lays it out.  The     *)
(* last pointer of a full node is behind the end of its page: it is the    *)
(* numEntries of whatever the next frame holds.  It may go well, as long   *)
(* as that frame is not used; if not, nothing is said of the index either. *)
NonLeaves == {p \in DOMAIN nodes : nodes[p].kind = "nonleaf"}

WordsUsed(node) == 2 + nodeOccupancy + Len(node.pageNoArray)

Overrun ==
    /\ status = "open"
    /\ \E p \in NonLeaves : WordsUsed(nodes[p]) > pageWords
    /\ status' = "undefined"
    /\ call' = Idle
    /\ UNCHANGED <<treeVars, pins, unmarked, failures, thrown, inserted>>

Next ==
    \/ \E key \in Keys, others \in 0 .. numBufs : InsertEntry(key, others)
    \/ Misread \/ Descend
    \/ LeafAdd \/ LeafSplit
    \/ NoSplitBelow \/ AddPivot \/ NonLeafSplit
    \/ Reread \/ NewRoot \/ NewMeta \/ Finish
    \/ Overrun

-----------------------------------------------------------------------------
(* The chain of leaves from a leaf on, and what is on all of it. *)
ChainFrom(leaf) ==
    LET walk[n \in 0 .. Cardinality(DOMAIN nodes)] ==
          IF n = 0 THEN <<leaf>> ELSE
          LET w == walk[n - 1]
              right == nodes[Last(w)].rightSibPageNo
          IN  IF right = NoPage THEN w ELSE Append(w, right)
    IN  walk[Cardinality(DOMAIN nodes)]

Chain == ChainFrom(firstLeaf)

Stored == FlattenSeq([i \in DOMAIN Chain |-> nodes[Chain[i]].entries])

(* The leaves that a search can come to. *)
Root == nodes[rootPageNum]

LeavesBelowRoot ==
    IF Root.kind = "leaf" THEN <<rootPageNum>> ELSE Root.pageNoArray

Linked == LeavesBelowRoot = Chain

(* The types; no node is overfull. *)
TypeOK ==
    /\ DOMAIN nodes = 2 .. Cardinality(DOMAIN nodes) + 1
    /\ DOMAIN pins = {headerPageNum} \cup DOMAIN nodes
    /\ \A p \in DOMAIN pins : pins[p] \in Nat
    /\ {rootPageNo, rootPageNum} \subseteq DOMAIN nodes
    /\ unmarked \subseteq DOMAIN nodes
    /\ call.others \in 0 .. numBufs
    /\ failures \in 0 .. MaxFailures
    /\ status \in {"open", "closed", "terminated", "undefined"}
    /\ thrown \in {"none", "BufferExceeded"}
    /\ \A p \in DOMAIN nodes :
         \/ /\ nodes[p].kind = "leaf"
            /\ Len(nodes[p].entries) <= leafOccupancy
            /\ nodes[p].rightSibPageNo \in {NoPage} \cup DOMAIN nodes
         \/ /\ nodes[p].kind = "nonleaf"
            /\ Len(nodes[p].keyArray) <= nodeOccupancy
            /\ Len(nodes[p].pageNoArray) = Len(nodes[p].keyArray) + 1
            /\ ToSet(nodes[p].pageNoArray) \subseteq DOMAIN nodes

(* Between calls the chain of leaves holds every entry whose insertion     *)
(* returned, once, and nothing of an insertion that threw: no split loses  *)
(* or copies an entry, and a full pool is found before anything changed.   *)
AllStored ==
    call = Idle /\ status # "undefined" =>
        LET stored == Stored IN
        /\ ToSet(stored) = inserted
        /\ Len(stored) = Cardinality(inserted)

(* As long as all leaves hang below the root, the chain is in key order,   *)
(* and each key of the root separates the leaves on its two sides.         *)
Ordered ==
    Linked =>
        /\ LET stored == Stored IN
           \A i \in DOMAIN stored \ {1} : stored[i - 1].key <= stored[i].key
        /\ Root.kind = "nonleaf" =>
             \A i \in DOMAIN Root.keyArray :
                /\ \A e \in ToSet(nodes[Root.pageNoArray[i]].entries) :
                      e.key <= Root.keyArray[i]
                /\ \A e \in ToSet(nodes[Root.pageNoArray[i + 1]].entries) :
                      e.key >= Root.keyArray[i]

(* Between calls, and after a reopening, every leaf is reached, in order,  *)
(* from the root that the meta page names.  Two things end this: a split   *)
(* of an inner node; and equal keys that fill more than one leaf, when a   *)
(* pivot equal to a key of the root is put behind it and not before.       *)
LinkedUntil ==
    call = Idle /\ status # "undefined" =>
        \/ Linked /\ rootPageNum = rootPageNo
        \/ \E p, q \in NonLeaves : p # q
        \/ \E i, j \in DOMAIN Root.keyArray :
              i # j /\ Root.keyArray[i] = Root.keyArray[j]

(* A page that was changed stays pinned until it is given back as dirty:   *)
(* the frame of a page that is not pinned may be taken without writing it. *)
ChangesMarkedDirty == \A p \in unmarked : pins[p] > 0

-----------------------------------------------------------------------------
(* btree.cpp:412-415 of insertEntry: the split of a leaf may split the     *)
(* parent, and "This may continue all the way upto the root causing the    *)
(* root to get split.  If root gets split, metapage needs to be changed    *)
(* accordingly."  So an inner node that is not the root hangs below it.    *)
RootSplitGrowsTree ==
    call = Idle /\ status # "undefined" =>
        \A p \in NonLeaves :
            \/ p = rootPageNum
            \/ \E q \in NonLeaves : p \in ToSet(nodes[q].pageNoArray)
=============================================================================
