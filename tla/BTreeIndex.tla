----------------------------- MODULE BTreeIndex -----------------------------
(***************************************************************************)
(* The whole BTreeIndex object of src/p3/src/btree.cpp: the insertion of   *)
(* BTree, the filtered scan with its cursor, the destructor, and the       *)
(* constructor for an index that exists.                                   *)
(*                                                                         *)
(* The cursor is a page number, a pointer into the frame of that page and  *)
(* an index into its entries, kept from call to call.  What makes it hard  *)
(* is when the pin behind the pointer is there: some outcomes of a call    *)
(* keep it, some give it back, and one gives it back a second time.        *)
(*                                                                         *)
(* A call of the scan is one step: nothing else uses the pool while it     *)
(* runs, so that a page is had through all of it or not at all.            *)
(***************************************************************************)
EXTENDS BTree

CONSTANTS
    Ranges,         \* what startScan is called with
    MaxScanned      \* bound: entries of an index that is scanned

Operator == {"LT", "LTE", "GTE", "GT"}

ASSUME RangesAssumption ==
    Ranges \subseteq [lowVal : Int, lowOp : Operator,
                      highVal : Int, highOp : Operator]
ASSUME ScannedAssumption == MaxScanned \in Nat

VARIABLES
    scan,           \* the scan members of the object
    outcome,        \* what the last call of the scan came to
    returned,       \* the entries returned since, while trail is not "off"
    trail           \* "on" until an insertion begins, "over" when completed

scanVars == <<scan, outcome, returned, trail>>

(* No scan: nextEntry is read before anything was stored in it when the    *)
(* first startScan finds nothing. *)
Unset == -2

NoRange == [lowVal |-> 0, lowOp |-> "GT", highVal |-> 0, highOp |-> "LT"]

NoScan(nextEntry) ==
    [executing |-> FALSE, first |-> FALSE, nextEntry |-> nextEntry,
     page |-> NoPage, holds |-> FALSE, range |-> NoRange]

InitIndex ==
    /\ Init
    /\ scan = NoScan(Unset)
    /\ outcome = "none"
    /\ returned = <<>>
    /\ trail = "off"

-----------------------------------------------------------------------------
(* unPinPage throws for a page that is not pinned, page 0 included.        *)
Pinned(p) == p \in DOMAIN pins /\ pins[p] > 0

Unpinned(p) == IF Pinned(p) THEN [pins EXCEPT ![p] = @ - 1] ELSE pins

(* Slip: the page stays pinned. *)
Ended_KeepsPin(s) == pins

(* What endScan makes of the pins: it gives back the current page, if that *)
(* is pinned.                                                              *)
Ended(s) == IF s.executing THEN Unpinned(s.page) ELSE pins

(* readPage, when the pins are pn. *)
Had(pn, p, others) ==
    \/ p \in DOMAIN pn /\ pn[p] > 0
    \/ Cardinality({q \in DOMAIN pn : pn[q] > 0}) + others < numBufs

(* checkRange. *)
Low(r, key) == key < r.lowVal \/ (key = r.lowVal /\ r.lowOp = "GT")
High(r, key) == key > r.highVal \/ (key = r.highVal /\ r.highOp = "LT")

(* One level down.  The node is cast to a leaf for the comparison, whose   *)
(* keys begin one word earlier: the level stands for the first key, every  *)
(* key for the one behind it, and the last child is never the choice.      *)
WordsAsLeaf(node) == <<node.level>> \o Front(node.keyArray)

ChildToSearch(r, node) ==
    LET words == WordsAsLeaf(node) IN
    node.pageNoArray[Max({j \in DOMAIN words : Low(r, words[j])} \cup {1})]

(* An inner node is taken for a leaf, or the other way round.              *)
Miscast == (rootPageNum = initRootPageNum) # (Root.kind = "leaf")

(* The leaf that the search comes to: the loop goes down as many levels as *)
(* the root counts, which is one, see CanScan.                             *)
FirstToSearch(r) ==
    IF Root.kind = "leaf" THEN rootPageNum ELSE ChildToSearch(r, Root)

(* Where the search along the leaves stops. *)
Stops(r, leaf) ==
    {i \in DOMAIN nodes[leaf].entries :
       LET key == nodes[leaf].entries[i].key IN ~Low(r, key) \/ High(r, key)}

-----------------------------------------------------------------------------
(* Between two calls of the object; bound: scans are modelled on an index  *)
(* of MaxScanned entries with one inner node at most.                      *)
CanScan ==
    /\ status = "open" /\ call = Idle
    /\ Cardinality(inserted) <= MaxScanned
    /\ \A p, q \in NonLeaves : p = q

(* Frames that others have pinned while a call runs: none, or all that the *)
(* index has not.                                                          *)
Others == {0, numBufs - Cardinality(PinnedPages)}

KeepTree == UNCHANGED <<treeVars, unmarked, call, thrown, failures, inserted>>

(* The operators are looked at before the range, and both before a scan    *)
(* that is executing is ended.                                             *)
OpsValid(r) == r.lowOp \in {"GT", "GTE"} /\ r.highOp \in {"LT", "LTE"}

StartRefused(r) ==
    /\ CanScan
    /\ \/ ~OpsValid(r) /\ outcome' = "BadOpcodes"
       \/ OpsValid(r) /\ r.lowVal > r.highVal /\ outcome' = "BadScanrange"
    /\ UNCHANGED <<vars, scan, returned, trail>>

StartMiscast ==
    /\ CanScan /\ Miscast
    /\ status' = "undefined"
    /\ UNCHANGED <<pins, scanVars>> /\ KeepTree

Begun(r) ==
    [executing |-> TRUE, first |-> TRUE,
     nextEntry |-> IF scan.executing THEN -1 ELSE scan.nextEntry,
     page |-> rootPageNum, holds |-> FALSE, range |-> r]

(* The search goes down to a leaf and along the chain, to an entry that    *)
(* matches or is too high, to a page that the full pool has no frame for,  *)
(* or to the end of the chain, where page 0 is read.                       *)
Search(r, pn, others) ==
    LET above == IF Root.kind = "leaf" THEN <<>> ELSE <<rootPageNum>>
        leaves == ChainFrom(FirstToSearch(r))
        stop == Min({n \in DOMAIN leaves : Stops(r, leaves[n]) # {}}
                      \cup {Len(leaves) + 1})
        way == above \o SubSeq(Append(leaves, NoPage), 1, stop)
        missing == {k \in DOMAIN way : ~Had(pn, way[k], others)}
        i == Min(Stops(r, leaves[stop]))
    IN  IF missing # {} THEN
           [result |-> "noframe", page |-> way[Min(missing)], entry |-> 0,
            moved |-> Min(missing) > Len(above) + 1]
        ELSE IF stop > Len(leaves) THEN
           [result |-> "end", page |-> NoPage, entry |-> 0, moved |-> TRUE]
        ELSE
           [result |-> IF High(r, nodes[leaves[stop]].entries[i].key)
                       THEN "high" ELSE "match",
            page |-> leaves[stop], entry |-> i, moved |-> stop > 1]

(* A scan that is executing is ended first; an exception leaves the new    *)
(* one executing.  On the chain every exception of readPage is turned into *)
(* NoSuchKeyFound, and nextEntry is 0 when the search has moved along it.  *)
(* BlobFile refuses no number: page 0 is pinned and the stream of the file *)
(* stays failed, so that no page is read from the file or written to it    *)
(* any more (BlobFile).  Nothing is said of the index after that.          *)
StartScan(r, others) ==
    /\ CanScan /\ ~Miscast /\ OpsValid(r) /\ r.lowVal <= r.highVal
    /\ \E found \in {Search(r, Ended(scan), others)} :
         LET s == [Begun(r) EXCEPT !.page = found.page,
                                   !.nextEntry = IF found.moved THEN 0 ELSE @]
         IN  \/ /\ found.result = "match"
                /\ scan' = [s EXCEPT !.nextEntry = found.entry - 1,
                                     !.holds = TRUE]
                /\ pins' = [Ended(scan) EXCEPT ![found.page] = @ + 1]
                /\ outcome' = "started"
                /\ UNCHANGED status
             \/ /\ found.result = "high"
                /\ scan' = s /\ pins' = Ended(scan)
                /\ outcome' = "NoSuchKeyFound"
                /\ UNCHANGED status
             \/ /\ found.result = "end"
                /\ scan' = [s EXCEPT !.holds = TRUE] /\ pins' = Ended(scan)
                /\ outcome' = "NoSuchKeyFound"
                /\ status' = "undefined"
             \/ /\ found.result = "noframe"
                /\ scan' = s /\ pins' = Ended(scan)
                /\ outcome' = IF found.moved THEN "NoSuchKeyFound"
                                             ELSE "BufferExceeded"
                /\ UNCHANGED status
    /\ returned' = <<>>
    /\ trail' = CASE outcome' = "started" -> "on"
                  [] outcome' = "NoSuchKeyFound" -> "over"
                  [] OTHER -> "off"
    /\ KeepTree

-----------------------------------------------------------------------------
(* nextEntry behind entry n of the leaf p, both counted from 0. *)
(* Slip: the last entry of a leaf ends the scan. *)
NextPosition_OneLeaf(n, p) ==
    IF n + 1 < Len(nodes[p].entries) THEN n + 1 ELSE -1

NextPosition(n, p) ==
    IF n + 1 < Len(nodes[p].entries) THEN n + 1
    ELSE IF nodes[p].rightSibPageNo # NoPage THEN 0 ELSE -1

(* What scanNext takes nextEntry for. *)
NextEntries == IF scan.nextEntry = Unset THEN {-1, 0, 1} ELSE {scan.nextEntry}

Completed ==
    /\ outcome' = "IndexScanCompleted"
    /\ trail' = IF trail = "on" THEN "over" ELSE "off"
    /\ returned' = IF trail = "on" THEN returned ELSE <<>>

(* Nothing more is said of what the scan returns. *)
Untold(result) ==
    outcome' = result /\ trail' = "off" /\ returned' = <<>>

NextRefused ==
    /\ CanScan /\ ~scan.executing
    /\ Untold("ScanNotInitialized")
    /\ UNCHANGED <<status, pins, scan>> /\ KeepTree

(* The page is given back as the last entry is behind; a second call gives *)
(* back page 0.                                                            *)
NextAfterLast ==
    /\ CanScan /\ scan.executing /\ -1 \in NextEntries
    /\ pins' = Unpinned(scan.page)
    /\ IF Pinned(scan.page)
       THEN /\ scan' = [scan EXCEPT !.page = NoPage, !.holds = FALSE,
                                    !.nextEntry = -1]
            /\ Completed
       ELSE /\ scan' = [scan EXCEPT !.nextEntry = -1]
            /\ Untold("PageNotPinned")
    /\ UNCHANGED status /\ KeepTree

(* The scan's own pin is there.  nextEntry is 0 again when the page has    *)
(* been read to its end and has a right sibling; and also when the scan    *)
(* was told that the first entry of a page is too high.                    *)
ScanNext(others) ==
    LET n == scan.nextEntry
        moves == n = 0 /\ ~scan.first
        right == nodes[scan.page].rightSibPageNo
        p == IF moves THEN right ELSE scan.page
        given == Unpinned(scan.page)
        pn == IF moves THEN [given EXCEPT ![p] = @ + 1] ELSE pins
        at == [scan EXCEPT !.first = FALSE, !.page = p]
        es == nodes[p].entries
        e == es[n + 1]
    IN  /\ CanScan /\ scan.executing /\ scan.holds /\ n >= 0
        /\ \/ /\ moves /\ ~Had(given, p, others)
              /\ scan' = [at EXCEPT !.holds = FALSE]
              /\ pins' = given
              /\ Completed
              /\ UNCHANGED status
           \/ /\ moves /\ p = NoPage /\ Had(given, p, others)
              /\ scan' = at /\ pins' = given
              /\ status' = "undefined"
              /\ UNCHANGED <<outcome, returned, trail>>
           \/ /\ p # NoPage /\ (moves => Had(given, p, others))
              /\ n + 1 > Len(es)        \* a slot that no entry is in any more
              /\ scan' = at /\ pins' = pn
              /\ status' = "undefined"
              /\ UNCHANGED <<outcome, returned, trail>>
           \/ /\ p # NoPage /\ (moves => Had(given, p, others))
              /\ n + 1 <= Len(es) /\ ~High(scan.range, e.key)
              /\ scan' = [at EXCEPT !.nextEntry = NextPosition(n, p)]
              /\ pins' = pn
              /\ outcome' = "found"
              /\ returned' = IF trail = "on" THEN Append(returned, e) ELSE <<>>
              /\ UNCHANGED <<status, trail>>
           \/ /\ p # NoPage /\ (moves => Had(given, p, others))
              /\ n + 1 <= Len(es) /\ High(scan.range, e.key)
              /\ scan' = [at EXCEPT !.holds = (n = 0)]
              /\ pins' = IF n = 0 THEN pn ELSE given
              /\ Completed
              /\ UNCHANGED status
        /\ KeepTree

(* The pin has been given back, and the pointer goes into a frame that may *)
(* hold anything by now: a key that is too high or one that is not, a      *)
(* right sibling of any number.  unPinPage throws, or takes the pin that   *)
(* somebody else has on the page.                                          *)
NextUnheld(n, high, others) ==
    LET p == scan.page
        at == [scan EXCEPT !.first = FALSE, !.nextEntry = n]
        given == Unpinned(p)
    IN  /\ CanScan /\ scan.executing /\ ~scan.holds
        /\ n \in NextEntries \ {-1}
        /\ IF n = 0 /\ ~scan.first THEN
              /\ pins' = given
              /\ status' = IF Pinned(p) THEN "undefined" ELSE status
              /\ scan' = at
              /\ Completed
           ELSE IF high THEN
              /\ pins' = IF n = 0 THEN pins ELSE given
              /\ scan' = at
              /\ IF n = 0 \/ Pinned(p) THEN Completed ELSE Untold("PageNotPinned")
              /\ UNCHANGED status
           ELSE IF p = NoPage \/ p \in NonLeaves THEN
              /\ status' = "undefined"
              /\ UNCHANGED <<pins, scanVars>>
           ELSE IF ~Had(given, p, others) THEN
              /\ pins' = given
              /\ scan' = at
              /\ Untold("BufferExceeded")
              /\ UNCHANGED status
           ELSE
              /\ pins' = [given EXCEPT ![p] = @ + 1]
              /\ scan' = [at EXCEPT !.holds = TRUE, !.nextEntry = NextPosition(n, p)]
              /\ Untold("found")
              /\ UNCHANGED status
        /\ KeepTree

-----------------------------------------------------------------------------
EndScan ==
    /\ CanScan
    /\ pins' = Ended(scan)
    /\ scan' = IF scan.executing THEN NoScan(-1) ELSE scan
    /\ Untold(IF scan.executing THEN "ended" ELSE "ScanNotInitialized")
    /\ UNCHANGED status /\ KeepTree

(* The destructor: flushFile throws if a page is pinned, and an exception  *)
(* that leaves a destructor ends the program.                              *)
Close ==
    /\ status = "open" /\ call = Idle
    /\ pins' = Ended(scan)
    /\ scan' = NoScan(Unset)
    /\ status' = IF \E p \in DOMAIN pins : pins'[p] > 0
                 THEN "terminated" ELSE "closed"
    /\ Untold("none")
    /\ KeepTree

(* The constructor for an index that exists.  initRootPageNum is not set:  *)
(* it is what the memory of the object held, the root or any other number. *)
Reopen ==
    /\ status = "closed"
    /\ status' = "open"
    /\ rootPageNum' = rootPageNo
    /\ initRootPageNum' \in {NoPage, rootPageNo}
    /\ UNCHANGED <<nodes, rootPageNo, pins, unmarked, call, thrown, failures,
                   inserted, scanVars>>

(* The program has ended, or what it does is no longer described. *)
Stopped ==
    /\ status \in {"terminated", "undefined"}
    /\ UNCHANGED <<vars, scanVars>>

(* Bound: insertions into an index that is being scanned, up to MaxScanned. *)
InsertStep ==
    /\ scan.executing => Cardinality(inserted) < MaxScanned \/ call # Idle
    /\ Next
    /\ Untold("none")
    /\ UNCHANGED scan

NextIndex ==
    \/ InsertStep
    \/ \E r \in Ranges :
         StartRefused(r) \/ \E others \in Others : StartScan(r, others)
    \/ StartMiscast
    \/ NextRefused \/ NextAfterLast
    \/ \E others \in Others :
         \/ ScanNext(others)
         \/ \E n \in {0, 1} \cup NextEntries, high \in BOOLEAN :
              NextUnheld(n, high, others)
    \/ EndScan \/ Close \/ Reopen \/ Stopped

SpecIndex == InitIndex /\ [][NextIndex]_<<vars, scanVars>>

-----------------------------------------------------------------------------
(* The entries of a range, in order, among the first n of stored. *)
MatchingIn(r, stored, n) ==
    LET upto[i \in 0 .. Len(stored)] ==
          IF i = 0 THEN <<>>
          ELSE IF Low(r, stored[i].key) \/ High(r, stored[i].key)
          THEN upto[i - 1] ELSE Append(upto[i - 1], stored[i])
    IN  upto[n]

Matching == MatchingIn(scan.range, Stored, Len(Stored))

(* The types of both parts of the object. *)
ScanTypeOK ==
    /\ TypeOK
    /\ scan.page \in {NoPage} \cup DOMAIN nodes
    /\ scan.nextEntry \in {Unset} \cup -1 .. leafOccupancy - 1
    /\ trail \in {"on", "over", "off"}
    /\ scan.holds => scan.executing

(* As long as nothing is inserted, no insertion has failed and all leaves  *)
(* hang below the root in their order, the entries that scanNext returns   *)
(* are the matching ones of the index, in order, and IndexScanCompleted,   *)
(* or NoSuchKeyFound of startScan, comes when there are no more: the cast  *)
(* that moves the keys by one word, the step to the right sibling and the  *)
(* marks 0 and -1 lose none and repeat none.                               *)
ScanExact ==
    failures = 0 /\ trail # "off" /\ Linked =>
        LET matching == Matching IN
        /\ IsPrefix(returned, matching)
        /\ trail = "over" => returned = matching

(* Between the calls of an object on which no insertion has failed, the    *)
(* pages of the index are not pinned, but for one pin on the page of the   *)
(* scan: so no call takes a pin that is not its own, and what insertions   *)
(* pin on their way is given back.                                         *)
ScanPins ==
    /\ ScanTypeOK
    /\ failures = 0 /\ call = Idle /\ status # "undefined" =>
        \A p \in DOMAIN pins :
            pins[p] = IF scan.holds /\ p = scan.page THEN 1 ELSE 0

(* btree.cpp:152-153: the destructor should not throw.  It does not, in    *)
(* whatever state the scan is, if no insertion has failed before.          *)
DestructorReturns == failures = 0 => status # "terminated"

=============================================================================
