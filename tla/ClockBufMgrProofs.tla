-------------------------- MODULE ClockBufMgrProofs --------------------------
(***************************************************************************)
(* Proofs about ClockBufMgr, for any frames, files, pages, contents and    *)
(* addresses, and so for any collisions in the chains of the hash table.   *)
(*                                                                         *)
(* The parts, in order: what insert and remove do to later lookups; the    *)
(* inductive invariant IInv, one lemma per action; the state invariants;   *)
(* what calls may throw, flush and give up on; the refinement of           *)
(* PagedStore.                                                             *)
(***************************************************************************)
EXTENDS ClockBufMgr, FiniteSetTheorems, SequenceTheorems, TLAPS

(* The victim that allocBuf has taken the entry of and not yet cleared. *)
Taken(fr) == call.pc = "swept" /\ fr = clockHand

(* The page's entry names the frame, unless it is taken, the frame's pins  *)
(* are those on the page, and it may be dropped without loss if it is      *)
(* neither dirty nor about to be.                                          *)
Sound(fr) ==
    LET d == bufDescTable[fr] IN
    /\ ~Taken(fr) => lookup(ht, d.file, d.pageNo) = fr
    /\ d.pinCnt = pins[d.file][d.pageNo]
    /\ disk[d.file][d.pageNo] # Absent
    /\ ~d.dirty /\ d.pageNo \notin unsaved[d.file]
          => bufPool[fr] = disk[d.file][d.pageNo]

(* A frame is clear, or it holds a page of a file, and soundly so unless   *)
(* the page strayed.                                                       *)
FrameOK(fr) ==
    LET d == bufDescTable[fr] IN
    /\ ~d.valid => d = Cleared
    /\ d.valid =>
         /\ d.file \in Files /\ d.pageNo \in Pages
         /\ Taken(fr) => lookup(ht, d.file, d.pageNo) = NoFrame
         /\ d.pageNo \notin strayed[d.file] => Sound(fr)

PageOK(f, p) ==
    LET fr == lookup(ht, f, p) IN
    /\ fr # NoFrame => /\ bufDescTable[fr].valid
                       /\ bufDescTable[fr].file = f
                       /\ bufDescTable[fr].pageNo = p
                       /\ bufDescTable[fr].pinCnt <= pins[f][p]
    /\ fr = NoFrame /\ p \notin strayed[f] => pins[f][p] = 0
    /\ p \in unsaved[f] => pins[f][p] > 0

PoolInv ==
    /\ \A fr \in Frames : FrameOK(fr)
    /\ \A f \in Files, p \in Pages : PageOK(f, p)

(* The call in progress: the page it reads has no entry, the frame it is   *)
(* about to fill is clear, and what flushFile has passed it has emptied.   *)
CallInv ==
    /\ call.pc = "idle" <=> call = Idle
    /\ call.pc \in {"sweep", "swept", "fill"} =>
         call.op \in {"readPage", "allocPage"}
    /\ call.pc = "flush" =>
         /\ call.op = "flushFile" /\ call.i <= numBufs
         /\ \A fr \in Frames :
               fr < call.i => bufDescTable[fr].file # call.file
    /\ call.op = "readPage" => lookup(ht, call.file, call.page) = NoFrame
    /\ call.pc = "sweep" => ~call.found
    /\ call.pc = "swept" => (call.found <=> bufDescTable[clockHand].valid)
    /\ call.pc = "fill" => bufDescTable[clockHand] = Cleared

IInv == TypeOK /\ ChainsOK(ht) /\ PoolInv /\ CallInv

USE NumBufsAssumption, WordAssumption, AddressAssumption, MaxPageAssumption,
    NoFrameAssumption, BoundsAssumption, NoFileAssumption, DataAssumption

-----------------------------------------------------------------------------
(* The hash table: what a lookup finds after insert and remove. *)
TableOK(t) ==
    /\ DOMAIN t = 0 .. HTSIZE - 1
    /\ \A b \in 0 .. HTSIZE - 1 : t[b] \in Seq(Buckets)
    /\ ChainsOK(t)

LEMMA HashInRange ==
    ASSUME NEW f \in Files, NEW p \in Pages
    PROVE  hash(f, p) \in 0 .. HTSIZE - 1
<1>1. HTSIZE \in Nat \ {0}
  BY DEF HTSIZE
<1>2. (address[f] + p) % WordSize \in Nat
  BY DEF Pages
<1> HIDE DEF HTSIZE
<1>. QED
  BY <1>1, <1>2 DEF hash

(* A chain has at most one bucket of a page, and lookup tells its frame. *)
LEMMA OneBucket ==
    ASSUME NEW t, TableOK(t), NEW f \in Files, NEW p \in Pages,
           NEW i \in At(t, f, p)
    PROVE  /\ At(t, f, p) = {i} /\ First(At(t, f, p)) = i
           /\ i \in 1 .. Len(t[hash(f, p)])
           /\ lookup(t, f, p) = t[hash(f, p)][i].frameNo
           /\ lookup(t, f, p) \in Frames
<1>. DEFINE c == t[hash(f, p)]
<1>1. hash(f, p) \in 0 .. HTSIZE - 1
  BY HashInRange
<1>2. c \in Seq(Buckets) /\ i \in 1 .. Len(c) /\ DOMAIN c = 1 .. Len(c)
  BY <1>1 DEF TableOK, At
<1>3. At(t, f, p) = {i}
  BY <1>1 DEF TableOK, ChainsOK, At
<1>4. First(At(t, f, p)) = i
  <2>1. \A j \in {i} : i <= j
    BY <1>2
  <2>. QED
    BY <1>3, <2>1 DEF First
<1>5. c[i] \in Buckets
  BY <1>2
<1>. QED
  BY <1>2, <1>3, <1>4, <1>5 DEF lookup, Buckets

LEMMA LookupType ==
    ASSUME NEW t, TableOK(t), NEW f \in Files, NEW p \in Pages
    PROVE  /\ lookup(t, f, p) \in Frames \cup {NoFrame}
           /\ Present(t, f, p) <=> lookup(t, f, p) # NoFrame
<1>1. CASE At(t, f, p) = {}
  BY <1>1 DEF lookup, Present
<1>2. CASE At(t, f, p) # {}
  <2>1. PICK i : i \in At(t, f, p)
    BY <1>2
  <2>2. lookup(t, f, p) \in Frames
    BY <2>1, OneBucket
  <2>. QED
    BY <1>2, <2>2 DEF Present
<1>. QED
  BY <1>1, <1>2

LEMMA EmptyTable ==
    /\ TableOK(Empty_ht)
    /\ \A f \in Files, p \in Pages : lookup(Empty_ht, f, p) = NoFrame
<1>1. TableOK(Empty_ht)
  BY DEF Empty_ht, TableOK, ChainsOK
<1>2. ASSUME NEW f \in Files, NEW p \in Pages
      PROVE  lookup(Empty_ht, f, p) = NoFrame
  BY HashInRange DEF Empty_ht, lookup, At
<1>. QED
  BY <1>1, <1>2

LEMMA InsertEffect ==
    ASSUME NEW t, TableOK(t), NEW f \in Files, NEW p \in Pages,
           NEW fr \in Frames, lookup(t, f, p) = NoFrame
    PROVE  /\ TableOK(insert(t, f, p, fr))
           /\ lookup(insert(t, f, p, fr), f, p) = fr
           /\ \A g \in Files, q \in Pages : g # f \/ q # p =>
                lookup(insert(t, f, p, fr), g, q) = lookup(t, g, q)
<1>. DEFINE b == [file |-> f, pageNo |-> p, frameNo |-> fr]
           u == insert(t, f, p, fr)
           h == hash(f, p)
<1>1. h \in 0 .. HTSIZE - 1 /\ b \in Buckets /\ t[h] \in Seq(Buckets)
  BY HashInRange DEF Buckets, TableOK
<1>2. /\ DOMAIN u = 0 .. HTSIZE - 1
      /\ u[h] = <<b>> \o t[h]
      /\ \A x \in 0 .. HTSIZE - 1 : x # h => u[x] = t[x]
  BY <1>1 DEF insert, TableOK
<1>3. /\ u[h] \in Seq(Buckets) /\ Len(u[h]) = Len(t[h]) + 1
      /\ DOMAIN u[h] = 1 .. Len(t[h]) + 1 /\ DOMAIN t[h] = 1 .. Len(t[h])
      /\ Len(t[h]) \in Nat
      /\ u[h][1] = b
      /\ \A i \in 2 .. Len(t[h]) + 1 : u[h][i] = t[h][i - 1]
  BY <1>1, <1>2
<1>4. At(t, f, p) = {}
  BY LookupType DEF Present
<1>. HIDE DEF u, b
<1>5. b.file = f /\ b.pageNo = p /\ b.frameNo = fr /\ hash(f, p) = h
  BY DEF b
<1>6. \A i \in 1 .. Len(t[h]) : t[h][i].file # f \/ t[h][i].pageNo # p
  BY <1>4, <1>3 DEF At
<1>c. /\ \A x \in 0 .. HTSIZE - 1 : \A i \in DOMAIN t[x] :
            hash(t[x][i].file, t[x][i].pageNo) = x
      /\ \A x \in 0 .. HTSIZE - 1 : \A i, j \in DOMAIN t[x] :
            t[x][i].file = t[x][j].file /\ t[x][i].pageNo = t[x][j].pageNo
              => i = j
  BY DEF TableOK, ChainsOK
<1>7. ChainsOK(u)
  <2>1. ASSUME NEW x \in 0 .. HTSIZE - 1, NEW i \in DOMAIN u[x]
        PROVE  hash(u[x][i].file, u[x][i].pageNo) = x
    <3>1. CASE x # h
      BY <3>1, <1>2, <2>1, <1>c
    <3>2. CASE x = h /\ i = 1
      BY <3>2, <1>3, <1>5
    <3>3. CASE x = h /\ i # 1
      <4>1. i \in 2 .. Len(t[h]) + 1 /\ i - 1 \in DOMAIN t[h]
        BY <3>3, <1>3, <2>1
      <4>2. u[x][i] = t[h][i - 1]
        BY <3>3, <4>1, <1>3
      <4>3. hash(t[h][i - 1].file, t[h][i - 1].pageNo) = h
        BY <4>1, <1>1, <1>c
      <4>. QED
        BY <3>3, <4>2, <4>3
    <3>. QED
      BY <3>1, <3>2, <3>3
  <2>2. ASSUME NEW x \in 0 .. HTSIZE - 1, NEW i \in DOMAIN u[x],
               NEW j \in DOMAIN u[x],
               u[x][i].file = u[x][j].file, u[x][i].pageNo = u[x][j].pageNo
        PROVE  i = j
    <3>1. CASE x # h
      BY <3>1, <1>2, <2>2, <1>c
    <3>2. CASE x = h
      <4>0. i \in 1 .. Len(t[h]) + 1 /\ j \in 1 .. Len(t[h]) + 1
        BY <3>2, <1>3, <2>2
      <4>1. CASE i = 1 /\ j # 1
        <5>1. j \in 2 .. Len(t[h]) + 1 /\ j - 1 \in 1 .. Len(t[h])
          BY <4>0, <4>1, <1>3
        <5>2. u[x][j] = t[h][j - 1] /\ u[x][i] = b
          BY <5>1, <4>1, <3>2, <1>3
        <5>. QED
          BY <5>1, <5>2, <1>5, <1>6, <2>2
      <4>2. CASE j = 1 /\ i # 1
        <5>1. i \in 2 .. Len(t[h]) + 1 /\ i - 1 \in 1 .. Len(t[h])
          BY <4>0, <4>2, <1>3
        <5>2. u[x][i] = t[h][i - 1] /\ u[x][j] = b
          BY <5>1, <4>2, <3>2, <1>3
        <5>. QED
          BY <5>1, <5>2, <1>5, <1>6, <2>2
      <4>3. CASE i # 1 /\ j # 1
        <5>0. i \in 2 .. Len(t[h]) + 1 /\ j \in 2 .. Len(t[h]) + 1
          BY <4>0, <4>3, <1>3
        <5>a. i - 1 \in 1 .. Len(t[h]) /\ j - 1 \in 1 .. Len(t[h])
          BY <5>0
        <5>b. i - 1 \in DOMAIN t[h] /\ j - 1 \in DOMAIN t[h]
          BY <5>a, <1>1
        <5>1. u[h][i] = t[h][i - 1]
          BY <5>0, <1>3
        <5>2. u[h][j] = t[h][j - 1]
          BY <5>0, <1>3
        <5>3. i - 1 = j - 1
          BY <5>b, <5>1, <5>2, <3>2, <2>2, <1>1, <1>c
        <5>. QED
          BY <5>3, <4>0
      <4>. QED
        BY <4>1, <4>2, <4>3
    <3>. QED
      BY <3>1, <3>2
  <2>. QED
    BY <2>1, <2>2 DEF ChainsOK
<1>8. TableOK(u)
  BY <1>7, <1>1, <1>2, <1>3 DEF TableOK
<1>9. lookup(u, f, p) = fr
  <2>1. 1 \in At(u, f, p)
    BY <1>3, <1>5 DEF At
  <2>. QED
    BY <2>1, <1>8, OneBucket, <1>3, <1>5
<1>10. ASSUME NEW g \in Files, NEW q \in Pages, g # f \/ q # p
       PROVE  lookup(u, g, q) = lookup(t, g, q)
  <2>. DEFINE k == hash(g, q)
  <2>0. k \in 0 .. HTSIZE - 1
    BY HashInRange
  <2>1. CASE k # h
    BY <2>0, <2>1, <1>2 DEF lookup, At
  <2>2. CASE k = h
    <3>1. CASE At(t, g, q) = {}
      <4>1. ASSUME NEW i \in At(u, g, q) PROVE FALSE
        <5>1. i \in 1 .. Len(t[h]) + 1 /\ u[h][i].file = g /\ u[h][i].pageNo = q
          BY <2>2, <1>3 DEF At
        <5>2. i # 1
          BY <5>1, <1>3, <1>5, <1>10
        <5>3. i - 1 \in DOMAIN t[h] /\ u[h][i] = t[h][i - 1]
          BY <5>1, <5>2, <1>3
        <5>4. i - 1 \in At(t, g, q)
          BY <5>1, <5>3, <2>2 DEF At
        <5>. QED
          BY <5>4, <3>1
      <4>. QED
        BY <3>1, <4>1 DEF lookup
    <3>2. CASE At(t, g, q) # {}
      <4>1. PICK i : i \in At(t, g, q)
        BY <3>2
      <4>2. i \in 1 .. Len(t[h]) /\ t[h][i].file = g /\ t[h][i].pageNo = q
        BY <4>1, <2>2, <1>3 DEF At
      <4>3. i + 1 \in 2 .. Len(t[h]) + 1 /\ u[h][i + 1] = t[h][(i + 1) - 1]
              /\ (i + 1) - 1 = i
        BY <4>2, <1>3
      <4>4. i + 1 \in At(u, g, q)
        BY <4>2, <4>3, <2>2, <1>3 DEF At
      <4>5. lookup(u, g, q) = u[h][i + 1].frameNo
        BY <4>4, <1>8, <2>2, OneBucket
      <4>6. lookup(t, g, q) = t[h][i].frameNo
        BY <4>1, <2>2, OneBucket
      <4>. QED
        BY <4>3, <4>5, <4>6
    <3>. QED
      BY <3>1, <3>2
  <2>. QED
    BY <2>1, <2>2
<1>. QED
  BY <1>8, <1>9, <1>10 DEF u
LEMMA FunctionIsSeq ==
    ASSUME NEW n \in Nat, NEW S, NEW c \in [1 .. n -> S]
    PROVE  c \in Seq(S)
<1>1. [1 .. n -> S] \in {[1 .. m -> S] : m \in Nat}
  OBVIOUS
<1>2. c \in UNION {[1 .. m -> S] : m \in Nat}
  BY <1>1, Zenon
<1>. QED
  BY <1>2, SeqDef, Zenon

LEMMA RemoveEffect ==
    ASSUME NEW t, TableOK(t), NEW f \in Files, NEW p \in Pages,
           lookup(t, f, p) # NoFrame
    PROVE  /\ TableOK(remove(t, f, p))
           /\ lookup(remove(t, f, p), f, p) = NoFrame
           /\ \A g \in Files, q \in Pages : g # f \/ q # p =>
                lookup(remove(t, f, p), g, q) = lookup(t, g, q)
<1>. DEFINE u == remove(t, f, p)
           h == hash(f, p)
           Old(j, i) == IF j < i THEN j ELSE j + 1
<1>0. PICK i : i \in At(t, f, p)
  BY LookupType DEF Present
<1>1. /\ h \in 0 .. HTSIZE - 1 /\ t[h] \in Seq(Buckets)
      /\ Len(t[h]) \in Nat /\ DOMAIN t[h] = 1 .. Len(t[h])
  BY HashInRange DEF TableOK
<1>2. i \in 1 .. Len(t[h]) /\ First(At(t, f, p)) = i /\ At(t, f, p) = {i}
  BY <1>0, OneBucket
<1>3. /\ DOMAIN u = 0 .. HTSIZE - 1
      /\ u[h] = [j \in 1 .. Len(t[h]) - 1 |->
                    IF j < i THEN t[h][j] ELSE t[h][j + 1]]
      /\ \A x \in 0 .. HTSIZE - 1 : x # h => u[x] = t[x]
  BY <1>1, <1>2 DEF remove, TableOK
<1>4. ASSUME NEW j \in 1 .. Len(t[h]) - 1
      PROVE  /\ Old(j, i) \in 1 .. Len(t[h]) /\ Old(j, i) # i
             /\ u[h][j] = t[h][Old(j, i)]
  BY <1>1, <1>2, <1>3
<1>5. DOMAIN u[h] = 1 .. Len(t[h]) - 1 /\ u[h] \in Seq(Buckets)
  <2>1. \A j \in 1 .. Len(t[h]) - 1 : u[h][j] \in Buckets
    BY <1>1, <1>4
  <2>2. Len(t[h]) - 1 \in Nat
    BY <1>1, <1>2
  <2>3. u[h] \in [1 .. Len(t[h]) - 1 -> Buckets]
    BY <1>3, <2>1
  <2>. QED
    BY <1>3, <2>2, <2>3, FunctionIsSeq
<1>6. ASSUME NEW k \in 1 .. Len(t[h]), k # i
      PROVE  \E j \in 1 .. Len(t[h]) - 1 : Old(j, i) = k
  <2>1. CASE k < i
    BY <1>1, <1>2, <2>1
  <2>2. CASE k > i
    <3>1. k - 1 \in 1 .. Len(t[h]) - 1 /\ Old(k - 1, i) = k
      BY <1>1, <1>2, <2>2
    <3>. QED
      BY <3>1
  <2>. QED
    BY <1>1, <1>2, <1>6, <2>1, <2>2
<1>7. ASSUME NEW j \in 1 .. Len(t[h]) - 1, NEW k \in 1 .. Len(t[h]) - 1,
             Old(j, i) = Old(k, i)
      PROVE  j = k
  BY <1>1, <1>2, <1>7
<1>c. /\ \A x \in 0 .. HTSIZE - 1 : \A j \in DOMAIN t[x] :
            hash(t[x][j].file, t[x][j].pageNo) = x
      /\ \A x \in 0 .. HTSIZE - 1 : \A j, k \in DOMAIN t[x] :
            t[x][j].file = t[x][k].file /\ t[x][j].pageNo = t[x][k].pageNo
              => j = k
  BY DEF TableOK, ChainsOK
<1>. HIDE DEF u, Old
<1>8. ChainsOK(u)
  <2>1. ASSUME NEW x \in 0 .. HTSIZE - 1, NEW j \in DOMAIN u[x]
        PROVE  hash(u[x][j].file, u[x][j].pageNo) = x
    <3>1. CASE x # h
      BY <3>1, <1>3, <2>1, <1>c
    <3>2. CASE x = h
      <4>1. u[x][j] = t[h][Old(j, i)] /\ Old(j, i) \in DOMAIN t[h]
        BY <3>2, <1>1, <1>4, <1>5, <2>1
      <4>2. hash(t[h][Old(j, i)].file, t[h][Old(j, i)].pageNo) = h
        BY <4>1, <1>1, <1>c
      <4>. QED
        BY <3>2, <4>1, <4>2
    <3>. QED
      BY <3>1, <3>2
  <2>2. ASSUME NEW x \in 0 .. HTSIZE - 1, NEW j \in DOMAIN u[x],
               NEW k \in DOMAIN u[x],
               u[x][j].file = u[x][k].file, u[x][j].pageNo = u[x][k].pageNo
        PROVE  j = k
    <3>1. CASE x # h
      BY <3>1, <1>3, <2>2, <1>c
    <3>2. CASE x = h
      <4>0. j \in 1 .. Len(t[h]) - 1 /\ k \in 1 .. Len(t[h]) - 1
        BY <3>2, <1>5, <2>2
      <4>1. /\ u[x][j] = t[h][Old(j, i)] /\ Old(j, i) \in DOMAIN t[h]
            /\ u[x][k] = t[h][Old(k, i)] /\ Old(k, i) \in DOMAIN t[h]
        BY <3>2, <4>0, <1>1, <1>4
      <4>2. Old(j, i) = Old(k, i)
        BY <4>1, <2>2, <1>1, <1>c
      <4>. QED
        BY <4>0, <4>2, <1>7
    <3>. QED
      BY <3>1, <3>2
  <2>. QED
    BY <2>1, <2>2 DEF ChainsOK
<1>9. TableOK(u)
  BY <1>1, <1>3, <1>5, <1>8 DEF TableOK
<1>10. lookup(u, f, p) = NoFrame
  <2>1. ASSUME NEW j \in At(u, f, p) PROVE FALSE
    <3>1. j \in 1 .. Len(t[h]) - 1 /\ u[h][j].file = f /\ u[h][j].pageNo = p
      BY <1>5 DEF At
    <3>2. Old(j, i) \in 1 .. Len(t[h]) /\ Old(j, i) # i
            /\ u[h][j] = t[h][Old(j, i)]
      BY <3>1, <1>4
    <3>3. Old(j, i) \in At(t, f, p)
      BY <3>1, <3>2, <1>1 DEF At
    <3>. QED
      BY <3>2, <3>3, <1>2
  <2>. QED
    BY <2>1 DEF lookup
<1>11. ASSUME NEW g \in Files, NEW q \in Pages, g # f \/ q # p
       PROVE  lookup(u, g, q) = lookup(t, g, q)
  <2>0. hash(g, q) \in 0 .. HTSIZE - 1
    BY HashInRange
  <2>1. CASE hash(g, q) # h
    <3>1. u[hash(g, q)] = t[hash(g, q)]
      BY <2>0, <2>1, <1>3
    <3>2. At(u, g, q) = At(t, g, q)
      BY <3>1 DEF At
    <3>. QED
      BY <3>1, <3>2 DEF lookup
  <2>2. CASE hash(g, q) = h
    <3>1. CASE At(t, g, q) = {}
      <4>1. ASSUME NEW j \in At(u, g, q) PROVE FALSE
        <5>1. j \in 1 .. Len(t[h]) - 1 /\ u[h][j].file = g
                /\ u[h][j].pageNo = q
          BY <2>2, <1>5 DEF At
        <5>2. Old(j, i) \in 1 .. Len(t[h]) /\ u[h][j] = t[h][Old(j, i)]
          BY <5>1, <1>4
        <5>3. Old(j, i) \in At(t, g, q)
          BY <5>1, <5>2, <2>2, <1>1 DEF At
        <5>. QED
          BY <5>3, <3>1
      <4>. QED
        BY <3>1, <4>1 DEF lookup
    <3>2. CASE At(t, g, q) # {}
      <4>1. PICK k : k \in At(t, g, q)
        BY <3>2
      <4>2. k \in 1 .. Len(t[h]) /\ t[h][k].file = g /\ t[h][k].pageNo = q
        BY <4>1, <2>2, <1>1 DEF At
      <4>3. t[h][i].file = f /\ t[h][i].pageNo = p
        BY <1>0 DEF At
      <4>4. PICK j \in 1 .. Len(t[h]) - 1 : Old(j, i) = k
        BY <4>2, <4>3, <1>6, <1>11
      <4>5. u[h][j] = t[h][k]
        BY <4>4, <1>4
      <4>6. j \in At(u, g, q)
        BY <4>2, <4>5, <2>2, <1>5 DEF At
      <4>7. lookup(u, g, q) = u[h][j].frameNo
        BY <4>6, <1>9, <2>2, OneBucket
      <4>8. lookup(t, g, q) = t[h][k].frameNo
        BY <4>1, <2>2, OneBucket
      <4>. QED
        BY <4>5, <4>7, <4>8
    <3>. QED
      BY <3>1, <3>2
  <2>. QED
    BY <2>1, <2>2
<1>. QED
  BY <1>9, <1>10, <1>11 DEF u

-----------------------------------------------------------------------------
(* What a step may leave to these lemmas. *)
LEMMA TheTable ==
    ASSUME IInv
    PROVE  /\ TableOK(ht)
           /\ \A f \in Files, p \in Pages :
                /\ lookup(ht, f, p) \in Frames \cup {NoFrame}
                /\ Present(ht, f, p) <=> lookup(ht, f, p) # NoFrame
<1>1. TableOK(ht)
  BY DEF IInv, TypeOK, TableOK
<1>. QED
  BY <1>1, LookupType

LEMMA OneHolder ==
    ASSUME IInv, NEW a \in Frames, NEW b \in Frames,
           bufDescTable[a].valid, bufDescTable[b].valid,
           bufDescTable[a].file = bufDescTable[b].file,
           bufDescTable[a].pageNo = bufDescTable[b].pageNo,
           bufDescTable[a].pageNo \notin strayed[bufDescTable[a].file]
    PROVE  a = b
<1>1. FrameOK(a) /\ FrameOK(b)
  BY DEF IInv, PoolInv
<1>2. Sound(a) /\ Sound(b)
  BY <1>1 DEF FrameOK
<1>. QED
  BY <1>1, <1>2 DEF FrameOK, Sound, Taken

(* The frame's page strayed. *)
Astray(fr) == bufDescTable[fr].pageNo \in strayed[bufDescTable[fr].file]

(* Nothing but reference bits, the hand and the call change. *)
LEMMA Elsewhere ==
    ASSUME IInv, UNCHANGED <<ht, bufPool, disk, clientVars>>,
           \A fr \in Frames :
              /\ bufDescTable[fr].valid \/ bufDescTable[fr].valid' =>
                   /\ bufDescTable'[fr].valid = bufDescTable[fr].valid
                   /\ bufDescTable'[fr].file = bufDescTable[fr].file
                   /\ bufDescTable'[fr].pageNo = bufDescTable[fr].pageNo
                   /\ bufDescTable'[fr].pinCnt = bufDescTable[fr].pinCnt
                   /\ bufDescTable[fr].dirty => bufDescTable'[fr].dirty
                   /\ \/ Taken(fr)' <=> Taken(fr)
                      \/ ~Taken(fr)' /\ Astray(fr)
              /\ ~bufDescTable[fr].valid => bufDescTable'[fr] = Cleared
    PROVE  PoolInv' /\ ChainsOK(ht)'
<1>1. ASSUME NEW fr \in Frames PROVE FrameOK(fr)'
  <2>1. FrameOK(fr)
    BY DEF IInv, PoolInv
  <2>2. CASE ~bufDescTable[fr].valid
    BY <2>2 DEF FrameOK, Cleared
  <2>3. CASE bufDescTable[fr].valid
    BY <2>1, <2>3 DEF FrameOK, Sound, Astray, clientVars
  <2>. QED
    BY <2>2, <2>3
<1>2. ASSUME NEW f \in Files, NEW p \in Pages PROVE PageOK(f, p)'
  <2>1. PageOK(f, p) /\ lookup(ht, f, p) \in Frames \cup {NoFrame}
    BY TheTable DEF IInv, PoolInv
  <2>. QED
    BY <2>1 DEF PageOK, clientVars
<1>. QED
  BY <1>1, <1>2 DEF PoolInv, IInv

(* Only the frame k and the page p of f change. *)
Only(k, f, p) ==
    /\ \A fr \in Frames : fr # k =>
         /\ bufDescTable'[fr] = bufDescTable[fr] /\ bufPool'[fr] = bufPool[fr]
         /\ ~Taken(fr) /\ ~Taken(fr)'
    /\ \A g \in Files, q \in Pages : g # f \/ q # p =>
         /\ lookup(ht', g, q) = lookup(ht, g, q)
         /\ disk'[g][q] = disk[g][q] /\ pins'[g][q] = pins[g][q]
         /\ q \in unsaved'[g] <=> q \in unsaved[g]
         /\ q \in strayed'[g] <=> q \in strayed[g]
    /\ p \in strayed[f] => p \in strayed'[f]

(* The frame k holds the page or none, and no other frame holds the page,  *)
(* unless it strayed.                                                      *)
Apart(k, f, p) ==
    \A fr \in Frames : bufDescTable[fr].valid =>
        /\ fr = k => bufDescTable[fr].file = f /\ bufDescTable[fr].pageNo = p
        /\ bufDescTable[fr].file = f /\ bufDescTable[fr].pageNo = p =>
              fr = k \/ p \in strayed[f]

LEMMA OnlyHere ==
    ASSUME IInv, NEW k \in Frames, NEW f \in Files, NEW p \in Pages,
           Only(k, f, p), Apart(k, f, p), FrameOK(k)', PageOK(f, p)'
    PROVE  PoolInv'
<1>1. ASSUME NEW fr \in Frames, fr # k PROVE FrameOK(fr)'
  <2>1. FrameOK(fr) /\ bufDescTable'[fr] = bufDescTable[fr]
          /\ bufPool'[fr] = bufPool[fr] /\ ~Taken(fr) /\ ~Taken(fr)'
    BY <1>1 DEF IInv, PoolInv, Only
  <2>2. CASE ~bufDescTable[fr].valid
    BY <2>1, <2>2 DEF FrameOK
  <2>3. CASE bufDescTable[fr].valid
    <3>. DEFINE g == bufDescTable[fr].file
               q == bufDescTable[fr].pageNo
    <3>1. g \in Files /\ q \in Pages
      BY <2>1, <2>3 DEF FrameOK
    <3>2. CASE g = f /\ q = p
      <4>1. q \in strayed'[g]
        BY <1>1, <2>3, <3>2 DEF Only, Apart
      <4>. QED
        BY <2>1, <2>3, <3>1, <4>1 DEF FrameOK
    <3>3. CASE g # f \/ q # p
      <4>1. /\ lookup(ht', g, q) = lookup(ht, g, q)
            /\ disk'[g][q] = disk[g][q] /\ pins'[g][q] = pins[g][q]
            /\ q \in unsaved'[g] <=> q \in unsaved[g]
            /\ q \in strayed'[g] <=> q \in strayed[g]
        BY <3>1, <3>3 DEF Only
      <4>. QED
        BY <2>1, <2>3, <3>1, <4>1 DEF FrameOK, Sound
    <3>. QED
      BY <3>2, <3>3
  <2>. QED
    BY <2>2, <2>3
<1>2. ASSUME NEW g \in Files, NEW q \in Pages, g # f \/ q # p
      PROVE  PageOK(g, q)'
  <2>1. PageOK(g, q) /\ lookup(ht, g, q) \in Frames \cup {NoFrame}
    BY TheTable DEF IInv, PoolInv
  <2>2. /\ lookup(ht', g, q) = lookup(ht, g, q)
        /\ pins'[g][q] = pins[g][q]
        /\ q \in unsaved'[g] <=> q \in unsaved[g]
        /\ q \in strayed'[g] <=> q \in strayed[g]
    BY <1>2 DEF Only
  <2>3. lookup(ht, g, q) # NoFrame =>
          bufDescTable'[lookup(ht, g, q)] = bufDescTable[lookup(ht, g, q)]
    BY <1>2, <2>1 DEF PageOK, Only, Apart
  <2>. QED
    BY <2>1, <2>2, <2>3 DEF PageOK
<1>. QED
  BY <1>1, <1>2 DEF PoolInv
-----------------------------------------------------------------------------
(* Steps that leave table, pages and clients alone. *)
LEMMA IdleType == Idle \in Calls
  BY DEF Idle, Calls

LEMMA HandType ==
    ASSUME TypeOK
    PROVE  Hand \in Frames
  BY DEF TypeOK, Hand, Frames

LEMMA CallType ==
    ASSUME TypeOK
    PROVE  /\ call.pc \in {"idle", "sweep", "swept", "fill", "flush",
                          "terminated"}
           /\ call.op \in {"none", "readPage", "allocPage", "flushFile"}
           /\ call.file \in Files \cup {NoFile}
           /\ call.page \in Pages \cup {INVALID_NUMBER}
           /\ call.i \in 0 .. 2 * numBufs
           /\ call.found \in BOOLEAN
  BY DEF TypeOK, Calls

Exceptions == {"none", "InvalidPage", "HashNotFound", "HashAlreadyPresent",
               "BufferExceeded", "PageNotPinned", "PagePinned"}

LEMMA StillInv ==
    ASSUME IInv, TypeOK', CallInv',
           UNCHANGED <<bufDescTable, ht, bufPool, disk, clientVars>>,
           \A fr \in Frames : bufDescTable[fr].valid =>
              \/ Taken(fr)' <=> Taken(fr)
              \/ ~Taken(fr)' /\ Astray(fr)
    PROVE  IInv'
<1>1. \A fr \in Frames : ~bufDescTable[fr].valid => bufDescTable[fr] = Cleared
  BY DEF IInv, PoolInv, FrameOK
<1>. QED
  BY <1>1, Elsewhere DEF IInv

(* The call ends, without a frame in its hand. *)
LEMMA ReturnInv ==
    ASSUME IInv, NEW e \in Exceptions, Return(e),
           UNCHANGED <<poolVars, disk, alive, clientVars>>,
           call.pc = "swept" =>
              ~bufDescTable[clockHand].valid \/ Astray(clockHand)
    PROVE  IInv'
<1>1. TypeOK'
  BY IdleType DEF IInv, TypeOK, Return, Idle, poolVars, clientVars, Exceptions
<1>2. CallInv'
  BY DEF CallInv, Return, Idle
<1>. QED
  BY <1>1, <1>2, StillInv DEF Taken, Return, Idle, poolVars

LEMMA ExceededInv == IInv /\ Exceeded => IInv'
<1>. SUFFICES ASSUME IInv, Exceeded PROVE IInv'
  OBVIOUS
<1>1. call.pc = "swept" => ~bufDescTable[clockHand].valid
  BY DEF Exceeded, Refused, IInv, CallInv
<1>. QED
  BY <1>1, ReturnInv DEF Exceeded, Exceptions

(* Only a frame whose page strayed cannot be written. *)
LEMMA UnwritableStrayed ==
    ASSUME IInv, NEW k \in Frames, ~Writable(k)
    PROVE  bufDescTable[k].valid /\ Astray(k)
<1>1. FrameOK(k) /\ bufDescTable[k].dirty
        /\ disk[bufDescTable[k].file][bufDescTable[k].pageNo] = Absent
  BY DEF IInv, PoolInv, Writable
<1>. QED
  BY <1>1 DEF FrameOK, Sound, Astray, Cleared

LEMMA TakeFrameFailsInv == IInv /\ TakeFrameFails => IInv'
<1>. SUFFICES ASSUME IInv, TakeFrameFails PROVE IInv'
  OBVIOUS
<1>1. Astray(clockHand)
  BY UnwritableStrayed DEF TakeFrameFails, IInv, TypeOK
<1>. QED
  BY <1>1, ReturnInv DEF TakeFrameFails, Exceptions

LEMMA OtherReturns ==
    ASSUME IInv,
           \/ ReadFillFails \/ FlushPinned \/ FlushFails \/ FlushDone
           \/ \E f \in Files, p \in Pages : DisposeRefused(f, p)
    PROVE  IInv'
<1>1. /\ UNCHANGED <<poolVars, disk, alive, clientVars>>
      /\ \E e \in Exceptions : Return(e)
      /\ call.pc # "swept"
  BY DEF ReadFillFails, FlushPinned, FlushFails, FlushTurning, FlushDone,
     DisposeRefused, Exceptions, Ready, Idle
<1>. QED
  BY <1>1, ReturnInv

(* A call that takes more than one step begins. *)
LEMMA EnterInv ==
    ASSUME IInv, Ready, NEW f \in Files, NEW p \in Pages \cup {INVALID_NUMBER},
           \/ /\ Enter("sweep", "readPage", f, p)
              /\ p \in Pages /\ lookup(ht, f, p) = NoFrame
           \/ Enter("sweep", "allocPage", f, p)
           \/ Enter("flush", "flushFile", f, p),
           UNCHANGED <<poolVars, disk, alive, clientVars>>
    PROVE  IInv'
<1>1. PICK pc \in {"sweep", "flush"}, op \in {"readPage", "allocPage", "flushFile"} :
        /\ call' = [pc |-> pc, op |-> op, file |-> f, page |-> p, i |-> 0,
                    found |-> FALSE]
        /\ op = "readPage" => p \in Pages /\ lookup(ht, f, p) = NoFrame
        /\ pc = "sweep" <=> op # "flushFile"
  BY DEF Enter, Idle
<1>2. thrown' = "none" /\ call.pc = "idle"
  BY DEF Enter, Ready, Idle
<1>3. TypeOK'
  BY <1>1, <1>2 DEF IInv, TypeOK, Calls, poolVars, clientVars
<1>4. CallInv'
  <2>1. /\ call'.pc = pc /\ call'.op = op /\ call'.file = f /\ call'.page = p
        /\ call'.i = 0 /\ ~call'.found /\ pc # "idle" /\ ht' = ht
    BY <1>1 DEF poolVars
  <2>2. call' # Idle
    BY <2>1 DEF Idle
  <2>3. op = "readPage" => lookup(ht', f, p) = NoFrame
    BY <2>1, <1>1
  <2>4. \A fr \in Frames : ~(fr < 0)
    BY DEF Frames
  <2>5. pc = "flush" => op = "flushFile" /\ 0 <= numBufs
    BY <1>1
  <2>6. pc = "sweep" => op \in {"readPage", "allocPage"}
    BY <1>1
  <2>. QED
    BY <2>1, <2>2, <2>3, <2>4, <2>5, <2>6 DEF CallInv
<1>. QED
  BY <1>1, <1>2, <1>3, <1>4, StillInv DEF Taken, poolVars

LEMMA Entries ==
    ASSUME IInv,
           \E f \in Files :
              \/ AllocPage(f) \/ FlushFile(f)
              \/ \E p \in Pages : ReadMiss(f, p)
    PROVE  IInv'
  BY EnterInv, TheTable DEF AllocPage, FlushFile, ReadMiss

LEMMA FlushOtherInv == IInv /\ FlushOther => IInv'
<1>. SUFFICES ASSUME IInv, FlushOther PROVE IInv'
  OBVIOUS
<1>1. /\ call.pc = "flush" /\ call.i < numBufs /\ call.i \in Nat
      /\ call' = [call EXCEPT !.i = @ + 1]
      /\ bufDescTable[call.i].file # call.file
      /\ UNCHANGED <<poolVars, disk, thrown, alive, clientVars>>
  BY CallType DEF FlushOther, FlushTurning, Flushee, IInv
<1>i. call.i + 1 \in 0 .. 2 * numBufs
  BY <1>1
<1>2. /\ call' \in Calls
      /\ call'.pc = "flush" /\ call'.op = call.op /\ call'.file = call.file
      /\ call'.page = call.page /\ call'.i = call.i + 1
  BY <1>1, <1>i DEF IInv, TypeOK, Calls
<1>3. TypeOK'
  BY <1>1, <1>2 DEF IInv, TypeOK, poolVars, clientVars
<1>4. CallInv'
  BY <1>1, <1>2 DEF IInv, CallInv, poolVars, Idle, Frames
<1>. QED
  BY <1>1, <1>2, <1>3, <1>4, StillInv DEF Taken, poolVars

LEMMA ConstructInv == IInv /\ Construct => IInv'
<1>. SUFFICES ASSUME IInv, Construct PROVE IInv'
  OBVIOUS
<1>1. UNCHANGED <<bufDescTable, ht, clockHand, bufPool, disk, call, thrown,
                  pins, unsaved, strayed>> /\ alive' = TRUE
  BY DEF Construct, poolVars, clientVars
<1>2. TypeOK'
  BY <1>1 DEF IInv, TypeOK
<1>3. CallInv'
  BY <1>1 DEF IInv, CallInv
<1>. QED
  BY <1>1, <1>2, <1>3, StillInv DEF Taken, clientVars
-----------------------------------------------------------------------------
(* The turns of the clock. *)
LEMMA TurnEffect ==
    ASSUME IInv, Turning, NEW pc \in {"sweep", "swept"}, NEW found \in BOOLEAN,
           Turn(pc, found)
    PROVE  /\ call' \in Calls /\ clockHand' = Hand /\ Hand \in Frames
           /\ call'.pc = pc /\ call'.found = found /\ call' # Idle
           /\ call'.op = call.op /\ call'.file = call.file
           /\ call'.page = call.page /\ call'.i = call.i + 1
           /\ call.op \in {"readPage", "allocPage"} /\ call.file \in Files
           /\ call.op = "readPage" =>
                call.page \in Pages /\ lookup(ht, call.file, call.page) = NoFrame
           /\ UNCHANGED <<thrown, alive>>
<1>1. call.pc = "sweep" /\ call.i + 1 \in 0 .. 2 * numBufs
  BY CallType DEF Turning, IInv
<1>2. call' = [call EXCEPT !.pc = pc, !.found = found, !.i = @ + 1]
  BY DEF Turn
<1>3. /\ call' \in Calls
      /\ call'.pc = pc /\ call'.found = found
      /\ call'.op = call.op /\ call'.file = call.file
      /\ call'.page = call.page /\ call'.i = call.i + 1
  BY <1>1, <1>2 DEF IInv, TypeOK, Calls
<1>4. call' # Idle
  BY <1>3 DEF Idle
<1>5. call.op \in {"readPage", "allocPage"} /\ call.file \in Files
        /\ (call.op = "readPage" =>
              call.page \in Pages /\ lookup(ht, call.file, call.page) = NoFrame)
  BY <1>1 DEF IInv, TypeOK, CallInv
<1>. QED
  BY <1>3, <1>4, <1>5, HandType DEF Turn, IInv

LEMMA BreakAtInvalidInv == IInv /\ BreakAtInvalid => IInv'
<1>. SUFFICES ASSUME IInv, BreakAtInvalid PROVE IInv'
  OBVIOUS
<1>1. /\ Turning /\ Turn("swept", FALSE) /\ ~bufDescTable[Hand].valid
      /\ UNCHANGED <<bufDescTable, ht, bufPool, disk, clientVars>>
  BY DEF BreakAtInvalid, Victim
<1>2. /\ call' \in Calls /\ clockHand' = Hand /\ Hand \in Frames
      /\ call'.pc = "swept" /\ call'.found = FALSE /\ call' # Idle
      /\ call'.op = call.op /\ call'.file = call.file
      /\ call'.page = call.page
      /\ call.op \in {"readPage", "allocPage"} /\ call.file \in Files
      /\ call.op = "readPage" =>
           call.page \in Pages /\ lookup(ht, call.file, call.page) = NoFrame
      /\ UNCHANGED <<thrown, alive>>
  BY <1>1, TurnEffect
<1>3. TypeOK'
  BY <1>1, <1>2 DEF IInv, TypeOK, clientVars
<1>4. CallInv'
  BY <1>1, <1>2 DEF CallInv
<1>. QED
  BY <1>1, <1>2, <1>3, <1>4, StillInv DEF Taken, Turning

LEMMA SkipPinnedInv == IInv /\ SkipPinned => IInv'
<1>. SUFFICES ASSUME IInv, SkipPinned PROVE IInv'
  OBVIOUS
<1>1. /\ Turning /\ Turn("sweep", FALSE)
      /\ UNCHANGED <<bufDescTable, ht, bufPool, disk, clientVars>>
  BY DEF SkipPinned
<1>2. /\ call' \in Calls /\ clockHand' = Hand /\ Hand \in Frames
      /\ call'.pc = "sweep" /\ call'.found = FALSE /\ call' # Idle
      /\ call'.op = call.op /\ call'.file = call.file
      /\ call'.page = call.page
      /\ call.op \in {"readPage", "allocPage"} /\ call.file \in Files
      /\ call.op = "readPage" =>
           call.page \in Pages /\ lookup(ht, call.file, call.page) = NoFrame
      /\ UNCHANGED <<thrown, alive>>
  BY <1>1, TurnEffect
<1>3. TypeOK'
  BY <1>1, <1>2 DEF IInv, TypeOK, clientVars
<1>4. CallInv'
  BY <1>1, <1>2 DEF CallInv
<1>. QED
  BY <1>1, <1>2, <1>3, <1>4, StillInv DEF Taken, Turning

LEMMA ClearRefbitInv == IInv /\ ClearRefbit => IInv'
<1>. SUFFICES ASSUME IInv, ClearRefbit PROVE IInv'
  OBVIOUS
<1>1. /\ Turning /\ Turn("sweep", FALSE) /\ bufDescTable[Hand].valid
      /\ bufDescTable' = [bufDescTable EXCEPT ![Hand].refbit = FALSE]
      /\ UNCHANGED <<ht, bufPool, disk, clientVars>>
  BY DEF ClearRefbit, Victim
<1>2. /\ call' \in Calls /\ clockHand' = Hand /\ Hand \in Frames
      /\ call'.pc = "sweep" /\ call'.found = FALSE /\ call' # Idle
      /\ call'.op = call.op /\ call'.file = call.file
      /\ call'.page = call.page
      /\ call.op \in {"readPage", "allocPage"} /\ call.file \in Files
      /\ call.op = "readPage" =>
           call.page \in Pages /\ lookup(ht, call.file, call.page) = NoFrame
      /\ UNCHANGED <<thrown, alive>>
  BY <1>1, TurnEffect
<1>h. PICK k \in Frames : k = Hand
  BY <1>2
<1>t. bufDescTable \in [Frames -> BufDesc]
        /\ bufDescTable' = [bufDescTable EXCEPT ![k].refbit = FALSE]
  BY <1>1, <1>h DEF IInv, TypeOK
<1>5. /\ bufDescTable' \in [Frames -> BufDesc]
      /\ \A fr \in Frames :
           /\ bufDescTable'[fr].valid = bufDescTable[fr].valid
           /\ bufDescTable'[fr].file = bufDescTable[fr].file
           /\ bufDescTable'[fr].pageNo = bufDescTable[fr].pageNo
           /\ bufDescTable'[fr].pinCnt = bufDescTable[fr].pinCnt
           /\ bufDescTable'[fr].dirty = bufDescTable[fr].dirty
           /\ ~bufDescTable[fr].valid => bufDescTable'[fr] = bufDescTable[fr]
  <2>1. \A fr \in Frames : fr # k => bufDescTable'[fr] = bufDescTable[fr]
    BY <1>t
  <2>2. /\ bufDescTable[k] \in BufDesc /\ bufDescTable[k].valid
        /\ bufDescTable'[k] = [bufDescTable[k] EXCEPT !.refbit = FALSE]
    BY <1>1, <1>h, <1>t
  <2>. QED
    BY <1>t, <2>1, <2>2 DEF BufDesc
<1>6. \A fr \in Frames : ~bufDescTable[fr].valid => bufDescTable[fr] = Cleared
  BY DEF IInv, PoolInv, FrameOK
<1>3. TypeOK'
  BY <1>1, <1>2, <1>5 DEF IInv, TypeOK, clientVars
<1>4. CallInv'
  BY <1>1, <1>2 DEF CallInv
<1>7. \A fr \in Frames : ~Taken(fr) /\ ~Taken(fr)'
  BY <1>1, <1>2 DEF Taken, Turning
<1>8. PoolInv' /\ ChainsOK(ht)'
  BY <1>1, <1>5, <1>6, <1>7, Elsewhere
<1>. QED
  BY <1>3, <1>4, <1>8 DEF IInv

(* A valid frame that is not taken is named by its page's entry, and what  *)
(* it holds is apart from what other frames hold.                          *)
LEMMA HeldPage ==
    ASSUME IInv, NEW k \in Frames, bufDescTable[k].valid, ~Taken(k),
           ~Astray(k)
    PROVE  /\ bufDescTable[k].file \in Files /\ bufDescTable[k].pageNo \in Pages
           /\ lookup(ht, bufDescTable[k].file, bufDescTable[k].pageNo) = k
           /\ Present(ht, bufDescTable[k].file, bufDescTable[k].pageNo)
           /\ k # NoFrame
           /\ bufDescTable[k].pinCnt
                = pins[bufDescTable[k].file][bufDescTable[k].pageNo]
<1>1. FrameOK(k)
  BY DEF IInv, PoolInv
<1>. QED
  BY <1>1, TheTable DEF FrameOK, Sound, Astray

LEMMA HeldApart ==
    ASSUME IInv, NEW k \in Frames, bufDescTable[k].valid
    PROVE  Apart(k, bufDescTable[k].file, bufDescTable[k].pageNo)
  BY OneHolder DEF Apart

(* The page of a frame that is not pinned. *)
LEMMA UnpinnedPage ==
    ASSUME IInv, NEW k \in Frames, bufDescTable[k].valid,
           bufDescTable[k].pinCnt = 0, ~Astray(k)
    PROVE  /\ pins[bufDescTable[k].file][bufDescTable[k].pageNo] = 0
           /\ bufDescTable[k].pageNo \notin unsaved[bufDescTable[k].file]
<1>1. FrameOK(k) /\ \A f \in Files, p \in Pages : PageOK(f, p)
  BY DEF IInv, PoolInv
<1>2. bufDescTable[k].file \in Files /\ bufDescTable[k].pageNo \in Pages
  BY <1>1 DEF FrameOK
<1>3. pins[bufDescTable[k].file][bufDescTable[k].pageNo] = 0
  BY <1>1 DEF FrameOK, Sound, Astray
<1>. QED
  BY <1>1, <1>2, <1>3 DEF PageOK

LEMMA BreakAtVictimInv == IInv /\ BreakAtVictim => IInv'
<1>. SUFFICES ASSUME IInv, BreakAtVictim PROVE IInv'
  OBVIOUS
<1>h. PICK k \in Frames : k = Hand
  BY HandType DEF IInv
<1>. DEFINE d == bufDescTable[k]
<1>0. /\ Turning /\ call.pc = "sweep" /\ d.valid /\ d.pinCnt = 0
      /\ ~Taken(k)
      /\ UNCHANGED <<bufDescTable, bufPool, disk, pins, unsaved, strayed>>
  BY <1>h DEF BreakAtVictim, Turning, Victim, clientVars, Taken
<1>p. PICK f \in Files, p \in Pages : f = d.file /\ p = d.pageNo
  BY <1>0 DEF IInv, PoolInv, FrameOK
<1>1. Apart(k, f, p)
  BY <1>0, <1>p, HeldApart
<1>2. CASE ~Present(ht, f, p)
  <2>1. /\ call' = Idle /\ thrown' = "HashNotFound" /\ clockHand' = k
        /\ UNCHANGED <<ht, alive>>
    BY <1>h, <1>p, <1>2 DEF BreakAtVictim, Victim, Return
  <2>2. TypeOK'
    BY <1>0, <2>1, IdleType DEF IInv, TypeOK, Idle
  <2>3. CallInv'
    BY <2>1 DEF CallInv, Idle
  <2>4. \A fr \in Frames : ~Taken(fr) /\ ~Taken(fr)'
    BY <1>0, <2>1 DEF Taken, Idle
  <2>. QED
    BY <1>0, <2>1, <2>2, <2>3, <2>4, StillInv DEF clientVars
<1>3. CASE Present(ht, f, p)
  <2>2. Turn("swept", TRUE) /\ ht' = remove(ht, f, p)
    BY <1>h, <1>p, <1>3 DEF BreakAtVictim, Victim
  <2>3. /\ call' \in Calls /\ clockHand' = k
        /\ call'.pc = "swept" /\ call'.found = TRUE /\ call' # Idle
        /\ call'.op = call.op /\ call'.file = call.file
        /\ call'.page = call.page
        /\ call.op \in {"readPage", "allocPage"} /\ call.file \in Files
        /\ call.op = "readPage" =>
             call.page \in Pages /\ lookup(ht, call.file, call.page) = NoFrame
        /\ UNCHANGED <<thrown, alive>>
    BY <1>0, <2>2, <1>h, TurnEffect
  <2>4. /\ TableOK(ht') /\ lookup(ht', f, p) = NoFrame
        /\ \A g \in Files, q \in Pages : g # f \/ q # p =>
             lookup(ht', g, q) = lookup(ht, g, q)
    BY <1>3, <2>2, RemoveEffect, TheTable
  <2>5. TypeOK'
    BY <1>0, <2>3, <2>4 DEF IInv, TypeOK, TableOK
  <2>6. CallInv'
    <3>1. call.op = "readPage" => lookup(ht', call.file, call.page) = NoFrame
      BY <2>3, <2>4
    <3>. QED
      BY <3>1, <1>0, <2>3 DEF CallInv
  <2>7. FrameOK(k) /\ PageOK(f, p) /\ (p \notin strayed[f] => pins[f][p] = 0)
    BY <1>0, <1>p, UnpinnedPage DEF IInv, PoolInv, Astray
  <2>8. FrameOK(k)'
    BY <1>0, <1>p, <2>3, <2>4, <2>7 DEF FrameOK, Sound, Taken
  <2>9. PageOK(f, p)'
    BY <1>0, <2>4, <2>7 DEF PageOK
  <2>10. Only(k, f, p)
    BY <1>0, <2>3, <2>4 DEF Only, Taken
  <2>11. PoolInv'
    BY <1>1, <2>8, <2>9, <2>10, OnlyHere
  <2>. QED
    BY <2>4, <2>5, <2>6, <2>11 DEF IInv, TableOK
<1>. QED
  BY <1>2, <1>3
-----------------------------------------------------------------------------
(* Writing frames back. *)
LEMMA HoldersAreValid ==
    ASSUME IInv, NEW f \in Files, NEW p \in Pages, NEW fr \in Holding(f, p)
    PROVE  /\ fr \in Frames /\ bufDescTable[fr].valid
           /\ bufDescTable[fr].file = f /\ bufDescTable[fr].pageNo = p
           /\ p \notin strayed[f] => Holding(f, p) = {fr}
<1>1. ASSUME NEW k \in Holding(f, p)
      PROVE  /\ k \in Frames /\ bufDescTable[k].valid
             /\ bufDescTable[k].file = f /\ bufDescTable[k].pageNo = p
  BY DEF Holding, IInv, PoolInv, FrameOK, Cleared
<1>2. ASSUME p \notin strayed[f], NEW k \in Holding(f, p) PROVE k = fr
  BY <1>1, <1>2, OneHolder
<1>. QED
  BY <1>1, <1>2

(* Of some frames, one is the last: the intervals from them to the end of  *)
(* the pool are finite sets, ordered by inclusion.                         *)
LEMMA Last ==
    ASSUME NEW T, T \subseteq Frames, T # {}
    PROVE  \E x \in T : \A y \in T : y <= x
<1> DEFINE F == {x .. numBufs : x \in T}
<1>1. F \subseteq FiniteSubsetsOf(Nat) /\ F # {}
  <2>1. ASSUME NEW x \in T
        PROVE  IsFiniteSet(x .. numBufs) /\ x .. numBufs \in SUBSET Nat
    <3>1. x \in Nat /\ x \in Int /\ numBufs \in Int
      BY DEF Frames
    <3>2. IsFiniteSet(x .. numBufs)
      BY <3>1, FS_Interval
    <3>. QED
      BY <3>1, <3>2
  <2>2. \A I \in F : IsFiniteSet(I) /\ I \in SUBSET Nat
    BY <2>1
  <2>3. F # {}
    OBVIOUS
  <2>. HIDE DEF F
  <2>. QED
    BY <2>2, <2>3 DEF FiniteSubsetsOf
<1>2. \E I \in F : \A J \in F : ~ (<<J, I>> \in StrictSubsetOrdering(Nat))
  <2>. HIDE DEF F
  <2>. QED
    BY <1>1, FS_StrictSubsetOrderingWellFounded, WFMin
<1>3. PICK x \in T : \A y \in T :
         ~ (<<y .. numBufs, x .. numBufs>> \in StrictSubsetOrdering(Nat))
  BY <1>2
<1>4. ASSUME NEW y \in T PROVE y <= x
  <2>. SUFFICES ASSUME x < y PROVE FALSE
    BY DEF Frames
  <2>0. x \in 0 .. numBufs - 1 /\ y \in 0 .. numBufs - 1
    BY DEF Frames
  <2>1. y .. numBufs \in SUBSET Nat /\ x .. numBufs \in SUBSET Nat
    BY <2>0
  <2>2. y .. numBufs \subseteq x .. numBufs /\ y .. numBufs # x .. numBufs
    <3>1. x \in x .. numBufs /\ x \notin y .. numBufs
      BY <2>0
    <3>. QED
      BY <2>0, <3>1
  <2>. QED
    BY <1>3, <2>1, <2>2 DEF StrictSubsetOrdering
<1>. QED
  BY <1>4

LEMMA WrittenEffect ==
    ASSUME IInv, NEW S \in SUBSET Frames
    PROVE  /\ Written(S) \in [Files -> [Pages -> Data \cup {Absent}]]
           /\ \A f \in Files, p \in Pages :
                /\ \A fr \in S :
                     S \cap Holding(f, p) = {fr} =>
                       Written(S)[f][p] = bufPool[fr]
                /\ S \cap Holding(f, p) = {} => Written(S)[f][p] = disk[f][p]
<1>. DEFINE copies(f, p) == S \cap Holding(f, p)
           last(f, p) == CHOOSE fr \in copies(f, p) :
                            \A other \in copies(f, p) : other <= fr
           New(f, p) == IF copies(f, p) = {} THEN disk[f][p]
                        ELSE bufPool[last(f, p)]
<1>t. /\ bufPool \in [Frames -> Data]
      /\ disk \in [Files -> [Pages -> Data \cup {Absent}]]
  BY DEF IInv, TypeOK
<1>1. Written(S) = [f \in Files |-> [p \in Pages |-> New(f, p)]]
  BY DEF Written
<1>2. ASSUME NEW f \in Files, NEW p \in Pages, copies(f, p) # {}
      PROVE  last(f, p) \in copies(f, p)
  <2>1. copies(f, p) \subseteq Frames
    OBVIOUS
  <2>. HIDE DEF copies
  <2>2. \E x \in copies(f, p) : \A y \in copies(f, p) : y <= x
    BY <1>2, <2>1, Last
  <2>. QED
    BY <2>2
<1>3. ASSUME NEW f \in Files, NEW p \in Pages, NEW fr \in S,
             copies(f, p) = {fr}
      PROVE  New(f, p) = bufPool[fr]
  <2>1. last(f, p) = fr
    BY <1>2, <1>3
  <2>. QED
    BY <2>1, <1>3
<1>4. ASSUME NEW f \in Files, NEW p \in Pages
      PROVE  New(f, p) \in Data \cup {Absent}
  <2>1. CASE copies(f, p) = {}
    BY <2>1, <1>t
  <2>2. CASE copies(f, p) # {}
    <3>1. last(f, p) \in Frames
      BY <2>2, <1>2
    <3>. QED
      BY <2>2, <3>1, <1>t
  <2>. QED
    BY <2>1, <2>2
<1>5. \A f \in Files, p \in Pages : copies(f, p) = {} => New(f, p) = disk[f][p]
  OBVIOUS
<1>. HIDE DEF New
<1>. QED
  BY <1>1, <1>3, <1>4, <1>5

(* The frame k is written back if it is dirty. *)
LEMMA WriteOneEffect ==
    ASSUME IInv, NEW k \in Frames,
           disk' = Written({k} \cap {fr \in Frames : bufDescTable[fr].dirty})
    PROVE  /\ disk' \in [Files -> [Pages -> Data \cup {Absent}]]
           /\ \A f \in Files, p \in Pages :
                disk'[f][p] = IF bufDescTable[k].dirty /\ k \in Holding(f, p)
                              THEN bufPool[k] ELSE disk[f][p]
<1>. DEFINE S == {k} \cap {fr \in Frames : bufDescTable[fr].dirty}
<1>1. S \in SUBSET Frames /\ (k \in S <=> bufDescTable[k].dirty)
        /\ S \subseteq {k}
  OBVIOUS
<1>2. disk' = Written(S)
  OBVIOUS
<1>. HIDE DEF S
<1>3. /\ Written(S) \in [Files -> [Pages -> Data \cup {Absent}]]
      /\ \A f \in Files, p \in Pages :
           /\ \A fr \in S :
                S \cap Holding(f, p) = {fr} => Written(S)[f][p] = bufPool[fr]
           /\ S \cap Holding(f, p) = {} => Written(S)[f][p] = disk[f][p]
  BY <1>1, WrittenEffect
<1>4. ASSUME NEW f \in Files, NEW p \in Pages
      PROVE  disk'[f][p] = IF bufDescTable[k].dirty /\ k \in Holding(f, p)
                           THEN bufPool[k] ELSE disk[f][p]
  <2>1. CASE k \in S /\ k \in Holding(f, p)
    <3>1. S \cap Holding(f, p) = {k}
      BY <2>1, <1>1
    <3>. QED
      BY <2>1, <3>1, <1>1, <1>2, <1>3
  <2>2. CASE k \notin S \/ k \notin Holding(f, p)
    <3>1. S \cap Holding(f, p) = {}
      BY <2>2, <1>1
    <3>. QED
      BY <2>2, <3>1, <1>1, <1>2, <1>3
  <2>. QED
    BY <2>1, <2>2
<1>. QED
  BY <1>2, <1>3, <1>4

LEMMA ClearedType == Cleared \in BufDesc /\ ~Cleared.valid /\ ~Cleared.dirty
                       /\ Cleared.file = NoFile
  BY DEF Cleared, BufDesc

(* The frame that the sweep has stopped at. *)
LEMMA TakeFrameEffect ==
    ASSUME IInv, TakeFrame
    PROVE  call.pc = "swept"
<1>1. call.i \in 0 .. 2 * numBufs
  BY CallType DEF IInv
<1>. QED
  BY <1>1 DEF TakeFrame, LoopOver, Refused, IInv, CallInv

LEMMA TakeFrameInv == IInv /\ TakeFrame => IInv'
<1>. SUFFICES ASSUME IInv, TakeFrame PROVE IInv'
  OBVIOUS
<1>h. PICK k \in Frames : k = clockHand
  BY DEF IInv, TypeOK
<1>. DEFINE d == bufDescTable[k]
<1>1. /\ disk' = Written({k} \cap {fr \in Frames : bufDescTable[fr].dirty})
      /\ bufDescTable' = [bufDescTable EXCEPT ![k] = Cleared]
      /\ call' = [call EXCEPT !.pc = "fill"] /\ clockHand' = k
      /\ UNCHANGED <<ht, bufPool, thrown, alive, pins, unsaved, strayed>>
      /\ call.pc = "swept" /\ Taken(k)
  BY <1>h, TakeFrameEffect DEF TakeFrame, clientVars, Taken
<1>2. /\ bufDescTable' \in [Frames -> BufDesc]
      /\ bufDescTable'[k] = Cleared
      /\ \A fr \in Frames : fr # k => bufDescTable'[fr] = bufDescTable[fr]
  BY <1>1, ClearedType DEF IInv, TypeOK
<1>3. /\ disk' \in [Files -> [Pages -> Data \cup {Absent}]]
      /\ \A f \in Files, p \in Pages :
           disk'[f][p] = IF d.dirty /\ k \in Holding(f, p)
                         THEN bufPool[k] ELSE disk[f][p]
  BY <1>1, WriteOneEffect
<1>4. /\ call' \in Calls /\ call'.pc = "fill" /\ call' # Idle
      /\ call'.op = call.op /\ call'.file = call.file
      /\ call'.page = call.page
  BY <1>1 DEF IInv, TypeOK, Calls, Idle
<1>5. TypeOK'
  BY <1>1, <1>2, <1>3, <1>4 DEF IInv, TypeOK
<1>6. CallInv'
  <2>1. /\ call.op \in {"readPage", "allocPage"}
        /\ call.op = "readPage" => lookup(ht, call.file, call.page) = NoFrame
    BY <1>1 DEF IInv, CallInv
  <2>. QED
    BY <2>1, <1>1, <1>2, <1>4 DEF CallInv
<1>7. CASE ~d.valid
  <2>1. d = Cleared
    BY <1>7 DEF IInv, PoolInv, FrameOK
  <2>2. bufDescTable' = bufDescTable
    BY <1>1, <2>1 DEF IInv, TypeOK
  <2>3. disk' = disk
    <3>1. \A f \in Files, p \in Pages : disk'[f][p] = disk[f][p]
      BY <1>3, <2>1, ClearedType
    <3>2. disk \in [Files -> [Pages -> Data \cup {Absent}]]
      BY DEF IInv, TypeOK
    <3>3. ASSUME NEW f \in Files PROVE disk'[f] = disk[f]
      BY <3>1, <3>2, <1>3
    <3>. QED
      BY <3>2, <3>3, <1>3
  <2>. QED
    BY <1>1, <1>4, <1>5, <1>6, <1>7, <2>2, <2>3, StillInv DEF Taken, clientVars
<1>8. CASE d.valid
  <2>p. PICK f \in Files, p \in Pages : f = d.file /\ p = d.pageNo
    BY <1>8 DEF IInv, PoolInv, FrameOK
  <2>1. /\ FrameOK(k) /\ PageOK(f, p) /\ lookup(ht, f, p) = NoFrame
    BY <1>1, <1>8, <2>p DEF IInv, PoolInv, FrameOK
  <2>2. \A g \in Files, q \in Pages :
           g # f \/ q # p => disk'[g][q] = disk[g][q]
    BY <1>3, <2>p DEF Holding
  <2>3. Only(k, f, p)
    BY <1>1, <1>2, <1>4, <2>2 DEF Only, Taken
  <2>4. Apart(k, f, p)
    BY <1>8, <2>p, HeldApart
  <2>5. FrameOK(k)'
    BY <1>2, ClearedType DEF FrameOK
  <2>6. PageOK(f, p)'
    BY <1>1, <2>1 DEF PageOK
  <2>7. PoolInv'
    BY <2>3, <2>4, <2>5, <2>6, OnlyHere
  <2>8. ChainsOK(ht)'
    BY <1>1 DEF IInv
  <2>. QED
    BY <1>5, <1>6, <2>7, <2>8 DEF IInv
<1>. QED
  BY <1>7, <1>8
-----------------------------------------------------------------------------
(* Filling the frame. *)
LEMMA AssignedType ==
    ASSUME NEW f \in Files, NEW p \in Pages
    PROVE  /\ Assigned(f, p) \in BufDesc
           /\ Assigned(f, p).file = f /\ Assigned(f, p).pageNo = p
           /\ Assigned(f, p).valid /\ Assigned(f, p).pinCnt = 1
           /\ ~Assigned(f, p).dirty
  BY DEF Assigned, BufDesc

(* A page that has an entry already, of an old copy. *)
LEMMA InstallAgainInv ==
    ASSUME IInv, call.pc = "fill",
           NEW f \in Files, NEW p \in Pages, NEW d \in Data,
           Present(ht, f, p), p \in strayed[f],
           Install(f, p, d),
           disk' = [disk EXCEPT ![f][p] = d]
    PROVE  IInv'
<1>h. PICK k \in Frames : k = clockHand
  BY DEF IInv, TypeOK
<1>1. bufDescTable[k] = Cleared /\ ~bufDescTable[k].valid
        /\ \A fr \in Frames : ~Taken(fr)
  BY <1>h, ClearedType DEF IInv, CallInv, Taken
<1>3. /\ bufPool' = [bufPool EXCEPT ![k] = d]
      /\ bufDescTable' = [bufDescTable EXCEPT ![k] = Assigned(f, p)]
      /\ call' = Idle /\ thrown' = "HashAlreadyPresent"
      /\ UNCHANGED <<ht, pins, clockHand, alive, unsaved, strayed>>
  BY <1>h DEF Install, Return
<1>t. /\ bufDescTable \in [Frames -> BufDesc]
      /\ disk \in [Files -> [Pages -> Data \cup {Absent}]]
      /\ bufPool \in [Frames -> Data]
  BY DEF IInv, TypeOK
<1>a. /\ Assigned(f, p) \in BufDesc
      /\ Assigned(f, p).file = f /\ Assigned(f, p).pageNo = p
      /\ Assigned(f, p).valid
  BY AssignedType
<1>5. /\ bufDescTable' \in [Frames -> BufDesc]
      /\ bufDescTable'[k] = Assigned(f, p)
      /\ bufPool' \in [Frames -> Data]
      /\ \A fr \in Frames : fr # k => /\ bufDescTable'[fr] = bufDescTable[fr]
                                      /\ bufPool'[fr] = bufPool[fr]
  BY <1>3, <1>t, <1>a
<1>6. /\ disk' \in [Files -> [Pages -> Data \cup {Absent}]]
      /\ \A g \in Files, q \in Pages : g # f \/ q # p =>
           disk'[g][q] = disk[g][q]
  BY <1>t
<1>7. PageOK(f, p) /\ lookup(ht, f, p) \in Frames \cup {NoFrame}
  BY TheTable DEF IInv, PoolInv
<1>8. TypeOK'
  BY <1>3, <1>5, <1>6, IdleType DEF IInv, TypeOK, Idle
<1>9. CallInv'
  BY <1>3 DEF CallInv, Idle
<1>10. \A fr \in Frames : ~Taken(fr)'
  BY <1>3 DEF Taken, Idle
<1>11. FrameOK(k)'
  BY <1>3, <1>5, <1>10, <1>a DEF FrameOK
<1>12. PageOK(f, p)'
  BY <1>1, <1>3, <1>5, <1>7 DEF PageOK
<1>13. Only(k, f, p)
  BY <1>1, <1>3, <1>5, <1>6, <1>10 DEF Only
<1>14. Apart(k, f, p)
  BY <1>1 DEF Apart
<1>15. PoolInv'
  BY <1>11, <1>12, <1>13, <1>14, OnlyHere
<1>. QED
  BY <1>3, <1>8, <1>9, <1>15 DEF IInv

LEMMA InstallInv ==
    ASSUME IInv, call.pc = "fill",
           NEW f \in Files, NEW p \in Pages, NEW d \in Data,
           lookup(ht, f, p) = NoFrame,
           Install(f, p, d),
           disk' = [disk EXCEPT ![f][p] = d]
    PROVE  IInv'
<1>h. PICK k \in Frames : k = clockHand
  BY DEF IInv, TypeOK
<1>1. bufDescTable[k] = Cleared /\ ~bufDescTable[k].valid
        /\ \A fr \in Frames : ~Taken(fr)
  BY <1>h, ClearedType DEF IInv, CallInv, Taken
<1>2. ~Present(ht, f, p)
  BY TheTable
<1>3. /\ bufPool' = [bufPool EXCEPT ![k] = d]
      /\ bufDescTable' = [bufDescTable EXCEPT ![k] = Assigned(f, p)]
      /\ ht' = insert(ht, f, p, k)
      /\ pins' = [pins EXCEPT ![f][p] = @ + 1]
      /\ call' = Idle /\ thrown' = "none"
      /\ UNCHANGED <<clockHand, alive, unsaved, strayed>>
  BY <1>h, <1>2 DEF Install, Return
<1>4. /\ TableOK(ht') /\ lookup(ht', f, p) = k /\ k # NoFrame
      /\ \A g \in Files, q \in Pages : g # f \/ q # p =>
           lookup(ht', g, q) = lookup(ht, g, q)
  BY <1>3, InsertEffect, TheTable
<1>t. /\ bufDescTable \in [Frames -> BufDesc]
      /\ disk \in [Files -> [Pages -> Data \cup {Absent}]]
      /\ bufPool \in [Frames -> Data]
      /\ pins \in [Files -> [Pages -> Nat]]
  BY DEF IInv, TypeOK
<1>a. /\ Assigned(f, p) \in BufDesc
      /\ Assigned(f, p).file = f /\ Assigned(f, p).pageNo = p
      /\ Assigned(f, p).valid /\ Assigned(f, p).pinCnt = 1
      /\ ~Assigned(f, p).dirty
  BY AssignedType
<1>5. /\ bufDescTable' \in [Frames -> BufDesc]
      /\ bufDescTable'[k] = Assigned(f, p)
      /\ bufPool' \in [Frames -> Data] /\ bufPool'[k] = d
      /\ \A fr \in Frames : fr # k => /\ bufDescTable'[fr] = bufDescTable[fr]
                                      /\ bufPool'[fr] = bufPool[fr]
  BY <1>3, <1>t, <1>a
<1>6. /\ disk' \in [Files -> [Pages -> Data \cup {Absent}]]
      /\ disk'[f][p] = d
      /\ pins' \in [Files -> [Pages -> Nat]]
      /\ pins'[f][p] = pins[f][p] + 1 /\ pins[f][p] \in Nat
      /\ \A g \in Files, q \in Pages : g # f \/ q # p =>
           disk'[g][q] = disk[g][q] /\ pins'[g][q] = pins[g][q]
  BY <1>3, <1>t
<1>7. PageOK(f, p) /\ (p \notin strayed[f] => pins[f][p] = 0)
  BY <1>6 DEF IInv, PoolInv, PageOK
<1>8. TypeOK'
  BY <1>3, <1>4, <1>5, <1>6, IdleType DEF IInv, TypeOK, TableOK, Idle
<1>9. CallInv'
  BY <1>3 DEF CallInv, Idle
<1>10. \A fr \in Frames : ~Taken(fr)'
  BY <1>3 DEF Taken, Idle
<1>11. FrameOK(k)'
  BY <1>3, <1>4, <1>5, <1>6, <1>7, <1>10, <1>a DEF FrameOK, Sound
<1>12. PageOK(f, p)'
  BY <1>3, <1>4, <1>5, <1>6, <1>7, <1>a DEF PageOK
<1>13. Only(k, f, p)
  BY <1>1, <1>3, <1>4, <1>5, <1>6, <1>10 DEF Only
<1>14. Apart(k, f, p)
  BY <1>1, HeldPage DEF Apart, Astray
<1>15. PoolInv'
  BY <1>11, <1>12, <1>13, <1>14, OnlyHere
<1>. QED
  BY <1>4, <1>8, <1>9, <1>15 DEF IInv, TableOK

LEMMA ReadFillEffect ==
    ASSUME IInv, ReadFill,
           NEW f \in Files, NEW p \in Pages, f = call.file, p = call.page
    PROVE  /\ call.pc = "fill" /\ disk[f][p] \in Data
           /\ lookup(ht, f, p) = NoFrame
           /\ Install(f, p, disk[f][p])
           /\ disk' = disk /\ disk' = [disk EXCEPT ![f][p] = disk[f][p]]
<1>t. disk \in [Files -> [Pages -> Data \cup {Absent}]]
  BY DEF IInv, TypeOK
<1>1. /\ call.pc = "fill" /\ disk[f][p] # Absent /\ disk' = disk
      /\ Install(f, p, disk[f][p]) /\ lookup(ht, f, p) = NoFrame
  BY DEF ReadFill, IInv, CallInv
<1>2. disk' = [disk EXCEPT ![f][p] = disk[f][p]]
  BY <1>1, <1>t
<1>3. disk[f][p] \in Data
  BY <1>1, <1>t
<1>. QED
  BY <1>1, <1>2, <1>3, Zenon

LEMMA ReadFillInv == IInv /\ ReadFill => IInv'
<1>. SUFFICES ASSUME IInv, ReadFill PROVE IInv'
  OBVIOUS
<1>1. PICK f \in Files, p \in Pages : f = call.file /\ p = call.page
  BY DEF ReadFill, IInv, TypeOK
<1>2. /\ call.pc = "fill" /\ disk[f][p] \in Data
      /\ lookup(ht, f, p) = NoFrame
      /\ Install(f, p, disk[f][p])
      /\ disk' = [disk EXCEPT ![f][p] = disk[f][p]]
  BY <1>1, ReadFillEffect
<1>. QED
  BY <1>2, InstallInv

(* An old copy with an entry is the only one a new page can meet. *)
LEMMA AllocFillEffect ==
    ASSUME IInv, AllocFill
    PROVE  \E f \in Files, p \in Pages :
             /\ call.pc = "fill" /\ f = call.file
             /\ disk[f][p] = Absent
             /\ Present(ht, f, p) => p \in strayed[f]
             /\ Install(f, p, Empty)
             /\ disk' = [disk EXCEPT ![f][p] = Empty]
<1>1. PICK f \in Files : f = call.file
  BY DEF AllocFill, IInv, TypeOK
<1>2. PICK p \in Pages :
         /\ disk[f][p] = Absent
         /\ disk' = [disk EXCEPT ![f][p] = Empty]
         /\ Install(f, p, Empty)
  BY <1>1 DEF AllocFill
<1>3. Present(ht, f, p) => p \in strayed[f]
  <2>1. /\ lookup(ht, f, p) \in Frames \cup {NoFrame} /\ PageOK(f, p)
        /\ Present(ht, f, p) => lookup(ht, f, p) # NoFrame
    BY TheTable DEF IInv, PoolInv
  <2>2. ASSUME lookup(ht, f, p) \in Frames, p \notin strayed[f],
               Present(ht, f, p)
        PROVE  FALSE
    <3>1. FrameOK(lookup(ht, f, p))
      BY <2>2 DEF IInv, PoolInv
    <3>. QED
      BY <3>1, <2>1, <2>2, <1>2 DEF FrameOK, Sound, PageOK
  <2>. QED
    BY <2>1, <2>2
<1>. QED
  BY <1>1, <1>2, <1>3 DEF AllocFill

LEMMA AllocFillInv == IInv /\ AllocFill => IInv'
<1>. SUFFICES ASSUME IInv, AllocFill PROVE IInv'
  OBVIOUS
<1>1. PICK f \in Files, p \in Pages :
         /\ call.pc = "fill"
         /\ Present(ht, f, p) => p \in strayed[f]
         /\ Install(f, p, Empty)
         /\ disk' = [disk EXCEPT ![f][p] = Empty]
  BY AllocFillEffect
<1>. QED
  BY <1>1, InstallInv, InstallAgainInv, TheTable
-----------------------------------------------------------------------------
(* Calls on a page that is in the pool.  Its frame keeps the page, and its *)
(* pin count moves with the pins that clients hold.                        *)
StillPinned(p, U, n) == p \in U => n > 0

LEMMA RepinInv ==
    ASSUME IInv, Ready, NEW f \in Files, NEW p \in Pages,
           Present(ht, f, p),
           NEW n \in Nat, NEW m \in Nat, NEW d \in BufDesc,
           n <= m, p \notin strayed[f] => n = m,
           d.file = f, d.pageNo = p, d.valid, d.pinCnt = n,
           bufDescTable' = [bufDescTable EXCEPT ![lookup(ht, f, p)] = d],
           bufDescTable[lookup(ht, f, p)].dirty => d.dirty,
           pins' = [pins EXCEPT ![f][p] = m],
           NEW U \in SUBSET Pages,
           unsaved' = [unsaved EXCEPT ![f] = U],
           U \cup {p} = unsaved[f] \cup {p},
           StillPinned(p, U, m),
           p \in unsaved[f] /\ p \notin U => d.dirty,
           UNCHANGED <<ht, clockHand, bufPool, disk, alive, strayed>>,
           NEW e \in Exceptions, Return(e)
    PROVE  IInv'
<1>k. PICK k \in Frames : k = lookup(ht, f, p) /\ k # NoFrame
  BY TheTable
<1>t. /\ bufDescTable \in [Frames -> BufDesc]
      /\ pins \in [Files -> [Pages -> Nat]]
      /\ unsaved \in [Files -> SUBSET Pages]
  BY DEF IInv, TypeOK
<1>0. \A fr \in Frames : ~Taken(fr) /\ ~Taken(fr)'
  BY DEF Ready, Return, Idle, Taken
<1>1. /\ bufDescTable[k].valid
      /\ bufDescTable[k].file = f /\ bufDescTable[k].pageNo = p
      /\ PageOK(f, p) /\ FrameOK(k)
  BY <1>k DEF IInv, PoolInv, PageOK
<1>2. /\ bufDescTable' \in [Frames -> BufDesc] /\ bufDescTable'[k] = d
      /\ \A fr \in Frames : fr # k => bufDescTable'[fr] = bufDescTable[fr]
  BY <1>t, <1>k
<1>3. /\ pins' \in [Files -> [Pages -> Nat]] /\ pins'[f][p] = m
      /\ \A g \in Files, q \in Pages : g # f \/ q # p =>
           pins'[g][q] = pins[g][q]
  BY <1>t
<1>4. /\ unsaved' \in [Files -> SUBSET Pages] /\ unsaved'[f] = U
      /\ \A g \in Files, q \in Pages : g # f \/ q # p =>
           (q \in unsaved'[g] <=> q \in unsaved[g])
  <2>1. \A q \in Pages : q # p => (q \in U <=> q \in unsaved[f])
    OBVIOUS
  <2>. QED
    BY <2>1, <1>t
<1>5. TypeOK'
  BY <1>2, <1>3, <1>4, IdleType DEF IInv, TypeOK, Return, Idle, Exceptions
<1>6. CallInv'
  BY DEF CallInv, Return, Idle
<1>7. FrameOK(k)'
  BY <1>0, <1>1, <1>2, <1>3, <1>4, <1>k DEF FrameOK, Sound
<1>8. PageOK(f, p)'
  BY <1>1, <1>2, <1>3, <1>4, <1>k DEF PageOK, StillPinned
<1>9. Only(k, f, p)
  BY <1>0, <1>2, <1>3, <1>4 DEF Only
<1>10. Apart(k, f, p)
  BY <1>1, HeldApart
<1>11. PoolInv'
  BY <1>7, <1>8, <1>9, <1>10, OnlyHere
<1>. QED
  BY <1>5, <1>6, <1>11 DEF IInv

LEMMA PooledPage ==
    ASSUME IInv, Ready, NEW f \in Files, NEW p \in Pages, Present(ht, f, p)
    PROVE  LET b == bufDescTable[lookup(ht, f, p)] IN
           /\ lookup(ht, f, p) \in Frames
           /\ b \in BufDesc /\ b.pinCnt \in Nat /\ b.dirty \in BOOLEAN
           /\ b.valid /\ b.file = f /\ b.pageNo = p
           /\ pins[f][p] \in Nat /\ b.pinCnt <= pins[f][p]
           /\ p \notin strayed[f] => b.pinCnt = pins[f][p]
<1>k. PICK k \in Frames : k = lookup(ht, f, p) /\ k # NoFrame
  BY TheTable
<1>1. PageOK(f, p) /\ FrameOK(k) /\ bufDescTable[k] \in BufDesc
        /\ pins[f][p] \in Nat
  BY DEF IInv, PoolInv, TypeOK
<1>. QED
  BY <1>1, <1>k DEF PageOK, FrameOK, Sound, BufDesc

LEMMA ReadHitInv ==
    ASSUME IInv, NEW f \in Files, NEW p \in Pages, ReadHit(f, p)
    PROVE  IInv'
<1>. DEFINE b == bufDescTable[lookup(ht, f, p)]
           d == [b EXCEPT !.refbit = TRUE, !.pinCnt = @ + 1]
<1>0. Ready /\ Present(ht, f, p)
  BY DEF ReadHit
<1>b. /\ lookup(ht, f, p) \in Frames
      /\ b \in BufDesc /\ b.pinCnt \in Nat
      /\ b.valid /\ b.file = f /\ b.pageNo = p
      /\ pins[f][p] \in Nat /\ b.pinCnt <= pins[f][p]
      /\ p \notin strayed[f] => b.pinCnt = pins[f][p]
  BY <1>0, PooledPage
<1>t. /\ bufDescTable \in [Frames -> BufDesc]
      /\ unsaved \in [Files -> SUBSET Pages]
  BY DEF IInv, TypeOK
<1>1. bufDescTable' = [bufDescTable EXCEPT ![lookup(ht, f, p)] = d]
  BY <1>b, <1>t DEF ReadHit
<1>. HIDE DEF b
<1>. DEFINE n == b.pinCnt + 1
           m == pins[f][p] + 1
<1>2. /\ n \in Nat /\ m \in Nat /\ m > 0 /\ n <= m
      /\ p \notin strayed[f] => n = m
  BY <1>b
<1>3. /\ pins' = [pins EXCEPT ![f][p] = m]
      /\ unsaved' = [unsaved EXCEPT ![f] = unsaved[f]]
      /\ unsaved[f] \in SUBSET Pages
      /\ UNCHANGED <<ht, clockHand, bufPool, disk, alive, strayed>>
      /\ Return("none")
  BY <1>b, <1>t DEF ReadHit
<1>d. /\ d \in BufDesc /\ d.file = f /\ d.pageNo = p /\ d.valid
      /\ d.pinCnt = n /\ d.dirty = b.dirty
  BY <1>b, <1>2 DEF BufDesc
<1>4. bufDescTable[lookup(ht, f, p)].dirty => d.dirty
  BY <1>d DEF b
<1>. HIDE DEF d
<1>5. StillPinned(p, unsaved[f], m) /\ "none" \in Exceptions
  BY <1>2 DEF StillPinned, Exceptions
<1>. HIDE DEF n, m
<1>. QED
  BY <1>0, <1>1, <1>2, <1>3, <1>4, <1>5, <1>d, RepinInv

LEMMA UnPinPageInv ==
    ASSUME IInv, NEW f \in Files, NEW p \in Pages, NEW dirty \in BOOLEAN,
           UnPinPage(f, p, dirty)
    PROVE  IInv'
<1>. DEFINE b == bufDescTable[lookup(ht, f, p)]
           d == [b EXCEPT !.dirty = @ \/ dirty, !.pinCnt = @ - 1]
           U == IF dirty THEN unsaved[f] \ {p} ELSE unsaved[f]
<1>0. Ready /\ Present(ht, f, p) /\ b.pinCnt > 0
  BY DEF UnPinPage
<1>b. /\ lookup(ht, f, p) \in Frames
      /\ b \in BufDesc /\ b.pinCnt \in Nat /\ b.dirty \in BOOLEAN
      /\ b.valid /\ b.file = f /\ b.pageNo = p
      /\ pins[f][p] \in Nat /\ b.pinCnt <= pins[f][p]
      /\ p \notin strayed[f] => b.pinCnt = pins[f][p]
  BY <1>0, PooledPage
<1>t. /\ bufDescTable \in [Frames -> BufDesc]
      /\ unsaved \in [Files -> SUBSET Pages]
  BY DEF IInv, TypeOK
<1>1. bufDescTable' = [bufDescTable EXCEPT ![lookup(ht, f, p)] = d]
  BY <1>b, <1>t DEF UnPinPage
<1>. DEFINE n == b.pinCnt - 1
           m == pins[f][p] - 1
<1>3. /\ pins' = [pins EXCEPT ![f][p] = m]
      /\ unsaved' = [unsaved EXCEPT ![f] = U]
      /\ U \in SUBSET Pages /\ U \cup {p} = unsaved[f] \cup {p}
      /\ p \in unsaved[f] /\ p \notin U => dirty
      /\ p \in U => pins[f][p] # 1
      /\ UNCHANGED <<ht, clockHand, bufPool, disk, alive, strayed>>
      /\ Return("none")
  BY <1>b, <1>t DEF UnPinPage
<1>. HIDE DEF b, U
<1>2. /\ n \in Nat /\ m \in Nat /\ n <= m
      /\ p \notin strayed[f] => n = m
      /\ (b.dirty \/ dirty) \in BOOLEAN
      /\ p \in U => m > 0
  BY <1>0, <1>b, <1>3
<1>d. /\ d \in BufDesc /\ d.file = f /\ d.pageNo = p /\ d.valid
      /\ d.pinCnt = n /\ d.dirty = (b.dirty \/ dirty)
  BY <1>b, <1>2 DEF BufDesc
<1>4. (b.dirty => d.dirty) /\ (p \in unsaved[f] /\ p \notin U => d.dirty)
  BY <1>d, <1>3
<1>5. bufDescTable[lookup(ht, f, p)].dirty => d.dirty
  BY <1>4 DEF b
<1>. HIDE DEF d
<1>6. StillPinned(p, U, m) /\ "none" \in Exceptions
  BY <1>2 DEF StillPinned, Exceptions
<1>. HIDE DEF n, m
<1>. QED
  BY <1>0, <1>1, <1>2, <1>3, <1>4, <1>5, <1>6, <1>d, RepinInv

LEMMA UnPinRefusedInv ==
    ASSUME IInv, NEW f \in Files, NEW p \in Pages, NEW dirty \in BOOLEAN,
           UnPinRefused(f, p, dirty)
    PROVE  IInv'
<1>t. /\ bufDescTable \in [Frames -> BufDesc]
      /\ unsaved \in [Files -> SUBSET Pages]
      /\ pins \in [Files -> [Pages -> Nat]]
  BY DEF IInv, TypeOK
<1>1. CASE ~Present(ht, f, p)
  <2>1. /\ UNCHANGED <<poolVars, disk, alive, clientVars>>
        /\ Return("HashNotFound") /\ call.pc # "swept"
    BY <1>1 DEF UnPinRefused, poolVars, Ready, Idle
  <2>. QED
    BY <2>1, ReturnInv DEF Exceptions
<1>2. CASE Present(ht, f, p)
  <2>. DEFINE b == bufDescTable[lookup(ht, f, p)]
             d == [b EXCEPT !.dirty = @ \/ dirty]
  <2>0. Ready /\ Present(ht, f, p)
    BY <1>2 DEF UnPinRefused
  <2>b. /\ lookup(ht, f, p) \in Frames
        /\ b \in BufDesc /\ b.pinCnt \in Nat /\ b.dirty \in BOOLEAN
        /\ b.valid /\ b.file = f /\ b.pageNo = p
        /\ pins[f][p] \in Nat /\ b.pinCnt <= pins[f][p]
        /\ p \notin strayed[f] => b.pinCnt = pins[f][p]
    BY <2>0, PooledPage
  <2>1. bufDescTable' = [bufDescTable EXCEPT ![lookup(ht, f, p)] = d]
    BY <1>2, <2>b, <1>t DEF UnPinRefused
  <2>2. /\ pins' = [pins EXCEPT ![f][p] = pins[f][p]]
        /\ unsaved' = [unsaved EXCEPT ![f] = unsaved[f]]
        /\ unsaved[f] \in SUBSET Pages
        /\ UNCHANGED <<ht, clockHand, bufPool, disk, alive, strayed>>
        /\ Return("PageNotPinned")
    BY <1>2, <1>t, <2>b DEF UnPinRefused, clientVars
  <2>3. StillPinned(p, unsaved[f], pins[f][p]) /\ "PageNotPinned" \in Exceptions
    BY <2>b DEF IInv, PoolInv, PageOK, StillPinned, Exceptions
  <2>. HIDE DEF b
  <2>d. /\ d \in BufDesc /\ d.file = f /\ d.pageNo = p /\ d.valid
        /\ d.pinCnt = b.pinCnt /\ d.dirty = (b.dirty \/ dirty)
    BY <2>b DEF BufDesc
  <2>4. bufDescTable[lookup(ht, f, p)].dirty => d.dirty
    BY <2>d DEF b
  <2>. HIDE DEF d
  <2>. QED
    BY <2>0, <2>1, <2>2, <2>3, <2>4, <2>b, <2>d, RepinInv
<1>. QED
  BY <1>1, <1>2

LEMMA ModifyInv ==
    ASSUME IInv, NEW f \in Files, NEW p \in Pages, NEW d \in Data,
           Modify(f, p, d)
    PROVE  IInv'
<1>0. PageOK(f, p) /\ pins[f][p] > 0 /\ Ready
  BY DEF IInv, PoolInv, Modify
<1>k. PICK k \in Holding(f, p) : bufPool' = [bufPool EXCEPT ![k] = d]
  BY DEF Modify
<1>3. /\ k \in Frames /\ bufDescTable[k].valid
      /\ bufDescTable[k].file = f /\ bufDescTable[k].pageNo = p
  BY HoldersAreValid
<1>t. /\ bufPool \in [Frames -> Data] /\ unsaved \in [Files -> SUBSET Pages]
  BY DEF IInv, TypeOK
<1>1. /\ UNCHANGED <<bufDescTable, ht, clockHand, disk, call, alive, pins, strayed>>
      /\ thrown' = "none"
      /\ bufPool' = [bufPool EXCEPT ![k] = d]
      /\ unsaved' = [unsaved EXCEPT ![f] = @ \cup {p}]
  BY <1>k DEF Modify
<1>2. /\ bufPool' \in [Frames -> Data]
      /\ \A fr \in Frames : fr # k => bufPool'[fr] = bufPool[fr]
      /\ unsaved' \in [Files -> SUBSET Pages] /\ p \in unsaved'[f]
      /\ \A g \in Files, q \in Pages : g # f \/ q # p =>
           (q \in unsaved'[g] <=> q \in unsaved[g])
  BY <1>1, <1>3, <1>t
<1>4. TypeOK'
  BY <1>1, <1>2 DEF IInv, TypeOK
<1>5. CallInv'
  BY <1>1 DEF IInv, CallInv
<1>6. FrameOK(k) /\ \A fr \in Frames : ~Taken(fr) /\ ~Taken(fr)'
  BY <1>0, <1>1, <1>3 DEF IInv, PoolInv, Ready, Idle, Taken
<1>7. FrameOK(k)'
  BY <1>1, <1>2, <1>3, <1>6 DEF FrameOK, Sound
<1>8. PageOK(f, p)'
  BY <1>0, <1>1 DEF PageOK
<1>9. Only(k, f, p)
  BY <1>1, <1>2, <1>6 DEF Only
<1>10. Apart(k, f, p)
  BY <1>3, HeldApart
<1>11. PoolInv'
  BY <1>3, <1>7, <1>8, <1>9, <1>10, OnlyHere
<1>12. ChainsOK(ht)'
  BY <1>1 DEF IInv
<1>. QED
  BY <1>4, <1>5, <1>11, <1>12 DEF IInv

(* The page strays from the frames that hold it, or the pool has none.     *)
LEMMA DeleteElsewhereInv ==
    ASSUME IInv, NEW f \in Files, NEW p \in Pages, DeleteElsewhere(f, p)
    PROVE  IInv'
<1>1. /\ UNCHANGED <<bufDescTable, ht, clockHand, bufPool, call, thrown, alive,
                     pins, unsaved>>
      /\ disk' = [disk EXCEPT ![f][p] = Absent] /\ Ready
      /\ strayed' = IF Holding(f, p) = {} THEN strayed
                    ELSE [strayed EXCEPT ![f] = @ \cup {p}]
  BY DEF DeleteElsewhere, poolVars
<1>t. /\ disk \in [Files -> [Pages -> Data \cup {Absent}]]
      /\ strayed \in [Files -> SUBSET Pages]
  BY DEF IInv, TypeOK
<1>2. /\ disk' \in [Files -> [Pages -> Data \cup {Absent}]]
      /\ strayed' \in [Files -> SUBSET Pages]
      /\ \A g \in Files, q \in Pages :
           /\ q \in strayed[g] => q \in strayed'[g]
           /\ g # f \/ q # p => disk'[g][q] = disk[g][q]
           /\ g = f /\ q = p /\ Holding(f, p) # {} => q \in strayed'[g]
  BY <1>1, <1>t
<1>3. TypeOK'
  BY <1>1, <1>2 DEF IInv, TypeOK
<1>4. CallInv'
  BY <1>1 DEF IInv, CallInv
<1>5. ASSUME NEW fr \in Frames PROVE FrameOK(fr)'
  <2>1. FrameOK(fr) /\ ~Taken(fr) /\ ~Taken(fr)'
    BY <1>1 DEF IInv, PoolInv, Ready, Idle, Taken
  <2>2. CASE fr \in Holding(f, p)
    BY <1>1, <1>2, <2>1, <2>2 DEF FrameOK, Holding
  <2>3. CASE fr \notin Holding(f, p)
    <3>1. bufDescTable[fr].file # f \/ bufDescTable[fr].pageNo # p
      BY <2>3 DEF Holding
    <3>. QED
      BY <1>1, <1>2, <2>1, <3>1 DEF FrameOK, Sound
  <2>. QED
    BY <2>2, <2>3
<1>6. ASSUME NEW g \in Files, NEW q \in Pages PROVE PageOK(g, q)'
  <2>1. PageOK(g, q)
    BY DEF IInv, PoolInv
  <2>. QED
    BY <1>1, <1>2, <2>1 DEF PageOK
<1>7. PoolInv'
  BY <1>5, <1>6 DEF PoolInv
<1>. QED
  BY <1>1, <1>3, <1>4, <1>7 DEF IInv

-----------------------------------------------------------------------------
(* Frames that are emptied. *)
Dropped(k, f, p) ==
    /\ bufDescTable[k].valid /\ Present(ht, f, p)
    /\ bufDescTable[k].file = f /\ bufDescTable[k].pageNo = p
    /\ \A fr \in Frames : ~Taken(fr) /\ ~Taken(fr)'
    /\ bufDescTable' = [bufDescTable EXCEPT ![k] = Cleared]
    /\ ht' = remove(ht, f, p)
    /\ p \notin strayed[f] => pins'[f][p] = 0
    /\ p \in unsaved'[f] => pins'[f][p] > 0
    /\ \A g \in Files, q \in Pages : g # f \/ q # p =>
         /\ disk'[g][q] = disk[g][q] /\ pins'[g][q] = pins[g][q]
         /\ q \in unsaved'[g] <=> q \in unsaved[g]
    /\ bufPool' = bufPool /\ strayed' = strayed

LEMMA DropInv ==
    ASSUME IInv, NEW k \in Frames, NEW f \in Files, NEW p \in Pages,
           Dropped(k, f, p)
    PROVE  /\ TableOK(ht') /\ PoolInv'
           /\ bufDescTable' \in [Frames -> BufDesc] /\ bufDescTable'[k] = Cleared
           /\ \A fr \in Frames : fr # k => bufDescTable'[fr] = bufDescTable[fr]
<1>0. /\ bufDescTable[k].valid /\ Present(ht, f, p)
      /\ bufDescTable[k].file = f /\ bufDescTable[k].pageNo = p
      /\ \A fr \in Frames : ~Taken(fr) /\ ~Taken(fr)'
      /\ bufDescTable' = [bufDescTable EXCEPT ![k] = Cleared]
      /\ ht' = remove(ht, f, p)
      /\ p \notin strayed[f] => pins'[f][p] = 0
      /\ p \in unsaved'[f] => pins'[f][p] > 0
      /\ \A g \in Files, q \in Pages : g # f \/ q # p =>
           /\ disk'[g][q] = disk[g][q] /\ pins'[g][q] = pins[g][q]
           /\ q \in unsaved'[g] <=> q \in unsaved[g]
      /\ bufPool' = bufPool /\ strayed' = strayed
  BY DEF Dropped
<1>1. /\ bufDescTable' \in [Frames -> BufDesc]
      /\ bufDescTable'[k] = Cleared
      /\ \A fr \in Frames : fr # k => bufDescTable'[fr] = bufDescTable[fr]
  BY <1>0, ClearedType DEF IInv, TypeOK
<1>2. lookup(ht, f, p) # NoFrame /\ TableOK(ht)
  BY <1>0, TheTable
<1>3. /\ TableOK(ht') /\ lookup(ht', f, p) = NoFrame
      /\ \A g \in Files, q \in Pages : g # f \/ q # p =>
           lookup(ht', g, q) = lookup(ht, g, q)
  BY <1>0, <1>2, RemoveEffect
<1>5. FrameOK(k)'
  BY <1>1, ClearedType DEF FrameOK
<1>6. PageOK(f, p)'
  BY <1>0, <1>3 DEF PageOK
<1>7. Only(k, f, p)
  BY <1>0, <1>1, <1>3 DEF Only
<1>8. Apart(k, f, p)
  BY <1>0, HeldApart
<1>9. PoolInv'
  BY <1>5, <1>6, <1>7, <1>8, OnlyHere
<1>. QED
  BY <1>1, <1>3, <1>9

LEMMA DisposePageInv ==
    ASSUME IInv, NEW f \in Files, NEW p \in Pages, DisposePage(f, p)
    PROVE  IInv'
<1>k. PICK k \in Frames : k = lookup(ht, f, p) /\ k # NoFrame
  BY TheTable DEF DisposePage
<1>v. /\ bufDescTable[k].valid /\ Present(ht, f, p)
      /\ bufDescTable[k].file = f /\ bufDescTable[k].pageNo = p
  BY <1>k, TheTable DEF IInv, PoolInv, PageOK
<1>1. /\ bufDescTable' = [bufDescTable EXCEPT ![k] = Cleared]
      /\ ht' = remove(ht, f, p)
      /\ disk' = [disk EXCEPT ![f][p] = Absent]
      /\ pins' = [pins EXCEPT ![f][p] = 0]
      /\ unsaved' = [unsaved EXCEPT ![f] = @ \ {p}]
      /\ UNCHANGED <<clockHand, bufPool, alive, strayed>>
      /\ call' = Idle /\ thrown' \in {"none", "InvalidPage"} /\ call = Idle
  BY <1>k DEF DisposePage, Return, Ready
<1>2. \A fr \in Frames : ~Taken(fr) /\ ~Taken(fr)'
  BY <1>1 DEF Taken, Idle
<1>t. /\ disk \in [Files -> [Pages -> Data \cup {Absent}]]
      /\ pins \in [Files -> [Pages -> Nat]]
      /\ unsaved \in [Files -> SUBSET Pages]
  BY DEF IInv, TypeOK
<1>3. /\ disk' \in [Files -> [Pages -> Data \cup {Absent}]]
      /\ pins' \in [Files -> [Pages -> Nat]] /\ pins'[f][p] = 0
      /\ unsaved' \in [Files -> SUBSET Pages] /\ p \notin unsaved'[f]
  BY <1>1, <1>t
<1>4. \A g \in Files, q \in Pages : g # f \/ q # p =>
         /\ disk'[g][q] = disk[g][q] /\ pins'[g][q] = pins[g][q]
         /\ q \in unsaved'[g] <=> q \in unsaved[g]
  BY <1>1, <1>t
<1>5. TableOK(ht') /\ PoolInv' /\ bufDescTable' \in [Frames -> BufDesc]
  <2>1. Dropped(k, f, p)
    BY <1>v, <1>1, <1>2, <1>3, <1>4 DEF Dropped
  <2>. QED
    BY <2>1, DropInv
<1>6. TypeOK'
  BY <1>1, <1>3, <1>5, IdleType DEF IInv, TypeOK, TableOK, Idle
<1>7. CallInv'
  BY <1>1 DEF CallInv, Idle
<1>. QED
  BY <1>5, <1>6, <1>7 DEF IInv, TableOK

(* The frame that flushFile looks at holds a page of the file, and may be  *)
(* dropped unless the page strayed.                                        *)
LEMMA FlushedFrame ==
    ASSUME IInv, FlushFrame \/ FlushUnhashed
    PROVE  \E k \in Frames, f \in Files, p \in Pages :
             /\ k = call.i /\ f = call.file /\ p = bufDescTable[k].pageNo
             /\ bufDescTable[k].valid /\ bufDescTable[k].file = f
             /\ bufDescTable[k].pinCnt = 0
             /\ p \notin strayed[f] =>
                  lookup(ht, f, p) = k /\ pins[f][p] = 0 /\ p \notin unsaved[f]
             /\ call.pc = "flush"
<1>1. /\ call.pc = "flush" /\ call.i < numBufs
      /\ bufDescTable[call.i].file = call.file
      /\ bufDescTable[call.i].pinCnt = 0
  BY DEF FlushFrame, FlushUnhashed, FlushTurning, Flushee
<1>2. PICK k \in Frames : k = call.i
  BY <1>1, CallType DEF IInv, Frames
<1>3. call.file \in Files /\ FrameOK(k) /\ ~Taken(k)
  BY <1>1 DEF IInv, TypeOK, PoolInv, Taken
<1>4. bufDescTable[k].valid
  BY <1>1, <1>2, <1>3, ClearedType DEF FrameOK
<1>5. ~Astray(k) =>
         /\ lookup(ht, bufDescTable[k].file, bufDescTable[k].pageNo) = k
         /\ pins[bufDescTable[k].file][bufDescTable[k].pageNo] = 0
         /\ bufDescTable[k].pageNo \notin unsaved[bufDescTable[k].file]
  BY <1>1, <1>2, <1>3, <1>4, UnpinnedPage, HeldPage
<1>. QED
  BY <1>1, <1>2, <1>3, <1>4, <1>5 DEF FrameOK, Astray

LEMMA FlushFrameInv == IInv /\ FlushFrame => IInv'
<1>. SUFFICES ASSUME IInv, FlushFrame PROVE IInv'
  OBVIOUS
<1>k. PICK k \in Frames, f \in Files, p \in Pages :
         /\ k = call.i /\ f = call.file /\ p = bufDescTable[k].pageNo
         /\ bufDescTable[k].valid /\ bufDescTable[k].file = f
         /\ p \notin strayed[f] => pins[f][p] = 0
         /\ call.pc = "flush"
  BY FlushedFrame
<1>1. /\ disk' = Written({k} \cap {fr \in Frames : bufDescTable[fr].dirty})
      /\ bufDescTable' = [bufDescTable EXCEPT ![k] = Cleared]
      /\ ht' = remove(ht, f, p) /\ Present(ht, f, p)
      /\ call' = [call EXCEPT !.i = @ + 1]
      /\ UNCHANGED <<clockHand, bufPool, thrown, alive, pins, unsaved, strayed>>
      /\ call.i < numBufs
  BY <1>k DEF FlushFrame, FlushTurning, Flushee, clientVars
<1>i. call.i \in Nat /\ call.i + 1 \in 0 .. 2 * numBufs /\ call.i + 1 <= numBufs
  BY <1>1, CallType DEF IInv
<1>2. /\ call' \in Calls /\ call'.pc = "flush" /\ call'.op = call.op
      /\ call'.file = f /\ call'.page = call.page /\ call'.i = k + 1
      /\ call' # Idle
  BY <1>1, <1>i, <1>k DEF IInv, TypeOK, Calls, Idle
<1>3. \A fr \in Frames : ~Taken(fr) /\ ~Taken(fr)'
  BY <1>2, <1>k DEF Taken
<1>4. /\ disk' \in [Files -> [Pages -> Data \cup {Absent}]]
      /\ \A g \in Files, q \in Pages :
           disk'[g][q] = IF bufDescTable[k].dirty /\ k \in Holding(g, q)
                         THEN bufPool[k] ELSE disk[g][q]
  BY <1>1, WriteOneEffect
<1>5. \A g \in Files, q \in Pages :
         g # f \/ q # p => disk'[g][q] = disk[g][q]
  BY <1>4, <1>k DEF Holding
<1>6. /\ pins' \in [Files -> [Pages -> Nat]]
      /\ unsaved' \in [Files -> SUBSET Pages]
      /\ p \notin strayed[f] => pins'[f][p] = 0
      /\ p \in unsaved'[f] => pins'[f][p] > 0
  BY <1>1, <1>k DEF IInv, TypeOK, PoolInv, PageOK
<1>7. /\ TableOK(ht') /\ PoolInv' /\ bufDescTable' \in [Frames -> BufDesc]
      /\ bufDescTable'[k] = Cleared
      /\ \A fr \in Frames : fr # k => bufDescTable'[fr] = bufDescTable[fr]
  <2>1. \A g \in Files, q \in Pages : g # f \/ q # p =>
           /\ disk'[g][q] = disk[g][q] /\ pins'[g][q] = pins[g][q]
           /\ q \in unsaved'[g] <=> q \in unsaved[g]
    BY <1>1, <1>5
  <2>2. Dropped(k, f, p)
    BY <1>k, <1>1, <1>3, <1>6, <2>1 DEF Dropped
  <2>. QED
    BY <2>2, DropInv
<1>8. TypeOK'
  BY <1>1, <1>2, <1>4, <1>7, <1>k DEF IInv, TypeOK, TableOK
<1>9. CallInv'
  <2>1. /\ call.op = "flushFile"
        /\ \A fr \in Frames : fr < k => bufDescTable[fr].file # f
    BY <1>k DEF IInv, CallInv
  <2>2. ASSUME NEW fr \in Frames, fr < k + 1
        PROVE  bufDescTable'[fr].file # f
    <3>1. CASE fr = k
      BY <3>1, <1>7, ClearedType
    <3>2. CASE fr # k
      BY <3>2, <2>1, <2>2, <1>7 DEF Frames
    <3>. QED
      BY <3>1, <3>2
  <2>. QED
    BY <2>1, <2>2, <1>2, <1>i, <1>k DEF CallInv
<1>. QED
  BY <1>7, <1>8, <1>9 DEF IInv, TableOK

(* A frame without an entry is written and keeps its page. *)
Unhashed(k, f, p) ==
    /\ k = call.i /\ bufDescTable[k].valid
    /\ bufDescTable[k].file = f /\ bufDescTable[k].pageNo = p
    /\ p \in strayed[f] /\ call.pc = "flush"
    /\ disk' \in [Files -> [Pages -> Data \cup {Absent}]]
    /\ \A g \in Files, q \in Pages :
         g # f \/ q # p => disk'[g][q] = disk[g][q]
    /\ bufDescTable' \in [Frames -> BufDesc]
    /\ bufDescTable'[k] = [bufDescTable[k] EXCEPT !.dirty = FALSE]
    /\ \A fr \in Frames : fr # k => bufDescTable'[fr] = bufDescTable[fr]
    /\ bufDescTable'[k].valid /\ bufDescTable'[k].file = f
    /\ bufDescTable'[k].pageNo = p
    /\ bufDescTable'[k].pinCnt = bufDescTable[k].pinCnt
    /\ UNCHANGED <<ht, clockHand, bufPool, alive, pins, unsaved, strayed>>
    /\ call' = Idle /\ thrown' = "HashNotFound"

LEMMA FlushUnhashedEffect ==
    ASSUME IInv, FlushUnhashed
    PROVE  \E k \in Frames, f \in Files, p \in Pages : Unhashed(k, f, p)
<1>k. PICK k \in Frames, f \in Files, p \in Pages :
         /\ k = call.i /\ f = call.file /\ p = bufDescTable[k].pageNo
         /\ bufDescTable[k].valid /\ bufDescTable[k].file = f
         /\ p \notin strayed[f] => lookup(ht, f, p) = k
         /\ call.pc = "flush"
  BY FlushedFrame
<1>1. /\ disk' = Written({k} \cap {fr \in Frames : bufDescTable[fr].dirty})
      /\ bufDescTable' = [bufDescTable EXCEPT ![k].dirty = FALSE]
      /\ ~Present(ht, f, p)
      /\ UNCHANGED <<ht, clockHand, bufPool, alive, pins, unsaved, strayed>>
      /\ call' = Idle /\ thrown' = "HashNotFound"
  BY <1>k DEF FlushUnhashed, Flushee, clientVars, Return
<1>2. p \in strayed[f]
  BY <1>k, <1>1, TheTable
<1>3. /\ disk' \in [Files -> [Pages -> Data \cup {Absent}]]
      /\ \A g \in Files, q \in Pages :
           disk'[g][q] = IF bufDescTable[k].dirty /\ k \in Holding(g, q)
                         THEN bufPool[k] ELSE disk[g][q]
  BY <1>1, WriteOneEffect
<1>4. \A g \in Files, q \in Pages :
         g # f \/ q # p => disk'[g][q] = disk[g][q]
  BY <1>3, <1>k DEF Holding
<1>5. bufDescTable \in [Frames -> BufDesc] /\ bufDescTable[k] \in BufDesc
  BY DEF IInv, TypeOK
<1>6. /\ bufDescTable'[k] = [bufDescTable[k] EXCEPT !.dirty = FALSE]
      /\ \A fr \in Frames : fr # k => bufDescTable'[fr] = bufDescTable[fr]
  BY <1>1, <1>5
<1>7. /\ bufDescTable'[k] \in BufDesc
      /\ bufDescTable'[k].valid /\ bufDescTable'[k].file = f
      /\ bufDescTable'[k].pageNo = p
      /\ bufDescTable'[k].pinCnt = bufDescTable[k].pinCnt
  BY <1>5, <1>6, <1>k DEF BufDesc
<1>8. bufDescTable' \in [Frames -> BufDesc]
  BY <1>1, <1>5, <1>7
<1>9. Unhashed(k, f, p)
  BY <1>k, <1>1, <1>2, <1>3, <1>4, <1>6, <1>7, <1>8 DEF Unhashed
<1>. QED
  BY <1>9

LEMMA FlushUnhashedInv == IInv /\ FlushUnhashed => IInv'
<1>. SUFFICES ASSUME IInv, FlushUnhashed PROVE IInv'
  OBVIOUS
<1>u. PICK k \in Frames, f \in Files, p \in Pages : Unhashed(k, f, p)
  BY FlushUnhashedEffect
<1>1. /\ k = call.i /\ bufDescTable[k].valid
      /\ bufDescTable[k].file = f /\ bufDescTable[k].pageNo = p
      /\ p \in strayed[f] /\ call.pc = "flush"
      /\ disk' \in [Files -> [Pages -> Data \cup {Absent}]]
      /\ \A g \in Files, q \in Pages :
           g # f \/ q # p => disk'[g][q] = disk[g][q]
      /\ bufDescTable' \in [Frames -> BufDesc]
      /\ \A fr \in Frames : fr # k => bufDescTable'[fr] = bufDescTable[fr]
      /\ bufDescTable'[k].valid /\ bufDescTable'[k].file = f
      /\ bufDescTable'[k].pageNo = p
      /\ bufDescTable'[k].pinCnt = bufDescTable[k].pinCnt
      /\ UNCHANGED <<ht, clockHand, bufPool, alive, pins, unsaved, strayed>>
      /\ call' = Idle /\ thrown' = "HashNotFound"
  BY <1>u DEF Unhashed
<1>2. \A fr \in Frames : ~Taken(fr) /\ ~Taken(fr)'
  BY <1>1 DEF Taken, Idle
<1>3. TypeOK'
  BY <1>1, IdleType DEF IInv, TypeOK, Idle
<1>4. CallInv'
  BY <1>1 DEF CallInv, Idle
<1>5. FrameOK(k)'
  BY <1>1, <1>2 DEF FrameOK
<1>6. PageOK(f, p)'
  <2>1. PageOK(f, p) /\ lookup(ht, f, p) \in Frames \cup {NoFrame}
    BY TheTable DEF IInv, PoolInv
  <2>. QED
    BY <1>1, <2>1 DEF PageOK
<1>7. Only(k, f, p)
  BY <1>1, <1>2 DEF Only
<1>8. Apart(k, f, p)
  BY <1>1, HeldApart
<1>9. PoolInv'
  BY <1>5, <1>6, <1>7, <1>8, OnlyHere
<1>10. ChainsOK(ht)'
  BY <1>1 DEF IInv
<1>. QED
  BY <1>3, <1>4, <1>9, <1>10 DEF IInv

LEMMA EmptyPoolInv ==
    ASSUME bufDescTable = [fr \in Frames |-> Cleared], ht = Empty_ht,
           pins = [f \in Files |-> [p \in Pages |-> 0]],
           \A f \in Files : unsaved[f] = {}
    PROVE  TableOK(ht) /\ PoolInv
<1>1. TableOK(ht) /\ \A f \in Files, p \in Pages : lookup(ht, f, p) = NoFrame
  BY EmptyTable
<1>2. \A fr \in Frames : FrameOK(fr)
  BY ClearedType DEF FrameOK
<1>3. \A f \in Files, p \in Pages : PageOK(f, p)
  BY <1>1 DEF PageOK
<1>. QED
  BY <1>1, <1>2, <1>3 DEF PoolInv

LEMMA InitInv == Init => IInv
<1>. SUFFICES ASSUME Init PROVE IInv
  OBVIOUS
<1>1. TableOK(ht) /\ PoolInv
  BY EmptyPoolInv DEF Init
<1>2. TypeOK
  BY <1>1, IdleType, ClearedType DEF Init, TypeOK, TableOK, Idle, Frames
<1>3. CallInv
  BY DEF Init, CallInv, Idle
<1>. QED
  BY <1>1, <1>2, <1>3 DEF IInv, TableOK

LEMMA NothingUnsaved ==
    ASSUME IInv, Unpinned, NEW f \in Files, NEW p \in Pages,
           p \notin strayed[f]
    PROVE  p \notin unsaved[f]
<1>1. PageOK(f, p)
  BY DEF IInv, PoolInv
<1>. QED
  BY <1>1 DEF PageOK, Unpinned

LEMMA DestroyInv == IInv /\ Destroy => IInv'
<1>. SUFFICES ASSUME IInv, Destroy PROVE IInv'
  OBVIOUS
<1>1. /\ disk' = Written(DirtyFrames)
      /\ alive' = FALSE
      /\ bufDescTable' = [fr \in Frames |-> Cleared]
      /\ ht' = Empty_ht
      /\ clockHand' = numBufs - 1
      /\ bufPool' = [fr \in Frames |-> Empty]
      /\ pins' = [f \in Files |-> [p \in Pages |-> 0]]
      /\ unsaved' = [f \in Files |-> {}]
      /\ call' = Idle /\ thrown' = "none" /\ strayed' = strayed
  BY DEF Destroy, Demolished, Return
<1>3. TableOK(ht')
  BY <1>1, EmptyTable
<1>4. PoolInv'
  <2>1. \A f \in Files, p \in Pages : lookup(ht', f, p) = NoFrame
    BY <1>1, EmptyTable
  <2>2. \A fr \in Frames : FrameOK(fr)'
    BY <1>1, ClearedType DEF FrameOK
  <2>3. \A f \in Files, p \in Pages : PageOK(f, p)'
    BY <1>1, <2>1 DEF PageOK
  <2>. QED
    BY <2>2, <2>3 DEF PoolInv
<1>5. disk' \in [Files -> [Pages -> Data \cup {Absent}]]
  BY <1>1, WrittenEffect DEF DirtyFrames
<1>6. TypeOK'
  <2>1. bufDescTable' \in [Frames -> BufDesc] /\ bufPool' \in [Frames -> Data]
    BY <1>1, ClearedType
  <2>2. clockHand' \in Frames
    BY <1>1 DEF Frames
  <2>. QED
    BY <1>1, <1>3, <1>5, <2>1, <2>2, IdleType DEF IInv, TypeOK, TableOK, Idle
<1>7. CallInv'
  BY <1>1 DEF CallInv, Idle
<1>. QED
  BY <1>3, <1>4, <1>6, <1>7 DEF IInv, TableOK

(* A page that did not stray has its own frame's content on disk, once     *)
(* that is written.                                                        *)
LEMMA WrittenSound ==
    ASSUME IInv, NEW S \in SUBSET Frames,
           NEW fr \in Frames, bufDescTable[fr].valid, ~Astray(fr)
    PROVE  LET f == bufDescTable[fr].file
               p == bufDescTable[fr].pageNo
           IN  Written(S)[f][p] = IF fr \in S THEN bufPool[fr] ELSE disk[f][p]
<1>1. PICK f \in Files, p \in Pages :
         f = bufDescTable[fr].file /\ p = bufDescTable[fr].pageNo
  BY DEF IInv, PoolInv, FrameOK
<1>2. fr \in Holding(f, p)
  BY <1>1 DEF Holding
<1>3. Holding(f, p) = {fr}
  BY <1>1, <1>2, HoldersAreValid DEF Astray
<1>4. /\ S \cap Holding(f, p) = {fr} => Written(S)[f][p] = bufPool[fr]
      /\ S \cap Holding(f, p) = {} => Written(S)[f][p] = disk[f][p]
  BY <1>3, WrittenEffect
<1>5. S \cap Holding(f, p) = IF fr \in S THEN {fr} ELSE {}
  BY <1>3
<1>. QED
  BY <1>1, <1>4, <1>5

LEMMA DestroyFailsInv == IInv /\ DestroyFails => IInv'
<1>. SUFFICES ASSUME IInv, DestroyFails PROVE IInv'
  OBVIOUS
<1>1. PICK S \in SUBSET Frames : disk' = Written(S)
  <2>1. PICK fr \in DirtyFrames :
           disk' = Written({before \in DirtyFrames : before < fr})
    BY DEF DestroyFails
  <2>. QED
    BY <2>1 DEF DirtyFrames
<1>2. /\ call' = [Idle EXCEPT !.pc = "terminated"] /\ thrown' = "InvalidPage"
      /\ UNCHANGED <<bufDescTable, ht, clockHand, bufPool, alive, pins, unsaved,
                     strayed>>
      /\ call = Idle
  BY DEF DestroyFails, Ready, poolVars, clientVars
<1>3. /\ call' \in Calls /\ call'.pc = "terminated" /\ call'.op = "none"
      /\ call' # Idle
  <2>1. Idle \in Calls /\ Idle.pc = "idle" /\ Idle.op = "none"
    BY IdleType DEF Idle
  <2>. HIDE DEF Idle
  <2>2. call' \in Calls
    BY <1>2, <2>1 DEF Calls
  <2>. QED
    BY <1>2, <2>1, <2>2 DEF Calls
<1>4. disk' \in [Files -> [Pages -> Data \cup {Absent}]]
  BY <1>1, WrittenEffect
<1>5. TypeOK'
  BY <1>2, <1>3, <1>4 DEF IInv, TypeOK
<1>6. CallInv'
  BY <1>3 DEF CallInv
<1>7. ASSUME NEW fr \in Frames PROVE FrameOK(fr)'
  <2>1. FrameOK(fr) /\ ~Taken(fr) /\ ~Taken(fr)' /\ bufPool[fr] \in Data
    BY <1>2, <1>3 DEF IInv, PoolInv, TypeOK, Idle, Taken
  <2>2. CASE bufDescTable[fr].valid /\ ~Astray(fr)
    <3>1. disk'[bufDescTable[fr].file][bufDescTable[fr].pageNo]
            = IF fr \in S THEN bufPool[fr]
              ELSE disk[bufDescTable[fr].file][bufDescTable[fr].pageNo]
      BY <1>1, <2>2, WrittenSound
    <3>. QED
      BY <1>2, <2>1, <2>2, <3>1 DEF FrameOK, Sound, Astray
  <2>3. CASE ~bufDescTable[fr].valid \/ Astray(fr)
    BY <1>2, <2>1, <2>3 DEF FrameOK, Astray
  <2>. QED
    BY <2>2, <2>3
<1>8. ASSUME NEW f \in Files, NEW p \in Pages PROVE PageOK(f, p)'
  BY <1>2 DEF IInv, PoolInv, PageOK
<1>9. PoolInv'
  BY <1>7, <1>8 DEF PoolInv
<1>. QED
  BY <1>2, <1>5, <1>6, <1>9 DEF IInv

-----------------------------------------------------------------------------
LEMMA NextInv == IInv /\ [Next]_vars => IInv'
<1>. SUFFICES ASSUME IInv, [Next]_vars PROVE IInv'
  OBVIOUS
<1>1. CASE AllocBufStep
  BY <1>1, BreakAtInvalidInv, ClearRefbitInv, SkipPinnedInv, BreakAtVictimInv,
     ExceededInv, TakeFrameInv, TakeFrameFailsInv DEF AllocBufStep
<1>2. CASE FillStep
  BY <1>2, ReadFillInv, OtherReturns, AllocFillInv DEF FillStep
<1>3. CASE FlushStep
  BY <1>3, FlushOtherInv, OtherReturns, FlushFrameInv, FlushUnhashedInv
     DEF FlushStep
<1>4. CASE Destroy \/ DestroyFails \/ Construct
  BY <1>4, DestroyInv, DestroyFailsInv, ConstructInv
<1>5. ASSUME NEW f \in Files, AllocPage(f) \/ FlushFile(f) PROVE IInv'
  BY <1>5, Entries
<1>6. ASSUME NEW f \in Files, NEW p \in Pages, CallStep(f, p) PROVE IInv'
  <2>1. CASE ReadHit(f, p) \/ ReadMiss(f, p)
    BY <2>1, ReadHitInv, Entries
  <2>2. CASE \E dirty \in BOOLEAN :
                UnPinPage(f, p, dirty) \/ UnPinRefused(f, p, dirty)
    BY <2>2, UnPinPageInv, UnPinRefusedInv
  <2>3. CASE DisposePage(f, p) \/ DisposeRefused(f, p)
    BY <2>3, DisposePageInv, OtherReturns
  <2>4. CASE (\E d \in Data : Modify(f, p, d)) \/ DeleteElsewhere(f, p)
    BY <2>4, ModifyInv, DeleteElsewhereInv
  <2>. QED
    BY <1>6, <2>1, <2>2, <2>3, <2>4 DEF CallStep
<1>7. CASE UNCHANGED vars \/ Terminated
  <2>1. UNCHANGED vars
    BY <1>7 DEF Terminated
  <2>. QED
    BY <2>1 DEF vars, IInv, TypeOK, PoolInv, FrameOK, Sound, PageOK, Taken,
       CallInv
<1>. QED
  BY <1>1, <1>2, <1>3, <1>4, <1>5, <1>6, <1>7 DEF Next
(* IInv holds in every reachable state. *)
THEOREM Inductive == Spec => []IInv
  BY InitInv, NextInv, PTL DEF Spec

(* Hash chains and descriptors agree at every step of every call.          *)
THEOREM ChainsAndDescriptorsAgree == Spec => []HashDescAgree
<1>1. ASSUME IInv PROVE HashDescAgree
  <2>1. EntriesDescribed
    BY <1>1, TheTable DEF EntriesDescribed, IInv, PoolInv, PageOK
  <2>2. ASSUME NEW fr \in Frames
        PROVE  LET d == bufDescTable[fr] IN
               /\ ~d.valid => d = Cleared
               /\ d.valid => /\ d.file \in Files /\ d.pageNo \in Pages
                             /\ d.pageNo \notin strayed[d.file] =>
                                  IF call.pc = "swept" /\ fr = clockHand
                                  THEN d.pinCnt = 0 /\ ~Present(ht, d.file, d.pageNo)
                                  ELSE lookup(ht, d.file, d.pageNo) = fr
    <3>1. FrameOK(fr) /\ \A f \in Files, p \in Pages : PageOK(f, p)
      BY <1>1 DEF IInv, PoolInv
    <3>. QED
      BY <1>1, <3>1, TheTable DEF FrameOK, Sound, PageOK, Taken
  <2>3. FramesHashed
    BY <2>2 DEF FramesHashed
  <2>. QED
    BY <1>1, <2>1, <2>3 DEF HashDescAgree, IInv
<1>. QED
  BY <1>1, Inductive, PTL

(* Each frame's pin count is the number of pins clients hold on its page.  *)
THEOREM PinsExact == Spec => []PinAccounting
<1>1. ASSUME IInv PROVE PinAccounting
  <2>1. ASSUME NEW f \in Files, NEW p \in Pages
        PROVE  LET counted == IF Present(ht, f, p)
                              THEN bufDescTable[lookup(ht, f, p)].pinCnt ELSE 0
               IN  /\ pins[f][p] >= counted
                   /\ p \notin strayed[f] => pins[f][p] = counted
                   /\ p \in unsaved[f] => pins[f][p] > 0
    <3>1. /\ PageOK(f, p) /\ \A fr \in Frames : FrameOK(fr)
          /\ lookup(ht, f, p) \in Frames \cup {NoFrame}
          /\ Present(ht, f, p) <=> lookup(ht, f, p) # NoFrame
          /\ pins[f][p] \in Nat
          /\ \A fr \in Frames : bufDescTable[fr].pinCnt \in Nat
      BY <1>1, TheTable DEF IInv, PoolInv, TypeOK, BufDesc
    <3>. QED
      BY <3>1 DEF PageOK, FrameOK, Sound
  <2>. QED
    BY <2>1 DEF PinAccounting
<1>. QED
  BY <1>1, Inductive, PTL

(* A pooled page that is not dirty is the page on disk.                    *)
THEOREM NoLossOnEviction == Spec => []CleanMatchesDisk
<1>1. ASSUME IInv PROVE CleanMatchesDisk
  <2>1. ASSUME NEW f \in Files, NEW p \in Pages, p \notin strayed[f],
               Present(ht, f, p)
        PROVE  LET fr == lookup(ht, f, p) IN
               /\ disk[f][p] # Absent
               /\ ~bufDescTable[fr].dirty /\ p \notin unsaved[f]
                     => bufPool[fr] = disk[f][p]
    <3>1. /\ PageOK(f, p) /\ \A fr \in Frames : FrameOK(fr)
          /\ lookup(ht, f, p) \in Frames /\ lookup(ht, f, p) # NoFrame
      BY <1>1, <2>1, TheTable DEF IInv, PoolInv
    <3>. QED
      BY <2>1, <3>1 DEF PageOK, FrameOK, Sound
  <2>. QED
    BY <2>1 DEF CleanMatchesDisk
<1>. QED
  BY <1>1, Inductive, PTL

-----------------------------------------------------------------------------
(* Exceptions. *)

(* A call that is under way has thrown nothing yet. *)
Quiet == IF call.pc = "terminated" THEN thrown = "InvalidPage"
         ELSE call.pc # "idle" => thrown = "none"

LEMMA QuietStep == IInv /\ Quiet /\ [Next]_vars => Quiet'
<1>. SUFFICES ASSUME IInv, Quiet, [Next]_vars PROVE Quiet'
  OBVIOUS
<1>i. /\ Idle.pc = "idle" /\ (call.pc = "idle" <=> call = Idle)
      /\ call \in Calls
  BY DEF Idle, IInv, CallInv, TypeOK
<1>1. CASE AllocBufStep
  BY <1>1, <1>i DEF AllocBufStep, BreakAtInvalid, ClearRefbit, SkipPinned,
     BreakAtVictim, Exceeded, TakeFrame, TakeFrameFails, Turning, LoopOver,
     Turn, Return, Quiet, Calls
<1>2. CASE FillStep
  BY <1>2, <1>i DEF FillStep, ReadFill, ReadFillFails, AllocFill, Install,
     Return, Quiet
<1>3. CASE FlushStep
  BY <1>3, <1>i DEF FlushStep, FlushOther, FlushPinned, FlushFrame, FlushFails,
     FlushUnhashed, FlushDone, FlushTurning, Return, Quiet, Calls
<1>4. CASE Destroy \/ DestroyFails \/ Construct \/ Terminated \/ UNCHANGED vars
  BY <1>4, <1>i DEF Destroy, Demolished, DestroyFails, Construct, Terminated,
     Return, Quiet, vars, Idle
<1>5. ASSUME NEW f \in Files, AllocPage(f) \/ FlushFile(f) PROVE Quiet'
  BY <1>5 DEF AllocPage, FlushFile, Enter, Quiet, Idle
<1>6. ASSUME NEW f \in Files, NEW p \in Pages, CallStep(f, p) PROVE Quiet'
  BY <1>6, <1>i DEF CallStep, ReadHit, ReadMiss, UnPinPage, UnPinRefused,
     DisposePage, DisposeRefused, Modify, DeleteElsewhere, Ready, Enter, Return,
     Quiet, Idle
<1>. QED
  BY <1>1, <1>2, <1>3, <1>4, <1>5, <1>6 DEF Next

Missed == {"HashNotFound", "HashAlreadyPresent"}

(* A call misses an entry, or finds one too many, only for a page that was *)
(* deleted through another File object.                                    *)
THEOREM StumblesOverNothingElse == Spec => StumblesOnlyOverStrays
<1>1. ASSUME IInv, Quiet, [Next]_vars, call.pc # "idle", thrown' \in Missed
      PROVE  bufDescTable'[AtHand].pageNo \in strayed[bufDescTable'[AtHand].file]
  <2>i. ~Ready /\ thrown \notin Missed
    BY <1>1 DEF Ready, Idle, Quiet, Missed
  <2>1. CASE BreakAtVictim
    <3>1. PICK k \in Frames : k = Hand
      BY <1>1, HandType DEF IInv
    <3>2. bufDescTable[k].valid /\ ~Taken(k) /\ call.pc = "sweep"
      BY <2>1, <3>1 DEF BreakAtVictim, Turning, Victim, Taken
    <3>3. ~Present(ht, Victim.file, Victim.pageNo)
      BY <1>1, <2>1, <2>i DEF BreakAtVictim, Turn
    <3>4. Astray(k)
      BY <1>1, <3>1, <3>2, <3>3, HeldPage DEF Victim
    <3>5. clockHand' = k /\ bufDescTable' = bufDescTable
      BY <2>1, <3>1, <3>3 DEF BreakAtVictim
    <3>. QED
      BY <3>2, <3>4, <3>5 DEF AtHand, Astray
  <2>2. CASE AllocBufStep /\ ~BreakAtVictim
    BY <1>1, <2>2, <2>i DEF AllocBufStep, BreakAtInvalid, ClearRefbit,
       SkipPinned, Exceeded, TakeFrame, TakeFrameFails, Turn, Return, Missed
  <2>3. CASE ReadFill
    <3>1. PICK f \in Files, p \in Pages : f = call.file /\ p = call.page
      BY <1>1, <2>3 DEF ReadFill, IInv, TypeOK
    <3>2. Install(f, p, disk[f][p]) /\ lookup(ht, f, p) = NoFrame
      BY <1>1, <2>3, <3>1, ReadFillEffect
    <3>3. ~Present(ht, f, p)
      BY <1>1, <3>2, TheTable
    <3>. QED
      BY <1>1, <3>2, <3>3 DEF Install, Return, Missed
  <2>4. CASE AllocFill
    <3>1. PICK f \in Files, p \in Pages :
             /\ call.pc = "fill" /\ Install(f, p, Empty)
             /\ Present(ht, f, p) => p \in strayed[f]
      BY <1>1, <2>4, AllocFillEffect
    <3>2. Present(ht, f, p)
      BY <1>1, <3>1 DEF Install, Return, Missed
    <3>3. PICK k \in Frames : k = clockHand
      BY <1>1 DEF IInv, TypeOK
    <3>4. clockHand' = k /\ bufDescTable'[k] = Assigned(f, p)
      BY <1>1, <3>1, <3>3, AssignedType DEF Install, IInv, TypeOK
    <3>. QED
      BY <3>1, <3>2, <3>4, AssignedType DEF AtHand
  <2>5. CASE FlushUnhashed
    <3>1. PICK k \in Frames, f \in Files, p \in Pages : Unhashed(k, f, p)
      BY <1>1, <2>5, FlushUnhashedEffect
    <3>. QED
      BY <3>1 DEF AtHand, Unhashed
  <2>6. CASE ReadFillFails \/ (FlushStep /\ ~FlushUnhashed)
    BY <1>1, <2>6, <2>i DEF ReadFillFails, FlushStep, FlushOther, FlushPinned,
       FlushFrame, FlushFails, FlushDone, Return, Missed
  <2>7. CASE Destroy \/ DestroyFails \/ Construct \/ Terminated \/ UNCHANGED vars
    BY <1>1, <2>7, <2>i DEF Destroy, DestroyFails, Construct, Terminated, vars
  <2>8. ASSUME NEW f \in Files,
               \/ AllocPage(f) \/ FlushFile(f)
               \/ \E p \in Pages : CallStep(f, p)
        PROVE  FALSE
    BY <2>8, <2>i DEF AllocPage, FlushFile, CallStep, ReadHit, ReadMiss,
       UnPinPage, UnPinRefused, DisposePage, DisposeRefused, Modify,
       DeleteElsewhere
  <2>. QED
    BY <1>1, <2>1, <2>2, <2>3, <2>4, <2>5, <2>6, <2>7, <2>8 DEF Next, FillStep
<1>2. Init => Quiet
  BY DEF Init, Quiet, Idle
<1>3. IInv /\ Quiet /\ [Next]_vars =>
        [call.pc # "idle" /\ thrown' \in {"HashNotFound", "HashAlreadyPresent"} =>
           LET d == bufDescTable'[AtHand] IN d.pageNo \in strayed[d.file]]_vars
  <2>1. ASSUME IInv, Quiet, [Next]_vars, call.pc # "idle",
               thrown' \in {"HashNotFound", "HashAlreadyPresent"}
        PROVE  LET d == bufDescTable'[AtHand] IN d.pageNo \in strayed[d.file]
    BY <2>1, <1>1 DEF Missed
  <2>. QED
    BY <2>1
<1>. QED
  BY <1>2, <1>3, QuietStep, Inductive, PTL DEF Spec, StumblesOnlyOverStrays
(* When flushFile returns, no frame holds a page of the file.              *)
THEOREM FlushedFileIsOut == Spec => FlushEmpties
<1>1. ASSUME IInv, [Next]_vars, call.op = "flushFile", call' = Idle,
             thrown' = "none"
      PROVE  \A fr \in Frames : bufDescTable'[fr].file # call.file
  <2>i. call # Idle /\ ~Ready /\ call.pc = "flush"
    <3>1. call.pc # "terminated"
      <4>1. SUFFICES ASSUME call.pc = "terminated" PROVE FALSE
        OBVIOUS
      <4>2. Idle.pc = "idle" /\ call # Idle /\ ~Ready
        BY <4>1 DEF Idle, Ready
      <4>3. ~AllocBufStep /\ ~FillStep /\ ~FlushStep
        BY <4>1 DEF AllocBufStep, FillStep, FlushStep, BreakAtInvalid,
           ClearRefbit, SkipPinned, BreakAtVictim, Exceeded, TakeFrame,
           TakeFrameFails, Turning, LoopOver, ReadFill, ReadFillFails,
           AllocFill, FlushOther, FlushPinned, FlushFrame, FlushFails,
           FlushUnhashed, FlushDone, FlushTurning
      <4>4. ~Destroy /\ ~DestroyFails
        BY <4>2 DEF Destroy, DestroyFails
      <4>5. \A f \in Files : ~AllocPage(f) /\ ~FlushFile(f)
        BY <4>2 DEF AllocPage, FlushFile
      <4>6. ASSUME NEW f \in Files, NEW p \in Pages, CallStep(f, p)
            PROVE  FALSE
        BY <4>2, <4>6 DEF CallStep, ReadHit, ReadMiss, UnPinPage, UnPinRefused,
           DisposePage, DisposeRefused, Modify, DeleteElsewhere
      <4>7. ~Construct /\ ~Terminated /\ ~UNCHANGED vars
        BY <1>1, <4>2 DEF Construct, Terminated, vars
      <4>. QED
        BY <1>1, <4>3, <4>4, <4>5, <4>6, <4>7 DEF Next
    <3>. QED
      BY <1>1, <3>1 DEF IInv, CallInv, TypeOK, Calls, Ready, Idle
  <2>1. CASE AllocBufStep \/ FillStep
    BY <2>1, <2>i DEF AllocBufStep, FillStep, BreakAtInvalid, ClearRefbit,
       SkipPinned, BreakAtVictim, Exceeded, TakeFrame, TakeFrameFails, Turning,
       LoopOver, ReadFill, ReadFillFails, AllocFill
  <2>2. CASE FlushDone
    <3>1. bufDescTable' = bufDescTable /\ call.i = numBufs
      BY <2>2 DEF FlushDone, poolVars
    <3>2. \A fr \in Frames : fr < call.i
      BY <3>1 DEF Frames
    <3>. QED
      BY <1>1, <2>i, <3>1, <3>2 DEF IInv, CallInv
  <2>3. CASE FlushPinned \/ FlushFails \/ FlushUnhashed
    BY <1>1, <2>3 DEF FlushPinned, FlushFails, FlushUnhashed, Return
  <2>4. CASE FlushOther \/ FlushFrame
    <3>1. call'.pc = "flush"
      BY <1>1, <2>4, <2>i DEF FlushOther, FlushFrame, IInv, TypeOK, Calls
    <3>. QED
      BY <1>1, <3>1 DEF Idle
  <2>5. CASE Destroy \/ DestroyFails \/ Construct \/ Terminated \/ UNCHANGED vars
    BY <1>1, <2>5, <2>i DEF Destroy, DestroyFails, Construct, Terminated, vars
  <2>6. ASSUME NEW f \in Files,
               \/ AllocPage(f) \/ FlushFile(f)
               \/ \E p \in Pages : CallStep(f, p)
        PROVE  FALSE
    BY <2>6, <2>i DEF AllocPage, FlushFile, CallStep, ReadHit, ReadMiss,
       UnPinPage, UnPinRefused, DisposePage, DisposeRefused, Modify,
       DeleteElsewhere
  <2>. QED
    BY <1>1, <2>1, <2>2, <2>3, <2>4, <2>5, <2>6 DEF Next, FlushStep
<1>2. IInv /\ [Next]_vars =>
        [call.op = "flushFile" /\ call' = Idle /\ thrown' = "none" =>
           \A fr \in Frames : bufDescTable'[fr].file # call.file]_vars
  BY <1>1
<1>. QED
  BY <1>2, Inductive, PTL DEF Spec, FlushEmpties

-----------------------------------------------------------------------------
(* How many turns ago the hand last came to a frame: 0 .. numBufs - 1.     *)
Ago(fr) == IF fr <= clockHand THEN clockHand - fr
                              ELSE clockHand - fr + numBufs

(* A frame visited since the call began has used up its second chance; one *)
(* visited twice is pinned.  An invalid one ends the search in the first   *)
(* round.                                                                  *)
SweepInv ==
    /\ call.pc = "sweep" =>
         \A fr \in Frames :
             /\ Ago(fr) < call.i =>
                   bufDescTable[fr].valid /\ ~bufDescTable[fr].refbit
             /\ Ago(fr) + numBufs < call.i => bufDescTable[fr].pinCnt > 0
    /\ call.pc = "swept" /\ ~call.found => call.i <= numBufs

LEMMA HandTurn ==
    ASSUME clockHand \in Frames
    PROVE  Hand = IF clockHand = numBufs - 1 THEN 0 ELSE clockHand + 1
<1>1. CASE clockHand = numBufs - 1
  <2>1. numBufs % numBufs = 0
    BY SMTT(30)
  <2>. QED
    BY <1>1, <2>1 DEF Hand
<1>2. CASE clockHand # numBufs - 1
  <2>1. clockHand + 1 \in 0 .. numBufs - 1
    BY <1>2 DEF Frames
  <2>. QED
    BY <1>2, <2>1 DEF Hand
<1>. QED
  BY <1>1, <1>2

(* A turn makes every frame one turn older, but the one it comes to.       *)
LEMMA TurnAges ==
    ASSUME clockHand \in Frames, clockHand' = Hand, NEW fr \in Frames
    PROVE  /\ Ago(fr) \in 0 .. numBufs - 1
           /\ fr # Hand => Ago(fr)' = Ago(fr) + 1
           /\ fr = Hand => Ago(fr) = numBufs - 1 /\ Ago(fr)' = 0
<1>1. clockHand' = IF clockHand = numBufs - 1 THEN 0 ELSE clockHand + 1
  BY HandTurn
<1>2. Hand = clockHand'
  OBVIOUS
<1>. QED
  BY <1>1, <1>2 DEF Ago, Frames

LEMMA PassingSweep ==
    ASSUME IInv, SweepInv, ClearRefbit \/ SkipPinned
    PROVE  SweepInv'
<1>1. Turning /\ Turn("sweep", FALSE) /\ call.pc = "sweep"
  BY DEF ClearRefbit, SkipPinned, Turning
<1>2. /\ clockHand' = Hand /\ call'.pc = "sweep" /\ call'.i = call.i + 1
  BY <1>1, TurnEffect
<1>t. /\ clockHand \in Frames /\ call.i \in Nat
      /\ bufDescTable \in [Frames -> BufDesc]
  BY CallType DEF IInv, TypeOK
<1>h. PICK k \in Frames : k = Hand
  BY HandType DEF IInv
<1>3. /\ \A fr \in Frames :
           /\ bufDescTable'[fr].valid = bufDescTable[fr].valid
           /\ bufDescTable'[fr].pinCnt = bufDescTable[fr].pinCnt
           /\ ~bufDescTable[fr].refbit => ~bufDescTable'[fr].refbit
      /\ bufDescTable'[k].valid /\ ~bufDescTable'[k].refbit
      /\ bufDescTable[k].refbit \/ bufDescTable[k].pinCnt > 0
  <2>1. CASE ClearRefbit
    <3>1. /\ bufDescTable' = [bufDescTable EXCEPT ![k].refbit = FALSE]
          /\ bufDescTable[k].valid /\ bufDescTable[k].refbit
      BY <2>1, <1>h DEF ClearRefbit, Victim
    <3>2. /\ bufDescTable'[k] = [bufDescTable[k] EXCEPT !.refbit = FALSE]
          /\ bufDescTable[k] \in BufDesc
          /\ \A fr \in Frames : fr # k => bufDescTable'[fr] = bufDescTable[fr]
      BY <3>1, <1>t
    <3>. QED
      BY <3>1, <3>2 DEF BufDesc
  <2>2. CASE SkipPinned
    BY <2>2, <1>h DEF SkipPinned, Victim
  <2>. QED
    BY <2>1, <2>2
<1>4. ASSUME NEW fr \in Frames
      PROVE  /\ Ago(fr)' < call'.i =>
                   bufDescTable'[fr].valid /\ ~bufDescTable'[fr].refbit
             /\ Ago(fr)' + numBufs < call'.i => bufDescTable'[fr].pinCnt > 0
  <2>0. /\ Ago(fr) < call.i =>
              bufDescTable[fr].valid /\ ~bufDescTable[fr].refbit
        /\ Ago(fr) + numBufs < call.i => bufDescTable[fr].pinCnt > 0
    BY <1>1 DEF SweepInv
  <2>1. CASE fr # k
    <3>1. Ago(fr) \in 0 .. numBufs - 1 /\ Ago(fr)' = Ago(fr) + 1
      BY <2>1, <1>2, <1>t, <1>h, TurnAges
    <3>2. /\ Ago(fr)' < call'.i => Ago(fr) < call.i
          /\ Ago(fr)' + numBufs < call'.i => Ago(fr) + numBufs < call.i
      BY <3>1, <1>2, <1>t
    <3>. QED
      BY <3>2, <2>0, <1>3
  <2>2. CASE fr = k
    <3>1. Ago(k) = numBufs - 1 /\ Ago(k)' = 0
      BY <1>2, <1>t, <1>h, TurnAges
    <3>2. 0 + numBufs < call'.i => numBufs - 1 < call.i
      BY <1>2, <1>t
    <3>. QED
      BY <2>0, <2>2, <3>1, <3>2, <1>3
  <2>. QED
    BY <2>1, <2>2
<1>. QED
  BY <1>2, <1>4 DEF SweepInv

LEMMA SweepStep == IInv /\ SweepInv /\ [Next]_vars => SweepInv'
<1>. SUFFICES ASSUME IInv, SweepInv, [Next]_vars PROVE SweepInv'
  OBVIOUS
<1>i. Idle.pc = "idle"
  BY DEF Idle
<1>r. ASSUME call'.pc \in {"idle", "fill", "flush", "terminated"} PROVE SweepInv'
  BY <1>r DEF SweepInv
<1>t. clockHand \in Frames /\ call.i \in Nat /\ call \in Calls
  BY CallType DEF IInv, TypeOK
<1>1. CASE ClearRefbit \/ SkipPinned
  BY <1>1, PassingSweep
<1>2. CASE BreakAtInvalid
  <2>1. /\ Turning /\ Turn("swept", FALSE) /\ call.pc = "sweep"
        /\ ~bufDescTable[Hand].valid /\ Hand \in Frames
    BY <1>2, HandType DEF BreakAtInvalid, Turning, Victim, IInv
  <2>2. clockHand' = Hand /\ call'.pc = "swept" /\ call'.i = call.i + 1
    BY <2>1, TurnEffect
  <2>3. Ago(Hand) = numBufs - 1
    BY <2>1, <2>2, <1>t, TurnAges
  <2>4. ~(numBufs - 1 < call.i)
    BY <2>1, <2>3 DEF SweepInv
  <2>. QED
    BY <2>2, <2>4, <1>t DEF SweepInv
<1>3. CASE BreakAtVictim
  <2>1. CASE Present(ht, Victim.file, Victim.pageNo)
    <3>1. Turning /\ Turn("swept", TRUE)
      BY <1>3, <2>1 DEF BreakAtVictim
    <3>2. call'.pc = "swept" /\ call'.found = TRUE
      BY <3>1, TurnEffect
    <3>. QED
      BY <3>2 DEF SweepInv
  <2>2. CASE ~Present(ht, Victim.file, Victim.pageNo)
    BY <1>3, <2>2, <1>i, <1>r DEF BreakAtVictim, Return
  <2>. QED
    BY <2>1, <2>2
<1>4. CASE Exceeded \/ TakeFrameFails \/ FillStep \/ Destroy
  <2>1. call' = Idle
    BY <1>4 DEF Exceeded, TakeFrameFails, FillStep, ReadFill, ReadFillFails,
       AllocFill, Install, Destroy, Demolished, Return
  <2>. QED
    BY <2>1, <1>i, <1>r
<1>5. CASE TakeFrame
  BY <1>5, <1>r, <1>t DEF TakeFrame, Calls
<1>6. CASE FlushStep
  <2>1. call' = Idle \/ call'.pc = "flush"
    BY <1>6, <1>t DEF FlushStep, FlushOther, FlushPinned, FlushFrame, FlushFails,
       FlushUnhashed, FlushDone, FlushTurning, Return, Calls
  <2>. QED
    BY <2>1, <1>i, <1>r
<1>7. ASSUME call'.i = 0, clockHand' = clockHand, call'.pc = "sweep"
      PROVE  SweepInv'
  <2>1. \A fr \in Frames : Ago(fr)' \in 0 .. numBufs - 1
    BY <1>7, <1>t DEF Ago, Frames
  <2>. QED
    BY <1>7, <2>1 DEF SweepInv
<1>d. CASE DestroyFails
  BY <1>d, <1>r DEF DestroyFails, Idle
<1>8. CASE Construct \/ Terminated \/ UNCHANGED vars
  <2>1. UNCHANGED <<call, bufDescTable, clockHand>>
    BY <1>8 DEF Construct, Terminated, vars, poolVars
  <2>. QED
    BY <2>1 DEF SweepInv, Ago
<1>9. ASSUME NEW f \in Files, AllocPage(f) \/ FlushFile(f) PROVE SweepInv'
  <2>1. CASE AllocPage(f)
    BY <2>1, <1>7 DEF AllocPage, Enter, Idle, poolVars
  <2>2. CASE FlushFile(f)
    BY <2>2, <1>r DEF FlushFile, Enter, Idle
  <2>. QED
    BY <1>9, <2>1, <2>2
<1>10. ASSUME NEW f \in Files, NEW p \in Pages, CallStep(f, p) PROVE SweepInv'
  <2>1. CASE ReadMiss(f, p)
    BY <2>1, <1>7 DEF ReadMiss, Enter, Idle, poolVars
  <2>2. CASE ~ReadMiss(f, p)
    <3>1. call' = Idle
      BY <1>10, <2>2 DEF CallStep, ReadHit, UnPinPage, UnPinRefused,
         DisposePage, DisposeRefused, Modify, DeleteElsewhere, Ready, Return
    <3>. QED
      BY <3>1, <1>i, <1>r
  <2>. QED
    BY <2>1, <2>2
<1>. QED
  BY <1>1, <1>2, <1>3, <1>4, <1>5, <1>6, <1>d, <1>8, <1>9, <1>10
     DEF Next, AllocBufStep

(* allocBuf gives up only when every frame is pinned.                      *)
THEOREM GivesUpOnlyWhenAllPinned == Spec => ExceededOnlyWhenAllPinned
<1>1. Init => SweepInv
  BY DEF Init, Idle, SweepInv
<1>2. ASSUME IInv, SweepInv, Exceeded
      PROVE  \A fr \in Frames : bufDescTable[fr].pinCnt > 0
  <2>1. clockHand \in Frames /\ call.i \in 0 .. 2 * numBufs
    BY <1>2, CallType DEF IInv, TypeOK
  <2>2. call.pc = "sweep" /\ call.i = 2 * numBufs
    BY <1>2, <2>1 DEF Exceeded, LoopOver, Refused, SweepInv
  <2>3. \A fr \in Frames : Ago(fr) + numBufs < 2 * numBufs
    BY <2>1 DEF Ago, Frames
  <2>. QED
    BY <1>2, <2>2, <2>3 DEF SweepInv
<1>3. ASSUME [Next]_vars, thrown # "BufferExceeded", thrown' = "BufferExceeded"
      PROVE  Exceeded
  <2>1. ASSUME NEW f \in Files, NEW p \in Pages, CallStep(f, p)
        PROVE  thrown' # "BufferExceeded"
    <3>1. CASE ReadHit(f, p) \/ ReadMiss(f, p)
      BY <3>1 DEF ReadHit, ReadMiss, Return, Enter
    <3>2. ASSUME NEW dirty \in BOOLEAN,
                 UnPinPage(f, p, dirty) \/ UnPinRefused(f, p, dirty)
          PROVE  thrown' # "BufferExceeded"
      BY <3>2 DEF UnPinPage, UnPinRefused, Return
    <3>3. CASE DisposePage(f, p)
      <4>1. thrown' = IF disk[f][p] = Absent THEN "InvalidPage" ELSE "none"
        BY <3>3 DEF DisposePage, Return
      <4>. QED
        BY <4>1
    <3>4. CASE DisposeRefused(f, p) \/ \E d \in Data : Modify(f, p, d)
      BY <3>4 DEF DisposeRefused, Modify, Return
    <3>5. CASE DeleteElsewhere(f, p)
      BY <1>3, <3>5 DEF DeleteElsewhere
    <3>. QED
      BY <2>1, <3>1, <3>2, <3>3, <3>4, <3>5 DEF CallStep
  <2>2. ASSUME NEW f \in Files, AllocPage(f) \/ FlushFile(f)
        PROVE  thrown' # "BufferExceeded"
    BY <2>2 DEF AllocPage, FlushFile, Enter
  <2>3. ASSUME FillStep \/ FlushStep
        PROVE  thrown' = thrown \/ thrown' # "BufferExceeded"
    BY <2>3 DEF FillStep, ReadFill, ReadFillFails, AllocFill, Install,
       FlushStep, FlushOther, FlushPinned, FlushFrame, FlushFails, FlushUnhashed,
       FlushDone, Return
  <2>4. ASSUME \/ BreakAtInvalid \/ ClearRefbit \/ SkipPinned \/ BreakAtVictim
               \/ TakeFrame \/ TakeFrameFails \/ Destroy \/ DestroyFails
               \/ Construct \/ Terminated
        PROVE  thrown' = thrown \/ thrown' # "BufferExceeded"
    BY <2>4 DEF BreakAtInvalid, ClearRefbit, SkipPinned, BreakAtVictim,
       TakeFrame, TakeFrameFails, Destroy, Demolished, DestroyFails, Construct,
       Terminated, vars, Turn, Return
  <2>. QED
    BY <1>3, <2>1, <2>2, <2>3, <2>4 DEF Next, AllocBufStep, vars
<1>4. IInv /\ SweepInv /\ [Next]_vars =>
        [thrown # "BufferExceeded" /\ thrown' = "BufferExceeded" =>
           \A fr \in Frames : bufDescTable[fr].pinCnt > 0]_vars
  BY <1>2, <1>3
<1>. QED
  BY <1>1, <1>4, SweepStep, Inductive, PTL DEF Spec, ExceededOnlyWhenAllPinned
-----------------------------------------------------------------------------
(* The refinement.  What a page contains, before and after a step. *)
LEMMA HeldContent ==
    ASSUME IInv, NEW f \in Files, NEW p \in Pages
    PROVE  /\ Holding(f, p) # {} => Content(f, p) \in Data
           /\ \A fr \in Holding(f, p) :
                p \notin strayed[f] => Content(f, p) = bufPool[fr]
           /\ Holding(f, p) = {} => Content(f, p) = disk[f][p]
<1>1. ASSUME Holding(f, p) # {} PROVE Content(f, p) \in Data
  <2>1. (CHOOSE fr \in Holding(f, p) : TRUE) \in Frames
    BY <1>1 DEF Holding
  <2>. QED
    BY <1>1, <2>1 DEF Content, IInv, TypeOK
<1>2. ASSUME NEW fr \in Holding(f, p), p \notin strayed[f]
      PROVE  Content(f, p) = bufPool[fr]
  <2>1. Holding(f, p) = {fr}
    BY <1>2, HoldersAreValid
  <2>. QED
    BY <2>1 DEF Content
<1>. QED
  BY <1>1, <1>2 DEF Content

LEMMA SameContent ==
    ASSUME NEW f \in Files, NEW p \in Pages,
           \A fr \in Frames :
              /\ bufDescTable'[fr].file = f /\ bufDescTable'[fr].pageNo = p
                 <=> bufDescTable[fr].file = f /\ bufDescTable[fr].pageNo = p
              /\ fr \in Holding(f, p) => bufPool'[fr] = bufPool[fr],
           Holding(f, p) = {} => disk'[f][p] = disk[f][p]
    PROVE  Content(f, p)' = Content(f, p)
<1>1. Holding(f, p)' = Holding(f, p)
  BY DEF Holding
<1>2. CASE Holding(f, p) = {}
  BY <1>1, <1>2 DEF Content
<1>3. CASE Holding(f, p) # {}
  <2>1. (CHOOSE fr \in Holding(f, p) : TRUE) \in Holding(f, p)
    BY <1>3
  <2>2. (CHOOSE fr \in Holding(f, p) : TRUE) \in Frames
    BY <2>1 DEF Holding
  <2>. QED
    BY <1>1, <1>3, <2>1, <2>2 DEF Content
<1>. QED
  BY <1>2, <1>3

(* A frame that is written if it is dirty may be cleared. *)
LEMMA ClearedContent ==
    ASSUME IInv, NEW k \in Frames, bufDescTable[k].pinCnt = 0 \/ Astray(k),
           disk' = Written({k} \cap {fr \in Frames : bufDescTable[fr].dirty}),
           bufDescTable' = [bufDescTable EXCEPT ![k] = Cleared],
           bufPool' = bufPool,
           NEW f \in Files, NEW p \in Pages, p \notin strayed[f]
    PROVE  Content(f, p)' = Content(f, p)
<1>1. disk'[f][p] = IF bufDescTable[k].dirty /\ k \in Holding(f, p)
                    THEN bufPool[k] ELSE disk[f][p]
  BY WriteOneEffect
<1>2. /\ bufDescTable'[k] = Cleared /\ Cleared.file # f
      /\ \A fr \in Frames : fr # k => bufDescTable'[fr] = bufDescTable[fr]
  BY ClearedType DEF IInv, TypeOK
<1>3. CASE k \notin Holding(f, p)
  <2>1. \A fr \in Frames :
           bufDescTable'[fr].file = f /\ bufDescTable'[fr].pageNo = p
             <=> bufDescTable[fr].file = f /\ bufDescTable[fr].pageNo = p
    BY <1>2, <1>3 DEF Holding
  <2>. QED
    BY <1>1, <1>3, <2>1, SameContent
<1>4. CASE k \in Holding(f, p)
  <2>1. /\ Holding(f, p) = {k} /\ Content(f, p) = bufPool[k]
        /\ bufDescTable[k].valid
        /\ bufDescTable[k].file = f /\ bufDescTable[k].pageNo = p
    BY <1>4, HoldersAreValid, HeldContent
  <2>2. Holding(f, p)' = {}
    BY <1>2, <2>1 DEF Holding
  <2>3. FrameOK(k) /\ ~Astray(k) /\ p \notin unsaved[f]
    BY <2>1, UnpinnedPage DEF IInv, PoolInv, Astray
  <2>4. ~bufDescTable[k].dirty => bufPool[k] = disk[f][p]
    BY <2>1, <2>3 DEF FrameOK, Sound
  <2>5. disk'[f][p] = bufPool[k]
    BY <1>1, <1>4, <2>4
  <2>. QED
    BY <2>1, <2>2, <2>5 DEF Content
<1>. QED
  BY <1>3, <1>4

(* Every step is a step of PagedStore or leaves it as it was. *)
Abs(f, p) == IF p \in strayed[f] THEN Absent ELSE Content(f, p)
AbsPins(f, p) == IF p \in strayed[f] THEN 0 ELSE pins[f][p]

LEMMA Mapped ==
    /\ StoreOf = [f \in Files |-> [p \in Pages |-> Abs(f, p)]]
    /\ PinsOf = [f \in Files |-> [p \in Pages |-> AbsPins(f, p)]]
  BY DEF StoreOf, PinsOf, Abs, AbsPins

LEMMA MappedNext ==
    /\ StoreOf' = [f \in Files |-> [p \in Pages |-> Abs(f, p)']]
    /\ PinsOf' = [f \in Files |-> [p \in Pages |-> AbsPins(f, p)']]
  BY DEF StoreOf, PinsOf, Abs, AbsPins

LEMMA Unmoved ==
    ASSUME strayed' = strayed,
           \A f \in Files, p \in Pages : p \notin strayed[f] =>
              Content(f, p)' = Content(f, p) /\ pins'[f][p] = pins[f][p]
    PROVE  UNCHANGED Store!storeVars
<1>1. \A f \in Files, p \in Pages :
         Abs(f, p)' = Abs(f, p) /\ AbsPins(f, p)' = AbsPins(f, p)
  BY DEF Abs, AbsPins
<1>. QED
  BY <1>1, Mapped, MappedNext DEF Store!storeVars

(* One entry of the two tables changes. *)
LEMMA StoreChanged ==
    ASSUME NEW f \in Files, NEW p \in Pages, NEW v,
           \A g \in Files, q \in Pages :
              Abs(g, q)' = IF g = f /\ q = p THEN v ELSE Abs(g, q)
    PROVE  StoreOf' = [StoreOf EXCEPT ![f][p] = v]
<1>. DEFINE row(g) == [q \in Pages |-> Abs(g, q)]
           new(g) == [q \in Pages |-> Abs(g, q)']
<1>1. \A g \in Files : g # f => new(g) = row(g)
  OBVIOUS
<1>2. new(f) = [row(f) EXCEPT ![p] = v]
  OBVIOUS
<1>. HIDE DEF row, new
<1>3. [g \in Files |-> new(g)] = [[g \in Files |-> row(g)] EXCEPT ![f][p] = v]
  BY <1>1, <1>2
<1>. QED
  BY <1>3, Mapped, MappedNext DEF row, new

LEMMA PinsChanged ==
    ASSUME NEW f \in Files, NEW p \in Pages, NEW v,
           \A g \in Files, q \in Pages :
              AbsPins(g, q)' = IF g = f /\ q = p THEN v ELSE AbsPins(g, q)
    PROVE  PinsOf' = [PinsOf EXCEPT ![f][p] = v]
<1>. DEFINE row(g) == [q \in Pages |-> AbsPins(g, q)]
           new(g) == [q \in Pages |-> AbsPins(g, q)']
<1>1. \A g \in Files : g # f => new(g) = row(g)
  OBVIOUS
<1>2. new(f) = [row(f) EXCEPT ![p] = v]
  OBVIOUS
<1>. HIDE DEF row, new
<1>3. [g \in Files |-> new(g)] = [[g \in Files |-> row(g)] EXCEPT ![f][p] = v]
  BY <1>1, <1>2
<1>. QED
  BY <1>3, Mapped, MappedNext DEF row, new

(* The abstract content after one page has changed. *)
LEMMA Changed ==
    ASSUME strayed' = strayed,
           NEW f \in Files, NEW p \in Pages, NEW v, p \notin strayed[f],
           Content(f, p)' = v,
           \A g \in Files, q \in Pages :
              (g # f \/ q # p) /\ q \notin strayed[g] =>
                 Content(g, q)' = Content(g, q)
    PROVE  /\ StoreOf' = [StoreOf EXCEPT ![f][p] = v]
           /\ StoreOf[f][p] = Content(f, p)
<1>1. \A g \in Files, q \in Pages :
         Abs(g, q)' = IF g = f /\ q = p THEN v ELSE Abs(g, q)
  BY DEF Abs
<1>2. StoreOf' = [StoreOf EXCEPT ![f][p] = v]
  BY <1>1, StoreChanged
<1>3. StoreOf[f][p] = Content(f, p)
  BY Mapped DEF Abs
<1>. QED
  BY <1>2, <1>3

LEMMA PinsMoved ==
    ASSUME strayed' = strayed, pins \in [Files -> [Pages -> Nat]],
           NEW f \in Files, NEW p \in Pages, NEW n, p \notin strayed[f],
           pins' = [pins EXCEPT ![f][p] = n]
    PROVE  /\ PinsOf' = [PinsOf EXCEPT ![f][p] = n]
           /\ PinsOf[f][p] = pins[f][p]
<1>1. \A g \in Files, q \in Pages :
         pins'[g][q] = IF g = f /\ q = p THEN n ELSE pins[g][q]
  OBVIOUS
<1>2. \A g \in Files, q \in Pages :
         AbsPins(g, q)' = IF g = f /\ q = p THEN n ELSE AbsPins(g, q)
  BY <1>1 DEF AbsPins
<1>3. PinsOf' = [PinsOf EXCEPT ![f][p] = n]
  BY <1>2, PinsChanged
<1>4. PinsOf[f][p] = pins[f][p]
  BY Mapped DEF AbsPins
<1>. QED
  BY <1>3, <1>4

(* The frames keep their pages, and the pages their contents. *)
LEMMA SamePages ==
    ASSUME bufPool' = bufPool, disk' = disk,
           \A fr \in Frames :
              /\ bufDescTable'[fr].file = bufDescTable[fr].file
              /\ bufDescTable'[fr].pageNo = bufDescTable[fr].pageNo
    PROVE  \A f \in Files, p \in Pages : Content(f, p)' = Content(f, p)
  BY SameContent

LEMMA Invisible ==
    ASSUME bufPool' = bufPool, disk' = disk, strayed' = strayed, pins' = pins,
           \A fr \in Frames :
              /\ bufDescTable'[fr].file = bufDescTable[fr].file
              /\ bufDescTable'[fr].pageNo = bufDescTable[fr].pageNo
    PROVE  UNCHANGED Store!storeVars
  BY SamePages, Unmoved

(* The descriptor of one frame changes in other fields. *)
LEMMA SameIdentity ==
    ASSUME IInv, NEW k \in Frames, NEW d,
           bufDescTable' = [bufDescTable EXCEPT ![k] = d],
           d.file = bufDescTable[k].file, d.pageNo = bufDescTable[k].pageNo
    PROVE  \A fr \in Frames :
              /\ bufDescTable'[fr].file = bufDescTable[fr].file
              /\ bufDescTable'[fr].pageNo = bufDescTable[fr].pageNo
  BY DEF IInv, TypeOK

LEMMA StoreInit == Init => Store!Init
<1>. SUFFICES ASSUME Init PROVE Store!Init
  OBVIOUS
<1>1. \A f \in Files, p \in Pages :
         Abs(f, p) = disk[f][p] /\ AbsPins(f, p) = 0
  BY DEF Init, Content, Holding, Cleared, Abs, AbsPins
<1>2. disk \in [Files -> [Pages -> Data \cup {Absent}]]
  BY DEF Init
<1>. QED
  BY <1>1, <1>2, Mapped DEF Store!Init

LEMMA AllocBufStore ==
    ASSUME IInv, AllocBufStep
    PROVE  UNCHANGED Store!storeVars
<1>1. CASE \/ BreakAtInvalid \/ SkipPinned \/ BreakAtVictim \/ Exceeded
           \/ TakeFrameFails
  BY <1>1, Invisible DEF BreakAtInvalid, SkipPinned, BreakAtVictim, Exceeded,
     TakeFrameFails, clientVars, poolVars
<1>2. CASE ClearRefbit
  <2>k. PICK k \in Frames : k = Hand
    BY HandType DEF IInv
  <2>1. bufDescTable' = [bufDescTable EXCEPT
                           ![k] = [bufDescTable[k] EXCEPT !.refbit = FALSE]]
    BY <1>2, <2>k DEF ClearRefbit
  <2>2. bufDescTable[k] \in BufDesc
    BY DEF IInv, TypeOK
  <2>. DEFINE d == [bufDescTable[k] EXCEPT !.refbit = FALSE]
  <2>3. d.file = bufDescTable[k].file /\ d.pageNo = bufDescTable[k].pageNo
    BY <2>2 DEF BufDesc
  <2>. HIDE DEF d
  <2>4. \A fr \in Frames :
           /\ bufDescTable'[fr].file = bufDescTable[fr].file
           /\ bufDescTable'[fr].pageNo = bufDescTable[fr].pageNo
    BY <2>1, <2>3, SameIdentity DEF d
  <2>. QED
    BY <1>2, <2>4, Invisible DEF ClearRefbit, clientVars
<1>3. CASE TakeFrame
  <2>k. PICK k \in Frames : k = clockHand
    BY DEF IInv, TypeOK
  <2>1. /\ disk' = Written({k} \cap {fr \in Frames : bufDescTable[fr].dirty})
        /\ bufDescTable' = [bufDescTable EXCEPT ![k] = Cleared]
        /\ bufPool' = bufPool /\ pins' = pins /\ strayed' = strayed
    BY <1>3, <2>k DEF TakeFrame, clientVars
  <2>2. bufDescTable[k].pinCnt = 0 \/ Astray(k)
    <3>1. Taken(k) /\ FrameOK(k)
      BY <1>3, <2>k, TakeFrameEffect DEF Taken, IInv, PoolInv
    <3>2. bufDescTable[k].valid =>
             PageOK(bufDescTable[k].file, bufDescTable[k].pageNo)
      BY <3>1 DEF FrameOK, IInv, PoolInv
    <3>. QED
      BY <3>1, <3>2 DEF FrameOK, Sound, Astray, PageOK, Cleared
  <2>3. \A f \in Files, p \in Pages : p \notin strayed[f] =>
           Content(f, p)' = Content(f, p)
    BY <2>1, <2>2, ClearedContent
  <2>. QED
    BY <2>1, <2>3, Unmoved
<1>. QED
  BY <1>1, <1>2, <1>3 DEF AllocBufStep

LEMMA FlushStore ==
    ASSUME IInv, FlushStep
    PROVE  UNCHANGED Store!storeVars
<1>1. CASE FlushOther \/ FlushPinned \/ FlushFails \/ FlushDone
  BY <1>1, Invisible DEF FlushOther, FlushPinned, FlushFails, FlushDone,
     clientVars, poolVars
<1>2. CASE FlushFrame
  <2>k. PICK k \in Frames : k = call.i
    BY <1>2, FlushedFrame
  <2>1. /\ disk' = Written({k} \cap {fr \in Frames : bufDescTable[fr].dirty})
        /\ bufDescTable' = [bufDescTable EXCEPT ![k] = Cleared]
        /\ bufPool' = bufPool /\ pins' = pins /\ strayed' = strayed
        /\ bufDescTable[k].pinCnt = 0
    BY <1>2, <2>k DEF FlushFrame, Flushee, clientVars
  <2>2. \A f \in Files, p \in Pages : p \notin strayed[f] =>
           Content(f, p)' = Content(f, p)
    BY <2>1, ClearedContent
  <2>. QED
    BY <2>1, <2>2, Unmoved
<1>3. CASE FlushUnhashed
  <2>u. PICK k \in Frames, f \in Files, p \in Pages : Unhashed(k, f, p)
    BY <1>3, FlushUnhashedEffect
  <2>1. /\ bufDescTable[k].file = f /\ bufDescTable[k].pageNo = p
        /\ p \in strayed[f]
        /\ \A g \in Files, q \in Pages :
             g # f \/ q # p => disk'[g][q] = disk[g][q]
        /\ \A fr \in Frames : fr # k => bufDescTable'[fr] = bufDescTable[fr]
        /\ bufDescTable'[k].file = f /\ bufDescTable'[k].pageNo = p
        /\ UNCHANGED <<bufPool, pins, strayed>>
    BY <2>u DEF Unhashed
  <2>2. ASSUME NEW g \in Files, NEW q \in Pages, q \notin strayed[g]
        PROVE  Content(g, q)' = Content(g, q)
    <3>1. /\ disk'[g][q] = disk[g][q]
          /\ \A fr \in Frames :
               bufDescTable'[fr].file = g /\ bufDescTable'[fr].pageNo = q
                 <=> bufDescTable[fr].file = g /\ bufDescTable[fr].pageNo = q
      BY <2>1, <2>2
    <3>. QED
      BY <2>1, <3>1, SameContent
  <2>. QED
    BY <2>1, <2>2, Unmoved
<1>. QED
  BY <1>1, <1>2, <1>3 DEF FlushStep

(* The frame that a page is read or allocated into. *)
LEMMA InstallContent ==
    ASSUME IInv, call.pc = "fill",
           NEW f \in Files, NEW p \in Pages, NEW d \in Data,
           Present(ht, f, p) => p \in strayed[f],
           Install(f, p, d),
           disk' = [disk EXCEPT ![f][p] = d]
    PROVE  /\ strayed' = strayed
           /\ p \notin strayed[f] =>
                /\ Content(f, p)' = d /\ Content(f, p) = disk[f][p]
                /\ pins[f][p] = 0 /\ pins' = [pins EXCEPT ![f][p] = @ + 1]
           /\ \A g \in Files, q \in Pages : g # f \/ q # p =>
                Content(g, q)' = Content(g, q) /\ pins'[g][q] = pins[g][q]
<1>k. PICK k \in Frames : k = clockHand
  BY DEF IInv, TypeOK
<1>1. /\ bufDescTable[k] = Cleared /\ ~bufDescTable[k].valid
      /\ bufDescTable[k].file = NoFile
      /\ \A fr \in Frames : ~Taken(fr)
  BY <1>k, ClearedType DEF IInv, CallInv, Taken
<1>3. /\ bufPool' = [bufPool EXCEPT ![k] = d]
      /\ bufDescTable' = [bufDescTable EXCEPT ![k] = Assigned(f, p)]
      /\ pins' = pins \/ pins' = [pins EXCEPT ![f][p] = @ + 1]
      /\ ~Present(ht, f, p) => pins' = [pins EXCEPT ![f][p] = @ + 1]
      /\ strayed' = strayed
  BY <1>k DEF Install
<1>t. /\ bufDescTable \in [Frames -> BufDesc] /\ bufPool \in [Frames -> Data]
      /\ disk \in [Files -> [Pages -> Data \cup {Absent}]]
      /\ pins \in [Files -> [Pages -> Nat]]
  BY DEF IInv, TypeOK
<1>4. /\ bufDescTable'[k].file = f /\ bufDescTable'[k].pageNo = p
      /\ bufPool'[k] = d
      /\ \A fr \in Frames : fr # k => /\ bufDescTable'[fr] = bufDescTable[fr]
                                      /\ bufPool'[fr] = bufPool[fr]
  BY <1>3, <1>t, AssignedType
<1>5. ASSUME p \notin strayed[f]
      PROVE  /\ Content(f, p)' = d /\ Content(f, p) = disk[f][p]
             /\ pins[f][p] = 0 /\ pins' = [pins EXCEPT ![f][p] = @ + 1]
  <2>1. ~Present(ht, f, p) /\ pins[f][p] = 0
    BY <1>5, TheTable DEF IInv, PoolInv, PageOK
  <2>2. ASSUME NEW fr \in Holding(f, p) PROVE FALSE
    BY <1>1, <1>5, <2>1, HoldersAreValid, HeldPage DEF Astray
  <2>3. Holding(f, p) = {}
    BY <2>2
  <2>4. Holding(f, p)' = {k}
    BY <1>4, <2>3 DEF Holding
  <2>5. Content(f, p)' = d
    BY <1>4, <2>4 DEF Content
  <2>6. Content(f, p) = disk[f][p]
    BY <2>3, HeldContent
  <2>. QED
    BY <1>3, <2>1, <2>5, <2>6
<1>8. ASSUME NEW g \in Files, NEW q \in Pages, g # f \/ q # p
      PROVE  Content(g, q)' = Content(g, q) /\ pins'[g][q] = pins[g][q]
  <2>1. disk'[g][q] = disk[g][q] /\ pins'[g][q] = pins[g][q]
    BY <1>3, <1>8, <1>t
  <2>2. /\ ~(bufDescTable[k].file = g /\ bufDescTable[k].pageNo = q)
        /\ ~(bufDescTable'[k].file = g /\ bufDescTable'[k].pageNo = q)
        /\ k \notin Holding(g, q)
    BY <1>1, <1>4, <1>8 DEF Holding
  <2>3. \A fr \in Frames :
          /\ bufDescTable'[fr].file = g /\ bufDescTable'[fr].pageNo = q
             <=> bufDescTable[fr].file = g /\ bufDescTable[fr].pageNo = q
          /\ fr \in Holding(g, q) => bufPool'[fr] = bufPool[fr]
    BY <1>4, <2>2
  <2>. QED
    BY <2>1, <2>3, SameContent
<1>. QED
  BY <1>3, <1>5, <1>8

LEMMA ReadFillStore ==
    ASSUME IInv, ReadFill
    PROVE  Store!Next \/ UNCHANGED Store!storeVars
<1>p. PICK f \in Files, p \in Pages : f = call.file /\ p = call.page
  BY DEF ReadFill, IInv, TypeOK
<1>d. PICK d \in Data : d = disk[f][p]
  BY <1>p, ReadFillEffect
<1>1. /\ call.pc = "fill" /\ ~Present(ht, f, p)
      /\ Install(f, p, d) /\ disk' = [disk EXCEPT ![f][p] = d]
  BY <1>p, <1>d, ReadFillEffect, TheTable
<1>0. /\ strayed' = strayed
      /\ p \notin strayed[f] =>
           /\ Content(f, p)' = d /\ Content(f, p) = disk[f][p]
           /\ pins[f][p] = 0 /\ pins' = [pins EXCEPT ![f][p] = @ + 1]
      /\ \A g \in Files, q \in Pages : g # f \/ q # p =>
           Content(g, q)' = Content(g, q) /\ pins'[g][q] = pins[g][q]
  BY <1>1, InstallContent
<1>2. /\ strayed' = strayed
      /\ p \notin strayed[f] =>
           /\ Content(f, p)' = d /\ Content(f, p) = d
           /\ pins' = [pins EXCEPT ![f][p] = pins[f][p] + 1]
      /\ \A g \in Files, q \in Pages : g # f \/ q # p =>
           Content(g, q)' = Content(g, q) /\ pins'[g][q] = pins[g][q]
  BY <1>0, <1>d
<1>t. pins \in [Files -> [Pages -> Nat]]
  BY DEF IInv, TypeOK
<1>3. CASE p \in strayed[f]
  BY <1>2, <1>3, Unmoved
<1>4. CASE p \notin strayed[f]
  <2>1. \A g \in Files, q \in Pages : Content(g, q)' = Content(g, q)
    BY <1>2, <1>4
  <2>2. StoreOf' = StoreOf
    BY <1>2, <2>1 DEF StoreOf
  <2>3. StoreOf[f][p] = d
    BY <1>2, <1>4 DEF StoreOf
  <2>4. PinsOf' = [PinsOf EXCEPT ![f][p] = @ + 1]
    <3>. DEFINE n == pins[f][p] + 1
    <3>1. pins' = [pins EXCEPT ![f][p] = n]
      BY <1>2, <1>4
    <3>. HIDE DEF n
    <3>2. PinsOf' = [PinsOf EXCEPT ![f][p] = n] /\ PinsOf[f][p] = pins[f][p]
      BY <1>2, <1>4, <1>t, <3>1, PinsMoved
    <3>. QED
      BY <3>2 DEF n
  <2>5. Store!Pin(f, p)
    BY <2>2, <2>3, <2>4 DEF Store!Pin
  <2>. QED
    BY <2>5 DEF Store!Next
<1>. QED
  BY <1>3, <1>4

LEMMA AllocFillStore ==
    ASSUME IInv, AllocFill
    PROVE  Store!Next \/ UNCHANGED Store!storeVars
<1>p. PICK f \in Files, p \in Pages :
         /\ call.pc = "fill"
         /\ disk[f][p] = Absent /\ (Present(ht, f, p) => p \in strayed[f])
         /\ Install(f, p, Empty)
         /\ disk' = [disk EXCEPT ![f][p] = Empty]
  BY AllocFillEffect
<1>d. PICK d \in Data : d = Empty
  OBVIOUS
<1>0. /\ strayed' = strayed
      /\ p \notin strayed[f] =>
           /\ Content(f, p)' = d /\ Content(f, p) = disk[f][p]
           /\ pins[f][p] = 0 /\ pins' = [pins EXCEPT ![f][p] = pins[f][p] + 1]
      /\ \A g \in Files, q \in Pages : g # f \/ q # p =>
           Content(g, q)' = Content(g, q) /\ pins'[g][q] = pins[g][q]
  <2>1. Install(f, p, d) /\ disk' = [disk EXCEPT ![f][p] = d]
    BY <1>p, <1>d
  <2>2. call.pc = "fill" /\ (Present(ht, f, p) => p \in strayed[f])
    BY <1>p
  <2>. QED
    BY <2>1, <2>2, InstallContent
<1>1. /\ strayed' = strayed
      /\ p \notin strayed[f] =>
           /\ Content(f, p)' = Empty /\ Content(f, p) = Absent
           /\ pins[f][p] = 0 /\ pins' = [pins EXCEPT ![f][p] = @ + 1]
      /\ \A g \in Files, q \in Pages : g # f \/ q # p =>
           Content(g, q)' = Content(g, q) /\ pins'[g][q] = pins[g][q]
  <2>1. p \notin strayed[f] => Content(f, p)' = Empty /\ Content(f, p) = Absent
    <3>1. d = Empty /\ disk[f][p] = Absent
      BY <1>d, <1>p
    <3>2. p \notin strayed[f] =>
             Content(f, p)' = d /\ Content(f, p) = disk[f][p]
      BY <1>0
    <3>. QED
      BY ONLY <3>1, <3>2
  <2>2. p \notin strayed[f] =>
           pins[f][p] = 0 /\ pins' = [pins EXCEPT ![f][p] = pins[f][p] + 1]
    BY ONLY <1>0
  <2>. QED
    BY <1>0, <2>1, <2>2
<1>2. CASE p \in strayed[f]
  BY <1>1, <1>2, Unmoved
<1>3. CASE p \notin strayed[f]
  <2>1. pins' = [pins EXCEPT ![f][p] = 1]
    <3>1. pins[f][p] = 0 /\ pins' = [pins EXCEPT ![f][p] = pins[f][p] + 1]
      BY <1>1, <1>3
    <3>2. pins[f][p] + 1 = 1
      BY <3>1
    <3>. QED
      BY <3>1, <3>2
  <2>2. PinsOf' = [PinsOf EXCEPT ![f][p] = 1]
    <3>1. pins \in [Files -> [Pages -> Nat]]
      BY DEF IInv, TypeOK
    <3>2. strayed' = strayed
      BY <1>1
    <3>. DEFINE n == 1
    <3>3. pins' = [pins EXCEPT ![f][p] = n]
      BY <2>1
    <3>. HIDE DEF n
    <3>4. PinsOf' = [PinsOf EXCEPT ![f][p] = n]
      BY <1>3, <3>1, <3>2, <3>3, PinsMoved
    <3>. QED
      BY <3>4 DEF n
  <2>3. StoreOf' = [StoreOf EXCEPT ![f][p] = Empty] /\ StoreOf[f][p] = Absent
    BY <1>1, <1>3, Changed
  <2>4. Store!Alloc(f, p)
    BY <2>2, <2>3 DEF Store!Alloc
  <2>. QED
    BY <2>4 DEF Store!Next
<1>. QED
  BY <1>2, <1>3

(* Calls on a page in the pool. *)
LEMMA PooledContent ==
    ASSUME IInv, Ready, NEW f \in Files, NEW p \in Pages, Present(ht, f, p)
    PROVE  /\ lookup(ht, f, p) \in Frames
           /\ p \notin strayed[f] => Holding(f, p) = {lookup(ht, f, p)}
           /\ Content(f, p) # Absent
           /\ bufDescTable[lookup(ht, f, p)].file = f
           /\ bufDescTable[lookup(ht, f, p)].pageNo = p
<1>1. /\ lookup(ht, f, p) \in Frames
      /\ bufDescTable[lookup(ht, f, p)].file = f
      /\ bufDescTable[lookup(ht, f, p)].pageNo = p
  BY PooledPage
<1>2. lookup(ht, f, p) \in Holding(f, p)
  BY <1>1 DEF Holding
<1>3. Content(f, p) \in Data
  BY <1>2, HeldContent
<1>. QED
  BY <1>1, <1>2, <1>3, HoldersAreValid

LEMMA PinStore ==
    ASSUME IInv, NEW f \in Files, NEW p \in Pages,
           ReadHit(f, p) \/ \E dirty \in BOOLEAN : UnPinPage(f, p, dirty)
    PROVE  Store!Next \/ UNCHANGED Store!storeVars
<1>0. /\ Ready /\ Present(ht, f, p) /\ bufPool' = bufPool /\ disk' = disk
      /\ strayed' = strayed
  BY DEF ReadHit, UnPinPage
<1>k. PICK k \in Frames : k = lookup(ht, f, p)
  BY <1>0, PooledPage
<1>b. /\ bufDescTable[k] \in BufDesc /\ bufDescTable[k].pinCnt \in Nat
      /\ p \notin strayed[f] => bufDescTable[k].pinCnt = pins[f][p]
  BY <1>0, <1>k, PooledPage
<1>1. PICK pinCnt, dirty, refbit :
         bufDescTable' = [bufDescTable EXCEPT
           ![k] = [bufDescTable[k] EXCEPT !.pinCnt = pinCnt, !.dirty = dirty,
                                          !.refbit = refbit]]
  <2>1. CASE ReadHit(f, p)
    <3>1. bufDescTable' = [bufDescTable EXCEPT
             ![k] = [bufDescTable[k] EXCEPT !.refbit = TRUE, !.pinCnt = @ + 1]]
      BY <2>1, <1>k DEF ReadHit, IInv, TypeOK
    <3>2. [bufDescTable[k] EXCEPT !.refbit = TRUE, !.pinCnt = @ + 1]
            = [bufDescTable[k] EXCEPT !.pinCnt = bufDescTable[k].pinCnt + 1,
                                      !.dirty = bufDescTable[k].dirty,
                                      !.refbit = TRUE]
      BY <1>b DEF BufDesc
    <3>. QED
      BY <3>1, <3>2
  <2>2. ASSUME NEW dirty \in BOOLEAN, UnPinPage(f, p, dirty)
        PROVE  \E pinCnt, d, refbit :
                 bufDescTable' = [bufDescTable EXCEPT
                   ![k] = [bufDescTable[k] EXCEPT !.pinCnt = pinCnt,
                             !.dirty = d, !.refbit = refbit]]
    <3>. DEFINE b == bufDescTable[k]
               n == b.pinCnt - 1
               e == b.dirty \/ dirty
    <3>1. bufDescTable' = [bufDescTable EXCEPT
             ![k] = [b EXCEPT !.dirty = e, !.pinCnt = n]]
      BY <2>2, <1>k DEF UnPinPage, IInv, TypeOK
    <3>. HIDE DEF n, e
    <3>2. [b EXCEPT !.dirty = e, !.pinCnt = n]
            = [b EXCEPT !.pinCnt = n, !.dirty = e, !.refbit = b.refbit]
      BY <1>b DEF BufDesc
    <3>. QED
      BY <3>1, <3>2
  <2>. QED
    BY <2>1, <2>2
<1>. DEFINE d == [bufDescTable[k] EXCEPT !.pinCnt = pinCnt, !.dirty = dirty,
                                         !.refbit = refbit]
<1>d. d.file = bufDescTable[k].file /\ d.pageNo = bufDescTable[k].pageNo
  BY <1>b DEF BufDesc
<1>. HIDE DEF d
<1>2. \A g \in Files, q \in Pages : Content(g, q)' = Content(g, q)
  BY <1>0, <1>1, <1>d, SameIdentity, SamePages DEF d
<1>3. StoreOf' = StoreOf
  BY <1>0, <1>2 DEF StoreOf
<1>t. pins \in [Files -> [Pages -> Nat]]
  BY DEF IInv, TypeOK
<1>4. CASE p \in strayed[f]
  <2>1. \A g \in Files, q \in Pages :
           q \notin strayed[g] => pins'[g][q] = pins[g][q]
    <3>1. \E n : pins' = [pins EXCEPT ![f][p] = n]
      <4>1. ReadHit(f, p) => pins' = [pins EXCEPT ![f][p] = pins[f][p] + 1]
        BY DEF ReadHit
      <4>2. \A e \in BOOLEAN : UnPinPage(f, p, e) =>
               pins' = [pins EXCEPT ![f][p] = pins[f][p] - 1]
        BY DEF UnPinPage
      <4>. QED
        BY <4>1, <4>2
    <3>2. PICK n : pins' = [pins EXCEPT ![f][p] = n]
      BY <3>1
    <3>. QED
      BY <1>4, <1>t, <3>2
  <2>. QED
    BY <1>0, <1>2, <2>1, Unmoved
<1>5. CASE ReadHit(f, p) /\ p \notin strayed[f]
  <2>1. StoreOf[f][p] # Absent
    BY <1>0, <1>5, PooledContent DEF StoreOf
  <2>2. PinsOf' = [PinsOf EXCEPT ![f][p] = @ + 1]
    <3>. DEFINE n == pins[f][p] + 1
    <3>1. pins' = [pins EXCEPT ![f][p] = n]
      BY <1>5 DEF ReadHit
    <3>. HIDE DEF n
    <3>2. PinsOf' = [PinsOf EXCEPT ![f][p] = n] /\ PinsOf[f][p] = pins[f][p]
      BY <1>0, <1>5, <1>t, <3>1, PinsMoved
    <3>. QED
      BY <3>2 DEF n
  <2>3. Store!Pin(f, p)
    BY <1>3, <2>1, <2>2 DEF Store!Pin
  <2>. QED
    BY <2>3 DEF Store!Next
<1>6. CASE (\E e \in BOOLEAN : UnPinPage(f, p, e)) /\ p \notin strayed[f]
  <2>1. pins[f][p] > 0 /\ pins' = [pins EXCEPT ![f][p] = @ - 1]
    BY <1>6, <1>b, <1>k DEF UnPinPage
  <2>2. PinsOf' = [PinsOf EXCEPT ![f][p] = @ - 1] /\ PinsOf[f][p] > 0
    <3>. DEFINE n == pins[f][p] - 1
    <3>1. pins' = [pins EXCEPT ![f][p] = n]
      BY <2>1
    <3>. HIDE DEF n
    <3>2. PinsOf' = [PinsOf EXCEPT ![f][p] = n] /\ PinsOf[f][p] = pins[f][p]
      BY <1>0, <1>6, <1>t, <3>1, PinsMoved
    <3>. QED
      BY <3>2, <2>1 DEF n
  <2>3. Store!Unpin(f, p)
    BY <1>3, <2>2 DEF Store!Unpin
  <2>. QED
    BY <2>3 DEF Store!Next
<1>. QED
  BY <1>4, <1>5, <1>6

LEMMA UnPinRefusedStore ==
    ASSUME IInv, NEW f \in Files, NEW p \in Pages, NEW dirty \in BOOLEAN,
           UnPinRefused(f, p, dirty)
    PROVE  UNCHANGED Store!storeVars
<1>0. /\ Ready /\ bufPool' = bufPool /\ disk' = disk /\ pins' = pins
      /\ strayed' = strayed
  BY DEF UnPinRefused, clientVars
<1>1. CASE ~Present(ht, f, p)
  <2>1. bufDescTable' = bufDescTable
    BY <1>1 DEF UnPinRefused
  <2>. QED
    BY <1>0, <2>1, Invisible
<1>2. CASE Present(ht, f, p)
  <2>k. PICK k \in Frames : k = lookup(ht, f, p) /\ bufDescTable[k] \in BufDesc
    BY <1>0, <1>2, PooledPage
  <2>. DEFINE d == [bufDescTable[k] EXCEPT !.dirty = @ \/ dirty]
  <2>1. bufDescTable' = [bufDescTable EXCEPT ![k] = d]
    BY <1>2, <2>k DEF UnPinRefused, IInv, TypeOK
  <2>2. d.file = bufDescTable[k].file /\ d.pageNo = bufDescTable[k].pageNo
    BY <2>k DEF BufDesc
  <2>. HIDE DEF d
  <2>3. \A fr \in Frames :
           /\ bufDescTable'[fr].file = bufDescTable[fr].file
           /\ bufDescTable'[fr].pageNo = bufDescTable[fr].pageNo
    BY <2>1, <2>2, SameIdentity
  <2>. QED
    BY <1>0, <2>3, Invisible
<1>. QED
  BY <1>1, <1>2

LEMMA DisposePageStore ==
    ASSUME IInv, NEW f \in Files, NEW p \in Pages, DisposePage(f, p)
    PROVE  Store!Next \/ UNCHANGED Store!storeVars
<1>0. Ready /\ Present(ht, f, p)
  BY DEF DisposePage
<1>k. PICK k \in Frames : k = lookup(ht, f, p)
  BY <1>0, PooledContent
<1>h. /\ p \notin strayed[f] => Holding(f, p) = {k}
      /\ Content(f, p) # Absent
      /\ bufDescTable[k].file = f /\ bufDescTable[k].pageNo = p
  BY <1>0, <1>k, PooledContent
<1>t. pins \in [Files -> [Pages -> Nat]]
  BY DEF IInv, TypeOK
<1>1. /\ bufDescTable' = [bufDescTable EXCEPT ![k] = Cleared]
      /\ disk' = [disk EXCEPT ![f][p] = Absent]
      /\ pins' = [pins EXCEPT ![f][p] = 0]
      /\ bufPool' = bufPool /\ strayed' = strayed
  BY <1>k DEF DisposePage
<1>2. /\ bufDescTable'[k].file = NoFile
      /\ \A fr \in Frames : fr # k => bufDescTable'[fr] = bufDescTable[fr]
      /\ disk'[f][p] = Absent
      /\ \A g \in Files, q \in Pages : g # f \/ q # p =>
           disk'[g][q] = disk[g][q] /\ pins'[g][q] = pins[g][q]
  BY <1>1, <1>t, ClearedType DEF IInv, TypeOK
<1>3. ASSUME NEW g \in Files, NEW q \in Pages, g # f \/ q # p
      PROVE  Content(g, q)' = Content(g, q)
  <2>1. \A fr \in Frames :
           bufDescTable'[fr].file = g /\ bufDescTable'[fr].pageNo = q
             <=> bufDescTable[fr].file = g /\ bufDescTable[fr].pageNo = q
    BY <1>2, <1>3, <1>h
  <2>. QED
    BY <1>1, <1>2, <1>3, <2>1, SameContent
<1>4. CASE p \in strayed[f]
  BY <1>1, <1>2, <1>3, <1>4, Unmoved
<1>5. CASE p \notin strayed[f]
  <2>1. Holding(f, p)' = {}
    BY <1>2, <1>5, <1>h DEF Holding
  <2>2. Content(f, p)' = Absent
    BY <2>1, <1>2 DEF Content
  <2>3. StoreOf' = [StoreOf EXCEPT ![f][p] = Absent] /\ StoreOf[f][p] # Absent
    BY <1>1, <1>3, <1>5, <1>h, <2>2, Changed
  <2>4. PinsOf' = [PinsOf EXCEPT ![f][p] = 0]
    BY <1>1, <1>5, <1>t, PinsMoved
  <2>5. Store!Dispose(f, p)
    BY <2>3, <2>4 DEF Store!Dispose
  <2>. QED
    BY <2>5 DEF Store!Next
<1>. QED
  BY <1>4, <1>5

LEMMA ModifyStore ==
    ASSUME IInv, NEW f \in Files, NEW p \in Pages, NEW d \in Data,
           Modify(f, p, d)
    PROVE  Store!Next \/ UNCHANGED Store!storeVars
<1>k. PICK k \in Holding(f, p) : bufPool' = [bufPool EXCEPT ![k] = d]
  BY DEF Modify
<1>h. /\ k \in Frames
      /\ bufDescTable[k].file = f /\ bufDescTable[k].pageNo = p
      /\ p \notin strayed[f] => Holding(f, p) = {k}
  BY HoldersAreValid
<1>1. UNCHANGED <<bufDescTable, disk, pins, strayed>> /\ pins[f][p] > 0
  BY DEF Modify
<1>2. /\ bufPool'[k] = d
      /\ \A fr \in Frames : fr # k => bufPool'[fr] = bufPool[fr]
  BY <1>k, <1>h DEF IInv, TypeOK
<1>3. ASSUME NEW g \in Files, NEW q \in Pages, g # f \/ q # p
      PROVE  Content(g, q)' = Content(g, q)
  <2>1. k \notin Holding(g, q)
    BY <1>3, <1>h DEF Holding
  <2>. QED
    BY <1>1, <1>2, <2>1, SameContent
<1>4. CASE p \in strayed[f]
  BY <1>1, <1>3, <1>4, Unmoved
<1>5. CASE p \notin strayed[f]
  <2>1. Holding(f, p)' = {k}
    BY <1>1, <1>5, <1>h DEF Holding
  <2>2. Content(f, p)' = d
    BY <2>1, <1>2 DEF Content
  <2>3. StoreOf' = [StoreOf EXCEPT ![f][p] = d]
    BY <1>1, <1>3, <1>5, <2>2, Changed
  <2>4. PinsOf' = PinsOf /\ PinsOf[f][p] > 0
    BY <1>1, <1>5 DEF PinsOf
  <2>5. Store!Write(f, p, d)
    BY <2>3, <2>4 DEF Store!Write
  <2>. QED
    BY <2>5 DEF Store!Next
<1>. QED
  BY <1>4, <1>5

(* A page deleted elsewhere is disposed of, and the pins on it are void. *)
LEMMA DeleteElsewhereStore ==
    ASSUME IInv, NEW f \in Files, NEW p \in Pages, DeleteElsewhere(f, p)
    PROVE  Store!Next \/ UNCHANGED Store!storeVars
<1>1. /\ UNCHANGED <<bufDescTable, bufPool, pins>>
      /\ disk' = [disk EXCEPT ![f][p] = Absent] /\ disk[f][p] # Absent
      /\ strayed' = IF Holding(f, p) = {} THEN strayed
                    ELSE [strayed EXCEPT ![f] = @ \cup {p}]
      /\ call = Idle
  BY DEF DeleteElsewhere, poolVars, Ready
<1>t. /\ disk \in [Files -> [Pages -> Data \cup {Absent}]]
      /\ strayed \in [Files -> SUBSET Pages]
      /\ pins \in [Files -> [Pages -> Nat]]
  BY DEF IInv, TypeOK
<1>2. /\ disk'[f][p] = Absent
      /\ Holding(f, p) # {} \/ p \in strayed[f] => p \in strayed'[f]
      /\ Holding(f, p) = {} => strayed' = strayed
      /\ \A g \in Files, q \in Pages : g # f \/ q # p =>
           disk'[g][q] = disk[g][q] /\ (q \in strayed'[g] <=> q \in strayed[g])
  BY <1>1, <1>t
<1>3. ASSUME NEW g \in Files, NEW q \in Pages, g # f \/ q # p
      PROVE  Abs(g, q)' = Abs(g, q) /\ AbsPins(g, q)' = AbsPins(g, q)
  <2>1. Content(g, q)' = Content(g, q)
    BY <1>1, <1>2, <1>3, SameContent
  <2>. QED
    BY <1>1, <1>2, <1>3, <2>1 DEF Abs, AbsPins
<1>4. CASE p \in strayed[f]
  <2>1. \A g \in Files, q \in Pages :
           Abs(g, q)' = Abs(g, q) /\ AbsPins(g, q)' = AbsPins(g, q)
    BY <1>2, <1>3, <1>4 DEF Abs, AbsPins
  <2>. QED
    BY <2>1, Mapped, MappedNext DEF Store!storeVars
<1>5. CASE p \notin strayed[f]
  <2>1. Abs(f, p)' = Absent
    <3>1. CASE Holding(f, p) # {}
      BY <1>2, <3>1 DEF Abs
    <3>2. CASE Holding(f, p) = {}
      <4>1. Holding(f, p)' = {}
        BY <1>1, <3>2 DEF Holding
      <4>2. Content(f, p)' = Absent
        BY <1>2, <4>1 DEF Content
      <4>. QED
        BY <4>2 DEF Abs
    <3>. QED
      BY <3>1, <3>2
  <2>2. Abs(f, p) # Absent
    BY <1>1, <1>5, HeldContent DEF Abs
  <2>3. AbsPins(f, p)' = 0
    <3>1. CASE Holding(f, p) # {}
      BY <1>2, <3>1 DEF AbsPins
    <3>2. CASE Holding(f, p) = {}
      <4>1. PageOK(f, p) /\ lookup(ht, f, p) \in Frames \cup {NoFrame}
        BY TheTable DEF IInv, PoolInv
      <4>2. lookup(ht, f, p) = NoFrame
        BY <3>2, <4>1 DEF PageOK, Holding
      <4>3. pins'[f][p] = 0
        BY <1>1, <1>5, <4>1, <4>2 DEF PageOK
      <4>. QED
        BY <4>3 DEF AbsPins
    <3>. QED
      BY <3>1, <3>2
  <2>4. \A g \in Files, q \in Pages :
           Abs(g, q)' = IF g = f /\ q = p THEN Absent ELSE Abs(g, q)
    BY <1>3, <2>1
  <2>5. \A g \in Files, q \in Pages :
           AbsPins(g, q)' = IF g = f /\ q = p THEN 0 ELSE AbsPins(g, q)
    BY <1>3, <2>3
  <2>6. /\ StoreOf' = [StoreOf EXCEPT ![f][p] = Absent]
        /\ PinsOf' = [PinsOf EXCEPT ![f][p] = 0]
        /\ StoreOf[f][p] # Absent
    <3>1. StoreOf' = [StoreOf EXCEPT ![f][p] = Absent]
      BY <2>4, StoreChanged
    <3>2. PinsOf' = [PinsOf EXCEPT ![f][p] = 0]
      BY <2>5, PinsChanged
    <3>3. StoreOf[f][p] = Abs(f, p)
      BY Mapped
    <3>. QED
      BY <3>1, <3>2, <3>3, <2>2
  <2>7. Store!Dispose(f, p)
    BY <2>6 DEF Store!Dispose
  <2>. QED
    BY <2>7 DEF Store!Next
<1>. QED
  BY <1>4, <1>5

(* What the destructor writes is what the pages contained, also when a     *)
(* write ends the program.                                                 *)
LEMMA WrittenContent ==
    ASSUME IInv, Unpinned, NEW S \in SUBSET DirtyFrames, disk' = Written(S),
           NEW f \in Files, NEW p \in Pages, p \notin strayed[f]
    PROVE  /\ Holding(f, p) = {} => disk'[f][p] = disk[f][p]
           /\ Holding(f, p) # {} /\ S = DirtyFrames =>
                disk'[f][p] = Content(f, p)
<1>1. S \in SUBSET Frames
  BY DEF DirtyFrames
<1>2. CASE Holding(f, p) = {}
  <2>1. S \cap Holding(f, p) = {}
    BY <1>2
  <2>. QED
    BY <1>1, <1>2, <2>1, WrittenEffect
<1>3. ASSUME NEW fr \in Holding(f, p), S = DirtyFrames
      PROVE  disk'[f][p] = Content(f, p)
  <2>1. /\ fr \in Frames /\ bufDescTable[fr].valid /\ ~Astray(fr)
        /\ bufDescTable[fr].file = f /\ bufDescTable[fr].pageNo = p
        /\ Content(f, p) = bufPool[fr]
    BY HoldersAreValid, HeldContent DEF Astray
  <2>2. disk'[f][p] = IF fr \in S THEN bufPool[fr] ELSE disk[f][p]
    BY <1>1, <2>1, WrittenSound
  <2>3. FrameOK(fr) /\ p \notin unsaved[f]
    BY <2>1, NothingUnsaved DEF IInv, PoolInv
  <2>4. fr \notin S => bufPool[fr] = disk[f][p]
    BY <1>3, <2>1, <2>3 DEF FrameOK, Sound, Astray, DirtyFrames
  <2>. QED
    BY <2>1, <2>2, <2>4
<1>. QED
  BY <1>2, <1>3

LEMMA DestroyStore ==
    ASSUME IInv, Destroy
    PROVE  UNCHANGED Store!storeVars
<1>1. /\ Unpinned /\ disk' = Written(DirtyFrames) /\ strayed' = strayed
      /\ bufDescTable' = [fr \in Frames |-> Cleared]
      /\ pins' = [f \in Files |-> [p \in Pages |-> 0]]
  BY DEF Destroy, Demolished
<1>2. ASSUME NEW f \in Files, NEW p \in Pages, p \notin strayed[f]
      PROVE  Content(f, p)' = Content(f, p) /\ pins'[f][p] = pins[f][p]
  <2>1. Holding(f, p)' = {}
    BY <1>1, ClearedType DEF Holding
  <2>2. Content(f, p)' = disk'[f][p]
    BY <2>1 DEF Content
  <2>3. disk'[f][p] = Content(f, p)
    BY <1>1, <1>2, WrittenContent, HeldContent
  <2>4. pins'[f][p] = 0 /\ pins[f][p] = 0
    BY <1>1, <1>2 DEF Unpinned
  <2>. QED
    BY <2>2, <2>3, <2>4
<1>. QED
  BY <1>1, <1>2, Unmoved

LEMMA DestroyFailsStore ==
    ASSUME IInv, DestroyFails
    PROVE  UNCHANGED Store!storeVars
<1>1. /\ Unpinned
      /\ UNCHANGED <<bufDescTable, bufPool, pins, strayed>>
  BY DEF DestroyFails, poolVars, clientVars
<1>2. PICK S \in SUBSET DirtyFrames : disk' = Written(S)
  <2>1. PICK fr \in DirtyFrames :
           disk' = Written({before \in DirtyFrames : before < fr})
    BY DEF DestroyFails
  <2>. QED
    BY <2>1
<1>3. ASSUME NEW f \in Files, NEW p \in Pages, p \notin strayed[f]
      PROVE  Content(f, p)' = Content(f, p)
  BY <1>1, <1>2, <1>3, WrittenContent, SameContent
<1>. QED
  BY <1>1, <1>3, Unmoved

LEMMA StoreStep ==
    ASSUME IInv, [Next]_vars
    PROVE  Store!Next \/ UNCHANGED Store!storeVars
<1>1. CASE ReadFillFails \/ Construct
  BY <1>1, Invisible DEF ReadFillFails, Construct, poolVars, clientVars
<1>2. CASE FillStep
  BY <1>1, <1>2, ReadFillStore, AllocFillStore DEF FillStep
<1>3. ASSUME NEW f \in Files, AllocPage(f) \/ FlushFile(f)
      PROVE  UNCHANGED Store!storeVars
  BY <1>3, Invisible DEF AllocPage, FlushFile, poolVars, clientVars
<1>4. ASSUME NEW f \in Files, NEW p \in Pages, CallStep(f, p)
      PROVE  Store!Next \/ UNCHANGED Store!storeVars
  <2>1. CASE ReadMiss(f, p) \/ DisposeRefused(f, p)
    BY <2>1, Invisible DEF ReadMiss, DisposeRefused, poolVars, clientVars
  <2>2. CASE ReadHit(f, p) \/ \E dirty \in BOOLEAN : UnPinPage(f, p, dirty)
    BY <2>2, PinStore
  <2>3. CASE \E dirty \in BOOLEAN : UnPinRefused(f, p, dirty)
    BY <2>3, UnPinRefusedStore
  <2>4. CASE DisposePage(f, p) \/ DeleteElsewhere(f, p)
    BY <2>4, DisposePageStore, DeleteElsewhereStore
  <2>5. CASE \E d \in Data : Modify(f, p, d)
    BY <2>5, ModifyStore
  <2>. QED
    BY <1>4, <2>1, <2>2, <2>3, <2>4, <2>5 DEF CallStep
<1>5. CASE Terminated \/ UNCHANGED vars
  BY <1>5, Invisible DEF Terminated, vars
<1>. QED
  BY <1>1, <1>2, <1>3, <1>4, <1>5, AllocBufStore, FlushStore, DestroyStore,
     DestroyFailsStore DEF Next

(* The manager implements PagedStore: misses, evictions, flushes, failing  *)
(* calls and its own destruction are invisible to clients, and no update   *)
(* of a page that did not stray is lost.                                   *)
THEOREM ImplementsPagedStore == Spec => StoreSpec
<1>1. Init => Store!Init
  BY StoreInit
<1>2. IInv /\ [Next]_vars => [Store!Next]_(Store!storeVars)
  BY StoreStep
<1>. QED
  BY <1>1, <1>2, Inductive, PTL DEF Spec, StoreSpec, Store!Spec
=============================================================================
