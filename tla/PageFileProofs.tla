---------------------------- MODULE PageFileProofs ----------------------------
(***************************************************************************)
(* Proofs about PageFile for a file of any size and any contents: the free *)
(* list is exact whatever happens, the used list is exact and every walk   *)
(* over it ends until a page was reused while none was in use, and the     *)
(* file implements PagedFile throughout.                                   *)
(*                                                                         *)
(* Visited is a recursive function, so the proofs need induction.  The     *)
(* library's induction theorems take an operator as a parameter; Least and *)
(* Upwards below say the same of sets of numbers.                          *)
(***************************************************************************)
EXTENDS PageFile, FiniteSetTheorems, TLAPS

USE MaxPageAssumption, DataAssumption, NoCopyAssumption DEF INVALID_NUMBER

-----------------------------------------------------------------------------
(* Induction over the natural numbers.                                     *)

(* A set of numbers that is not empty has a least element: the intervals   *)
(* from 0 to its elements are finite sets, ordered by inclusion.           *)
LEMMA Least ==
    ASSUME NEW T, T \subseteq Nat, T # {}
    PROVE  \E x \in T : \A y \in T : x <= y
<1> DEFINE F == {0 .. x : x \in T}
<1>1. F \subseteq FiniteSubsetsOf(Nat) /\ F # {}
  <2>1. \A x \in T : IsFiniteSet(0 .. x) /\ 0 .. x \in SUBSET Nat
    BY FS_Interval
  <2>. QED
    BY <2>1 DEF FiniteSubsetsOf
<1>2. \E I \in F : \A J \in F : ~ (<<J, I>> \in StrictSubsetOrdering(Nat))
  <2>. HIDE DEF F
  <2>. QED
    BY <1>1, FS_StrictSubsetOrderingWellFounded, WFMin
<1>3. PICK x \in T : \A y \in T : ~ (<<0 .. y, 0 .. x>> \in StrictSubsetOrdering(Nat))
  BY <1>2
<1>4. ASSUME NEW y \in T PROVE x <= y
  <2>. SUFFICES ASSUME y < x PROVE FALSE
    OBVIOUS
  <2>1. 0 .. y \in SUBSET Nat /\ 0 .. x \in SUBSET Nat
    OBVIOUS
  <2>2. 0 .. y \subseteq 0 .. x /\ 0 .. y # 0 .. x
    <3>1. x \in 0 .. x /\ x \notin 0 .. y
      OBVIOUS
    <3>. QED
      BY <3>1
  <2>. QED
    BY <1>3, <2>1, <2>2 DEF StrictSubsetOrdering
<1>. QED
  BY <1>4

LEMMA MinIs ==
    ASSUME NEW T, T \subseteq Nat, T # {}
    PROVE  Min(T) \in T /\ \A y \in T : Min(T) <= y
  BY Least DEF Min

(* A set of numbers with 0 and, up to k, the successor of each has them    *)
(* all up to k.                                                            *)
LEMMA Upwards ==
    ASSUME NEW S, NEW k \in Nat, 0 \in S,
           \A i \in 0 .. k - 1 : i \in S => i + 1 \in S
    PROVE  \A i \in 0 .. k : i \in S
<1> DEFINE T == (0 .. k) \ S
<1>1. SUFFICES ASSUME T # {} PROVE FALSE
  OBVIOUS
<1>2. PICK m \in T : \A y \in T : m <= y
  <2>1. T \subseteq Nat
    OBVIOUS
  <2>. HIDE DEF T
  <2>. QED
    BY <1>1, <2>1, Least
<1>3. m # 0 /\ m - 1 \in 0 .. k - 1 /\ m - 1 \notin T
  BY <1>2
<1>. QED
  BY <1>2, <1>3

-----------------------------------------------------------------------------
(* Walks.                                                                  *)

(* The next page number after n.                                           *)
Following(n) == IF n = INVALID_NUMBER THEN INVALID_NUMBER ELSE page[n].next

(* at is what Visited makes of the first i steps.                          *)
Steps(at, start, i) ==
    /\ DOMAIN at = 0 .. MaxPage
    /\ at[0] = start
    /\ \A j \in 1 .. i : at[j] = Following(at[j - 1])

LEMMA StepsExist ==
    ASSUME NEW start
    PROVE  \E at : Steps(at, start, MaxPage)
<1> DEFINE S == {i \in Nat : \E at : Steps(at, start, i)}
<1>1. 0 \in S
  <2>1. Steps([j \in 0 .. MaxPage |-> start], start, 0)
    BY DEF Steps
  <2>. QED
    BY <2>1
<1>2. ASSUME NEW i \in 0 .. MaxPage - 1, i \in S
      PROVE  i + 1 \in S
  <2>1. PICK at : Steps(at, start, i)
    BY <1>2
  <2> DEFINE at1 == [j \in 0 .. MaxPage |-> IF j = i + 1 THEN Following(at[i]) ELSE at[j]]
  <2>2. Steps(at1, start, i + 1)
    BY <2>1 DEF Steps
  <2>. HIDE DEF at1
  <2>. QED
    BY <2>2
<1>3. MaxPage \in S
  <2>. HIDE DEF S
  <2>. QED
    BY <1>1, <1>2, Upwards
<1>. QED
  BY <1>3

LEMMA VisitedIs ==
    ASSUME NEW start
    PROVE  /\ Visited(start)[0] = start
           /\ \A i \in 0 .. MaxPage - 1 :
                Visited(start)[i + 1] = Following(Visited(start)[i])
<1> DEFINE Body(at) ==
             [i \in 0 .. MaxPage |->
                IF i = 0 THEN start
                ELSE IF at[i - 1] = INVALID_NUMBER THEN INVALID_NUMBER
                ELSE page[at[i - 1]].next]
<1>1. PICK at : Steps(at, start, MaxPage)
  BY StepsExist
<1> DEFINE at0 == [i \in 0 .. MaxPage |-> at[i]]
<1>2. at0 = Body(at0)
  BY <1>1 DEF Steps, Following
<1>3. Visited(start) = Body(Visited(start))
  <2>. HIDE DEF at0
  <2>1. \E f : f = Body(f)
    BY <1>2
  <2>. QED
    BY <2>1 DEF Visited
<1> DEFINE v == Visited(start)
<1>4. v = Body(v)
  BY <1>3
<1>. HIDE DEF v
<1>5. v[0] = start
  BY <1>4
<1>6. ASSUME NEW i \in 0 .. MaxPage - 1 PROVE v[i + 1] = Following(v[i])
  <2>1. i + 1 \in 0 .. MaxPage /\ i + 1 # 0 /\ (i + 1) - 1 = i
    OBVIOUS
  <2>. QED
    BY <1>4, <2>1 DEF Following
<1>. QED
  BY <1>5, <1>6 DEF v

Nexts == \A n \in Pages : page[n].next \in PageNos

LEMMA VisitedType ==
    ASSUME Nexts, NEW start \in PageNos
    PROVE  \A i \in 0 .. MaxPage : Visited(start)[i] \in PageNos
<1> DEFINE v == Visited(start)
           S == {i \in Nat : v[i] \in PageNos}
<1>1. 0 \in S
  BY VisitedIs
<1>2. ASSUME NEW i \in 0 .. MaxPage - 1, i \in S PROVE i + 1 \in S
  <2>1. v[i + 1] = Following(v[i]) /\ v[i] \in PageNos
    BY <1>2, VisitedIs
  <2>. HIDE DEF v
  <2>2. v[i + 1] \in PageNos
    BY <2>1 DEF Following, Nexts, PageNos
  <2>. QED
    BY <2>2
<1>3. \A i \in 0 .. MaxPage : i \in S
  <2>. HIDE DEF S
  <2>. QED
    BY <1>1, <1>2, Upwards
<1>. QED
  BY <1>3

(* Where a walk stops.                                                     *)
LEMMA StopIs ==
    ASSUME NEW wanted, ~WalkHangs(wanted)
    PROVE  \E i \in 0 .. MaxPage :
             LET v == Visited(header.first_used_page) IN
             /\ WalkStop(wanted) = v[i] /\ StopsAt(v[i], wanted)
             /\ \A j \in 0 .. i - 1 : ~StopsAt(v[j], wanted)
<1> DEFINE v == Visited(header.first_used_page)
           T == {i \in 0 .. MaxPage : StopsAt(v[i], wanted)}
<1>1. T # {} /\ T \subseteq Nat
  BY DEF WalkHangs
<1>2. WalkStop(wanted) = v[Min(T)]
  BY DEF WalkStop
<1>3. Min(T) \in T /\ \A y \in T : Min(T) <= y
  <2>. HIDE DEF T
  <2>. QED
    BY <1>1, MinIs
<1> DEFINE i == Min(T)
<1>. HIDE DEF i, v
<1>4. i \in 0 .. MaxPage /\ StopsAt(v[i], wanted) /\ \A y \in T : i <= y
  BY <1>3 DEF i
<1>5. \A j \in 0 .. i - 1 : ~StopsAt(v[j], wanted)
  BY <1>4
<1>. QED
  BY <1>2, <1>4, <1>5 DEF i, v

-----------------------------------------------------------------------------
(* The free list: each page of D has a rank, its distance from the end.    *)
Ranked(f, pg, first, D) ==
    /\ f \in [Pages -> Nat]
    /\ \A n \in D : f[n] \in 1 .. Cardinality(D)
    /\ \A m, n \in D : f[m] = f[n] => m = n
    /\ IF D = {} THEN first = INVALID_NUMBER
       ELSE first \in D /\ f[first] = Cardinality(D)
    /\ \A n \in D : IF f[n] = 1 THEN pg[n].next = INVALID_NUMBER
                    ELSE pg[n].next \in D /\ f[pg[n].next] = f[n] - 1

LEMMA PagesFinite ==
    ASSUME NEW D, D \subseteq Pages
    PROVE  IsFiniteSet(D) /\ Cardinality(D) \in 0 .. MaxPage /\ (D = {} <=> Cardinality(D) = 0)
<1>1. IsFiniteSet(Pages) /\ Cardinality(Pages) = MaxPage
  BY FS_Interval DEF Pages
<1>. QED
  BY <1>1, FS_Subset, FS_CardinalityType, FS_EmptySet

LEMMA RankedChain ==
    ASSUME NEW D, D \subseteq Pages, NEW first, NEW f, Ranked(f, page, first, D)
    PROVE  IsChain(first, D)
<1> DEFINE v == Visited(first)
           k == Cardinality(D)
           S == {i \in Nat : IF i < k THEN v[i] \in D /\ f[v[i]] = k - i
                                      ELSE v[i] = INVALID_NUMBER}
<1>1. k \in 0 .. MaxPage /\ (D = {} <=> k = 0)
  BY PagesFinite
<1>2. v[0] = first /\ \A i \in 0 .. MaxPage - 1 : v[i + 1] = Following(v[i])
  BY VisitedIs
<1>. HIDE DEF v, k
<1>3. 0 \in S
  BY <1>1, <1>2 DEF Ranked, k
<1>4. ASSUME NEW i \in 0 .. k - 1, i \in S PROVE i + 1 \in S
  <2>1. v[i] \in D /\ f[v[i]] = k - i /\ v[i + 1] = Following(v[i])
    BY <1>1, <1>2, <1>4
  <2>2. v[i + 1] = page[v[i]].next
    BY <2>1 DEF Following, Pages
  <2>3. CASE i + 1 = k
    <3>1. f[v[i]] = 1
      BY <2>1, <2>3
    <3>2. v[i + 1] = INVALID_NUMBER
      BY <2>1, <2>2, <3>1 DEF Ranked
    <3>. QED
      BY <2>3, <3>2
  <2>4. CASE i + 1 # k
    <3>1. f[v[i]] # 1 /\ i + 1 < k
      BY <1>1, <2>1, <2>4
    <3>2. v[i + 1] \in D /\ f[v[i + 1]] = f[v[i]] - 1
      BY <2>1, <2>2, <3>1 DEF Ranked
    <3>3. f[v[i + 1]] = k - (i + 1)
      BY <1>1, <2>1, <3>2
    <3>. QED
      BY <3>1, <3>2, <3>3
  <2>. QED
    BY <2>3, <2>4
<1>5. \A i \in 0 .. k : i \in S
  <2>. HIDE DEF S
  <2>. QED
    BY <1>1, <1>3, <1>4, Upwards
<1>6. \A i \in 0 .. k - 1 : v[i] \in D /\ f[v[i]] = k - i
  BY <1>1, <1>5
<1>7. v[k] = INVALID_NUMBER
  BY <1>1, <1>5
<1>8. ASSUME NEW n \in D PROVE \E i \in 0 .. k - 1 : v[i] = n
  <2>1. f[n] \in 1 .. k
    BY DEF Ranked, k
  <2>2. k - f[n] \in 0 .. k - 1 /\ k - (k - f[n]) = f[n]
    BY <1>1, <2>1
  <2>3. v[k - f[n]] \in D /\ f[v[k - f[n]]] = f[n]
    BY <1>6, <2>2
  <2>4. v[k - f[n]] = n
    BY <2>3 DEF Ranked
  <2>. QED
    BY <2>2, <2>4
<1>9. {v[i] : i \in 0 .. k - 1} = D
  BY <1>6, <1>8
<1>. QED
  BY <1>7, <1>9 DEF IsChain, v, k

(* The head of the list leaves it.                                         *)
LEMMA RankedWithout ==
    ASSUME NEW D, D \subseteq Pages, D # {}, NEW first, NEW f, NEW pg, NEW new,
           Ranked(f, pg, first, D),
           \A n \in D \ {first} : new[n].next = pg[n].next
    PROVE  /\ Ranked(f, new, pg[first].next, D \ {first})
           /\ first \in D /\ Cardinality(D \ {first}) = Cardinality(D) - 1
<1> DEFINE k == Cardinality(D)
           E == D \ {first}
<1>1. /\ k \in Nat \ {0} /\ first \in D /\ f[first] = k
      /\ Cardinality(E) = k - 1 /\ (E = {} <=> k = 1)
  <2>1. first \in D /\ f[first] = k
    BY DEF Ranked
  <2>2. Cardinality(E) = k - 1
    BY <2>1, PagesFinite, FS_RemoveElement
  <2>3. k \in Nat \ {0} /\ (E = {} <=> Cardinality(E) = 0)
    <3>1. E \subseteq Pages
      OBVIOUS
    <3>. HIDE DEF E
    <3>. QED
      BY <3>1, PagesFinite
  <2>. HIDE DEF E, k
  <2>. QED
    BY <2>1, <2>2, <2>3
<1>2. \A n \in E : f[n] \in 1 .. k - 1
  BY <1>1 DEF Ranked
<1>3. IF E = {} THEN pg[first].next = INVALID_NUMBER
      ELSE pg[first].next \in E /\ f[pg[first].next] = k - 1
  <2>1. CASE k = 1
    BY <1>1, <2>1 DEF Ranked
  <2>2. CASE k # 1
    <3>1. pg[first].next \in D /\ f[pg[first].next] = k - 1
      BY <1>1, <2>2 DEF Ranked
    <3>2. pg[first].next # first
      BY <1>1, <3>1
    <3>. QED
      BY <1>1, <2>2, <3>1, <3>2
  <2>. QED
    BY <2>1, <2>2
<1>4. \A n \in E : IF f[n] = 1 THEN new[n].next = INVALID_NUMBER
                   ELSE new[n].next \in E /\ f[new[n].next] = f[n] - 1
  <2>. SUFFICES ASSUME NEW n \in E
                PROVE  IF f[n] = 1 THEN new[n].next = INVALID_NUMBER
                       ELSE new[n].next \in E /\ f[new[n].next] = f[n] - 1
    OBVIOUS
  <2>1. new[n].next = pg[n].next /\ n \in D
    OBVIOUS
  <2>2. CASE f[n] = 1
    BY <2>1, <2>2 DEF Ranked
  <2>3. CASE f[n] # 1
    <3>1. pg[n].next \in D /\ f[pg[n].next] = f[n] - 1
      BY <2>1, <2>3 DEF Ranked
    <3>2. pg[n].next # first
      BY <1>1, <1>2, <3>1
    <3>. QED
      BY <2>1, <2>3, <3>1, <3>2
  <2>. QED
    BY <2>2, <2>3
<1>5. f \in [Pages -> Nat] /\ \A m, n \in E : f[m] = f[n] => m = n
  BY DEF Ranked
<1>. HIDE DEF E, k
<1>6. Ranked(f, new, pg[first].next, E)
  BY <1>1, <1>2, <1>3, <1>4, <1>5 DEF Ranked
<1>. QED
  BY <1>1, <1>6 DEF E, k

(* A page becomes the head of the list.                                    *)
LEMMA RankedWith ==
    ASSUME NEW D, D \subseteq Pages, NEW first, NEW f, NEW pg, NEW new,
           Ranked(f, pg, first, D), NEW p \in Pages \ D,
           new[p].next = first, \A n \in D : new[n].next = pg[n].next
    PROVE  /\ \E g : Ranked(g, new, p, D \cup {p})
           /\ Cardinality(D \cup {p}) = Cardinality(D) + 1
<1> DEFINE k == Cardinality(D)
           E == D \cup {p}
           g == [f EXCEPT ![p] = k + 1]
<1>1. k \in Nat /\ (D = {} <=> k = 0) /\ Cardinality(E) = k + 1
  BY PagesFinite, FS_AddElement
<1>. HIDE DEF k
<1>2. g \in [Pages -> Nat] /\ g[p] = k + 1 /\ \A n \in D : g[n] = f[n] /\ n # p
  BY <1>1 DEF Ranked
<1>. HIDE DEF g
<1>3. \A n \in D : f[n] \in 1 .. k
  BY DEF Ranked, k
<1>4. \A n \in E : g[n] \in 1 .. k + 1
  BY <1>1, <1>2, <1>3
<1>5. \A m, n \in E : g[m] = g[n] => m = n
  BY <1>1, <1>2, <1>3 DEF Ranked
<1>6. \A n \in E : IF g[n] = 1 THEN new[n].next = INVALID_NUMBER
                   ELSE new[n].next \in E /\ g[new[n].next] = g[n] - 1
  <2>1. ASSUME NEW n \in D
        PROVE  IF g[n] = 1 THEN new[n].next = INVALID_NUMBER
               ELSE new[n].next \in E /\ g[new[n].next] = g[n] - 1
    BY <1>2 DEF Ranked
  <2>2. IF g[p] = 1 THEN new[p].next = INVALID_NUMBER
        ELSE new[p].next \in E /\ g[new[p].next] = g[p] - 1
    BY <1>1, <1>2 DEF Ranked, k
  <2>. QED
    BY <2>1, <2>2
<1>7. Ranked(g, new, p, E)
  <2>1. E # {} /\ p \in E
    OBVIOUS
  <2>. HIDE DEF E
  <2>. QED
    BY <1>1, <1>2, <1>4, <1>5, <1>6, <2>1 DEF Ranked
<1>. QED
  BY <1>1, <1>7 DEF E, k

-----------------------------------------------------------------------------
(* The used list, in ascending order: each page of U points to the next    *)
(* greater one.                                                            *)
Sorted(pg, first, U) ==
    /\ IF first = INVALID_NUMBER THEN U = {}
       ELSE first \in U /\ \A n \in U : first <= n
    /\ \A n \in U :
         IF pg[n].next = INVALID_NUMBER THEN \A m \in U : m <= n
         ELSE /\ pg[n].next \in U /\ n < pg[n].next
              /\ \A m \in U : m <= n \/ pg[n].next <= m

LEMMA SortedWalk ==
    ASSUME NEW U, U \subseteq Pages, NEW first, Sorted(page, first, U)
    PROVE  /\ \A i \in 0 .. MaxPage : Visited(first)[i] \in U \cup {INVALID_NUMBER}
           /\ Visited(first)[MaxPage] = INVALID_NUMBER
<1> DEFINE v == Visited(first)
           S == {i \in Nat : \/ v[i] = INVALID_NUMBER
                             \/ v[i] \in U /\ v[i] >= i + 1}
<1>1. v[0] = first /\ \A i \in 0 .. MaxPage - 1 : v[i + 1] = Following(v[i])
  BY VisitedIs
<1>. HIDE DEF v
<1>2. \A u \in U : u \in Nat /\ 1 <= u /\ u <= MaxPage
  BY DEF Pages
<1>3. 0 \in S
  BY <1>1, <1>2 DEF Sorted
<1>4. ASSUME NEW i \in 0 .. MaxPage - 1, i \in S PROVE i + 1 \in S
  <2>1. CASE v[i] = INVALID_NUMBER
    BY <1>1, <2>1 DEF Following
  <2>2. CASE v[i] \in U /\ v[i] >= i + 1
    <3>1. v[i + 1] = page[v[i]].next
      BY <1>1, <1>2, <2>2 DEF Following
    <3>2. \/ page[v[i]].next = INVALID_NUMBER
          \/ page[v[i]].next \in U /\ v[i] < page[v[i]].next
      BY <2>2 DEF Sorted
    <3>. QED
      BY <1>2, <2>2, <3>1, <3>2
  <2>. QED
    BY <1>4, <2>1, <2>2
<1>5. \A i \in 0 .. MaxPage : i \in S
  <2>. HIDE DEF S
  <2>. QED
    BY <1>3, <1>4, Upwards
<1>6. \A i \in 0 .. MaxPage : v[i] \in U \cup {INVALID_NUMBER}
  BY <1>5
<1>7. v[MaxPage] = INVALID_NUMBER
  BY <1>2, <1>5
<1>. QED
  BY <1>6, <1>7 DEF v

LEMMA SortedChain ==
    ASSUME NEW U, U \subseteq Pages, NEW first, Sorted(page, first, U)
    PROVE  IsChain(first, U)
<1> DEFINE v == Visited(first)
<1>1. /\ v[0] = first /\ \A i \in 0 .. MaxPage - 1 : v[i + 1] = Following(v[i])
      /\ \A i \in 0 .. MaxPage : v[i] \in U \cup {INVALID_NUMBER}
      /\ v[MaxPage] = INVALID_NUMBER
  BY VisitedIs, SortedWalk
<1>. HIDE DEF v
<1>2. PICK z \in 0 .. MaxPage : v[z] = INVALID_NUMBER
                            /\ \A i \in 0 .. z - 1 : v[i] # INVALID_NUMBER
  <2> DEFINE T == {i \in 0 .. MaxPage : v[i] = INVALID_NUMBER}
  <2>1. T \subseteq Nat /\ T # {}
    BY <1>1
  <2>2. PICK z \in T : \A y \in T : z <= y
    <3>. HIDE DEF T
    <3>. QED
      BY <2>1, Least
  <2>3. \A i \in 0 .. z - 1 : v[i] # INVALID_NUMBER
    BY <2>2
  <2>. QED
    BY <2>2, <2>3
<1>3. \A i \in 0 .. z - 1 : v[i] \in U
  BY <1>1, <1>2
<1>4. \A i \in 0 .. z - 2 :
        /\ v[i + 1] = page[v[i]].next /\ page[v[i]].next # INVALID_NUMBER
        /\ v[i] < v[i + 1] /\ \A m \in U : m <= v[i] \/ v[i + 1] <= m
  <2>. SUFFICES ASSUME NEW i \in 0 .. z - 2
                PROVE  /\ v[i + 1] = page[v[i]].next /\ page[v[i]].next # INVALID_NUMBER
                       /\ v[i] < v[i + 1]
                       /\ \A m \in U : m <= v[i] \/ v[i + 1] <= m
    OBVIOUS
  <2>1. v[i] \in U /\ v[i] # INVALID_NUMBER /\ v[i + 1] # INVALID_NUMBER
    BY <1>2, <1>3
  <2>2. v[i + 1] = page[v[i]].next
    BY <1>1, <2>1 DEF Following
  <2>. QED
    BY <2>1, <2>2 DEF Sorted
<1>5. \A u \in U : u \in Nat /\ 1 <= u /\ u <= MaxPage
  BY DEF Pages
<1>6. \A i, j \in 0 .. z - 1 : i < j => v[i] < v[j]
  <2> DEFINE S == {j \in Nat : \A i \in 0 .. z - 1 : i < j => v[i] < v[j]}
  <2>1. CASE z = 0
    BY <2>1
  <2>2. CASE z # 0
    <3>1. 0 \in S
      OBVIOUS
    <3>2. ASSUME NEW j \in 0 .. (z - 1) - 1, j \in S PROVE j + 1 \in S
      <4>1. v[j] < v[j + 1]
        BY <1>4
      <4>2. \A i \in 0 .. z - 1 : v[i] \in Int
        BY <1>3, <1>5
      <4>3. ASSUME NEW i \in 0 .. z - 1, i < j + 1 PROVE v[i] < v[j + 1]
        BY <3>2, <4>1, <4>2, <4>3
      <4>. QED
        BY <4>3
    <3>3. \A j \in 0 .. z - 1 : j \in S
      <4>. HIDE DEF S
      <4>. QED
        BY <2>2, <3>1, <3>2, Upwards
    <3>. QED
      BY <3>3
  <2>. QED
    BY <2>1, <2>2
<1>7. ASSUME NEW n \in U PROVE \E i \in 0 .. z - 1 : v[i] = n
  <2>. SUFFICES ASSUME \A i \in 0 .. z - 1 : v[i] # n PROVE FALSE
    OBVIOUS
  <2> DEFINE S == {i \in Nat : v[i] < n}
  <2>1. first # INVALID_NUMBER /\ z # 0
    BY <1>1, <1>2 DEF Sorted
  <2>2. 0 \in S
    <3>1. first <= n /\ first \in U
      BY <2>1 DEF Sorted
    <3>. QED
      BY <1>1, <1>5, <2>1, <3>1
  <2>3. ASSUME NEW i \in 0 .. (z - 1) - 1, i \in S PROVE i + 1 \in S
    <3>1. i \in 0 .. z - 2 /\ i + 1 \in 0 .. z - 1
      BY <2>1
    <3>2. v[i + 1] <= n /\ v[i + 1] # n /\ v[i + 1] \in U /\ v[i] \in U
      BY <1>3, <1>4, <1>5, <2>3, <3>1
    <3>. QED
      BY <1>5, <3>2
  <2>4. z - 1 \in S
    <3>. HIDE DEF S
    <3>. QED
      BY <2>1, <2>2, <2>3, Upwards
  <2>5. v[z - 1] \in U /\ page[v[z - 1]].next = INVALID_NUMBER
    <3>1. v[(z - 1) + 1] = Following(v[z - 1]) /\ v[z - 1] \in U
      BY <1>1, <1>3, <2>1
    <3>. QED
      BY <1>2, <1>5, <2>1, <3>1 DEF Following
  <2>6. n <= v[z - 1]
    BY <2>5 DEF Sorted
  <2>. QED
    BY <1>5, <2>4, <2>5, <2>6
<1> DEFINE w == [i \in 0 .. z - 1 |-> v[i]]
<1>8. w \in Bijection(0 .. z - 1, U)
  <2>1. w \in [0 .. z - 1 -> U] /\ \A i \in 0 .. z - 1 : w[i] = v[i]
    BY <1>3
  <2>. HIDE DEF w
  <2>2. \A i, j \in 0 .. z - 1 : w[i] = w[j] => i = j
    BY <1>3, <1>5, <1>6, <2>1
  <2>3. \A n \in U : \E i \in 0 .. z - 1 : w[i] = n
    BY <1>7, <2>1
  <2>. QED
    BY <2>1, <2>2, <2>3 DEF Bijection, Injection, Surjection, IsInjective
<1>9. Cardinality(U) = z
  <2>1. IsFiniteSet(0 .. z - 1) /\ Cardinality(0 .. z - 1) = z
    BY FS_Interval
  <2>. HIDE DEF w
  <2>. QED
    BY <1>8, <2>1, FS_Bijection DEF ExistsBijection
<1>10. {v[i] : i \in 0 .. z - 1} = U
  BY <1>3, <1>7
<1>. QED
  BY <1>2, <1>9, <1>10 DEF IsChain, v

(* How the list changes.                                                   *)

LEMMA SortedHead ==
    ASSUME NEW U, U \subseteq Pages, NEW first, NEW pg, NEW new, Sorted(pg, first, U),
           NEW p \in Pages \ U, first = INVALID_NUMBER \/ p < first,
           new[p].next = first, \A n \in U : new[n].next = pg[n].next
    PROVE  Sorted(new, p, U \cup {p})
<1>1. \A u \in U \cup {p} : u \in Nat /\ 1 <= u
  BY DEF Pages
<1>2. \A n \in U : first <= n /\ p < n
  BY <1>1 DEF Sorted
<1>3. \A n \in U :
         IF pg[n].next = INVALID_NUMBER THEN \A m \in U : m <= n
         ELSE /\ pg[n].next \in U /\ n < pg[n].next
              /\ \A m \in U : m <= n \/ pg[n].next <= m
  BY DEF Sorted
<1>4. first = INVALID_NUMBER => U = {}
  BY DEF Sorted
<1>5. first # INVALID_NUMBER => first \in U
  BY DEF Sorted
<1>. QED
  BY <1>1, <1>2, <1>3, <1>4, <1>5 DEF Sorted

LEMMA SortedInsert ==
    ASSUME NEW U, U \subseteq Pages, NEW first, NEW pg, NEW new, Sorted(pg, first, U),
           NEW p \in Pages \ U, NEW prev \in U, prev < p,
           pg[prev].next = INVALID_NUMBER \/ p < pg[prev].next,
           new[prev].next = p, new[p].next = pg[prev].next,
           \A n \in U \ {prev} : new[n].next = pg[n].next
    PROVE  Sorted(new, first, U \cup {p})
<1>1. \A u \in U \cup {p} : u \in Nat /\ 1 <= u
  BY DEF Pages
<1>2. first # INVALID_NUMBER /\ first \in U /\ \A n \in U \cup {p} : first <= n
  BY <1>1 DEF Sorted
<1>3. \A n \in U :
         IF pg[n].next = INVALID_NUMBER THEN \A m \in U : m <= n
         ELSE /\ pg[n].next \in U /\ n < pg[n].next
              /\ \A m \in U : m <= n \/ pg[n].next <= m
  BY DEF Sorted
<1>4. \A m \in U : m <= prev \/ p < m
  BY <1>1, <1>3
<1>5. ASSUME NEW n \in U \cup {p}
      PROVE  IF new[n].next = INVALID_NUMBER THEN \A m \in U \cup {p} : m <= n
             ELSE /\ new[n].next \in U \cup {p} /\ n < new[n].next
                  /\ \A m \in U \cup {p} : m <= n \/ new[n].next <= m
  <2>1. CASE n = p
    BY <1>1, <1>3, <1>4, <2>1
  <2>2. CASE n = prev
    BY <1>1, <1>4, <2>2
  <2>3. CASE n \in U \ {prev}
    <3>1. n < prev \/ p < n
      BY <1>1, <1>4, <2>3
    <3>2. new[n].next = pg[n].next
      BY <2>3
    <3>. QED
      BY <1>1, <1>3, <2>3, <3>1, <3>2
  <2>. QED
    BY <2>1, <2>2, <2>3
<1>. QED
  BY <1>2, <1>5 DEF Sorted

LEMMA SortedBeheaded ==
    ASSUME NEW U, U \subseteq Pages, NEW first \in U, NEW pg, NEW new,
           Sorted(pg, first, U), \A n \in U \ {first} : new[n].next = pg[n].next
    PROVE  Sorted(new, pg[first].next, U \ {first})
<1>1. \A u \in U : u \in Nat /\ 1 <= u
  BY DEF Pages
<1>2. \A n \in U : first <= n
  BY <1>1 DEF Sorted
<1>3. \A n \in U :
         IF pg[n].next = INVALID_NUMBER THEN \A m \in U : m <= n
         ELSE /\ pg[n].next \in U /\ n < pg[n].next
              /\ \A m \in U : m <= n \/ pg[n].next <= m
  BY DEF Sorted
<1>4. IF pg[first].next = INVALID_NUMBER THEN U \ {first} = {}
      ELSE /\ pg[first].next \in U \ {first}
           /\ \A n \in U \ {first} : pg[first].next <= n
  BY <1>1, <1>2, <1>3
<1>5. ASSUME NEW n \in U \ {first}
      PROVE  IF new[n].next = INVALID_NUMBER THEN \A m \in U \ {first} : m <= n
             ELSE /\ new[n].next \in U \ {first} /\ n < new[n].next
                  /\ \A m \in U \ {first} : m <= n \/ new[n].next <= m
  BY <1>1, <1>2, <1>3
<1>. QED
  BY <1>4, <1>5 DEF Sorted

LEMMA SortedRelinked ==
    ASSUME NEW U, U \subseteq Pages, NEW first, NEW pg, NEW new, Sorted(pg, first, U),
           NEW n \in U, NEW prev \in U, pg[prev].next = n,
           new[prev].next = pg[n].next,
           \A m \in U \ {n, prev} : new[m].next = pg[m].next
    PROVE  Sorted(new, first, U \ {n})
<1>1. \A u \in U : u \in Nat /\ 1 <= u
  BY DEF Pages
<1>2. \A m \in U :
         IF pg[m].next = INVALID_NUMBER THEN \A l \in U : l <= m
         ELSE /\ pg[m].next \in U /\ m < pg[m].next
              /\ \A l \in U : l <= m \/ pg[m].next <= l
  BY DEF Sorted
<1>3. prev < n /\ \A l \in U : l <= prev \/ n <= l
  BY <1>1, <1>2
<1>4. first # INVALID_NUMBER /\ first \in U /\ (\A l \in U : first <= l) /\ first # n
  BY <1>1, <1>3 DEF Sorted
<1>5. ASSUME NEW m \in U \ {n}
      PROVE  IF new[m].next = INVALID_NUMBER THEN \A l \in U \ {n} : l <= m
             ELSE /\ new[m].next \in U \ {n} /\ m < new[m].next
                  /\ \A l \in U \ {n} : l <= m \/ new[m].next <= l
  <2>1. CASE m = prev
    BY <1>1, <1>2, <1>3, <2>1
  <2>2. CASE m # prev
    <3>1. new[m].next = pg[m].next /\ pg[m].next # n
      BY <1>1, <1>2, <1>3, <2>2
    <3>. QED
      BY <1>1, <1>2, <3>1
  <2>. QED
    BY <2>1, <2>2
<1>. QED
  BY <1>4, <1>5 DEF Sorted

-----------------------------------------------------------------------------
(* The inductive invariant: the types, the count and ranks of the free     *)
(* list, no page in use beyond the file, and the order of the used list    *)
(* with nobody caught in it.                                               *)
FreeInv ==
    /\ header.num_free_pages = Cardinality(DeletedPages)
    /\ \E f : Ranked(f, page, header.first_free_page, DeletedPages)

UsedBelow == \A n \in Pages : page[n].used => n < header.num_pages

UsedInv ==
    ~emptied => Sorted(page, header.first_used_page, UsedPages) /\ state = "ready"

IInv == TypeOK /\ FreeInv /\ UsedBelow /\ UsedInv

LEMMA Types ==
    ASSUME TypeOK
    PROVE  /\ Nexts
           /\ \A n \in Pages : page[n].used \in BOOLEAN /\ page[n].data \in Data
           /\ DeletedPages \subseteq Pages /\ UsedPages \subseteq Pages
           /\ header.num_pages \in 1 .. MaxPage + 1
           /\ header.num_free_pages \in 0 .. MaxPage
           /\ header.first_used_page \in PageNos
           /\ header.first_free_page \in PageNos
           /\ Pages = 1 .. MaxPage /\ PageNos = 0 .. MaxPage
  BY DEF TypeOK, Nexts, DeletedPages, UsedPages, Pages, PageNos

(* How walks end. *)
LEMMA WalksEnd ==
    ASSUME IInv, ~emptied, NEW wanted
    PROVE  WalkEnds(wanted)
<1> DEFINE v == Visited(header.first_used_page)
<1>1. /\ \A i \in 0 .. MaxPage : v[i] \in UsedPages \cup {INVALID_NUMBER}
      /\ v[MaxPage] = INVALID_NUMBER
  BY Types, SortedWalk DEF IInv, UsedInv
<1>2. ~WalkHangs(wanted)
  BY <1>1 DEF WalkHangs, StopsAt
<1>3. WalkStop(wanted) \in UsedPages \cup {INVALID_NUMBER}
  BY <1>1, <1>2, StopIs
<1>. QED
  BY <1>2, <1>3 DEF WalkEnds, WalkThrows, UsedPages

(* The page at which a walk ends, and the steps before.                    *)
LEMMA EndIs ==
    ASSUME TypeOK, NEW wanted, WalkEnds(wanted)
    PROVE  \E i, v :
             /\ i \in 0 .. MaxPage
             /\ v[0] = header.first_used_page /\ v[i] = WalkStop(wanted)
             /\ \A j \in 0 .. i : v[j] \in PageNos
             /\ \A j \in 0 .. i - 1 :
                  /\ v[j] \in Pages /\ page[v[j]].used /\ v[j] \notin wanted
                  /\ v[j + 1] = page[v[j]].next
             /\ \/ v[i] = INVALID_NUMBER
                \/ v[i] \in Pages /\ v[i] \in wanted /\ page[v[i]].used
<1> DEFINE v == Visited(header.first_used_page)
<1>1. PICK i \in 0 .. MaxPage :
        /\ WalkStop(wanted) = v[i] /\ StopsAt(v[i], wanted)
        /\ \A j \in 0 .. i - 1 : ~StopsAt(v[j], wanted)
  BY StopIs DEF WalkEnds
<1>2. \A j \in 0 .. MaxPage : v[j] \in PageNos
  BY Types, VisitedType
<1>3. /\ v[0] = header.first_used_page
      /\ \A j \in 0 .. MaxPage - 1 : v[j + 1] = Following(v[j])
  BY VisitedIs
<1>. HIDE DEF v
<1>4. ASSUME NEW j \in 0 .. i - 1
      PROVE  /\ v[j] \in Pages /\ page[v[j]].used /\ v[j] \notin wanted
             /\ v[j + 1] = page[v[j]].next
  <2>1. v[j] # INVALID_NUMBER /\ v[j] \in PageNos /\ v[j + 1] = Following(v[j])
    BY <1>1, <1>2, <1>3 DEF StopsAt
  <2>. QED
    BY <1>1, <2>1 DEF StopsAt, Following, PageNos
<1>5. \/ v[i] = INVALID_NUMBER
      \/ v[i] \in Pages /\ v[i] \in wanted /\ page[v[i]].used
  <2>1. v[i] = INVALID_NUMBER \/ page[v[i]].used
    BY <1>1 DEF WalkEnds, WalkThrows
  <2>2. v[i] \in PageNos
    BY <1>2
  <2>. QED
    BY <1>1, <2>1, <2>2 DEF StopsAt, PageNos
<1>. QED
  BY <1>1, <1>2, <1>3, <1>4, <1>5

(* A walk that wants, among others, every page without a successor.        *)
LEMMA EndBeforeEnd ==
    ASSUME TypeOK, NEW wanted, WalkEnds(wanted), LastUsed \subseteq wanted,
           header.first_used_page # INVALID_NUMBER
    PROVE  LET prev == WalkStop(wanted) IN
           prev \in Pages /\ prev \in wanted /\ page[prev].used
<1>1. PICK i, v :
             /\ i \in 0 .. MaxPage
             /\ v[0] = header.first_used_page /\ v[i] = WalkStop(wanted)
             /\ \A j \in 0 .. i : v[j] \in PageNos
             /\ \A j \in 0 .. i - 1 :
                  /\ v[j] \in Pages /\ page[v[j]].used /\ v[j] \notin wanted
                  /\ v[j + 1] = page[v[j]].next
             /\ \/ v[i] = INVALID_NUMBER
                \/ v[i] \in Pages /\ v[i] \in wanted /\ page[v[i]].used
  BY EndIs
<1>2. v[i] # INVALID_NUMBER
  <2>. SUFFICES ASSUME v[i] = INVALID_NUMBER PROVE FALSE
    OBVIOUS
  <2>1. i # 0 /\ i - 1 \in 0 .. i - 1 /\ (i - 1) + 1 = i
    BY <1>1
  <2>2. v[i - 1] \in Pages \ wanted /\ page[v[i - 1]].next = INVALID_NUMBER
    BY <1>1, <2>1
  <2>. QED
    BY <2>2 DEF LastUsed
<1>. QED
  BY <1>1, <1>2

LEMMA PrecedingStop ==
    ASSUME IInv, Reused \in Pages, ~page[Reused].used,
           header.first_used_page \in 1 .. Reused, WalkEnds(Preceding)
    PROVE  LET prev == WalkStop(Preceding) IN
           /\ prev \in Pages /\ page[prev].used
           /\ page[prev].next = INVALID_NUMBER \/ page[prev].next > Reused
           /\ ~emptied => prev < Reused
<1> DEFINE prev == WalkStop(Preceding)
<1>1. prev \in Pages /\ prev \in Preceding /\ page[prev].used
  BY EndBeforeEnd DEF IInv, LastUsed, Preceding
<1>2. ASSUME ~emptied PROVE prev < Reused
  <2>1. PICK i, v :
             /\ i \in 0 .. MaxPage
             /\ v[0] = header.first_used_page /\ v[i] = WalkStop(Preceding)
             /\ \A j \in 0 .. i - 1 :
                  /\ v[j] \in Pages /\ page[v[j]].used /\ v[j] \notin Preceding
                  /\ v[j + 1] = page[v[j]].next
    BY EndIs DEF IInv
  <2>2. prev # Reused
    BY <1>1
  <2>3. prev <= Reused
    <3>1. CASE i = 0
      BY <2>1, <3>1 DEF Pages
    <3>2. CASE i # 0
      <4>1. v[i - 1] \in Pages \ Preceding /\ v[i] = page[v[i - 1]].next
        BY <2>1, <3>2
      <4>2. ~(v[i] > Reused)
        BY <4>1 DEF Preceding
      <4>. QED
        BY <1>1, <2>1, <4>2 DEF Pages
    <3>. QED
      BY <3>1, <3>2
  <2>. QED
    BY <1>1, <2>2, <2>3 DEF Pages
<1>. QED
  BY <1>1, <1>2 DEF Preceding

(* In an ordered list, the walk to the page before n ends there.           *)
LEMMA PointToStop ==
    ASSUME IInv, ~emptied, NEW n \in UsedPages, n # header.first_used_page
    PROVE  LET prev == WalkStop(PointTo(n)) IN
           prev \in UsedPages /\ page[prev].next = n
<1> DEFINE first == header.first_used_page
<1>1. /\ Sorted(page, first, UsedPages) /\ UsedPages \subseteq Pages
      /\ \A u \in Pages : u \in Nat /\ 1 <= u
  BY Types DEF IInv, UsedInv
<1>2. PICK i, v :
             /\ i \in 0 .. MaxPage
             /\ v[0] = first /\ v[i] = WalkStop(PointTo(n))
             /\ \A j \in 0 .. i - 1 :
                  /\ v[j] \in Pages /\ page[v[j]].used /\ v[j] \notin PointTo(n)
                  /\ v[j + 1] = page[v[j]].next
             /\ \/ v[i] = INVALID_NUMBER
                \/ v[i] \in Pages /\ v[i] \in PointTo(n) /\ page[v[i]].used
  BY WalksEnd, EndIs DEF IInv
<1> DEFINE S == {j \in Nat : v[j] \in UsedPages /\ v[j] < n}
<1>3. 0 \in S
  BY <1>1, <1>2 DEF Sorted
<1>4. ASSUME NEW j \in 0 .. i - 1, j \in S PROVE j + 1 \in S
  <2>1. /\ v[j] \in UsedPages /\ v[j] < n /\ v[j + 1] = page[v[j]].next
        /\ page[v[j]].next # n
    BY <1>2, <1>4 DEF PointTo
  <2>2. page[v[j]].next \in UsedPages /\ page[v[j]].next <= n
    BY <1>1, <2>1 DEF Sorted
  <2>. QED
    BY <1>1, <2>1, <2>2
<1>5. v[i] \in UsedPages
  <2>1. i \in S
    <3>1. i \in Nat
      BY <1>2
    <3>. HIDE DEF S
    <3>. QED
      BY <1>3, <1>4, <3>1, Upwards
  <2>. QED
    BY <2>1
<1>. QED
  BY <1>1, <1>2, <1>5 DEF PointTo

-----------------------------------------------------------------------------
(* The invariant, action by action.  A page is taken from the free list,   *)
(* or put on it, and no other page changes its place between in use and    *)
(* deleted.                                                                *)

LEMMA FreeHead ==
    ASSUME IInv, header.num_free_pages > 0
    PROVE  /\ Reused \in DeletedPages /\ Reused \in Pages /\ ~page[Reused].used
           /\ Reused < header.num_pages /\ page[Reused].next \in PageNos
<1>1. DeletedPages # {}
  BY PagesFinite, Types DEF IInv, FreeInv
<1>2. Reused \in DeletedPages
  BY <1>1 DEF IInv, FreeInv, Ranked, Reused
<1>. QED
  BY <1>2, Types DEF DeletedPages, IInv, Nexts

LEMMA TakeFree ==
    ASSUME IInv, header.num_free_pages > 0,
           page'[Reused].used, header'.num_pages = header.num_pages,
           \A n \in Pages \ {Reused} : page'[n].used = page[n].used,
           \A n \in DeletedPages \ {Reused} : page'[n].next = page[n].next,
           header'.num_free_pages = header.num_free_pages - 1,
           header'.first_free_page = page[Reused].next
    PROVE  FreeInv' /\ UsedBelow' /\ UsedPages' = UsedPages \cup {Reused}
<1>1. /\ Reused \in DeletedPages /\ Reused \in Pages
      /\ DeletedPages \subseteq Pages /\ Reused < header.num_pages
  BY FreeHead, Types DEF IInv
<1>2. DeletedPages' = DeletedPages \ {Reused}
  BY <1>1 DEF DeletedPages
<1>3. PICK f : Ranked(f, page, Reused, DeletedPages)
  BY DEF IInv, FreeInv, Reused
<1>4. DeletedPages # {}
  BY <1>1
<1>. HIDE DEF Reused
<1>5. /\ Ranked(f, page', page[Reused].next, DeletedPages \ {Reused})
      /\ Cardinality(DeletedPages \ {Reused}) = Cardinality(DeletedPages) - 1
  BY <1>1, <1>3, <1>4, RankedWithout
<1>6. FreeInv'
  BY <1>2, <1>5 DEF IInv, FreeInv
<1>7. UsedBelow'
  BY <1>1 DEF UsedBelow, IInv
<1>8. UsedPages' = UsedPages \cup {Reused}
  BY <1>1 DEF UsedPages
<1>. QED
  BY <1>6, <1>7, <1>8

LEMMA PutFree ==
    ASSUME IInv, NEW p \in Pages, Exists(p), page'[p] = FreedPage,
           header'.num_pages = header.num_pages,
           \A n \in Pages \ {p} : page'[n].used = page[n].used,
           \A n \in DeletedPages : page'[n].next = page[n].next,
           header'.num_free_pages = header.num_free_pages + 1,
           header'.first_free_page = p
    PROVE  /\ FreeInv' /\ UsedBelow' /\ UsedPages' = UsedPages \ {p}
           /\ header.num_free_pages + 1 \in 0 .. MaxPage
<1>1. ~page'[p].used /\ page'[p].next = header.first_free_page
  BY DEF FreedPage, Blank
<1>2. p < header.num_pages /\ page[p].used
  BY DEF Exists
<1>3. DeletedPages' = DeletedPages \cup {p} /\ p \notin DeletedPages
  BY <1>1, <1>2 DEF DeletedPages
<1>4. PICK f : Ranked(f, page, header.first_free_page, DeletedPages)
  BY DEF IInv, FreeInv
<1>5. DeletedPages \subseteq Pages /\ DeletedPages \cup {p} \subseteq Pages
  BY Types DEF IInv
<1>6. /\ \E g : Ranked(g, page', p, DeletedPages \cup {p})
      /\ Cardinality(DeletedPages \cup {p}) = Cardinality(DeletedPages) + 1
  BY <1>1, <1>3, <1>4, <1>5, RankedWith
<1>7. FreeInv'
  BY <1>3, <1>6 DEF IInv, FreeInv
<1>8. UsedBelow'
  BY <1>1 DEF UsedBelow, IInv
<1>9. UsedPages' = UsedPages \ {p}
  BY <1>1 DEF UsedPages
<1>10. header.num_free_pages + 1 \in 0 .. MaxPage
  BY <1>5, <1>6, PagesFinite DEF IInv, FreeInv
<1>. QED
  BY <1>7, <1>8, <1>9, <1>10

LEMMA ThrowInv ==
    ASSUME IInv, Throw \/ (Hang /\ emptied)
    PROVE  IInv'
<1>1. TypeOK' /\ UNCHANGED <<header, page, emptied>>
  BY DEF IInv, TypeOK, Throw, Hang
<1>2. FreeInv' /\ UsedBelow'
  BY <1>1 DEF IInv, FreeInv, DeletedPages, UsedBelow
<1>3. UsedInv'
  BY <1>1 DEF IInv, UsedInv, UsedPages, Throw, Hang
<1>. QED
  BY <1>1, <1>2, <1>3 DEF IInv

LEMMA WalkFailsInv ==
    ASSUME IInv, NEW wanted, WalkFails(wanted)
    PROVE  IInv'
<1>1. emptied
  BY WalksEnd DEF WalkEnds, WalkFails, IInv, TypeOK
<1>. QED
  BY <1>1, ThrowInv DEF WalkFails

LEMMA AllocateReuseHeadInv ==
    ASSUME IInv, AllocateReuseHead
    PROVE  IInv'
<1> DEFINE first == header.first_used_page
           next == IF first > Reused THEN first ELSE page[Reused].next
<1>1. /\ header.num_free_pages > 0 /\ state = "ready" /\ state' = state
      /\ first = INVALID_NUMBER \/ first > Reused
      /\ page' = [page EXCEPT ![Reused] = Taken(next)]
      /\ copy' = [no |-> Reused, next |-> next, data |-> Empty]
      /\ header' = [WithoutFreeHead(header) EXCEPT !.first_used_page = Reused]
      /\ emptied' = (emptied \/ first = INVALID_NUMBER) /\ thrown' = "none"
  BY DEF AllocateReuseHead, HandOut
<1>2. /\ Reused \in DeletedPages /\ Reused \in Pages /\ ~page[Reused].used
      /\ page[Reused].next \in PageNos /\ first \in PageNos
  BY <1>1, FreeHead, Types DEF IInv
<1>3. next \in PageNos
  BY <1>2
<1>. HIDE DEF next
<1>4. /\ page'[Reused].used /\ page'[Reused].next = next
      /\ \A n \in Pages \ {Reused} : page'[n] = page[n]
  BY <1>1, <1>2 DEF Taken, IInv, TypeOK
<1>5. /\ header'.num_pages = header.num_pages
      /\ header'.num_free_pages = header.num_free_pages - 1
      /\ header'.first_free_page = page[Reused].next
      /\ header'.first_used_page = Reused
  BY <1>1 DEF WithoutFreeHead, IInv, TypeOK
<1>6. FreeInv' /\ UsedBelow' /\ UsedPages' = UsedPages \cup {Reused}
  <2>1. DeletedPages \subseteq Pages
    BY Types DEF IInv
  <2>. QED
    BY <1>1, <1>4, <1>5, <2>1, TakeFree
<1>7. TypeOK'
  <2>1. page' \in [Pages -> [used : BOOLEAN, next : PageNos, data : Data]]
    BY <1>1, <1>3 DEF Taken, IInv, TypeOK
  <2>2. header' \in [num_pages : 1 .. MaxPage + 1, first_used_page : PageNos,
                     num_free_pages : 0 .. MaxPage, first_free_page : PageNos]
    <3>1. header' = [num_pages |-> header.num_pages, first_used_page |-> Reused,
                     num_free_pages |-> header.num_free_pages - 1,
                     first_free_page |-> page[Reused].next]
      BY <1>1 DEF WithoutFreeHead, IInv, TypeOK
    <3>2. header.num_free_pages - 1 \in 0 .. MaxPage /\ Reused \in PageNos
      BY <1>1, <1>2, Types DEF IInv, PageNos
    <3>. QED
      BY <1>2, <3>1, <3>2, Types DEF IInv
  <2>3. copy' \in [no : Pages, next : PageNos, data : Data]
    BY <1>1, <1>2, <1>3
  <2>. QED
    BY <1>1, <2>1, <2>2, <2>3 DEF IInv, TypeOK
<1>8. UsedInv'
  <2>. SUFFICES ASSUME ~emptied'
                PROVE  Sorted(page', Reused, UsedPages \cup {Reused}) /\ state' = "ready"
    BY <1>5, <1>6 DEF UsedInv
  <2>1. ~emptied /\ first > Reused /\ next = first
    BY <1>1 DEF next
  <2>2. Reused \in Pages \ UsedPages /\ UsedPages \subseteq Pages
    BY <1>2, Types DEF UsedPages, IInv
  <2>3. Sorted(page, first, UsedPages) /\ Reused < first
    BY <1>2, <2>1, Types DEF IInv, UsedInv
  <2>4. page'[Reused].next = first /\ \A n \in UsedPages : page'[n].next = page[n].next
    BY <1>4, <2>1, <2>2
  <2>5. Sorted(page', Reused, UsedPages \cup {Reused})
    <3>. HIDE DEF Reused, first
    <3>. QED
      BY <2>2, <2>3, <2>4, SortedHead
  <2>. QED
    BY <1>1, <2>5
<1>. QED
  BY <1>6, <1>7, <1>8 DEF IInv

LEMMA AllocateReuseAfterInv ==
    ASSUME IInv, AllocateReuseAfter
    PROVE  IInv'
<1> DEFINE prev == WalkStop(Preceding)
           next == page[prev].next
           first == header.first_used_page
<1>1. CASE WalkFails(Preceding)
  BY <1>1, WalkFailsInv
<1>2. CASE /\ WalkEnds(Preceding)
           /\ page' = [page EXCEPT ![Reused] = Taken(next), ![prev].next = Reused]
           /\ HandOut(Reused, next)
           /\ header' = WithoutFreeHead(header)
           /\ UNCHANGED emptied
  <2>1. /\ header.num_free_pages > 0 /\ state = "ready" /\ first \in 1 .. Reused
    BY DEF AllocateReuseAfter
  <2>2. /\ Reused \in DeletedPages /\ Reused \in Pages /\ ~page[Reused].used
        /\ page[Reused].next \in PageNos /\ first \in PageNos
    BY <2>1, FreeHead, Types DEF IInv
  <2>3. /\ prev \in Pages /\ page[prev].used
        /\ next = INVALID_NUMBER \/ next > Reused
        /\ ~emptied => prev < Reused
    BY <1>2, <2>1, <2>2, PrecedingStop
  <2>4. next \in PageNos /\ prev # Reused
    BY <2>2, <2>3, Types DEF IInv, Nexts
  <2>. HIDE DEF prev
  <2>5. /\ page' \in [Pages -> [used : BOOLEAN, next : PageNos, data : Data]]
        /\ page'[Reused] = Taken(next)
        /\ page'[prev].next = Reused /\ page'[prev].used = page[prev].used
        /\ \A n \in Pages \ {Reused, prev} : page'[n] = page[n]
    <3>1. Taken(next) \in [used : BOOLEAN, next : PageNos, data : Data]
      BY <2>4 DEF Taken
    <3>2. Reused \in PageNos /\ page \in [Pages -> [used : BOOLEAN, next : PageNos, data : Data]]
      BY <2>2 DEF PageNos, IInv, TypeOK
    <3>3. page' = [page EXCEPT ![Reused] = Taken(next), ![prev] = [page[prev] EXCEPT !.next = Reused]]
      BY <1>2, <2>2, <2>3, <2>4, <3>2
    <3>4. [page[prev] EXCEPT !.next = Reused] \in [used : BOOLEAN, next : PageNos, data : Data]
      BY <2>3, <3>2
    <3>. QED
      BY <2>2, <2>3, <2>4, <3>1, <3>2, <3>3, <3>4
  <2>6. page'[Reused].used /\ page'[Reused].next = next
    BY <2>5 DEF Taken
  <2>7. header' = [num_pages |-> header.num_pages, first_used_page |-> first,
                   num_free_pages |-> header.num_free_pages - 1,
                   first_free_page |-> page[Reused].next]
    BY <1>2 DEF WithoutFreeHead, IInv, TypeOK
  <2>8. FreeInv' /\ UsedBelow' /\ UsedPages' = UsedPages \cup {Reused}
    <3>1. DeletedPages \subseteq Pages /\ prev \notin DeletedPages
      BY <2>3, Types DEF IInv, DeletedPages
    <3>2. \A n \in Pages \ {Reused} : page'[n].used = page[n].used
      BY <2>5
    <3>3. \A n \in DeletedPages \ {Reused} : page'[n].next = page[n].next
      BY <2>5, <3>1
    <3>. QED
      BY <2>1, <2>6, <2>7, <3>2, <3>3, TakeFree
  <2>9. TypeOK'
    <3>1. header.num_free_pages - 1 \in 0 .. MaxPage
      BY <2>1, Types DEF IInv
    <3>2. copy' \in [no : Pages, next : PageNos, data : Data]
      BY <1>2, <2>2, <2>4 DEF HandOut
    <3>3. header' \in [num_pages : 1 .. MaxPage + 1, first_used_page : PageNos,
                       num_free_pages : 0 .. MaxPage, first_free_page : PageNos]
      BY <2>2, <2>7, <3>1, Types DEF IInv
    <3>. QED
      BY <1>2, <2>5, <3>2, <3>3 DEF HandOut, IInv, TypeOK
  <2>10. UsedInv'
    <3>. SUFFICES ASSUME ~emptied
                  PROVE  Sorted(page', first, UsedPages \cup {Reused}) /\ state' = "ready"
      BY <1>2, <2>7, <2>8 DEF UsedInv
    <3>1. Sorted(page, first, UsedPages) /\ UsedPages \subseteq Pages
      BY Types DEF IInv, UsedInv
    <3>2. Reused \in Pages \ UsedPages /\ prev \in UsedPages /\ prev < Reused
      BY <2>2, <2>3 DEF UsedPages
    <3>3. /\ page[prev].next = INVALID_NUMBER \/ Reused < page[prev].next
          /\ page'[prev].next = Reused /\ page'[Reused].next = page[prev].next
          /\ \A n \in UsedPages \ {prev} : page'[n].next = page[n].next
      <4>1. page[prev].next = INVALID_NUMBER \/ Reused < page[prev].next
        BY <2>2, <2>3, <2>4 DEF PageNos, Pages
      <4>. QED
        BY <2>5, <2>6, <3>1, <3>2, <4>1
    <3>4. Sorted(page', first, UsedPages \cup {Reused})
      <4>. HIDE DEF Reused, first
      <4>. QED
        BY <3>1, <3>2, <3>3, SortedInsert
    <3>. QED
      BY <1>2, <2>1, <3>4 DEF HandOut
  <2>. QED
    BY <2>8, <2>9, <2>10 DEF IInv
<1>. QED
  BY <1>1, <1>2 DEF AllocateReuseAfter

LEMMA GrowFree ==
    ASSUME IInv, header.num_free_pages = 0, header.num_pages \in Pages,
           page'[header.num_pages].used,
           \A n \in Pages \ {header.num_pages} : page'[n].used = page[n].used,
           header'.num_pages = header.num_pages + 1,
           header'.num_free_pages = header.num_free_pages,
           header'.first_free_page = header.first_free_page
    PROVE  /\ FreeInv' /\ UsedBelow' /\ UsedPages' = UsedPages \cup {header.num_pages}
           /\ header.num_pages \in Pages \ UsedPages
           /\ \A n \in UsedPages : n < header.num_pages
<1>1. DeletedPages = {}
  BY PagesFinite, Types DEF IInv, FreeInv
<1>2. \A n \in Pages : n \in Nat /\ (n < header.num_pages + 1 <=> n < header.num_pages \/ n = header.num_pages)
  BY Types DEF IInv
<1>3. DeletedPages' = {}
  BY <1>1, <1>2 DEF DeletedPages
<1>4. FreeInv'
  BY <1>1, <1>3 DEF IInv, FreeInv, Ranked
<1>5. UsedBelow'
  BY <1>2 DEF UsedBelow, IInv
<1>6. UsedPages' = UsedPages \cup {header.num_pages}
  BY DEF UsedPages
<1>7. \A n \in UsedPages : n < header.num_pages
  BY DEF UsedPages, UsedBelow, IInv
<1>. QED
  BY <1>2, <1>4, <1>5, <1>6, <1>7 DEF UsedPages

LEMMA AllocateGrowInv ==
    ASSUME IInv, AllocateGrow
    PROVE  IInv'
<1> DEFINE new == header.num_pages
           first == header.first_used_page
           prev == WalkStop(LastUsed)
<1>1. header.num_free_pages = 0 /\ new \in Pages /\ state = "ready"
  BY DEF AllocateGrow
<1>2. CASE WalkFails(LastUsed)
  BY <1>2, WalkFailsInv
<1>3. /\ Taken(INVALID_NUMBER) \in [used : BOOLEAN, next : PageNos, data : Data]
      /\ Taken(INVALID_NUMBER).used /\ Taken(INVALID_NUMBER).next = INVALID_NUMBER
      /\ page \in [Pages -> [used : BOOLEAN, next : PageNos, data : Data]]
      /\ new + 1 \in 1 .. MaxPage + 1 /\ new \in PageNos /\ first \in PageNos
  BY <1>1, Types DEF Taken, PageNos, IInv, TypeOK
<1>4. CASE /\ first = INVALID_NUMBER
           /\ page' = [page EXCEPT ![new] = Taken(INVALID_NUMBER)]
           /\ header' = [header EXCEPT !.num_pages = @ + 1, !.first_used_page = new]
           /\ HandOut(new, INVALID_NUMBER)
           /\ UNCHANGED emptied
  <2>1. /\ page' \in [Pages -> [used : BOOLEAN, next : PageNos, data : Data]]
        /\ page'[new] = Taken(INVALID_NUMBER)
        /\ \A n \in Pages \ {new} : page'[n] = page[n]
    BY <1>1, <1>3, <1>4
  <2>2. header' = [num_pages |-> new + 1, first_used_page |-> new,
                   num_free_pages |-> header.num_free_pages,
                   first_free_page |-> header.first_free_page]
    BY <1>4 DEF IInv, TypeOK
  <2>3. /\ FreeInv' /\ UsedBelow' /\ UsedPages' = UsedPages \cup {new}
        /\ new \in Pages \ UsedPages
    BY <1>1, <1>3, <2>1, <2>2, GrowFree
  <2>4. TypeOK'
    <3>1. copy' \in [no : Pages, next : PageNos, data : Data]
      BY <1>1, <1>4 DEF HandOut, PageNos
    <3>2. header' \in [num_pages : 1 .. MaxPage + 1, first_used_page : PageNos,
                       num_free_pages : 0 .. MaxPage, first_free_page : PageNos]
      BY <1>3, <2>2, Types DEF IInv
    <3>. QED
      BY <1>4, <2>1, <3>1, <3>2 DEF HandOut, IInv, TypeOK
  <2>5. UsedInv'
    <3>. SUFFICES ASSUME ~emptied
                  PROVE  Sorted(page', new, UsedPages \cup {new}) /\ state' = "ready"
      BY <1>4, <2>2, <2>3 DEF UsedInv
    <3>1. Sorted(page, first, UsedPages) /\ UsedPages \subseteq Pages
      BY Types DEF IInv, UsedInv
    <3>2. page'[new].next = first /\ \A n \in UsedPages : page'[n].next = page[n].next
      BY <1>3, <1>4, <2>1, <2>3, <3>1
    <3>3. Sorted(page', new, UsedPages \cup {new})
      <4>1. /\ first = INVALID_NUMBER /\ new \in Pages \ UsedPages
            /\ page'[new].next = INVALID_NUMBER
        BY <1>4, <2>3, <3>2
      <4>. HIDE DEF new, first
      <4>. QED
        BY <3>1, <3>2, <4>1, SortedHead
    <3>. QED
      BY <1>1, <1>4, <3>3 DEF HandOut
  <2>. QED
    BY <2>3, <2>4, <2>5 DEF IInv
<1>5. CASE /\ first # INVALID_NUMBER
           /\ WalkEnds(LastUsed)
           /\ page' = [page EXCEPT ![new] = Taken(INVALID_NUMBER), ![prev].next = new]
           /\ header' = [header EXCEPT !.num_pages = @ + 1]
           /\ HandOut(new, INVALID_NUMBER)
           /\ UNCHANGED emptied
  <2>1. prev \in Pages /\ page[prev].next = INVALID_NUMBER /\ page[prev].used
    <3>1. prev \in Pages /\ prev \in LastUsed /\ page[prev].used
      BY <1>5, EndBeforeEnd DEF IInv
    <3>. QED
      BY <3>1 DEF LastUsed
  <2>. HIDE DEF prev
  <2>2. prev # new
    BY <2>1, Types DEF IInv, UsedBelow
  <2>3. page' = [page EXCEPT ![new] = Taken(INVALID_NUMBER),
                             ![prev] = [page[prev] EXCEPT !.next = new]]
    BY <1>1, <1>3, <1>5, <2>1, <2>2
  <2>4. [page[prev] EXCEPT !.next = new] \in [used : BOOLEAN, next : PageNos, data : Data]
    BY <1>3, <2>1
  <2>5. /\ page' \in [Pages -> [used : BOOLEAN, next : PageNos, data : Data]]
        /\ page'[new] = Taken(INVALID_NUMBER)
        /\ page'[prev].next = new /\ page'[prev].used = page[prev].used
        /\ \A n \in Pages \ {new, prev} : page'[n] = page[n]
    BY <1>1, <1>3, <2>1, <2>2, <2>3, <2>4
  <2>6. header' = [num_pages |-> new + 1, first_used_page |-> first,
                   num_free_pages |-> header.num_free_pages,
                   first_free_page |-> header.first_free_page]
    BY <1>5 DEF IInv, TypeOK
  <2>7. /\ FreeInv' /\ UsedBelow' /\ UsedPages' = UsedPages \cup {new}
        /\ new \in Pages \ UsedPages /\ \A n \in UsedPages : n < new
    <3>1. \A n \in Pages \ {new} : page'[n].used = page[n].used
      BY <2>5
    <3>. QED
      BY <1>1, <1>3, <2>5, <2>6, <3>1, GrowFree
  <2>8. TypeOK'
    <3>1. copy' \in [no : Pages, next : PageNos, data : Data]
      BY <1>1, <1>5 DEF HandOut, PageNos
    <3>2. header' \in [num_pages : 1 .. MaxPage + 1, first_used_page : PageNos,
                       num_free_pages : 0 .. MaxPage, first_free_page : PageNos]
      BY <1>3, <2>6, Types DEF IInv
    <3>. QED
      BY <1>5, <2>5, <3>1, <3>2 DEF HandOut, IInv, TypeOK
  <2>9. UsedInv'
    <3>. SUFFICES ASSUME ~emptied
                  PROVE  Sorted(page', first, UsedPages \cup {new}) /\ state' = "ready"
      BY <1>5, <2>6, <2>7 DEF UsedInv
    <3>1. Sorted(page, first, UsedPages) /\ UsedPages \subseteq Pages
      BY Types DEF IInv, UsedInv
    <3>2. prev \in UsedPages /\ prev < new
      BY <2>1, <2>7 DEF UsedPages
    <3>3. /\ page'[prev].next = new /\ page'[new].next = page[prev].next
          /\ \A n \in UsedPages \ {prev} : page'[n].next = page[n].next
      BY <1>3, <2>1, <2>5, <2>7, <3>1
    <3>4. Sorted(page', first, UsedPages \cup {new})
      <4>. HIDE DEF new, first
      <4>. QED
        BY <2>1, <2>7, <3>1, <3>2, <3>3, SortedInsert
    <3>. QED
      BY <1>1, <1>5, <3>4 DEF HandOut
  <2>. QED
    BY <2>7, <2>8, <2>9 DEF IInv
<1>. QED
  BY <1>2, <1>4, <1>5 DEF AllocateGrow

LEMMA DeleteHeadInv ==
    ASSUME IInv, NEW n \in Pages, DeleteHead(n)
    PROVE  IInv'
<1> DEFINE next == page[n].next
<1>1. /\ Exists(n) /\ n = header.first_used_page /\ state = "ready"
      /\ header' = [Freed(header, n) EXCEPT !.first_used_page = next]
      /\ page' = [page EXCEPT ![n] = FreedPage]
      /\ thrown' = "none" /\ UNCHANGED <<copy, state, emptied>>
  BY DEF DeleteHead
<1>2. /\ page \in [Pages -> [used : BOOLEAN, next : PageNos, data : Data]]
      /\ FreedPage \in [used : BOOLEAN, next : PageNos, data : Data]
      /\ next \in PageNos /\ n \in PageNos
  BY Types DEF FreedPage, Blank, IInv, TypeOK, PageNos
<1>3. /\ page' \in [Pages -> [used : BOOLEAN, next : PageNos, data : Data]]
      /\ page'[n] = FreedPage /\ \A m \in Pages \ {n} : page'[m] = page[m]
  BY <1>1, <1>2
<1>4. header' = [num_pages |-> header.num_pages, first_used_page |-> next,
                 num_free_pages |-> header.num_free_pages + 1,
                 first_free_page |-> n]
  BY <1>1 DEF Freed, IInv, TypeOK
<1>5. /\ FreeInv' /\ UsedBelow' /\ UsedPages' = UsedPages \ {n}
      /\ header.num_free_pages + 1 \in 0 .. MaxPage
  <2>1. \A m \in DeletedPages : page'[m].next = page[m].next
    BY <1>1, <1>3 DEF DeletedPages, Exists
  <2>. QED
    BY <1>1, <1>3, <1>4, <2>1, PutFree
<1>6. TypeOK'
  <2>1. header' \in [num_pages : 1 .. MaxPage + 1, first_used_page : PageNos,
                     num_free_pages : 0 .. MaxPage, first_free_page : PageNos]
    BY <1>2, <1>4, <1>5, Types DEF IInv
  <2>. QED
    BY <1>1, <1>3, <2>1 DEF IInv, TypeOK
<1>7. UsedInv'
  <2>. SUFFICES ASSUME ~emptied
                PROVE  Sorted(page', next, UsedPages \ {n})
    BY <1>1, <1>4, <1>5 DEF UsedInv
  <2>1. /\ Sorted(page, n, UsedPages) /\ UsedPages \subseteq Pages /\ n \in UsedPages
        /\ \A m \in UsedPages \ {n} : page'[m].next = page[m].next
    BY <1>1, <1>3, Types DEF IInv, UsedInv, UsedPages, Exists
  <2>. QED
    BY <2>1, SortedBeheaded
<1>. QED
  BY <1>5, <1>6, <1>7 DEF IInv

LEMMA DeleteAfterInv ==
    ASSUME IInv, NEW n \in Pages, DeleteAfter(n)
    PROVE  IInv'
<1> DEFINE next == page[n].next
           prev == WalkStop(PointTo(n))
           first == header.first_used_page
<1>1. Exists(n) /\ n # first /\ state = "ready" /\ n \in UsedPages
  BY DEF DeleteAfter, Exists, UsedPages
<1>2. CASE WalkFails(PointTo(n))
  BY <1>2, WalkFailsInv
<1>3. CASE /\ WalkEnds(PointTo(n))
           /\ page' = [m \in Pages |->
                        IF m = n THEN FreedPage
                        ELSE IF m = prev THEN [page[m] EXCEPT !.next = next]
                             ELSE page[m]]
           /\ header' = Freed(header, n)
           /\ thrown' = "none"
           /\ UNCHANGED <<copy, state, emptied>>
  <2>1. prev = INVALID_NUMBER \/ (prev \in Pages /\ page[prev].used)
    BY <1>3, EndIs DEF IInv
  <2>2. ~emptied => prev \in UsedPages /\ page[prev].next = n
    BY <1>1, PointToStop
  <2>. HIDE DEF prev
  <2>3. /\ page \in [Pages -> [used : BOOLEAN, next : PageNos, data : Data]]
        /\ FreedPage \in [used : BOOLEAN, next : PageNos, data : Data]
        /\ next \in PageNos /\ n \in PageNos /\ first \in PageNos
    BY Types DEF FreedPage, Blank, IInv, TypeOK, PageNos
  <2>4. \A m \in Pages : /\ [page[m] EXCEPT !.next = next] \in [used : BOOLEAN, next : PageNos, data : Data]
                         /\ [page[m] EXCEPT !.next = next].used = page[m].used
                         /\ [page[m] EXCEPT !.next = next].next = next
    BY <2>3
  <2>5. /\ page' \in [Pages -> [used : BOOLEAN, next : PageNos, data : Data]]
        /\ page'[n] = FreedPage
        /\ \A m \in Pages \ {n} : page'[m].used = page[m].used
        /\ \A m \in Pages \ {n, prev} : page'[m] = page[m]
        /\ prev \in Pages \ {n} => page'[prev].next = next
    BY <1>3, <2>3, <2>4
  <2>6. header' = [num_pages |-> header.num_pages, first_used_page |-> first,
                   num_free_pages |-> header.num_free_pages + 1,
                   first_free_page |-> n]
    BY <1>3 DEF Freed, IInv, TypeOK
  <2>7. /\ FreeInv' /\ UsedBelow' /\ UsedPages' = UsedPages \ {n}
        /\ header.num_free_pages + 1 \in 0 .. MaxPage
    <3>1. \A m \in DeletedPages : page'[m].next = page[m].next
      <4>. SUFFICES ASSUME NEW m \in DeletedPages PROVE page'[m].next = page[m].next
        OBVIOUS
      <4>1. m \in Pages /\ ~page[m].used
        BY DEF DeletedPages
      <4>2. m # n /\ m # prev
        BY <1>1, <2>1, <4>1 DEF Exists, Pages
      <4>. QED
        BY <2>5, <4>1, <4>2
    <3>. QED
      BY <1>1, <2>5, <2>6, <3>1, PutFree
  <2>8. TypeOK'
    <3>1. header' \in [num_pages : 1 .. MaxPage + 1, first_used_page : PageNos,
                       num_free_pages : 0 .. MaxPage, first_free_page : PageNos]
      BY <2>3, <2>6, <2>7, Types DEF IInv
    <3>. QED
      BY <1>3, <2>5, <3>1 DEF IInv, TypeOK
  <2>9. UsedInv'
    <3>. SUFFICES ASSUME ~emptied
                  PROVE  Sorted(page', first, UsedPages \ {n})
      BY <1>1, <1>3, <2>6, <2>7 DEF UsedInv
    <3>1. Sorted(page, first, UsedPages) /\ UsedPages \subseteq Pages
      BY Types DEF IInv, UsedInv
    <3>2. prev \in UsedPages /\ page[prev].next = n /\ prev # n
      <4>1. prev \in UsedPages /\ page[prev].next = n
        BY <2>2
      <4>2. n # INVALID_NUMBER /\ prev < n
        <5>1. n # INVALID_NUMBER
          BY DEF Pages
        <5>. QED
          BY <3>1, <4>1, <5>1 DEF Sorted
      <4>3. prev \in Nat /\ n \in Nat
        <5>1. prev \in Pages
          BY <3>1, <4>1
        <5>. HIDE DEF prev
        <5>. QED
          BY <5>1 DEF Pages
      <4>. QED
        BY <4>1, <4>2, <4>3
    <3>3. page'[prev].next = page[n].next
      BY <2>5, <3>1, <3>2
    <3>4. \A m \in UsedPages \ {n, prev} : page'[m].next = page[m].next
      BY <2>5, <3>1
    <3>. HIDE DEF first, next
    <3>. QED
      BY <1>1, <3>1, <3>2, <3>3, <3>4, SortedRelinked
  <2>. QED
    BY <2>7, <2>8, <2>9 DEF IInv
<1>. QED
  BY <1>2, <1>3 DEF DeleteAfter

(* Reading, and the writing of a content, leave the lists alone.           *)
LEMMA SameLists ==
    ASSUME IInv, TypeOK', UNCHANGED <<header, state, emptied>>,
           \A n \in Pages : page'[n].used = page[n].used /\ page'[n].next = page[n].next
    PROVE  IInv'
<1>1. DeletedPages' = DeletedPages /\ UsedPages' = UsedPages
  BY DEF DeletedPages, UsedPages
<1>2. DeletedPages \subseteq Pages /\ UsedPages \subseteq Pages
  BY Types DEF IInv
<1>3. \A n \in DeletedPages \cup UsedPages : page'[n].next = page[n].next
  BY <1>2
<1>4. \A f : Ranked(f, page, header.first_free_page, DeletedPages) =>
             Ranked(f, page', header.first_free_page, DeletedPages)
  BY <1>3 DEF Ranked
<1>5. Sorted(page, header.first_used_page, UsedPages) =>
      Sorted(page', header.first_used_page, UsedPages)
  BY <1>3 DEF Sorted
<1>6. FreeInv'
  BY <1>1, <1>4 DEF IInv, FreeInv
<1>7. UsedInv'
  BY <1>1, <1>5 DEF IInv, UsedInv
<1>8. UsedBelow'
  BY DEF IInv, UsedBelow
<1>. QED
  BY <1>6, <1>7, <1>8 DEF IInv

LEMMA ReadPageInv ==
    ASSUME IInv, NEW n \in Pages, ReadPage(n)
    PROVE  IInv'
<1>1. copy' \in [no : Pages, next : PageNos, data : Data]
  BY Types DEF ReadPage, IInv, Nexts
<1>2. TypeOK'
  BY <1>1 DEF ReadPage, IInv, TypeOK
<1>. QED
  BY <1>2, SameLists DEF ReadPage

LEMMA CopyIs ==
    ASSUME TypeOK, copy # NoCopy
    PROVE  copy \in [no : Pages, next : PageNos, data : Data]
  BY DEF TypeOK

LEMMA WritePageInv ==
    ASSUME IInv, NEW d \in Data, WritePage(d)
    PROVE  IInv'
<1> DEFINE no == copy.no
<1>1. /\ copy \in [no : Pages, next : PageNos, data : Data] /\ no \in Pages
      /\ page \in [Pages -> [used : BOOLEAN, next : PageNos, data : Data]]
  BY CopyIs DEF WritePage, IInv, TypeOK
<1>2. page' = [page EXCEPT ![no] = [page[no] EXCEPT !.data = d]]
  BY <1>1 DEF WritePage
<1>3. /\ [page[no] EXCEPT !.data = d] \in [used : BOOLEAN, next : PageNos, data : Data]
      /\ [page[no] EXCEPT !.data = d].used = page[no].used
      /\ [page[no] EXCEPT !.data = d].next = page[no].next
  BY <1>1
<1>4. copy' \in [no : Pages, next : PageNos, data : Data]
  BY <1>1 DEF WritePage
<1>. HIDE DEF no
<1>5. /\ page' \in [Pages -> [used : BOOLEAN, next : PageNos, data : Data]]
      /\ \A n \in Pages : page'[n].used = page[n].used /\ page'[n].next = page[n].next
  BY <1>1, <1>2, <1>3
<1>6. TypeOK'
  BY <1>4, <1>5 DEF WritePage, IInv, TypeOK
<1>. QED
  BY <1>5, <1>6, SameLists DEF WritePage

LEMMA InitInv == Init => IInv
<1>. SUFFICES ASSUME Init PROVE IInv
  OBVIOUS
<1>1. TypeOK
  <2>1. header \in [num_pages : 1 .. MaxPage + 1, first_used_page : PageNos,
                    num_free_pages : 0 .. MaxPage, first_free_page : PageNos]
    <3>1. 1 \in 1 .. MaxPage + 1 /\ 0 \in 0 .. MaxPage /\ INVALID_NUMBER \in PageNos
      BY DEF PageNos
    <3>. QED
      BY <3>1 DEF Init
  <2>2. page \in [Pages -> [used : BOOLEAN, next : PageNos, data : Data]]
    BY DEF Init, Blank, PageNos
  <2>. QED
    BY <2>1, <2>2 DEF Init, TypeOK
<1>2. DeletedPages = {} /\ UsedPages = {}
  BY DEF Init, DeletedPages, UsedPages, Pages, Blank
<1>3. Ranked([n \in Pages |-> 0], page, header.first_free_page, {})
  BY DEF Ranked, Init
<1>4. FreeInv
  BY <1>2, <1>3, FS_EmptySet DEF FreeInv, Init
<1>5. UsedBelow /\ UsedInv
  BY <1>2 DEF Init, UsedBelow, UsedInv, Sorted, Blank
<1>. QED
  BY <1>1, <1>4, <1>5 DEF IInv

LEMMA NextInv == IInv /\ [Next]_vars => IInv'
<1>. SUFFICES ASSUME IInv, [Next]_vars PROVE IInv'
  OBVIOUS
<1>1. CASE AllocatePage
  BY <1>1, AllocateReuseHeadInv, AllocateReuseAfterInv, AllocateGrowInv DEF AllocatePage
<1>2. ASSUME NEW n \in Pages, DeletePage(n) PROVE IInv'
  BY <1>2, DeleteHeadInv, DeleteAfterInv, ThrowInv DEF DeletePage, DeleteRefused
<1>3. ASSUME NEW n \in Pages, ReadPage(n) \/ ReadRefused(n) PROVE IInv'
  BY <1>3, ReadPageInv, ThrowInv DEF ReadRefused
<1>4. ASSUME NEW d \in Data, WritePage(d) PROVE IInv'
  BY <1>4, WritePageInv
<1>5. CASE WriteRefused
  BY <1>5, ThrowInv DEF WriteRefused
<1>6. CASE KeepWalking \/ UNCHANGED vars
  <2>1. UNCHANGED vars
    BY <1>6 DEF KeepWalking
  <2>2. TypeOK'
    BY <2>1 DEF vars, IInv, TypeOK
  <2>. QED
    BY <2>1, <2>2, SameLists DEF vars
<1>. QED
  BY <1>1, <1>2, <1>3, <1>4, <1>5, <1>6 DEF Next

-----------------------------------------------------------------------------
(* The inductive invariant: what a deleted page's rank and a used page's   *)
(* successor are, through every allocation, deletion and write of          *)
(* file.cpp, those on a damaged used list included.                        *)
THEOREM Inductive == Spec => []IInv
  BY InitInv, NextInv, PTL DEF Spec

(* Whatever the client does, the header's count and the free list name     *)
(* exactly the deleted pages, each once: none is lost to the file, and     *)
(* none can be handed out twice (the assertion of file.cpp:119-120).       *)
THEOREM FreeList == Spec => []FreeListExact
<1>1. IInv => FreeListExact
  <2>. SUFFICES ASSUME IInv PROVE FreeListExact
    OBVIOUS
  <2>1. DeletedPages \subseteq Pages
    BY Types DEF IInv
  <2>2. IsChain(header.first_free_page, DeletedPages)
    BY <2>1, RankedChain DEF IInv, FreeInv
  <2>. QED
    BY <2>2 DEF FreeListExact, IInv, FreeInv
<1>. QED
  BY <1>1, Inductive, PTL

(* Until a page is reused while none is in use, the used list links the    *)
(* pages in use in ascending order, and no operation is caught in a walk   *)
(* over it.                                                                *)
THEOREM UsedList == Spec => []UsedListExact
<1>1. IInv => UsedListExact
  <2>. SUFFICES ASSUME IInv, ~emptied
                PROVE  /\ IsChain(header.first_used_page, UsedPages)
                       /\ \A n \in UsedPages :
                             page[n].next = INVALID_NUMBER \/ page[n].next > n
                       /\ state = "ready"
    BY DEF UsedListExact
  <2>1. Sorted(page, header.first_used_page, UsedPages) /\ UsedPages \subseteq Pages
    BY Types DEF IInv, UsedInv
  <2>2. IsChain(header.first_used_page, UsedPages)
    BY <2>1, SortedChain
  <2>3. \A n \in UsedPages : page[n].next = INVALID_NUMBER \/ page[n].next > n
    BY <2>1 DEF Sorted, Pages
  <2>. QED
    BY <2>2, <2>3 DEF IInv, UsedInv
<1>. QED
  BY <1>1, Inductive, PTL

-----------------------------------------------------------------------------
(* The file implements PagedFile.                                          *)

LEMMA HeldIs ==
    ASSUME TypeOK
    PROVE  IF copy = NoCopy THEN CopyHeld = NoCopy
           ELSE /\ CopyHeld = [no |-> copy.no, data |-> copy.data]
                /\ CopyHeld # NoCopy /\ copy.no \in Pages
<1>1. CASE copy = NoCopy
  BY <1>1 DEF CopyHeld
<1>2. CASE copy # NoCopy
  <2>1. copy \in [no : Pages, next : PageNos, data : Data]
    BY <1>2, CopyIs
  <2>2. [no |-> copy.no, data |-> copy.data] \in [no : Pages, data : Data]
    BY <2>1
  <2>. QED
    BY <1>2, <2>1, <2>2 DEF CopyHeld
<1>. QED
  BY <1>1, <1>2

LEMMA HeldAfter ==
    ASSUME NEW n \in Pages, NEW next \in PageNos, NEW d \in Data,
           copy' = [no |-> n, next |-> next, data |-> d]
    PROVE  CopyHeld' = [no |-> n, data |-> d]
<1>1. copy' \in [no : Pages, next : Pages \cup {INVALID_NUMBER}, data : Data]
  BY DEF PageNos
<1>2. copy' # NoCopy
  BY <1>1
<1>. QED
  BY <1>2 DEF CopyHeld

LEMMA ContentIs ==
    ASSUME TypeOK, NEW n \in Pages
    PROVE  ContentInUse[n] # Absent <=> page[n].used
  BY Types DEF ContentInUse

(* What a page contains after a step that leaves it alone, and after one   *)
(* that writes it.                                                         *)
LEMMA ContentAfter ==
    ASSUME NEW n \in Pages, NEW c,
           IF page'[n].used THEN page'[n].data = c ELSE c = Absent,
           \A m \in Pages \ {n} : page'[m].used = page[m].used /\ page'[m].data = page[m].data
    PROVE  ContentInUse' = [ContentInUse EXCEPT ![n] = c]
<1> DEFINE old(m) == IF page[m].used THEN page[m].data ELSE Absent
           new(m) == IF page'[m].used THEN page'[m].data ELSE Absent
<1>1. /\ ContentInUse = [m \in Pages |-> old(m)]
      /\ ContentInUse' = [m \in Pages |-> new(m)]
  BY DEF ContentInUse
<1>2. new(n) = c /\ \A m \in Pages \ {n} : new(m) = old(m)
  OBVIOUS
<1>. HIDE DEF old, new
<1>. QED
  BY <1>1, <1>2

LEMMA ContentKept ==
    ASSUME \A m \in Pages : page'[m].used = page[m].used /\ page'[m].data = page[m].data
    PROVE  ContentInUse' = ContentInUse
  BY DEF ContentInUse

(* A page that was not in use comes into use, empty.                       *)
LEMMA AllocateStep ==
    ASSUME TypeOK, NEW n \in Pages, ~page[n].used, page'[n].used,
           page'[n].data = Empty,
           \A m \in Pages \ {n} : page'[m].used = page[m].used /\ page'[m].data = page[m].data,
           NEW next \in PageNos, HandOut(n, next)
    PROVE  File!Allocate(n)
<1>1. CopyHeld' = [no |-> n, data |-> Empty]
  BY HeldAfter, DataAssumption DEF HandOut
<1>2. ContentInUse[n] = Absent
  BY DEF ContentInUse
<1>3. ContentInUse' = [ContentInUse EXCEPT ![n] = Empty]
  BY ContentAfter
<1>. QED
  BY <1>1, <1>2, <1>3 DEF File!Allocate

LEMMA ReuseHeadStep ==
    ASSUME IInv, AllocateReuseHead
    PROVE  \E n \in Pages : File!Allocate(n)
<1> DEFINE next == IF header.first_used_page > Reused
                   THEN header.first_used_page ELSE page[Reused].next
<1>1. /\ Reused \in Pages /\ ~page[Reused].used
      /\ page[Reused].next \in PageNos /\ header.first_used_page \in PageNos
      /\ page \in [Pages -> [used : BOOLEAN, next : PageNos, data : Data]]
  BY FreeHead, Types DEF AllocateReuseHead, IInv, TypeOK
<1>2. next \in PageNos
  BY <1>1
<1>3. page' = [page EXCEPT ![Reused] = Taken(next)] /\ HandOut(Reused, next)
  BY DEF AllocateReuseHead
<1>4. Taken(next).used /\ Taken(next).data = Empty
  BY DEF Taken
<1>5. TypeOK
  BY DEF IInv
<1>. HIDE DEF next, Reused
<1>6. /\ page'[Reused].used /\ page'[Reused].data = Empty
      /\ \A m \in Pages \ {Reused} :
            page'[m].used = page[m].used /\ page'[m].data = page[m].data
  BY <1>1, <1>3, <1>4
<1>. QED
  BY <1>1, <1>2, <1>3, <1>5, <1>6, AllocateStep

LEMMA ReuseAfterStep ==
    ASSUME IInv, AllocateReuseAfter, ~WalkFails(Preceding)
    PROVE  \E n \in Pages : File!Allocate(n)
<1> DEFINE prev == WalkStop(Preceding)
           next == page[prev].next
<1>1. /\ Reused \in Pages /\ ~page[Reused].used /\ TypeOK
      /\ header.first_used_page \in 1 .. Reused
      /\ page \in [Pages -> [used : BOOLEAN, next : PageNos, data : Data]]
  BY FreeHead DEF AllocateReuseAfter, IInv, TypeOK
<1>2. /\ WalkEnds(Preceding) /\ HandOut(Reused, next)
      /\ page' = [page EXCEPT ![Reused] = Taken(next), ![prev].next = Reused]
  BY DEF AllocateReuseAfter
<1>3. prev \in Pages /\ page[prev].used
  BY <1>1, <1>2, PrecedingStop
<1>4. next \in PageNos /\ prev # Reused
  BY <1>1, <1>3
<1>5. Taken(next).used /\ Taken(next).data = Empty
  BY DEF Taken
<1>. HIDE DEF prev, next, Reused
<1>6. /\ page'[Reused].used /\ page'[Reused].data = Empty
      /\ \A m \in Pages \ {Reused} :
            page'[m].used = page[m].used /\ page'[m].data = page[m].data
  BY <1>1, <1>2, <1>3, <1>4, <1>5
<1>. QED
  BY <1>1, <1>2, <1>4, <1>6, AllocateStep

LEMMA GrowStep ==
    ASSUME IInv, AllocateGrow, ~WalkFails(LastUsed)
    PROVE  \E n \in Pages : File!Allocate(n)
<1> DEFINE new == header.num_pages
           prev == WalkStop(LastUsed)
<1>1. /\ new \in Pages /\ ~page[new].used /\ TypeOK /\ INVALID_NUMBER \in PageNos
      /\ page \in [Pages -> [used : BOOLEAN, next : PageNos, data : Data]]
  <2>1. new \in Pages /\ TypeOK /\ UsedBelow /\ new \in Nat
    BY Types DEF AllocateGrow, IInv
  <2>. QED
    BY <2>1, Types DEF UsedBelow, UsedPages, TypeOK, PageNos
<1>2. /\ Taken(INVALID_NUMBER).used /\ Taken(INVALID_NUMBER).data = Empty
      /\ HandOut(new, INVALID_NUMBER)
  BY DEF Taken, AllocateGrow
<1>3. \/ page' = [page EXCEPT ![new] = Taken(INVALID_NUMBER)]
      \/ /\ page' = [page EXCEPT ![new] = Taken(INVALID_NUMBER), ![prev].next = new]
         /\ prev \in Pages /\ prev # new
  <2>1. CASE /\ WalkEnds(LastUsed) /\ header.first_used_page # INVALID_NUMBER
             /\ page' = [page EXCEPT ![new] = Taken(INVALID_NUMBER), ![prev].next = new]
    <3>1. prev \in Pages /\ page[prev].used
      BY <1>1, <2>1, EndBeforeEnd
    <3>. QED
      BY <1>1, <2>1, <3>1
  <2>. QED
    BY <2>1 DEF AllocateGrow
<1>. HIDE DEF prev, new
<1>4. /\ page'[new].used /\ page'[new].data = Empty
      /\ \A m \in Pages \ {new} :
            page'[m].used = page[m].used /\ page'[m].data = page[m].data
  BY <1>1, <1>2, <1>3
<1>. QED
  BY <1>1, <1>2, <1>4, AllocateStep

(* A page in use is deleted, whatever else is relinked.                    *)
LEMMA DeleteStep ==
    ASSUME TypeOK, NEW n \in Pages, page[n].used, ~page'[n].used,
           \A m \in Pages \ {n} : page'[m].used = page[m].used /\ page'[m].data = page[m].data,
           copy' = copy
    PROVE  File!Delete(n)
<1>1. ContentInUse[n] # Absent
  BY ContentIs
<1>2. ContentInUse' = [ContentInUse EXCEPT ![n] = Absent]
  BY ContentAfter
<1>3. CopyHeld' = CopyHeld
  BY DEF CopyHeld
<1>. QED
  BY <1>1, <1>2, <1>3 DEF File!Delete

LEMMA DeleteHeadStep ==
    ASSUME IInv, NEW n \in Pages, DeleteHead(n)
    PROVE  File!Delete(n)
<1>1. /\ TypeOK /\ page[n].used /\ copy' = copy
      /\ page' = [page EXCEPT ![n] = FreedPage]
      /\ page \in [Pages -> [used : BOOLEAN, next : PageNos, data : Data]]
  BY DEF DeleteHead, Exists, IInv, TypeOK
<1>2. ~FreedPage.used
  BY DEF FreedPage, Blank
<1>3. /\ ~page'[n].used
      /\ \A m \in Pages \ {n} :
            page'[m].used = page[m].used /\ page'[m].data = page[m].data
  BY <1>1, <1>2
<1>. QED
  BY <1>1, <1>3, DeleteStep

LEMMA DeleteAfterStep ==
    ASSUME IInv, NEW n \in Pages, DeleteAfter(n), ~WalkFails(PointTo(n))
    PROVE  File!Delete(n)
<1> DEFINE prev == WalkStop(PointTo(n))
           relinked(m) == [page[m] EXCEPT !.next = page[n].next]
<1>1. /\ TypeOK /\ page[n].used /\ copy' = copy
      /\ page' = [m \in Pages |-> IF m = n THEN FreedPage
                                   ELSE IF m = prev THEN relinked(m) ELSE page[m]]
      /\ page \in [Pages -> [used : BOOLEAN, next : PageNos, data : Data]]
  BY DEF DeleteAfter, Exists, IInv, TypeOK
<1>2. ~FreedPage.used
  BY DEF FreedPage, Blank
<1>3. \A m \in Pages : relinked(m).used = page[m].used /\ relinked(m).data = page[m].data
  BY <1>1
<1>. HIDE DEF prev, relinked
<1>4. /\ ~page'[n].used
      /\ \A m \in Pages \ {n} :
            page'[m].used = page[m].used /\ page'[m].data = page[m].data
  BY <1>1, <1>2, <1>3
<1>. QED
  BY <1>1, <1>4, DeleteStep

LEMMA ReadStep ==
    ASSUME IInv, NEW n \in Pages, ReadPage(n)
    PROVE  File!Read(n)
<1>1. /\ TypeOK /\ page[n].used /\ page' = page
      /\ page[n].next \in PageNos /\ page[n].data \in Data
      /\ copy' = [no |-> n, next |-> page[n].next, data |-> page[n].data]
  BY Types DEF ReadPage, Exists, IInv, Nexts
<1>2. CopyHeld' = [no |-> n, data |-> page[n].data]
  BY <1>1, HeldAfter
<1>3. ContentInUse[n] = page[n].data /\ ContentInUse[n] # Absent
  BY <1>1, ContentIs DEF ContentInUse
<1>4. ContentInUse' = ContentInUse
  BY <1>1 DEF ContentInUse
<1>. QED
  BY <1>2, <1>3, <1>4 DEF File!Read

LEMMA WriteStep ==
    ASSUME IInv, NEW d \in Data, WritePage(d)
    PROVE  File!Write(d)
<1> DEFINE no == copy.no
<1>1. /\ TypeOK /\ copy # NoCopy /\ page[no].used
      /\ page \in [Pages -> [used : BOOLEAN, next : PageNos, data : Data]]
      /\ copy' = [copy EXCEPT !.data = d]
  BY DEF WritePage, IInv, TypeOK
<1>2. /\ copy \in [no : Pages, next : PageNos, data : Data] /\ no \in Pages
      /\ CopyHeld = [no |-> no, data |-> copy.data] /\ CopyHeld # NoCopy
  BY <1>1, CopyIs, HeldIs
<1>3. copy' = [no |-> no, next |-> copy.next, data |-> d] /\ copy.next \in PageNos
  BY <1>1, <1>2
<1>4. CopyHeld' = [no |-> no, data |-> d]
  BY <1>2, <1>3, HeldAfter
<1>5. CopyHeld' = [CopyHeld EXCEPT !.data = d] /\ CopyHeld.no = no
  BY <1>2, <1>4
<1>6. page' = [page EXCEPT ![no] = [page[no] EXCEPT !.data = d]]
  BY <1>1, <1>2 DEF WritePage
<1>7. /\ page'[no].used /\ page'[no].data = d
      /\ \A m \in Pages \ {no} :
            page'[m].used = page[m].used /\ page'[m].data = page[m].data
  BY <1>1, <1>2, <1>6
<1>8. ContentInUse' = [ContentInUse EXCEPT ![no] = d]
  BY <1>2, <1>7, ContentAfter
<1>9. ContentInUse[no] # Absent
  BY <1>1, <1>2, ContentIs
<1>. HIDE DEF no
<1>. QED
  BY <1>2, <1>5, <1>8, <1>9 DEF File!Write

(* An operation that fails changes nothing the client can see.             *)
LEMMA FailStep ==
    ASSUME UNCHANGED <<page, copy>>
    PROVE  UNCHANGED <<ContentInUse, CopyHeld>>
  BY DEF ContentInUse, CopyHeld

LEMMA NextStep ==
    IInv /\ [Next]_vars => [File!Next]_<<ContentInUse, CopyHeld>>
<1>. SUFFICES ASSUME IInv, [Next]_vars
              PROVE  File!Next \/ UNCHANGED <<ContentInUse, CopyHeld>>
  OBVIOUS
<1>1. ASSUME NEW wanted, WalkFails(wanted)
      PROVE  UNCHANGED <<ContentInUse, CopyHeld>>
  BY <1>1, FailStep DEF WalkFails, Hang, Throw
<1>2. CASE AllocatePage
  BY <1>1, <1>2, ReuseHeadStep, ReuseAfterStep, GrowStep DEF AllocatePage, File!Next
<1>3. ASSUME NEW n \in Pages, DeletePage(n)
      PROVE  File!Next \/ UNCHANGED <<ContentInUse, CopyHeld>>
  <2>1. CASE DeleteHead(n)
    BY <2>1, DeleteHeadStep DEF File!Next
  <2>2. CASE DeleteAfter(n)
    BY <1>1, <2>2, DeleteAfterStep DEF File!Next
  <2>3. CASE DeleteRefused(n)
    BY <2>3, FailStep DEF DeleteRefused, Throw
  <2>. QED
    BY <1>3, <2>1, <2>2, <2>3 DEF DeletePage
<1>4. ASSUME NEW n \in Pages, ReadPage(n) PROVE File!Next
  BY <1>4, ReadStep DEF File!Next
<1>5. ASSUME NEW d \in Data, WritePage(d) PROVE File!Next
  BY <1>5, WriteStep DEF File!Next
<1>6. ASSUME \/ \E n \in Pages : ReadRefused(n)
             \/ WriteRefused
             \/ KeepWalking
             \/ UNCHANGED vars
      PROVE  UNCHANGED <<ContentInUse, CopyHeld>>
  BY <1>6, FailStep DEF ReadRefused, WriteRefused, Throw, KeepWalking, vars
<1>. QED
  BY <1>2, <1>3, <1>4, <1>5, <1>6 DEF Next

LEMMA InitStep == Init => File!Init
  BY DEF Init, File!Init, ContentInUse, CopyHeld, Blank

(* The file is a set of numbered pages of which only a write of a copy     *)
(* changes one, even where its used list is damaged: an allocation never   *)
(* hands out a page in use, a write reaches its page and no other, and a   *)
(* failing operation changes nothing.                                      *)
THEOREM ImplementsPagedFile == Spec => FileSpec
<1>1. Init => File!Init
  BY InitStep
<1>2. IInv /\ [Next]_vars => [File!Next]_<<ContentInUse, CopyHeld>>
  BY NextStep
<1>. QED
  BY <1>1, <1>2, Inductive, PTL DEF FileSpec, File!Spec, Spec
=============================================================================
