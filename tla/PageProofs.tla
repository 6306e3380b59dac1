----------------------------- MODULE PageProofs -----------------------------
(***************************************************************************)
(* Proofs about Page for a data area of any size and any records but the   *)
(* empty one: no space is lost or shared, the header's count of slots is   *)
(* exact, and every record keeps its number and its content.  An empty     *)
(* record has the offset of the record stored before it, which Below does  *)
(* not see: with one of them the theorems are false.                       *)
(*                                                                         *)
(* What has to be proved is that deleteRecord moves the right bytes.  How  *)
(* many it moves is a sum of lengths; LengthsCount says that such a sum is *)
(* the number of units that the items cover, and BelowIs that the items    *)
(* below a record cover all units from the upper bound to it.              *)
(***************************************************************************)
EXTENDS Page, FiniteSetTheorems, TLAPS

USE DataSizeAssumption, BytesAssumption, NoRecordAssumption, UnitsAssumption,
    CallsAfterAssumption
    DEF INVALID_SLOT

-----------------------------------------------------------------------------
(* Induction over the natural numbers.                                     *)

(* A set of numbers that is not empty has a least element: the intervals   *)
(* from 0 to its elements are finite sets, ordered by inclusion.           *)
LEMMA Least ==
    ASSUME NEW T, T \subseteq Nat, T # {}
    PROVE  \E x \in T : \A y \in T : x <= y
<1> DEFINE F == {0 .. x : x \in T}
<1>1. F \subseteq FiniteSubsetsOf(Nat) /\ F # {}
  <2>1. \A x \in T : IsFiniteSet(0 .. x) /\ 0 .. x \in SUBSET Nat
    BY FS_Interval
  <2>. QED
    BY <2>1 DEF FiniteSubsetsOf
<1>2. \E I \in F : \A J \in F : ~ (<<J, I>> \in StrictSubsetOrdering(Nat))
  <2>. HIDE DEF F
  <2>. QED
    BY <1>1, FS_StrictSubsetOrderingWellFounded, WFMin
<1>3. PICK x \in T : \A y \in T : ~ (<<0 .. y, 0 .. x>> \in StrictSubsetOrdering(Nat))
  BY <1>2
<1>4. ASSUME NEW y \in T PROVE x <= y
  <2>. SUFFICES ASSUME y < x PROVE FALSE
    OBVIOUS
  <2>1. 0 .. y \in SUBSET Nat /\ 0 .. x \in SUBSET Nat
    OBVIOUS
  <2>2. 0 .. y \subseteq 0 .. x /\ 0 .. y # 0 .. x
    <3>1. x \in 0 .. x /\ x \notin 0 .. y
      OBVIOUS
    <3>. QED
      BY <3>1
  <2>. QED
    BY <1>3, <2>1, <2>2 DEF StrictSubsetOrdering
<1>. QED
  BY <1>4

(* Min is the least element of a set of numbers.                           *)
LEMMA MinIs ==
    ASSUME NEW T, T \subseteq Nat, T # {}
    PROVE  Min(T) \in T /\ \A y \in T : Min(T) <= y
  BY Least DEF Min

(* A set of numbers with 0 and, up to k, the successor of each has them    *)
(* all up to k.                                                            *)
LEMMA Upwards ==
    ASSUME NEW S, NEW k \in Nat, 0 \in S,
           \A i \in 0 .. k - 1 : i \in S => i + 1 \in S
    PROVE  \A i \in 0 .. k : i \in S
<1> DEFINE T == (0 .. k) \ S
<1>1. SUFFICES ASSUME T # {} PROVE FALSE
  OBVIOUS
<1>2. PICK m \in T : \A y \in T : m <= y
  <2>1. T \subseteq Nat
    OBVIOUS
  <2>. HIDE DEF T
  <2>. QED
    BY <1>1, <2>1, Least
<1>3. m # 0 /\ m - 1 \in 0 .. k - 1 /\ m - 1 \notin T
  BY <1>2
<1>. QED
  BY <1>2, <1>3
-----------------------------------------------------------------------------
(* What was written as a slot is read as that slot.                        *)
LEMMA SlotIs ==
    ASSUME NEW d, NEW t, d[t - 1] \in PageSlot
    PROVE  getSlot(d, t) = d[t - 1]
<1>1. ~ (d[t - 1] \in Bytes) /\ d[t - 1] # Zero
  OBVIOUS
<1>. QED
  BY <1>1 DEF getSlot

-----------------------------------------------------------------------------
(* Sums of lengths.                                                        *)

(* The units of the item that slot s of the data area d describes.         *)
Span(d, s) == d[s - 1].item_offset ..
                d[s - 1].item_offset + d[s - 1].item_length - 1

(* add takes a set of slots to the sum of their lengths, if there are no   *)
(* more than n of them.                                                    *)
AddsUp(add, d, T, n) ==
    /\ DOMAIN add = SUBSET T
    /\ \A U \in SUBSET T : Cardinality(U) <= n =>
         add[U] = IF U = {} THEN 0
                  ELSE getSlot(d, CHOOSE x \in U : TRUE).item_length
                         + add[U \ {CHOOSE x \in U : TRUE}]

(* There is such a sum, for each number of slots.                          *)
LEMMA AddsUpExists ==
    ASSUME NEW d, NEW T, IsFiniteSet(T)
    PROVE  \E add : AddsUp(add, d, T, Cardinality(T))
<1> DEFINE Body(f) == [U \in SUBSET T |->
                         IF U = {} THEN 0
                         ELSE getSlot(d, CHOOSE x \in U : TRUE).item_length
                                + f[U \ {CHOOSE x \in U : TRUE}]]
           S == {n \in Nat : \E add : AddsUp(add, d, T, n)}
<1>1. 0 \in S
  <2> DEFINE add == [U \in SUBSET T |-> 0]
  <2>1. \A U \in SUBSET T : Cardinality(U) <= 0 => U = {}
    BY FS_Subset, FS_EmptySet, FS_CardinalityType
  <2>2. AddsUp(add, d, T, 0)
    BY <2>1 DEF AddsUp
  <2>. HIDE DEF add
  <2>. QED
    BY <2>2
<1>2. ASSUME NEW n \in Nat, n \in S
      PROVE  n + 1 \in S
  <2>1. PICK add : AddsUp(add, d, T, n)
    BY <1>2
  <2>2. ASSUME NEW U \in SUBSET T, Cardinality(U) <= n + 1, U # {}
        PROVE  LET x == CHOOSE y \in U : TRUE
                   V == U \ {x}
               IN  add[V] = Body(add)[V]
    <3> DEFINE x == CHOOSE y \in U : TRUE
               V == U \ {x}
    <3>1. x \in U
      BY <2>2
    <3>2. V \in SUBSET T /\ Cardinality(V) <= n
      BY <2>2, <3>1, FS_Subset, FS_RemoveElement, FS_CardinalityType
    <3>. HIDE DEF V
    <3>3. add[V] = Body(add)[V]
      BY <2>1, <3>2 DEF AddsUp
    <3>. QED
      BY <3>3 DEF V
  <2>3. AddsUp(Body(add), d, T, n + 1)
    <3>. SUFFICES ASSUME NEW U \in SUBSET T, Cardinality(U) <= n + 1
                  PROVE  Body(add)[U] =
                           IF U = {} THEN 0
                           ELSE getSlot(d, CHOOSE x \in U : TRUE).item_length
                                + Body(add)[U \ {CHOOSE x \in U : TRUE}]
      BY DEF AddsUp
    <3>1. CASE U = {}
      BY <3>1
    <3>2. CASE U # {}
      <4> DEFINE x == CHOOSE y \in U : TRUE
                 V == U \ {x}
      <4>1. Body(add)[U] = getSlot(d, x).item_length + add[V]
        BY <3>2
      <4>2. add[V] = Body(add)[V]
        BY <2>2, <3>2
      <4>. HIDE DEF Body
      <4>. QED
        BY <3>2, <4>1, <4>2
    <3>. QED
      BY <3>1, <3>2
  <2>. HIDE DEF Body
  <2>. QED
    BY <2>3
<1>3. Cardinality(T) \in S
  <2>1. Cardinality(T) \in Nat
    BY FS_CardinalityType
  <2>2. \A n \in 0 .. Cardinality(T) - 1 : n \in S => n + 1 \in S
    BY <1>2
  <2>. HIDE DEF S
  <2>3. \A n \in 0 .. Cardinality(T) : n \in S
    BY <1>1, <2>1, <2>2, Upwards
  <2>. QED
    BY <2>1, <2>3
<1>. QED
  BY <1>3

(* MapThenSumSet is such a sum.                                            *)
Lengths(d, T) == MapThenSumSet(LAMBDA t : getSlot(d, t).item_length, T)

(* It is what AddsUp describes.                                            *)
LEMMA LengthsIs ==
    ASSUME NEW d, NEW T, IsFiniteSet(T)
    PROVE  \E add : /\ AddsUp(add, d, T, Cardinality(T))
                    /\ Lengths(d, T) = add[T]
<1> DEFINE Body(f) == [U \in SUBSET T |->
                         IF U = {} THEN 0
                         ELSE getSlot(d, CHOOSE x \in U : TRUE).item_length
                                + f[U \ {CHOOSE x \in U : TRUE}]]
           f0 == CHOOSE f : f = Body(f)
<1>1. PICK add : AddsUp(add, d, T, Cardinality(T))
  BY AddsUpExists
<1> DEFINE add0 == [U \in SUBSET T |-> add[U]]
<1>2. add0 = Body(add0)
  <2>1. \A U \in SUBSET T : Cardinality(U) <= Cardinality(T)
    BY FS_Subset
  <2>2. \A U \in SUBSET T : add[U] = Body(add)[U]
    BY <1>1, <2>1 DEF AddsUp
  <2>3. \A U \in SUBSET T : U # {} =>
           add0[U \ {CHOOSE x \in U : TRUE}] = add[U \ {CHOOSE x \in U : TRUE}]
    OBVIOUS
  <2>. QED
    BY <2>2, <2>3
<1>3. f0 = Body(f0)
  <2>. HIDE DEF add0, Body
  <2>. QED
    BY <1>2
<1>4. AddsUp(f0, d, T, Cardinality(T))
  <2>. HIDE DEF f0
  <2>. QED
    BY <1>3 DEF AddsUp
<1>5. Lengths(d, T) = f0[T]
  BY DEF Lengths, MapThenSumSet, MapThenFoldSet
<1>. HIDE DEF f0
<1>. QED
  BY <1>4, <1>5

(* The lengths of items that do not overlap add up to the number of units  *)
(* they cover.                                                             *)
LEMMA LengthsCount ==
    ASSUME NEW d, NEW T, IsFiniteSet(T),
           \A t \in T : d[t - 1] \in PageSlot,
           \A s, t \in T : s # t => Span(d, s) \cap Span(d, t) = {}
    PROVE  Lengths(d, T) = Cardinality(UNION {Span(d, t) : t \in T})
<1> DEFINE Cover(U) == UNION {Span(d, t) : t \in U}
<1>1. PICK add : AddsUp(add, d, T, Cardinality(T)) /\ Lengths(d, T) = add[T]
  BY LengthsIs
<1> DEFINE S == {n \in Nat : \A U \in SUBSET T : Cardinality(U) <= n =>
                    IsFiniteSet(Cover(U)) /\ add[U] = Cardinality(Cover(U))}
<1>2. \A U \in SUBSET T : IsFiniteSet(U) /\ Cardinality(U) \in Nat
                            /\ Cardinality(U) <= Cardinality(T)
  BY FS_Subset, FS_CardinalityType
<1>3. \A U \in SUBSET T :
         add[U] = IF U = {} THEN 0
                  ELSE d[(CHOOSE x \in U : TRUE) - 1].item_length
                         + add[U \ {CHOOSE x \in U : TRUE}]
  <2>. TAKE U \in SUBSET T
  <2>1. add[U] = IF U = {} THEN 0
                 ELSE getSlot(d, CHOOSE x \in U : TRUE).item_length
                        + add[U \ {CHOOSE x \in U : TRUE}]
    BY <1>1, <1>2 DEF AddsUp
  <2>2. ASSUME U # {}
        PROVE  getSlot(d, CHOOSE x \in U : TRUE) = d[(CHOOSE x \in U : TRUE) - 1]
    <3> DEFINE x == CHOOSE y \in U : TRUE
    <3>1. x \in T
      BY <2>2
    <3>. HIDE DEF x
    <3>2. getSlot(d, x) = d[x - 1]
      BY <3>1, SlotIs
    <3>. QED
      BY <3>2 DEF x
  <2>. QED
    BY <2>1, <2>2
<1>4. \A t \in T : /\ IsFiniteSet(Span(d, t))
                   /\ Cardinality(Span(d, t)) = d[t - 1].item_length
                   /\ d[t - 1].item_length \in Nat
  <2>. TAKE t \in T
  <2> DEFINE a == d[t - 1].item_offset
             l == d[t - 1].item_length
  <2>1. a \in Nat /\ l \in Nat
    BY DEF PageSlot
  <2>2. Span(d, t) = a .. a + l - 1
    BY DEF Span
  <2>. HIDE DEF a, l
  <2>3. a \in Int /\ a + l - 1 \in Int
    BY <2>1
  <2>4. /\ IsFiniteSet(a .. a + l - 1)
        /\ Cardinality(a .. a + l - 1) = l
    <3>1. IF a > a + l - 1 THEN l = 0 ELSE (a + l - 1) - a + 1 = l
      BY <2>1
    <3>. QED
      BY <2>1, <2>3, <3>1, FS_Interval
  <2>. QED
    BY <2>1, <2>2, <2>4 DEF l
<1>5. add[{}] = 0 /\ Cover({}) = {}
  BY <1>3
<1>6. 0 \in S
  <2>1. \A U \in SUBSET T : Cardinality(U) <= 0 => U = {}
    BY <1>2, FS_EmptySet
  <2>. QED
    BY <1>5, <2>1, FS_EmptySet
<1>7. ASSUME NEW n \in Nat, n \in S, NEW U \in SUBSET T, Cardinality(U) <= n + 1
      PROVE  IsFiniteSet(Cover(U)) /\ add[U] = Cardinality(Cover(U))
  <2>1. CASE U = {}
    BY <1>5, <2>1, FS_EmptySet
  <2>2. CASE U # {}
    <3> DEFINE x == CHOOSE y \in U : TRUE
               V == U \ {x}
    <3>1. x \in U
      BY <2>2
    <3>2. V \in SUBSET T /\ Cardinality(V) <= n
      <4>1. Cardinality(V) = Cardinality(U) - 1
        <5>. HIDE DEF x
        <5>. QED
          BY <1>2, <3>1, FS_RemoveElement
      <4>. QED
        BY <1>2, <1>7, <4>1
    <3>3. add[U] = d[x - 1].item_length + add[V]
      BY <1>3, <2>2
    <3>4. IsFiniteSet(Cover(V)) /\ add[V] = Cardinality(Cover(V))
      <4>. HIDE DEF V, Cover
      <4>. QED
        BY <1>7, <3>2
    <3>5. Cover(U) = Span(d, x) \cup Cover(V)
      BY <3>1
    <3>6. Span(d, x) \cap Cover(V) = {}
      <4>1. \A t \in V : t \in T /\ t # x
        OBVIOUS
      <4>2. x \in T
        BY <3>1
      <4>. HIDE DEF x, V
      <4>. QED
        BY <4>1, <4>2
    <3>. HIDE DEF V, x, Cover
    <3>7. /\ IsFiniteSet(Cover(U))
          /\ Cardinality(Cover(U))
               = Cardinality(Span(d, x)) + Cardinality(Cover(V))
                   - Cardinality(Span(d, x) \cap Cover(V))
      BY <1>4, <3>1, <3>4, <3>5, FS_Union
    <3>8. Cardinality(Cover(V)) \in Nat /\ Cardinality(Span(d, x)) \in Nat
      BY <1>4, <3>1, <3>4, FS_CardinalityType
    <3>9. Cardinality(Span(d, x) \cap Cover(V)) = 0
      BY <3>6, FS_EmptySet
    <3>10. Cardinality(Cover(U)) = Cardinality(Span(d, x)) + Cardinality(Cover(V))
      BY <3>7, <3>8, <3>9
    <3>. QED
      BY <1>4, <3>1, <3>3, <3>4, <3>7, <3>10
  <2>. QED
    BY <2>1, <2>2
<1>8. Cardinality(T) \in S
  <2>1. \A n \in 0 .. Cardinality(T) - 1 : n \in S => n + 1 \in S
    <3>. TAKE n \in 0 .. Cardinality(T) - 1
    <3>1. n \in Nat /\ n + 1 \in Nat
      BY <1>2
    <3>. HIDE DEF Cover
    <3>. QED
      BY <1>7, <3>1
  <2>2. Cardinality(T) \in Nat
    BY <1>2
  <2>. HIDE DEF S
  <2>3. \A n \in 0 .. Cardinality(T) : n \in S
    BY <1>6, <2>1, <2>2, Upwards
  <2>. QED
    BY <2>2, <2>3
<1>. HIDE DEF Cover
<1>9. add[T] = Cardinality(Cover(T))
  BY <1>2, <1>8
<1>. QED
  BY <1>1, <1>9 DEF Cover

-----------------------------------------------------------------------------
(* A data area d whose array has n slots, of which those in U are used,    *)
(* and whose records lie from up to the end of the page.                   *)

Start(d, s) == d[s - 1].item_offset
Length(d, s) == d[s - 1].item_length

Text(d, s) == [i \in 1 .. Length(d, s) |-> d[Start(d, s) + i - 1]]

Laid(d, U, up) ==
    /\ \A s \in U : /\ d[s - 1] \in PageSlot
                    /\ Length(d, s) > 0
                    /\ up <= Start(d, s)
                    /\ Start(d, s) + Length(d, s) <= DATA_SIZE
    /\ UNION {Span(d, s) : s \in U} = up .. DATA_SIZE - 1
    /\ \A s, t \in U : s # t => Span(d, s) \cap Span(d, t) = {}

(* Above the array there are bytes of records or zeros, in the free space  *)
(* too, where records have been.                                           *)
PageOf(d, n, U, up) ==
    /\ DOMAIN d = Offsets
    /\ n \in Nat /\ up \in Nat /\ n <= up /\ up <= DATA_SIZE
    /\ U \subseteq 1 .. n
    /\ \A t \in (1 .. n) \ U : d[t - 1] = Zero
    /\ \A o \in n .. DATA_SIZE - 1 : d[o] \in Bytes \cup {Zero}
    /\ Laid(d, U, up)

(* An item of a data area in which the records are laid out.               *)
LEMMA ItemOf ==
    ASSUME NEW d, NEW U, NEW up \in Nat, Laid(d, U, up), NEW s \in U
    PROVE  /\ Start(d, s) \in Nat /\ Length(d, s) \in Nat
           /\ Length(d, s) > 0 /\ up <= Start(d, s)
           /\ Start(d, s) + Length(d, s) <= DATA_SIZE
           /\ d[s - 1] = [item_offset |-> Start(d, s), item_length |-> Length(d, s)]
           /\ \A o \in Int : o \in Span(d, s) <=>
                Start(d, s) <= o /\ o < Start(d, s) + Length(d, s)
<1>1. /\ d[s - 1] \in PageSlot /\ Length(d, s) > 0 /\ up <= Start(d, s)
      /\ Start(d, s) + Length(d, s) <= DATA_SIZE
  BY DEF Laid
<1>2. /\ Start(d, s) \in Nat /\ Length(d, s) \in Nat
      /\ d[s - 1] = [item_offset |-> Start(d, s), item_length |-> Length(d, s)]
  BY <1>1 DEF PageSlot, Start, Length
<1>3. Span(d, s) = Start(d, s) .. Start(d, s) + Length(d, s) - 1
  BY DEF Span, Start, Length
<1>. QED
  BY <1>1, <1>2, <1>3

(* Two items do not overlap: one of them ends where the other begins, or   *)
(* before.                                                                 *)
LEMMA Apart ==
    ASSUME NEW d, NEW U, NEW up \in Nat, Laid(d, U, up),
           NEW s \in U, NEW t \in U, s # t
    PROVE  \/ Start(d, s) + Length(d, s) <= Start(d, t)
           \/ Start(d, t) + Length(d, t) <= Start(d, s)
<1>1. Span(d, s) \cap Span(d, t) = {}
  BY DEF Laid
<1>2. /\ Start(d, s) \in Nat /\ Length(d, s) \in Nat /\ Length(d, s) > 0
      /\ \A o \in Int : o \in Span(d, s) <=>
           Start(d, s) <= o /\ o < Start(d, s) + Length(d, s)
  BY ItemOf
<1>3. /\ Start(d, t) \in Nat /\ Length(d, t) \in Nat /\ Length(d, t) > 0
      /\ \A o \in Int : o \in Span(d, t) <=>
           Start(d, t) <= o /\ o < Start(d, t) + Length(d, t)
  BY ItemOf
<1>4. ~ (Start(d, s) \in Span(d, t)) /\ ~ (Start(d, t) \in Span(d, s))
  <2>1. Start(d, s) \in Span(d, s) /\ Start(d, t) \in Span(d, t)
    BY <1>2, <1>3
  <2>. QED
    BY <1>1, <2>1
<1>. QED
  BY <1>2, <1>3, <1>4

-----------------------------------------------------------------------------
(* What deleteRecord does with the data area.                              *)

ThePage == PageOf(data, header.num_slots, UsedSlots, header.free_space_upper_bound)

(* The records below that of s. *)
Lower(s) == {t \in UsedSlots \ {s} : Start(data, t) < Start(data, s)}

(* The zeroed bytes are those of the record, and no slot's.                *)
LEMMA ErasedIs ==
    ASSUME ThePage, NEW s \in UsedSlots
    PROVE  /\ \A o \in Offsets :
                Erased(s)[o] =
                  IF o \in Start(data, s) .. Start(data, s) + Length(data, s) - 1
                  THEN Zero ELSE data[o]
           /\ \A t \in 1 .. header.num_slots : Erased(s)[t - 1] = data[t - 1]
           /\ \A t \in UsedSlots : /\ getSlot(data, t) = data[t - 1]
                                   /\ getSlot(Erased(s), t) = data[t - 1]
           /\ Below(Erased(s), s) = Lower(s)
<1> DEFINE up == header.free_space_upper_bound
           n == header.num_slots
           off == Start(data, s)
           len == Length(data, s)
           e == Erased(s)
<1>1. /\ up \in Nat /\ n \in Nat /\ n <= up /\ up <= DATA_SIZE
      /\ Laid(data, UsedSlots, up) /\ UsedSlots \subseteq 1 .. n
  BY DEF ThePage, PageOf
<1>2. off \in Nat /\ len \in Nat /\ up <= off
  BY <1>1, ItemOf
<1>3. \A t \in UsedSlots : data[t - 1] \in PageSlot
  BY <1>1 DEF Laid
<1>4. \A t \in UsedSlots : getSlot(data, t) = data[t - 1]
  BY <1>3, SlotIs
<1>5. \A o \in Offsets : e[o] = IF o \in off .. off + len - 1 THEN Zero ELSE data[o]
  BY <1>4 DEF Erased, Start, Length
<1>. HIDE DEF e, off, len, up, n
<1>6. \A t \in 1 .. n : e[t - 1] = data[t - 1]
  <2>. TAKE t \in 1 .. n
  <2>1. t - 1 \in Offsets /\ ~ (t - 1 \in off .. off + len - 1)
    BY <1>1, <1>2 DEF Offsets
  <2>. QED
    BY <1>5, <2>1
<1>7. \A t \in UsedSlots : e[t - 1] \in PageSlot
  BY <1>1, <1>3, <1>6
<1>8. \A t \in UsedSlots : getSlot(e, t) = data[t - 1]
  BY <1>1, <1>6, <1>7, SlotIs
<1>9. Below(e, s) = Lower(s)
  <2>1. Below(e, s) = {t \in 1 .. n : e[t - 1] # Zero
                         /\ getSlot(e, t).item_offset < getSlot(e, s).item_offset}
    BY DEF Below, IsUsed, n
  <2>2. UsedSlots = {t \in 1 .. n : data[t - 1] # Zero}
    BY DEF UsedSlots, IsUsed, n
  <2>3. \A t \in UsedSlots : getSlot(e, t).item_offset = Start(data, t)
    BY <1>8 DEF Start
  <2>4. Below(e, s) = {t \in UsedSlots : Start(data, t) < Start(data, s)}
    BY <1>6, <2>1, <2>2, <2>3
  <2>5. ~ (Start(data, s) < Start(data, s))
    BY <1>2 DEF off
  <2>. QED
    BY <2>4, <2>5 DEF Lower
<1>. QED
  BY <1>4, <1>5, <1>6, <1>8, <1>9 DEF e, off, len, n

(* The records below lie from the upper bound to the record of s.          *)
LEMMA BelowIs ==
    ASSUME ThePage, NEW s \in UsedSlots
    PROVE  /\ IsFiniteSet(Lower(s))
           /\ UNION {Span(data, t) : t \in Lower(s)}
                = header.free_space_upper_bound .. Start(data, s) - 1
<1> DEFINE up == header.free_space_upper_bound
           U == UsedSlots
<1>1. up \in Nat /\ Laid(data, U, up) /\ U \subseteq 1 .. header.num_slots
        /\ header.num_slots \in Nat
  BY DEF ThePage, PageOf
<1>2. Lower(s) = {t \in U \ {s} : Start(data, t) < Start(data, s)}
  BY DEF Lower
<1>3. IsFiniteSet(Lower(s))
  <2>1. IsFiniteSet(1 .. header.num_slots)
    <3>1. header.num_slots \in Int /\ 1 \in Int
      BY <1>1
    <3>. HIDE DEF U, up
    <3>. QED
      BY <3>1, FS_Interval
  <2>2. Lower(s) \in SUBSET (1 .. header.num_slots)
    BY <1>1, <1>2
  <2>. QED
    BY <2>1, <2>2, FS_Subset
<1>. HIDE DEF U
<1>4. /\ Start(data, s) \in Nat /\ Length(data, s) \in Nat /\ Length(data, s) > 0
      /\ Start(data, s) + Length(data, s) <= DATA_SIZE /\ up <= Start(data, s)
  BY <1>1, ItemOf DEF U
<1>. HIDE DEF up
<1>5. ASSUME NEW o \in up .. Start(data, s) - 1
      PROVE  \E t \in Lower(s) : o \in Span(data, t)
  <2>1. o \in up .. DATA_SIZE - 1 /\ o \in Int
    BY <1>1, <1>4
  <2>2. PICK t \in U : o \in Span(data, t)
    BY <1>1, <2>1 DEF Laid
  <2>3. /\ Start(data, t) \in Nat /\ Length(data, t) \in Nat
        /\ Start(data, t) <= o
    BY <1>1, <2>1, <2>2, ItemOf
  <2>4. Start(data, t) < Start(data, s)
    BY <1>4, <2>1, <2>3
  <2>. QED
    BY <1>2, <1>4, <2>2, <2>4
<1>6. ASSUME NEW t \in Lower(s), NEW o \in Span(data, t)
      PROVE  o \in up .. Start(data, s) - 1
  <2>1. t \in U /\ t # s /\ Start(data, t) < Start(data, s) /\ s \in U
    BY <1>2 DEF U
  <2>2. /\ Start(data, t) \in Nat /\ Length(data, t) \in Nat
        /\ up <= Start(data, t)
    BY <1>1, <2>1, ItemOf
  <2>3. Start(data, t) + Length(data, t) <= Start(data, s)
    BY <1>1, <1>4, <2>1, <2>2, Apart
  <2>4. o \in Start(data, t) .. Start(data, t) + Length(data, t) - 1
    BY DEF Span, Start, Length
  <2>. QED
    BY <1>1, <1>4, <2>2, <2>3, <2>4
<1>. QED
  BY <1>3, <1>5, <1>6 DEF up

(* How many bytes are moved, and from where.                               *)
LEMMA MoveIs ==
    ASSUME ThePage, NEW s \in UsedSlots
    PROVE  /\ BytesBelow(Erased(s), s)
                = Start(data, s) - header.free_space_upper_bound
           /\ LowestBelow(Erased(s), s) = header.free_space_upper_bound
<1> DEFINE up == header.free_space_upper_bound
           T == {Start(data, s)} \cup {Start(data, t) : t \in Lower(s)}
<1>1. up \in Nat /\ Laid(data, UsedSlots, up)
  BY DEF ThePage, PageOf
<1>2. Lower(s) \subseteq UsedSlots
  BY DEF Lower
<1>3. /\ Start(data, s) \in Nat /\ up <= Start(data, s)
  BY <1>1, ItemOf
<1>4. \A t \in Lower(s) : Start(data, t) \in Nat /\ up <= Start(data, t)
  BY <1>1, <1>2, ItemOf
<1>5. up \in T
  <2>1. CASE up = Start(data, s)
    BY <2>1
  <2>2. CASE up < Start(data, s)
    <3>1. up \in up .. Start(data, s) - 1
      BY <1>1, <1>3, <2>2
    <3>2. PICK t \in Lower(s) : up \in Span(data, t)
      BY <3>1, BelowIs
    <3>3. Start(data, t) <= up
      <4>1. \A o \in Int : o \in Span(data, t) => Start(data, t) <= o
        BY <1>1, <1>2, ItemOf
      <4>. QED
        BY <1>1, <3>2, <4>1
    <3>4. Start(data, t) = up
      BY <1>1, <1>4, <3>2, <3>3
    <3>. QED
      BY <3>2, <3>4
  <2>. QED
    BY <1>1, <1>3, <2>1, <2>2
<1>6. Min(T) = up
  <2>1. T \subseteq Nat /\ \A x \in T : up <= x
    BY <1>3, <1>4
  <2>. HIDE DEF T
  <2>. HIDE DEF up
  <2>2. Min(T) \in T /\ Min(T) <= up
    <3>1. T # {}
      BY <1>5
    <3>. QED
      BY <1>5, <2>1, <3>1, MinIs
  <2>3. Min(T) \in Nat /\ up <= Min(T)
    BY <2>1, <2>2
  <2>. QED
    BY <1>1, <2>2, <2>3
<1>7. Lengths(Erased(s), Lower(s)) = Cardinality(up .. Start(data, s) - 1)
  <2> DEFINE e == Erased(s)
  <2>1. \A t \in Lower(s) : data[t - 1] \in PageSlot /\ e[t - 1] = data[t - 1]
    <3>1. UsedSlots \subseteq 1 .. header.num_slots
      BY DEF ThePage, PageOf
    <3>. QED
      BY <1>1, <1>2, <3>1, ErasedIs DEF Laid
  <2>2. \A t \in Lower(s) : Span(e, t) = Span(data, t)
    BY <2>1 DEF Span
  <2>3. \A t, v \in Lower(s) : t # v => Span(data, t) \cap Span(data, v) = {}
    BY <1>1, <1>2 DEF Laid
  <2>. HIDE DEF e
  <2>4. \A t \in Lower(s) : e[t - 1] \in PageSlot
    BY <2>1
  <2>5. \A t, v \in Lower(s) : t # v => Span(e, t) \cap Span(e, v) = {}
    BY <2>2, <2>3
  <2>6. Lengths(e, Lower(s)) = Cardinality(UNION {Span(e, t) : t \in Lower(s)})
    BY <2>4, <2>5, BelowIs, LengthsCount
  <2>7. UNION {Span(e, t) : t \in Lower(s)} = UNION {Span(data, t) : t \in Lower(s)}
    BY <2>2
  <2>. QED
    BY <2>6, <2>7, BelowIs DEF e
<1>8. Cardinality(up .. Start(data, s) - 1) = Start(data, s) - up
  <2>. HIDE DEF up
  <2>1. Start(data, s) - 1 \in Int /\ up \in Int
    BY <1>1, <1>3
  <2>2. IF up > Start(data, s) - 1 THEN Start(data, s) - up = 0
        ELSE (Start(data, s) - 1) - up + 1 = Start(data, s) - up
    BY <1>1, <1>3
  <2>. QED
    BY <2>1, <2>2, FS_Interval
<1>9. T = {getSlot(Erased(s), s).item_offset}
            \cup {getSlot(Erased(s), t).item_offset : t \in Lower(s)}
  <2>1. \A t \in UsedSlots : getSlot(Erased(s), t).item_offset = Start(data, t)
    BY ErasedIs DEF Start
  <2>. QED
    BY <1>2, <2>1
<1>10. Below(Erased(s), s) = Lower(s)
  BY ErasedIs
<1>11. LowestBelow(Erased(s), s) = Min(T)
  BY <1>9, <1>10 DEF LowestBelow
<1>12. BytesBelow(Erased(s), s) = Lengths(Erased(s), Lower(s))
  BY <1>10 DEF BytesBelow, Lengths
<1>. HIDE DEF T, up
<1>. QED
  BY <1>6, <1>7, <1>8, <1>11, <1>12 DEF up

(* They stay in the page.                                                  *)
LEMMA InsideIs ==
    ASSUME ThePage, NEW s \in UsedSlots
    PROVE  StaysInside(s)
<1> DEFINE up  == header.free_space_upper_bound
           off == Start(data, s)
           len == Length(data, s)
<1>1. up \in Nat /\ Laid(data, UsedSlots, up)
  BY DEF ThePage, PageOf
<1>2. off \in Nat /\ len \in Nat /\ up <= off /\ off + len <= DATA_SIZE
  BY <1>1, ItemOf
<1>3. /\ getSlot(data, s).item_offset = off /\ getSlot(data, s).item_length = len
      /\ getSlot(Erased(s), s).item_length = len
  BY ErasedIs DEF Start, Length
<1>4. BytesBelow(Erased(s), s) = off - up /\ LowestBelow(Erased(s), s) = up
  BY MoveIs
<1>. HIDE DEF up, off, len
<1>. QED
  BY <1>1, <1>2, <1>3, <1>4 DEF StaysInside

(* Closed, unit by unit.                                                   *)
LEMMA ClosedIs ==
    ASSUME ThePage, NEW s \in UsedSlots
    PROVE  LET up  == header.free_space_upper_bound
               off == Start(data, s)
               len == Length(data, s)
           IN  /\ DOMAIN Closed(s) = Offsets
               /\ getSlot(Moved(s), s).item_length = len
               /\ \A o \in Offsets :
                    Closed(s)[o] =
                      IF o = s - 1 THEN Zero
                      ELSE IF o \in up + len .. off + len - 1 THEN data[o - len]
                      ELSE IF o + 1 \in Lower(s)
                      THEN [data[o] EXCEPT !.item_offset = @ + len]
                      ELSE IF o \in off .. off + len - 1 THEN Zero
                      ELSE data[o]
<1> DEFINE up    == header.free_space_upper_bound
           off   == Start(data, s)
           len   == Length(data, s)
           from  == LowestBelow(Erased(s), s)
           bytes == BytesBelow(Erased(s), s)
           zeroed == Erased(s)
           adjusted == Adjusted(s)
           moved == Moved(s)
<1>1. Closed(s) = [moved EXCEPT ![s - 1] = Zero]
  BY DEF Closed
<1>2. from = up /\ bytes = off - up
  BY MoveIs
<1>3. /\ up \in Nat /\ Laid(data, UsedSlots, up)
      /\ header.num_slots \in Nat /\ header.num_slots <= up
      /\ UsedSlots \subseteq 1 .. header.num_slots
  BY DEF ThePage, PageOf
<1>4. /\ off \in Nat /\ len \in Nat /\ len > 0 /\ up <= off
      /\ off + len <= DATA_SIZE
  BY <1>3, ItemOf
<1>5. s \in 1 .. header.num_slots /\ Lower(s) \subseteq 1 .. header.num_slots
  BY <1>3 DEF Lower
<1>. HIDE DEF from, bytes, off, len, up
<1>6. s - 1 \in Offsets
  BY <1>3, <1>4, <1>5 DEF Offsets
<1>7. \A o \in Offsets : o + 1 \in Lower(s) => o < up
  BY <1>3, <1>5 DEF Offsets
<1>8. ASSUME NEW o \in Offsets
      PROVE  adjusted[o] = IF o + 1 \in Lower(s)
                           THEN [data[o] EXCEPT !.item_offset = @ + len]
                           ELSE IF o \in off .. off + len - 1 THEN Zero
                           ELSE data[o]
  <2>1. o + 1 \in Lower(s) => zeroed[o] = data[o]
    <3>. SUFFICES ASSUME o + 1 \in Lower(s) PROVE zeroed[o] = data[o]
      OBVIOUS
    <3>1. o + 1 \in 1 .. header.num_slots /\ (o + 1) - 1 = o
      BY <1>5 DEF Offsets
    <3>. QED
      BY <3>1, ErasedIs
  <2>2. o + 1 \in Lower(s) => getSlot(zeroed, o + 1) = data[o]
    <3>1. (o + 1) - 1 = o
      BY DEF Offsets
    <3>2. o + 1 \in Lower(s) => o + 1 \in UsedSlots
      BY DEF Lower
    <3>3. o + 1 \in UsedSlots => getSlot(zeroed, o + 1) = data[(o + 1) - 1]
      BY ErasedIs
    <3>. QED
      BY <3>1, <3>2, <3>3
  <2>3. getSlot(zeroed, s).item_length = len
    BY ErasedIs DEF Length, len
  <2>4. zeroed[o] = IF o \in off .. off + len - 1 THEN Zero ELSE data[o]
    BY ErasedIs DEF off, len
  <2>5. adjusted[o] = IF o + 1 \in Lower(s)
                      THEN [getSlot(zeroed, o + 1) EXCEPT !.item_offset = @ + len]
                      ELSE zeroed[o]
    BY <2>3, ErasedIs DEF Adjusted
  <2>. HIDE DEF adjusted, zeroed
  <2>. QED
    BY <2>1, <2>2, <2>4, <2>5
<1>9. ASSUME NEW o \in up + len .. off + len - 1
      PROVE  o \in Offsets /\ o - len \in Offsets /\ adjusted[o - len] = data[o - len]
  <2>1. o \in Int /\ up + len <= o /\ o <= off + len - 1
    BY <1>3, <1>4
  <2>2. o \in Offsets /\ o - len \in Offsets /\ up <= o - len /\ o - len < off
    BY <1>3, <1>4, <2>1 DEF Offsets
  <2>3. ~ ((o - len) + 1 \in Lower(s)) /\ ~ (o - len \in off .. off + len - 1)
    BY <1>3, <1>4, <1>7, <2>2 DEF Offsets
  <2>. HIDE DEF adjusted
  <2>. QED
    BY <1>8, <2>2, <2>3
<1>10. from + len .. from + len + bytes - 1 = up + len .. off + len - 1
  BY <1>2, <1>3, <1>4
<1>11. DOMAIN moved = Offsets
  BY DEF Moved
<1>12. ASSUME NEW o \in Offsets
       PROVE  moved[o] = IF o \in up + len .. off + len - 1 THEN data[o - len]
                         ELSE adjusted[o]
  <2>1. getSlot(Erased(s), s).item_length = len
    BY ErasedIs DEF Length, len
  <2>2. moved[o] = IF o \in from + len .. from + len + bytes - 1
                   THEN adjusted[o - len] ELSE adjusted[o]
    BY <2>1 DEF Moved, from, bytes
  <2>. HIDE DEF adjusted, moved
  <2>. QED
    BY <1>9, <1>10, <2>2
<1>. HIDE DEF moved, adjusted
<1>13. DOMAIN Closed(s) = Offsets /\ Closed(s)[s - 1] = Zero
  BY <1>1, <1>6, <1>11
<1>14. ASSUME NEW o \in Offsets, o # s - 1 PROVE Closed(s)[o] = moved[o]
  BY <1>1, <1>11, <1>14
<1>15. ASSUME NEW o \in Offsets
       PROVE  Closed(s)[o] =
                IF o = s - 1 THEN Zero
                ELSE IF o \in up + len .. off + len - 1 THEN data[o - len]
                ELSE IF o + 1 \in Lower(s)
                THEN [data[o] EXCEPT !.item_offset = @ + len]
                ELSE IF o \in off .. off + len - 1 THEN Zero
                ELSE data[o]
  BY <1>8, <1>12, <1>13, <1>14
<1>16. moved[s - 1] = data[s - 1]
  <2>1. /\ ~ (s - 1 \in up + len .. off + len - 1)
        /\ ~ (s - 1 \in off .. off + len - 1)
    BY <1>3, <1>4, <1>5
  <2>2. ~ ((s - 1) + 1 \in Lower(s))
    <3>1. (s - 1) + 1 = s
      BY <1>5
    <3>. QED
      BY <3>1 DEF Lower
  <2>. QED
    BY <1>6, <1>8, <1>12, <2>1, <2>2
<1>17. getSlot(moved, s).item_length = len
  <2>1. data[s - 1] \in PageSlot
    BY <1>3 DEF Laid
  <2>2. getSlot(moved, s) = data[s - 1]
    BY <1>16, <2>1, SlotIs
  <2>. QED
    BY <2>2 DEF len, Length
<1>. QED
  BY <1>13, <1>15, <1>17 DEF up, off, len, moved

(* The hole is closed: the slots that are left describe their records, at  *)
(* the place where these now are.                                          *)
LEMMA ClosedPage ==
    ASSUME ThePage, NEW s \in UsedSlots
    PROVE  /\ PageOf(Closed(s), header.num_slots, UsedSlots \ {s},
                     header.free_space_upper_bound + Length(data, s))
           /\ \A t \in UsedSlots \ {s} : Text(Closed(s), t) = Text(data, t)
<1> DEFINE up  == header.free_space_upper_bound
           off == Start(data, s)
           len == Length(data, s)
           n   == header.num_slots
           U   == UsedSlots
           c   == Closed(s)
<1>1. /\ up \in Nat /\ Laid(data, U, up) /\ n \in Nat /\ n <= up
      /\ up <= DATA_SIZE /\ U \subseteq 1 .. n
      /\ \A t \in (1 .. n) \ U : data[t - 1] = Zero
      /\ \A o \in n .. DATA_SIZE - 1 : data[o] \in Bytes \cup {Zero}
  BY DEF ThePage, PageOf
<1>2. /\ off \in Nat /\ len \in Nat /\ len > 0 /\ up <= off
      /\ off + len <= DATA_SIZE
  BY <1>1, ItemOf
<1>3. DOMAIN c = Offsets
  BY ClosedIs
<1>4. ASSUME NEW o \in Offsets
      PROVE  c[o] = IF o = s - 1 THEN Zero
                    ELSE IF o \in up + len .. off + len - 1 THEN data[o - len]
                    ELSE IF o + 1 \in Lower(s)
                    THEN [data[o] EXCEPT !.item_offset = @ + len]
                    ELSE IF o \in off .. off + len - 1 THEN Zero
                    ELSE data[o]
  BY ClosedIs
<1>5. Lower(s) = {t \in U \ {s} : Start(data, t) < off}
  BY DEF Lower
<1>6. s \in U
  OBVIOUS
<1>. HIDE DEF c, U, n, up, off, len
<1>7. Lower(s) \subseteq U /\ s \in 1 .. n /\ U \subseteq Int
  BY <1>1, <1>5, <1>6
<1>8. ASSUME NEW t \in 1 .. n
      PROVE  /\ t - 1 \in Offsets
             /\ c[t - 1] = IF t = s THEN Zero
                           ELSE IF t \in Lower(s)
                           THEN [data[t - 1] EXCEPT !.item_offset = @ + len]
                           ELSE data[t - 1]
  <2>1. /\ t \in Int /\ t - 1 \in Offsets /\ t - 1 < up /\ (t - 1) + 1 = t
        /\ s \in Int
    BY <1>1, <1>7 DEF Offsets
  <2>2. ~ (t - 1 \in up + len .. off + len - 1) /\ ~ (t - 1 \in off .. off + len - 1)
    BY <1>1, <1>2, <2>1
  <2>3. t - 1 = s - 1 <=> t = s
    BY <2>1
  <2>. QED
    BY <1>4, <2>1, <2>2, <2>3
<1>9. ASSUME NEW o \in n .. DATA_SIZE - 1
      PROVE  /\ o \in Offsets
             /\ c[o] = IF o \in up + len .. off + len - 1 THEN data[o - len]
                       ELSE IF o \in off .. off + len - 1 THEN Zero
                       ELSE data[o]
  <2>1. o \in Offsets /\ o # s - 1 /\ ~ (o + 1 \in Lower(s))
    BY <1>1, <1>7 DEF Offsets
  <2>. QED
    BY <1>4, <2>1
(* Where the records are.                                                  *)
<1>10. ASSUME NEW t \in U \ {s}
       PROVE  /\ c[t - 1] \in PageSlot
              /\ Length(c, t) = Length(data, t)
              /\ Start(c, t) = IF Start(data, t) < off THEN Start(data, t) + len
                               ELSE Start(data, t)
              /\ Start(data, t) < off => Start(data, t) + Length(data, t) <= off
              /\ ~ (Start(data, t) < off) => off + len <= Start(data, t)
              /\ Start(data, t) \in Nat /\ Length(data, t) \in Nat
              /\ Length(data, t) > 0
              /\ up <= Start(data, t)
              /\ Start(data, t) + Length(data, t) <= DATA_SIZE
  <2>1. /\ Start(data, t) \in Nat /\ Length(data, t) \in Nat
        /\ Length(data, t) > 0 /\ up <= Start(data, t)
        /\ Start(data, t) + Length(data, t) <= DATA_SIZE
        /\ data[t - 1] = [item_offset |-> Start(data, t),
                          item_length |-> Length(data, t)]
    BY <1>1, ItemOf
  <2>2. \/ off + len <= Start(data, t)
        \/ Start(data, t) + Length(data, t) <= off
    BY <1>1, <1>6, Apart DEF off, len
  <2>3. /\ Start(data, t) < off => Start(data, t) + Length(data, t) <= off
        /\ ~ (Start(data, t) < off) => off + len <= Start(data, t)
    BY <1>2, <2>1, <2>2
  <2>4. t \in 1 .. n /\ t # s
    BY <1>1
  <2>5. CASE Start(data, t) < off
    <3>1. t \in Lower(s)
      BY <1>5, <2>5
    <3>2. c[t - 1] = [item_offset |-> Start(data, t) + len,
                      item_length |-> Length(data, t)]
      BY <1>8, <2>1, <2>4, <3>1
    <3>3. Start(data, t) + len \in 0 .. DATA_SIZE /\ Length(data, t) \in 0 .. DATA_SIZE
      BY <1>2, <2>1, <2>3, <2>5
    <3>. QED
      BY <2>1, <2>3, <2>5, <3>2, <3>3 DEF PageSlot, Start, Length
  <2>6. CASE ~ (Start(data, t) < off)
    <3>1. t \notin Lower(s)
      BY <1>5, <2>6
    <3>2. c[t - 1] = data[t - 1]
      BY <1>8, <2>4, <3>1
    <3>. QED
      BY <1>1, <2>1, <2>3, <2>6, <3>2 DEF Laid, Start, Length
  <2>. QED
    BY <2>5, <2>6
<1>11. ASSUME NEW t \in U \ {s}, NEW o \in Int
       PROVE  /\ o \in Span(c, t) <=>
                   Start(c, t) <= o /\ o < Start(c, t) + Length(c, t)
              /\ o \in Span(data, t) <=>
                   Start(data, t) <= o /\ o < Start(data, t) + Length(data, t)
  <2>1. Start(c, t) \in Int /\ Length(c, t) \in Int
    BY <1>2, <1>10
  <2>2. Start(data, t) \in Int /\ Length(data, t) \in Int
    BY <1>10
  <2>3. /\ Span(c, t) = Start(c, t) .. Start(c, t) + Length(c, t) - 1
        /\ Span(data, t) = Start(data, t) .. Start(data, t) + Length(data, t) - 1
    BY DEF Span, Start, Length
  <2>. QED
    BY <2>1, <2>2, <2>3
<1>12. Laid(c, U \ {s}, up + len)
  <2>1. ASSUME NEW t \in U \ {s}
        PROVE  /\ c[t - 1] \in PageSlot
               /\ Length(c, t) > 0
               /\ up + len <= Start(c, t)
               /\ Start(c, t) + Length(c, t) <= DATA_SIZE
    <3>1. c[t - 1] \in PageSlot /\ Length(c, t) > 0
      BY <1>10
    <3>2. /\ Length(c, t) = Length(data, t)
          /\ Start(c, t) = IF Start(data, t) < off THEN Start(data, t) + len
                           ELSE Start(data, t)
          /\ Start(data, t) < off => Start(data, t) + Length(data, t) <= off
          /\ ~ (Start(data, t) < off) => off + len <= Start(data, t)
          /\ Start(data, t) \in Nat /\ Length(data, t) \in Nat
          /\ up <= Start(data, t)
          /\ Start(data, t) + Length(data, t) <= DATA_SIZE
      BY <1>10
    <3>3. CASE Start(data, t) < off
      BY <1>1, <1>2, <3>1, <3>2, <3>3
    <3>4. CASE ~ (Start(data, t) < off)
      BY <1>1, <1>2, <3>1, <3>2, <3>4
    <3>. QED
      BY <3>3, <3>4
  <2>2. ASSUME NEW t \in U \ {s}, NEW o \in Span(c, t)
        PROVE  o \in up + len .. DATA_SIZE - 1
    <3>1. o \in Int
      BY DEF Span
    <3>2. Start(c, t) <= o /\ o < Start(c, t) + Length(c, t)
      BY <1>11, <3>1
    <3>3. Start(c, t) \in Int /\ Length(c, t) \in Int
      BY <1>2, <1>10
    <3>4. up + len <= Start(c, t) /\ Start(c, t) + Length(c, t) <= DATA_SIZE
      BY <2>1
    <3>. QED
      BY <1>1, <1>2, <3>1, <3>2, <3>3, <3>4
  <2>3. ASSUME NEW o \in up + len .. DATA_SIZE - 1
        PROVE  \E t \in U \ {s} : o \in Span(c, t)
    <3>1. o \in Int /\ up + len <= o /\ o < DATA_SIZE
      BY <1>1, <1>2
    <3>2. \A q \in up .. DATA_SIZE - 1 : \E t \in U : q \in Span(data, t)
      BY <1>1 DEF Laid
    <3>3. \A q \in Int : q \in Span(data, s) <=> off <= q /\ q < off + len
      BY <1>1, <1>6, ItemOf DEF off, len
    <3>4. CASE o < off + len
      <4>1. o - len \in up .. DATA_SIZE - 1 /\ o - len \in Int /\ o - len < off
        BY <1>1, <1>2, <3>1, <3>4
      <4>2. PICK t \in U : o - len \in Span(data, t)
        BY <3>2, <4>1
      <4>3. t # s
        BY <3>3, <4>1, <4>2, <1>2
      <4>4. Start(data, t) <= o - len /\ o - len < Start(data, t) + Length(data, t)
        BY <1>11, <4>1, <4>2, <4>3
      <4>5. o \in Span(c, t)
        BY <1>2, <1>10, <1>11, <3>1, <4>1, <4>3, <4>4
      <4>. QED
        BY <4>3, <4>5
    <3>5. CASE off + len <= o
      <4>1. o \in up .. DATA_SIZE - 1
        BY <1>1, <1>2, <3>1
      <4>2. PICK t \in U : o \in Span(data, t)
        BY <3>2, <4>1
      <4>3. t # s
        BY <3>1, <3>3, <3>5, <4>2, <1>2
      <4>4. Start(data, t) <= o /\ o < Start(data, t) + Length(data, t)
        BY <1>11, <3>1, <4>2, <4>3
      <4>5. o \in Span(c, t)
        BY <1>2, <1>10, <1>11, <3>1, <3>5, <4>3, <4>4
      <4>. QED
        BY <4>3, <4>5
    <3>. QED
      BY <1>2, <3>1, <3>4, <3>5
  <2>4. ASSUME NEW t \in U \ {s}, NEW v \in U \ {s}, t # v,
               NEW o \in Span(c, t), o \in Span(c, v)
        PROVE  FALSE
    <3>1. o \in Int
      BY DEF Span
    <3>2. /\ Start(c, t) <= o /\ o < Start(c, t) + Length(c, t)
          /\ Start(c, v) <= o /\ o < Start(c, v) + Length(c, v)
      BY <1>11, <2>4, <3>1
    <3>3. \/ Start(data, t) + Length(data, t) <= Start(data, v)
          \/ Start(data, v) + Length(data, v) <= Start(data, t)
      BY <1>1, <2>4, Apart
    <3>4. /\ Start(c, t) = IF Start(data, t) < off THEN Start(data, t) + len
                           ELSE Start(data, t)
          /\ Length(c, t) = Length(data, t)
          /\ Start(data, t) < off => Start(data, t) + Length(data, t) <= off
          /\ ~ (Start(data, t) < off) => off + len <= Start(data, t)
          /\ Start(data, t) \in Nat /\ Length(data, t) \in Nat
          /\ Length(data, t) > 0
      BY <1>10
    <3>5. /\ Start(c, v) = IF Start(data, v) < off THEN Start(data, v) + len
                           ELSE Start(data, v)
          /\ Length(c, v) = Length(data, v)
          /\ Start(data, v) < off => Start(data, v) + Length(data, v) <= off
          /\ ~ (Start(data, v) < off) => off + len <= Start(data, v)
          /\ Start(data, v) \in Nat /\ Length(data, v) \in Nat
          /\ Length(data, v) > 0
      BY <1>10
    <3>. QED
      BY <1>2, <3>1, <3>2, <3>3, <3>4, <3>5
  <2>5. UNION {Span(c, t) : t \in U \ {s}} = up + len .. DATA_SIZE - 1
    BY <2>2, <2>3
  <2>6. \A t, v \in U \ {s} : t # v => Span(c, t) \cap Span(c, v) = {}
    BY <2>4
  <2>. QED
    BY <2>1, <2>5, <2>6 DEF Laid
<1>13. ASSUME NEW t \in U \ {s} PROVE Text(c, t) = Text(data, t)
  <2>1. ASSUME NEW i \in 1 .. Length(data, t)
        PROVE  c[Start(c, t) + i - 1] = data[Start(data, t) + i - 1]
    <3> DEFINE o == Start(data, t) + i - 1
    <3>1. /\ Start(data, t) \in Nat /\ Length(data, t) \in Nat /\ i \in Nat
          /\ 1 <= i /\ i <= Length(data, t) /\ up <= Start(data, t)
          /\ Start(data, t) + Length(data, t) <= DATA_SIZE
      BY <1>10
    <3>2. CASE Start(data, t) < off
      <4>1. /\ Start(c, t) + i - 1 = o + len
            /\ Start(data, t) + Length(data, t) <= off
        BY <1>2, <1>10, <3>1, <3>2
      <4>2. /\ o + len \in n .. DATA_SIZE - 1
            /\ o + len \in up + len .. off + len - 1
            /\ (o + len) - len = o
        BY <1>1, <1>2, <3>1, <4>1
      <4>. HIDE DEF o
      <4>3. c[o + len] = data[o]
        BY <1>9, <4>2
      <4>. QED
        BY <4>1, <4>3 DEF o
    <3>3. CASE ~ (Start(data, t) < off)
      <4>1. Start(c, t) + i - 1 = o /\ off + len <= Start(data, t)
        BY <1>2, <1>10, <3>1, <3>3
      <4>2. /\ o \in n .. DATA_SIZE - 1
            /\ ~ (o \in up + len .. off + len - 1)
            /\ ~ (o \in off .. off + len - 1)
        BY <1>1, <1>2, <3>1, <4>1
      <4>. HIDE DEF o
      <4>3. c[o] = data[o]
        BY <1>9, <4>2
      <4>. QED
        BY <4>1, <4>3 DEF o
    <3>. QED
      BY <3>2, <3>3
  <2>2. Length(c, t) = Length(data, t)
    BY <1>10
  <2>. QED
    BY <2>1, <2>2 DEF Text
<1>14. ASSUME NEW t \in (1 .. n) \ (U \ {s}) PROVE c[t - 1] = Zero
  BY <1>1, <1>7, <1>8
<1>15. ASSUME NEW o \in n .. DATA_SIZE - 1 PROVE c[o] \in Bytes \cup {Zero}
  <2>1. CASE o \in up + len .. off + len - 1
    <3>1. o - len \in n .. DATA_SIZE - 1
      BY <1>1, <1>2, <2>1
    <3>. QED
      BY <1>1, <1>9, <2>1, <3>1
  <2>2. CASE ~ (o \in up + len .. off + len - 1)
    BY <1>1, <1>9, <2>2
  <2>. QED
    BY <2>1, <2>2
<1>16. /\ up + len \in Nat /\ n <= up + len /\ up + len <= DATA_SIZE
       /\ U \ {s} \subseteq 1 .. n
  <2>1. /\ up + len \in Nat /\ n <= up + len /\ up + len <= DATA_SIZE
    BY <1>1, <1>2
  <2>2. U \ {s} \subseteq 1 .. n
    BY <1>1
  <2>. QED
    BY <2>1, <2>2
<1>17. PageOf(c, n, U \ {s}, up + len)
  BY <1>1, <1>3, <1>12, <1>14, <1>15, <1>16 DEF PageOf
<1>. QED
  BY <1>13, <1>17 DEF c, U, n, up, len

-----------------------------------------------------------------------------
(* What the other parts of the operations do with a page.                  *)

(* The used slots are those whose bytes are not zero.                      *)
LEMMA UsedOf ==
    ASSUME NEW d, NEW n, NEW U, NEW up, PageOf(d, n, U, up)
    PROVE  U = {t \in 1 .. n : d[t - 1] # Zero}
<1>1. U \subseteq 1 .. n /\ \A t \in (1 .. n) \ U : d[t - 1] = Zero
  BY DEF PageOf
<1>2. \A t \in U : d[t - 1] \in PageSlot
  BY DEF PageOf, Laid
<1>3. Zero \notin PageSlot
  OBVIOUS
<1>4. \A t \in U : t \in 1 .. n /\ d[t - 1] # Zero
  BY <1>1, <1>2, <1>3
<1>5. \A t \in 1 .. n : d[t - 1] # Zero => t \in U
  BY <1>1
<1>. QED
  BY <1>4, <1>5

(* Unused slots at the end of the array may be given up...                 *)
LEMMA Shorter ==
    ASSUME NEW d, NEW n, NEW U, NEW up, PageOf(d, n, U, up),
           NEW m \in 0 .. n, U \subseteq 1 .. m
    PROVE  PageOf(d, m, U, up)
<1>1. /\ DOMAIN d = Offsets
      /\ n \in Nat /\ up \in Nat /\ n <= up /\ up <= DATA_SIZE
      /\ \A t \in (1 .. n) \ U : d[t - 1] = Zero
      /\ \A o \in n .. DATA_SIZE - 1 : d[o] \in Bytes \cup {Zero}
      /\ Laid(d, U, up)
  BY DEF PageOf
<1>2. m \in Nat /\ m <= up
  BY <1>1
<1>3. \A t \in (1 .. m) \ U : d[t - 1] = Zero
  BY <1>1
<1>4. ASSUME NEW o \in m .. DATA_SIZE - 1 PROVE d[o] \in Bytes \cup {Zero}
  <2>1. CASE o < n
    <3>1. o + 1 \in (1 .. n) \ U /\ (o + 1) - 1 = o
      BY <1>1, <1>2, <2>1
    <3>. QED
      BY <1>1, <3>1
  <2>2. CASE n <= o
    BY <1>1, <1>2, <2>2
  <2>. QED
    BY <1>1, <1>2, <2>1, <2>2
<1>. QED
  BY <1>1, <1>2, <1>3, <1>4 DEF PageOf

(* ... and a zero behind the array may become a slot.                      *)
LEMMA Longer ==
    ASSUME NEW d, NEW n, NEW U, NEW up, PageOf(d, n, U, up),
           n < up, d[n] = Zero
    PROVE  PageOf(d, n + 1, U, up)
<1>1. /\ DOMAIN d = Offsets
      /\ n \in Nat /\ up \in Nat /\ n <= up /\ up <= DATA_SIZE
      /\ U \subseteq 1 .. n
      /\ \A t \in (1 .. n) \ U : d[t - 1] = Zero
      /\ \A o \in n .. DATA_SIZE - 1 : d[o] \in Bytes \cup {Zero}
      /\ Laid(d, U, up)
  BY DEF PageOf
<1>2. ASSUME NEW t \in (1 .. n + 1) \ U PROVE d[t - 1] = Zero
  <2>1. CASE t = n + 1
    <3>1. t - 1 = n
      BY <1>1, <2>1
    <3>. QED
      BY <3>1
  <2>2. CASE t # n + 1
    <3>1. t \in (1 .. n) \ U
      BY <1>1, <2>2
    <3>. QED
      BY <1>1, <3>1
  <2>. QED
    BY <2>1, <2>2
<1>3. \A o \in n + 1 .. DATA_SIZE - 1 : o \in n .. DATA_SIZE - 1
  BY <1>1
<1>4. n + 1 \in Nat /\ n + 1 <= up /\ U \subseteq 1 .. n + 1
  BY <1>1
<1>. QED
  BY <1>1, <1>2, <1>3, <1>4 DEF PageOf

(* In the data area e, slot s holds the record r; the others are as in d.  *)
Added(d, e, n, U, up, s, r) ==
    /\ PageOf(e, n, U \cup {s}, up - Len(r))
    /\ Text(e, s) = r
    /\ \A t \in U : Text(e, t) = Text(d, t)

(* A record is put below the others and its slot filled in.                *)
LEMMA StoredPage ==
    ASSUME NEW d, NEW n, NEW U, NEW h, NEW up, up = h.free_space_upper_bound,
           PageOf(d, n, U, up), NEW s, s \in 1 .. n, s \notin U,
           NEW r \in Records, r # <<>>, Len(r) <= up - n
    PROVE  Added(d, Stored(d, h, s, r), n, U, up, s, r)
<1> DEFINE len == Len(r)
           off == up - len
           e == Stored(d, h, s, r)
<1>1. /\ DOMAIN d = Offsets
      /\ n \in Nat /\ up \in Nat /\ n <= up /\ up <= DATA_SIZE
      /\ U \subseteq 1 .. n
      /\ \A t \in (1 .. n) \ U : d[t - 1] = Zero
      /\ \A o \in n .. DATA_SIZE - 1 : d[o] \in Bytes \cup {Zero}
      /\ Laid(d, U, up)
  BY DEF PageOf
<1>2. /\ r \in Seq(Bytes) /\ len \in Nat /\ len > 0 /\ DOMAIN r = 1 .. len
      /\ r = [i \in 1 .. len |-> r[i]]
      /\ \A i \in 1 .. len : r[i] \in Bytes
  BY DEF len
<1>3. /\ DOMAIN e = Offsets
      /\ \A o \in Offsets :
           e[o] = IF o \in off .. up - 1 THEN r[o - off + 1]
                  ELSE IF o = s - 1
                  THEN [item_offset |-> off, item_length |-> len]
                  ELSE d[o]
  <2>1. off + len - 1 = up - 1
    BY <1>1, <1>2
  <2>. QED
    BY <2>1 DEF Stored
<1>4. len <= up - n
  OBVIOUS
<1>. HIDE DEF len, e
<1>5. off \in Nat /\ n <= off /\ off < up /\ off + len = up
  BY <1>1, <1>2, <1>4
<1>. HIDE DEF off
<1>0. /\ n \in Nat /\ off \in Nat /\ len \in Nat /\ up \in Nat /\ n <= off
      /\ off + len = up /\ up <= DATA_SIZE
  BY <1>1, <1>2, <1>5
<1>6. s \in Int /\ 1 <= s /\ s <= n /\ s \notin U
  BY <1>1
<1>7. e[s - 1] = [item_offset |-> off, item_length |-> len]
  <2>1. s - 1 \in Offsets /\ ~ (s - 1 \in off .. up - 1)
    BY <1>1, <1>5, <1>6 DEF Offsets
  <2>. QED
    BY <1>3, <2>1
<1>8. ASSUME NEW t \in 1 .. n, t # s PROVE e[t - 1] = d[t - 1]
  <2>1. t - 1 \in Offsets /\ t - 1 # s - 1 /\ ~ (t - 1 \in off .. up - 1)
    BY <1>1, <1>5, <1>6, <1>8 DEF Offsets
  <2>. QED
    BY <1>3, <2>1
<1>9. ASSUME NEW o \in n .. DATA_SIZE - 1
      PROVE  e[o] = IF o \in off .. up - 1 THEN r[o - off + 1] ELSE d[o]
  <2>1. o \in Offsets /\ o # s - 1
    BY <1>1, <1>6 DEF Offsets
  <2>. QED
    BY <1>3, <2>1
<1>10. ASSUME NEW t \in U
       PROVE  /\ Start(e, t) = Start(d, t) /\ Length(e, t) = Length(d, t)
              /\ Span(e, t) = Span(d, t) /\ e[t - 1] = d[t - 1]
              /\ Start(d, t) \in Nat /\ Length(d, t) \in Nat
              /\ Length(d, t) > 0 /\ up <= Start(d, t)
              /\ Start(d, t) + Length(d, t) <= DATA_SIZE
              /\ d[t - 1] \in PageSlot
  <2>1. e[t - 1] = d[t - 1]
    BY <1>1, <1>6, <1>8
  <2>2. /\ Start(d, t) \in Nat /\ Length(d, t) \in Nat
        /\ Length(d, t) > 0 /\ up <= Start(d, t)
        /\ Start(d, t) + Length(d, t) <= DATA_SIZE
    BY <1>1, ItemOf
  <2>3. d[t - 1] \in PageSlot
    BY <1>1 DEF Laid
  <2>. QED
    BY <2>1, <2>2, <2>3 DEF Start, Length, Span
<1>11. Start(e, s) = off /\ Length(e, s) = len /\ Span(e, s) = off .. up - 1
  <2>1. Start(e, s) = off /\ Length(e, s) = len
    BY <1>7 DEF Start, Length
  <2>2. Span(e, s) = off .. off + len - 1
    BY <1>7 DEF Span
  <2>3. off + len - 1 = up - 1
    BY <1>1, <1>2, <1>5
  <2>. QED
    BY <2>1, <2>2, <2>3
<1>12. e[s - 1] \in PageSlot
  <2>1. off \in 0 .. DATA_SIZE /\ len \in 0 .. DATA_SIZE
    BY <1>1, <1>2, <1>5
  <2>. QED
    BY <1>7, <2>1 DEF PageSlot
<1>13. Laid(e, U \cup {s}, off)
  <2>1. ASSUME NEW t \in U \cup {s}
        PROVE  /\ e[t - 1] \in PageSlot /\ Length(e, t) > 0
               /\ off <= Start(e, t)
               /\ Start(e, t) + Length(e, t) <= DATA_SIZE
    <3>1. CASE t = s
      BY <1>1, <1>2, <1>5, <1>11, <1>12, <3>1
    <3>2. CASE t \in U
      <4>1. /\ Start(e, t) = Start(d, t) /\ Length(e, t) = Length(d, t)
            /\ e[t - 1] \in PageSlot
        BY <1>10, <3>2
      <4>2. /\ Start(d, t) \in Nat /\ Length(d, t) \in Nat
            /\ Length(d, t) > 0 /\ up <= Start(d, t)
            /\ Start(d, t) + Length(d, t) <= DATA_SIZE
        BY <1>10, <3>2
      <4>. QED
        BY <1>1, <1>5, <4>1, <4>2
    <3>. QED
      BY <3>1, <3>2
  <2>2. UNION {Span(e, t) : t \in U \cup {s}}
          = (UNION {Span(d, t) : t \in U}) \cup (off .. up - 1)
    BY <1>10, <1>11
  <2>3. UNION {Span(d, t) : t \in U} = up .. DATA_SIZE - 1
    BY <1>1 DEF Laid
  <2>4. (up .. DATA_SIZE - 1) \cup (off .. up - 1) = off .. DATA_SIZE - 1
    BY <1>1, <1>5
  <2>5. \A t \in U : Span(e, t) \cap Span(e, s) = {}
    <3>1. \A t \in U : Span(d, t) \subseteq up .. DATA_SIZE - 1
      BY <2>3
    <3>2. (up .. DATA_SIZE - 1) \cap (off .. up - 1) = {}
      BY <1>1, <1>5
    <3>. QED
      BY <1>10, <1>11, <3>1, <3>2
  <2>6. \A t, v \in U : t # v => Span(e, t) \cap Span(e, v) = {}
    <3>1. \A t, v \in U : t # v => Span(d, t) \cap Span(d, v) = {}
      BY <1>1 DEF Laid
    <3>. QED
      BY <1>10, <3>1
  <2>7. \A t, v \in U \cup {s} : t # v => Span(e, t) \cap Span(e, v) = {}
    BY <2>5, <2>6
  <2>8. UNION {Span(e, t) : t \in U \cup {s}} = off .. DATA_SIZE - 1
    BY <2>2, <2>3, <2>4
  <2>. QED
    BY <2>1, <2>7, <2>8 DEF Laid
<1>14. \A t \in (1 .. n) \ (U \cup {s}) : e[t - 1] = Zero
  BY <1>1, <1>8
<1>15. ASSUME NEW o \in n .. DATA_SIZE - 1 PROVE e[o] \in Bytes \cup {Zero}
  <2>1. CASE o \in off .. up - 1
    <3>1. o - off + 1 \in 1 .. len
      BY <1>0, <2>1
    <3>. QED
      BY <1>2, <1>9, <2>1, <3>1
  <2>2. CASE ~ (o \in off .. up - 1)
    <3>1. e[o] = d[o]
      BY <1>9, <2>2
    <3>. QED
      BY <1>1, <3>1
  <2>. QED
    BY <2>1, <2>2
<1>16. PageOf(e, n, U \cup {s}, off)
  <2>1. off <= DATA_SIZE /\ U \cup {s} \subseteq 1 .. n
    <3>1. off <= DATA_SIZE
      BY <1>1, <1>5
    <3>2. U \cup {s} \subseteq 1 .. n
      BY <1>1
    <3>. QED
      BY <3>1, <3>2
  <2>. QED
    BY <1>1, <1>3, <1>5, <1>13, <1>14, <1>15, <2>1 DEF PageOf
<1>17. Text(e, s) = r
  <2>1. ASSUME NEW i \in 1 .. len PROVE e[off + i - 1] = r[i]
    <3>1. /\ off + i - 1 \in n .. DATA_SIZE - 1 /\ off + i - 1 \in off .. up - 1
          /\ (off + i - 1) - off + 1 = i
      BY <1>0
    <3>. QED
      BY <1>9, <3>1
  <2>2. Text(e, s) = [i \in 1 .. len |-> r[i]]
    BY <1>11, <2>1 DEF Text
  <2>. QED
    BY <1>2, <2>2
<1>18. ASSUME NEW t \in U PROVE Text(e, t) = Text(d, t)
  <2>1. ASSUME NEW i \in 1 .. Length(d, t)
        PROVE  e[Start(d, t) + i - 1] = d[Start(d, t) + i - 1]
    <3>1. /\ Start(d, t) + i - 1 \in n .. DATA_SIZE - 1
          /\ ~ (Start(d, t) + i - 1 \in off .. up - 1)
      <4>1. /\ Start(d, t) \in Nat /\ Length(d, t) \in Nat
            /\ up <= Start(d, t)
            /\ Start(d, t) + Length(d, t) <= DATA_SIZE
        BY <1>10
      <4>. QED
        BY <1>0, <4>1
    <3>. QED
      BY <1>9, <3>1
  <2>2. Start(e, t) = Start(d, t) /\ Length(e, t) = Length(d, t)
    BY <1>10
  <2>. QED
    BY <2>1, <2>2 DEF Text
<1>. QED
  BY <1>16, <1>17, <1>18 DEF e, off, len, Added

-----------------------------------------------------------------------------
(* The page between calls.                                                 *)

HeaderType == [free_space_lower_bound : Nat, free_space_upper_bound : Nat,
               num_slots : Nat, num_free_slots : Nat]

SoundPage(d, h, U) ==
    /\ h \in HeaderType
    /\ PageOf(d, h.num_slots, U, h.free_space_upper_bound)
    /\ h.free_space_lower_bound = h.num_slots
    /\ h.num_free_slots = Cardinality((1 .. h.num_slots) \ U)
    /\ h.num_slots > 0 => h.num_slots \in U
    /\ \A s \in U : Text(d, s) \in Records

Sound == SoundPage(data, header, UsedSlots)

(* Nothing is said of a page that a call has harmed.                       *)
IInv ==
    /\ thrown \in {"none", "InsufficientSpace", "InvalidRecord", "SlotInUse",
                   "InvalidSlot", "out_of_range", "overrun", "abort"}
    /\ damage \in 0 .. CallsAfter + 1
    /\ damage = 0 => /\ Sound
                     /\ issued \in 0 .. DATA_SIZE
                     /\ current \in {INVALID_SLOT} \cup SlotIds

NoEmptyRecord == <<>> \notin Records

(* The greatest of some slot numbers, or 0.                                *)
LEMMA MaxIs ==
    ASSUME NEW n \in Nat, NEW T, T \subseteq 0 .. n, 0 \in T
    PROVE  Max(T) \in T /\ \A y \in T : y <= Max(T)
<1> DEFINE W == {n - y : y \in T}
<1>1. W \subseteq Nat /\ W # {}
  <2>1. \A y \in T : n - y \in Nat
    OBVIOUS
  <2>. QED
    BY <2>1
<1>2. PICK m \in W : \A w \in W : m <= w
  <2>. HIDE DEF W
  <2>. QED
    BY <1>1, Least
<1>3. PICK x \in T : m = n - x
  BY <1>2
<1>4. \A y \in T : y <= x
  <2>. TAKE y \in T
  <2>1. n - y \in W
    OBVIOUS
  <2>2. m <= n - y
    <3>. HIDE DEF W
    <3>. QED
      BY <1>2, <2>1
  <2>3. x \in Int /\ y \in Int
    OBVIOUS
  <2>. QED
    BY <1>3, <2>2, <2>3
<1>5. \A y \in T : x >= y
  <2>1. \A y \in T : y \in Int
    OBVIOUS
  <2>. QED
    BY <1>4, <2>1
<1>. HIDE DEF W
<1>6. Max(T) \in T /\ \A y \in T : Max(T) >= y
  BY <1>5 DEF Max
<1>7. \A y \in T : y \in Int
  OBVIOUS
<1>. QED
  BY <1>6, <1>7

(* What TypeOK, ItemsContiguous and SlotsExact say follows.                *)
LEMMA SoundIs ==
    ASSUME Sound
    PROVE  /\ Filled = UsedSlots
           /\ ItemsContiguous
           /\ header.num_free_slots \in 0 .. header.num_slots
           /\ header.num_slots \in 0 .. DATA_SIZE
           /\ header.free_space_upper_bound \in header.num_slots .. DATA_SIZE
           /\ header.free_space_lower_bound = header.num_slots
           /\ DOMAIN data = Offsets
           /\ \A s \in UsedSlots : data[s - 1] \in PageSlot
<1> DEFINE n == header.num_slots
           up == header.free_space_upper_bound
<1>1. /\ header \in HeaderType /\ PageOf(data, n, UsedSlots, up)
      /\ header.free_space_lower_bound = n
      /\ header.num_free_slots = Cardinality((1 .. n) \ UsedSlots)
  BY DEF Sound, SoundPage
<1>2. /\ n \in Nat /\ up \in Nat /\ n <= up /\ up <= DATA_SIZE
      /\ DOMAIN data = Offsets /\ Laid(data, UsedSlots, up)
      /\ UsedSlots \subseteq 1 .. n
  BY <1>1 DEF PageOf
<1>3. \A s \in UsedSlots : data[s - 1] \in PageSlot
  BY <1>2 DEF Laid
<1>4. Filled = UsedSlots
  BY <1>3 DEF Filled
<1>5. header.num_free_slots \in 0 .. n
  <2> DEFINE free == (1 .. n) \ UsedSlots
  <2>1. free \in SUBSET (1 .. n)
    OBVIOUS
  <2>2. header.num_free_slots = Cardinality(free)
    BY <1>1
  <2>. HIDE DEF n, free
  <2>3. IsFiniteSet(1 .. n) /\ Cardinality(1 .. n) = n
    BY <1>2, FS_Interval
  <2>4. IsFiniteSet(free) /\ Cardinality(free) <= n
    BY <2>1, <2>3, FS_Subset
  <2>5. Cardinality(free) \in Nat
    BY <2>4, FS_CardinalityType
  <2>. QED
    BY <1>2, <2>2, <2>4, <2>5
<1>6. \A s \in UsedSlots : Item(s) = Span(data, s)
  <2>. TAKE s \in UsedSlots
  <2>1. getSlot(data, s) = data[s - 1]
    BY <1>3, SlotIs
  <2>. QED
    BY <2>1 DEF Item, Span
<1>7. ItemsContiguous
  BY <1>2, <1>4, <1>6 DEF ItemsContiguous, Laid
<1>8. n \in 0 .. DATA_SIZE /\ up \in n .. DATA_SIZE
  BY <1>2
<1>. QED
  BY <1>1, <1>2, <1>3, <1>4, <1>5, <1>7, <1>8

(* Enough for a page to be sound.                                          *)
LEMMA SoundNext ==
    ASSUME NEW U, SoundPage(data', header', U)
    PROVE  UsedSlots' = U /\ Sound'
<1>1. U = {t \in 1 .. header'.num_slots : data'[t - 1] # Zero}
  BY UsedOf DEF SoundPage
<1>2. UsedSlots' = {t \in 1 .. header'.num_slots : data'[t - 1] # Zero}
  BY DEF UsedSlots, IsUsed, getSlot
<1>. QED
  BY <1>1, <1>2 DEF Sound

(* insertRecord.                                                           *)
LEMMA InsertSound ==
    ASSUME Sound, NEW r \in Records, r # <<>>, hasSpaceForRecord(r),
           ~ IsUsed(data, AvailableSlot)
    PROVE  LET a == AvailableSlot
               d == Stored(data, SlotTaken, a, r)
           IN  /\ a \in SlotIds \ UsedSlots
               /\ SoundPage(d, WithItem(SlotTaken, r), UsedSlots \cup {a})
               /\ Text(d, a) = r
               /\ \A t \in UsedSlots : Text(d, t) = Text(data, t)
<1> DEFINE n == header.num_slots
           up == header.free_space_upper_bound
           U == UsedSlots
           a == AvailableSlot
           free == (1 .. n) \ U
           d == Stored(data, SlotTaken, a, r)
           h == WithItem(SlotTaken, r)
<1>1. /\ header \in HeaderType /\ PageOf(data, n, U, up)
      /\ header.free_space_lower_bound = n
      /\ header.num_free_slots = Cardinality(free)
      /\ n > 0 => n \in U
      /\ \A s \in U : Text(data, s) \in Records
  BY DEF Sound, SoundPage
<1>2. /\ n \in Nat /\ up \in Nat /\ n <= up /\ up <= DATA_SIZE
      /\ U \subseteq 1 .. n
  BY <1>1 DEF PageOf
<1>3. Len(r) \in Nat /\ Len(r) > 0
  OBVIOUS
<1>4. IsFiniteSet(free) /\ Cardinality(free) \in Nat
  <2>. HIDE DEF n, U
  <2>1. IsFiniteSet(1 .. n)
    BY <1>2, FS_Interval
  <2>2. free \in SUBSET (1 .. n)
    OBVIOUS
  <2>. QED
    BY <2>1, <2>2, FS_Subset, FS_CardinalityType
<1>5. free = {s \in 1 .. n : ~ IsUsed(data, s)}
  BY DEF UsedSlots
<1>6. CASE header.num_free_slots > 0
  <2>1. a = Min(free)
    BY <1>5, <1>6 DEF AvailableSlot
  <2>2. free # {} /\ free \subseteq Nat
    <3>1. free \subseteq Nat
      OBVIOUS
    <3>. HIDE DEF free
    <3>2. free # {}
      <4>1. Cardinality(free) > 0
        BY <1>1, <1>6
      <4>2. Cardinality(free) = 0 <=> free = {}
        BY <1>4, FS_EmptySet
      <4>. QED
        BY <4>1, <4>2
    <3>. QED
      BY <3>1, <3>2
  <2>3. a \in free
    <3>. HIDE DEF free, a
    <3>. QED
      BY <2>1, <2>2, MinIs
  <2>4. SlotTaken = header
    BY <1>6 DEF SlotTaken
  <2>5. Len(r) <= up - n
    BY <1>1, <1>2, <1>3, <1>6 DEF hasSpaceForRecord, FreeSpace
  <2>6. /\ PageOf(d, n, U \cup {a}, up - Len(r))
        /\ Text(d, a) = r
        /\ \A t \in U : Text(d, t) = Text(data, t)
    <3>1. a \in 1 .. n /\ a \notin U
      BY <2>3
    <3>2. up = SlotTaken.free_space_upper_bound
      BY <2>4
    <3>. HIDE DEF a, U, n, up
    <3>3. Added(data, d, n, U, up, a, r)
      BY <1>1, <2>5, <3>1, <3>2, StoredPage, Zenon
    <3>. QED
      BY <3>3 DEF Added
  <2>7. /\ h.num_slots = n /\ h.free_space_upper_bound = up - Len(r)
        /\ h.num_free_slots = header.num_free_slots - 1
        /\ h.free_space_lower_bound = n
        /\ h \in HeaderType
    <3>1. /\ up - Len(r) \in Nat /\ header.num_free_slots \in Nat
          /\ header.num_free_slots - 1 \in Nat
      BY <1>1, <1>2, <1>3, <1>4, <1>6, <2>5
    <3>2. h = [header EXCEPT !.num_free_slots = header.num_free_slots - 1,
                             !.free_space_upper_bound = up - Len(r)]
      BY <1>1, <2>4 DEF WithItem, HeaderType
    <3>. HIDE DEF h
    <3>. QED
      BY <1>1, <3>1, <3>2 DEF HeaderType
  <2>8. Cardinality((1 .. n) \ (U \cup {a})) = header.num_free_slots - 1
    <3>1. (1 .. n) \ (U \cup {a}) = free \ {a}
      OBVIOUS
    <3>. HIDE DEF free, a
    <3>. QED
      BY <1>1, <1>4, <2>3, <3>1, FS_RemoveElement
  <2>9. a \in SlotIds \ U
    BY <1>2, <2>3 DEF SlotIds
  <2>10. \A s \in U \cup {a} : Text(d, s) \in Records
    BY <1>1, <2>6
  <2>11. n > 0 => n \in U \cup {a}
    BY <1>1
  <2>. HIDE DEF d, h, a, U, n, up
  <2>12. SoundPage(d, h, U \cup {a})
    BY <2>6, <2>7, <2>8, <2>10, <2>11 DEF SoundPage
  <2>. QED
    BY <2>6, <2>9, <2>12 DEF d, h, a, U
<1>7. CASE header.num_free_slots = 0
  <2>1. a = n + 1 /\ free = {}
    <3>1. a = n + 1
      BY <1>7 DEF AvailableSlot
    <3>. HIDE DEF free
    <3>2. free = {}
      BY <1>1, <1>4, <1>7, FS_EmptySet
    <3>. QED
      BY <3>1, <3>2
  <2>2. SlotTaken = [header EXCEPT !.num_slots = n + 1,
                                   !.num_free_slots = 1,
                                   !.free_space_lower_bound = n + 1]
    <3>1. ~ (header.num_free_slots > 0) /\ header.num_free_slots + 1 = 1
      BY <1>7
    <3>. QED
      BY <3>1 DEF SlotTaken
  <2>3. Len(r) + 1 <= up - n
    BY <1>1, <1>2, <1>3, <1>7 DEF hasSpaceForRecord, FreeSpace
  <2>4. data[n] = Zero
    <3>1. a - 1 = n
      BY <1>2, <2>1
    <3>2. data[a - 1] = Zero
      BY DEF IsUsed, getSlot
    <3>. HIDE DEF a, n
    <3>. QED
      BY <3>1, <3>2
  <2>5. PageOf(data, n + 1, U, up)
    <3>1. n < up
      BY <1>2, <1>3, <2>3
    <3>. HIDE DEF n, up, U
    <3>. QED
      BY <1>1, <2>4, <3>1, Longer
  <2>6. up = SlotTaken.free_space_upper_bound
    BY <1>1, <2>2 DEF HeaderType
  <2>7. /\ PageOf(d, n + 1, U \cup {a}, up - Len(r))
        /\ Text(d, a) = r
        /\ \A t \in U : Text(d, t) = Text(data, t)
    <3>1. Len(r) <= up - (n + 1)
      BY <1>2, <1>3, <2>3
    <3>2. a \in 1 .. n + 1 /\ a \notin U
      BY <1>2, <2>1
    <3>. HIDE DEF a, U, n, up
    <3>3. Added(data, d, n + 1, U, up, a, r)
      BY <2>5, <2>6, <3>1, <3>2, StoredPage, Zenon
    <3>. QED
      BY <3>3 DEF Added
  <2>8. /\ h.num_slots = n + 1 /\ h.free_space_upper_bound = up - Len(r)
        /\ h.num_free_slots = 0
        /\ h.free_space_lower_bound = n + 1
        /\ h \in HeaderType
    <3>1. up - Len(r) \in Nat /\ n + 1 \in Nat
      BY <1>2, <1>3, <2>3
    <3>2. h = [header EXCEPT !.num_slots = n + 1,
                             !.num_free_slots = 0,
                             !.free_space_lower_bound = n + 1,
                             !.free_space_upper_bound = up - Len(r)]
      <4>1. DOMAIN header = {"free_space_lower_bound", "free_space_upper_bound",
                             "num_slots", "num_free_slots"}
        BY <1>1 DEF HeaderType
      <4>2. h = [SlotTaken EXCEPT !.free_space_upper_bound = up - Len(r),
                                  !.num_free_slots = 0]
        <5>1. SlotTaken.num_free_slots - 1 = 0
          BY <2>2, <4>1
        <5>. HIDE DEF up
        <5>. QED
          BY <2>6, <5>1 DEF WithItem
      <4>. HIDE DEF n, up, h
      <4>. QED
        BY <2>2, <4>1, <4>2
    <3>. HIDE DEF n, up, h
    <3>. QED
      BY <1>1, <3>1, <3>2 DEF HeaderType
  <2>9. Cardinality((1 .. n + 1) \ (U \cup {a})) = 0
    <3>1. (1 .. n + 1) \ (U \cup {a}) = {}
      BY <1>2, <2>1
    <3>. QED
      BY <3>1, FS_EmptySet
  <2>10. a \in SlotIds \ U
    BY <1>2, <1>3, <2>1, <2>3 DEF SlotIds
  <2>11. \A s \in U \cup {a} : Text(d, s) \in Records
    BY <1>1, <2>7
  <2>12. n + 1 \in U \cup {a}
    BY <2>1
  <2>. HIDE DEF d, h, a, U, n, up
  <2>13. SoundPage(d, h, U \cup {a})
    BY <2>7, <2>8, <2>9, <2>11, <2>12 DEF SoundPage
  <2>. QED
    BY <2>7, <2>10, <2>13 DEF d, h, a, U
<1>. QED
  BY <1>1, <1>4, <1>6, <1>7

(* updateRecord.                                                           *)
LEMMA UpdateSound ==
    ASSUME Sound, NEW s \in UsedSlots, NEW r \in Records, r # <<>>,
           FitsInstead(s, r)
    PROVE  LET d == Stored(Closed(s), WithoutItem(s), s, r)
           IN  /\ RoomFor(WithoutItem(s), r)
               /\ SoundPage(d, WithItem(WithoutItem(s), r), UsedSlots)
               /\ Text(d, s) = r
               /\ \A t \in UsedSlots \ {s} : Text(d, t) = Text(data, t)
<1> DEFINE n == header.num_slots
           up == header.free_space_upper_bound
           len == Length(data, s)
           U == UsedSlots
           V == U \ {s}
           c == Closed(s)
           g == WithoutItem(s)
           d == Stored(c, g, s, r)
           h == WithItem(g, r)
<1>1. /\ header \in HeaderType /\ PageOf(data, n, U, up)
      /\ header.free_space_lower_bound = n
      /\ header.num_free_slots = Cardinality((1 .. n) \ U)
      /\ n > 0 => n \in U
      /\ \A t \in U : Text(data, t) \in Records
  BY DEF Sound, SoundPage
<1>2. /\ n \in Nat /\ up \in Nat /\ n <= up /\ up <= DATA_SIZE
      /\ U \subseteq 1 .. n /\ Laid(data, U, up)
  BY <1>1 DEF PageOf
<1>3. Len(r) \in Nat /\ Len(r) > 0
  OBVIOUS
<1>4. len \in Nat /\ len > 0
  BY <1>2, ItemOf
<1>5. /\ PageOf(c, n, V, up + len)
      /\ \A t \in V : Text(c, t) = Text(data, t)
  BY <1>1, ClosedPage DEF ThePage
<1>6. DOMAIN header = {"free_space_lower_bound", "free_space_upper_bound",
                       "num_slots", "num_free_slots"}
  BY <1>1 DEF HeaderType
<1>7. g = [header EXCEPT !.free_space_upper_bound = up + len,
                         !.num_free_slots = header.num_free_slots + 1]
  <2>1. getSlot(Moved(s), s).item_length = len
    BY <1>1, ClosedIs DEF ThePage
  <2>. QED
    BY <2>1 DEF WithoutItem
<1>8. up + len = g.free_space_upper_bound
  BY <1>6, <1>7
<1>9. Len(r) <= (up + len) - n
  <2>1. getSlot(data, s).item_length = len
    BY <1>1, ErasedIs DEF ThePage, Length
  <2>. HIDE DEF len
  <2>. QED
    BY <1>1, <1>2, <1>3, <1>4, <2>1 DEF FitsInstead, FreeSpace
<1>10. s \in 1 .. n /\ s \notin V
  BY <1>2
<1>11. Added(c, d, n, V, up + len, s, r)
  <2>. HIDE DEF c, g, n, V, up, len
  <2>. QED
    BY <1>5, <1>8, <1>9, <1>10, StoredPage, Zenon
<1>12. V \cup {s} = U
  OBVIOUS
<1>13. h = [header EXCEPT !.free_space_upper_bound = (up + len) - Len(r)]
  <2>1. header.num_free_slots \in Nat
    BY <1>1 DEF HeaderType
  <2>2. h = [g EXCEPT !.free_space_upper_bound = (up + len) - Len(r),
                      !.num_free_slots = header.num_free_slots]
    <3>1. g.num_free_slots - 1 = header.num_free_slots
      BY <1>6, <1>7, <2>1
    <3>. HIDE DEF g, up, len
    <3>. QED
      BY <1>8, <3>1 DEF WithItem
  <2>. HIDE DEF g, up, len, h
  <2>. QED
    BY <1>1, <1>6, <1>7, <2>2 DEF HeaderType
<1>14. /\ h \in HeaderType /\ h.num_slots = n
       /\ h.free_space_upper_bound = (up + len) - Len(r)
       /\ h.free_space_lower_bound = n
       /\ h.num_free_slots = header.num_free_slots
  <2>1. (up + len) - Len(r) \in Nat
    BY <1>2, <1>3, <1>4, <1>9
  <2>. HIDE DEF h, up, len
  <2>. QED
    BY <1>1, <1>13, <2>1 DEF HeaderType
<1>15. /\ PageOf(d, n, U, (up + len) - Len(r))
       /\ Text(d, s) = r
       /\ \A t \in V : Text(d, t) = Text(data, t)
  <2>. HIDE DEF d, c, U, V, up, len, n
  <2>. QED
    BY <1>5, <1>11, <1>12 DEF Added
<1>16. ASSUME NEW t \in U PROVE Text(d, t) \in Records
  <2>. HIDE DEF d
  <2>. QED
    BY <1>1, <1>15
<1>17. SoundPage(d, h, U)
  <2>. HIDE DEF d, h, U, up, len, n
  <2>. QED
    BY <1>1, <1>14, <1>15, <1>16 DEF SoundPage
<1>18. RoomFor(g, r)
  <2>1. up + len <= DATA_SIZE /\ up + len \in Nat
    BY <1>5 DEF PageOf
  <2>. HIDE DEF g, up, len, n
  <2>. QED
    BY <1>2, <1>3, <1>8, <1>9, <2>1 DEF RoomFor
<1>. QED
  BY <1>15, <1>17, <1>18

(* deleteRecord, which gives up the unused slots at the end of the array.  *)
LEMMA DeleteSound ==
    ASSUME Sound, NEW s \in UsedSlots
    PROVE  /\ SoundPage(Closed(s), Compacted(Closed(s), WithoutItem(s), s),
                        UsedSlots \ {s})
           /\ \A t \in UsedSlots \ {s} : Text(Closed(s), t) = Text(data, t)
<1> DEFINE n == header.num_slots
           up == header.free_space_upper_bound
           len == Length(data, s)
           U == UsedSlots
           V == U \ {s}
           c == Closed(s)
           g == WithoutItem(s)
           free == (1 .. n) \ U
           left == (1 .. n) \ V
<1>1. /\ header \in HeaderType /\ PageOf(data, n, U, up)
      /\ header.free_space_lower_bound = n
      /\ header.num_free_slots = Cardinality(free)
      /\ n > 0 => n \in U
      /\ \A t \in U : Text(data, t) \in Records
  BY DEF Sound, SoundPage
<1>2. /\ n \in Nat /\ up \in Nat /\ n <= up /\ up <= DATA_SIZE
      /\ U \subseteq 1 .. n /\ Laid(data, U, up)
  BY <1>1 DEF PageOf
<1>3. len \in Nat
  BY <1>2, ItemOf
<1>4. /\ PageOf(c, n, V, up + len)
      /\ \A t \in V : Text(c, t) = Text(data, t)
  BY <1>1, ClosedPage DEF ThePage
<1>5. DOMAIN header = {"free_space_lower_bound", "free_space_upper_bound",
                       "num_slots", "num_free_slots"}
  BY <1>1 DEF HeaderType
<1>6. g = [header EXCEPT !.free_space_upper_bound = up + len,
                         !.num_free_slots = header.num_free_slots + 1]
  <2>1. getSlot(Moved(s), s).item_length = len
    BY <1>1, ClosedIs DEF ThePage
  <2>. QED
    BY <2>1 DEF WithoutItem
<1>7. /\ g \in HeaderType /\ g.num_slots = n /\ g.free_space_lower_bound = n
      /\ g.free_space_upper_bound = up + len
      /\ g.num_free_slots = header.num_free_slots + 1
  <2>1. up + len \in Nat /\ header.num_free_slots + 1 \in Nat
    BY <1>1, <1>2, <1>3 DEF HeaderType
  <2>. HIDE DEF g, up, len
  <2>. QED
    BY <1>1, <1>6, <2>1 DEF HeaderType
<1>8. s \in 1 .. n /\ s \in U
  BY <1>2
<1>9. IsFiniteSet(left) /\ Cardinality(left) = header.num_free_slots + 1
  <2>1. left = free \cup {s} /\ s \notin free
    BY <1>8
  <2>2. free \in SUBSET (1 .. n)
    OBVIOUS
  <2>. HIDE DEF free, left, n
  <2>3. IsFiniteSet(free)
    <3>1. IsFiniteSet(1 .. n)
      BY <1>2, FS_Interval
    <3>. QED
      BY <2>2, <3>1, FS_Subset
  <2>. QED
    BY <1>1, <2>1, <2>3, FS_AddElement
<1>10. \A t \in V : Text(c, t) \in Records
  BY <1>1, <1>4
<1>11. CASE s # n
  <2>1. Compacted(c, g, s) = g
    BY <1>7, <1>11 DEF Compacted
  <2>2. n > 0 => n \in V
    BY <1>1, <1>11
  <2>3. SoundPage(c, g, V)
    <3>1. g.num_free_slots = Cardinality((1 .. n) \ V)
      BY <1>7, <1>9
    <3>. HIDE DEF c, g, V, n, up, len
    <3>. QED
      BY <1>4, <1>7, <1>10, <2>2, <3>1 DEF SoundPage
  <2>. QED
    BY <1>4, <2>1, <2>3
<1>12. CASE s = n
  <2> DEFINE m == Max({0} \cup V)
             h == Compacted(c, g, s)
             low == (1 .. m) \ V
  <2>1. m \in {0} \cup V /\ \A y \in {0} \cup V : y <= m
    <3>1. {0} \cup V \subseteq 0 .. n
      BY <1>2
    <3>2. 0 \in {0} \cup V
      OBVIOUS
    <3>. HIDE DEF V, n
    <3>. QED
      BY <1>2, <3>1, <3>2, MaxIs
  <2>2. m \in 0 .. n /\ V \subseteq 1 .. m /\ (m > 0 => m \in V) /\ m \in Int
    <3>4. V \subseteq 1 .. n
      BY <1>2
    <3>. HIDE DEF m, V, n
    <3>1. m \in 0 .. n /\ m \in Int
      BY <1>2, <2>1, <3>4
    <3>2. ASSUME NEW y \in V PROVE y \in 1 .. m
      <4>1. y \in 1 .. n /\ y <= m
        BY <2>1, <3>4
      <4>. QED
        BY <1>2, <3>1, <4>1
    <3>3. m > 0 => m \in V
      BY <2>1, <3>1
    <3>. QED
      BY <3>1, <3>2, <3>3
  <2>3. h = [g EXCEPT !.num_slots = m,
                      !.num_free_slots = g.num_free_slots - (n - m),
                      !.free_space_lower_bound = m]
    <3>4. {t \in 1 .. s - 1 : IsUsed(c, t)} = V
      <4>1. V = {t \in 1 .. n : c[t - 1] # Zero}
        BY <1>4, UsedOf
      <4>2. n \notin V
        BY <1>12
      <4>. HIDE DEF c, V, n
      <4>3. \A t : t \in 1 .. n /\ t # n <=> t \in 1 .. n - 1
        BY <1>2
      <4>. QED
        BY <1>12, <4>1, <4>2, <4>3 DEF IsUsed
    <3>5. m = Max({0} \cup {t \in 1 .. s - 1 : IsUsed(c, t)})
      BY <3>4
    <3>1. h = [g EXCEPT !.num_slots = @ - (s - m),
                        !.num_free_slots = @ - (s - m),
                        !.free_space_lower_bound = @ - (s - m)]
      <4>. HIDE DEF m, c, g
      <4>. QED
        BY <1>7, <1>12, <3>5 DEF Compacted
    <3>2. g.num_slots - (s - m) = m /\ g.free_space_lower_bound - (s - m) = m
      BY <1>2, <1>7, <1>12, <2>2
    <3>3. s - m = n - m
      BY <1>12
    <3>. HIDE DEF g, m, n, h
    <3>. QED
      BY <3>1, <3>2, <3>3
  <2>4. IsFiniteSet(low) /\ Cardinality(low) = g.num_free_slots - (n - m)
    <3>1. left = low \cup (m + 1 .. n) /\ low \cap (m + 1 .. n) = {}
      <4>1. ASSUME NEW y \in left PROVE y \in low \cup (m + 1 .. n)
        BY <1>2, <2>2
      <4>2. ASSUME NEW y \in low \cup (m + 1 .. n) PROVE y \in left
        <5>. HIDE DEF V, m, n
        <5>1. y \in 1 .. n
          BY <1>2, <2>2
        <5>2. y \notin V
          BY <1>2, <2>2
        <5>. QED
          BY <5>1, <5>2
      <4>3. low \cap (m + 1 .. n) = {}
        BY <2>2
      <4>. QED
        BY <4>1, <4>2, <4>3
    <3>2. IsFiniteSet(m + 1 .. n) /\ Cardinality(m + 1 .. n) = n - m
      <4>1. m + 1 \in Int /\ n \in Int
        BY <1>2, <2>2
      <4>2. IF m + 1 > n THEN n - m = 0 ELSE n - (m + 1) + 1 = n - m
        BY <1>2, <2>2
      <4>. HIDE DEF m, n
      <4>. QED
        BY <4>1, <4>2, FS_Interval
    <3>3. low \in SUBSET left
      BY <3>1
    <3>. HIDE DEF low, left
    <3>4. IsFiniteSet(low) /\ Cardinality(low) \in Nat
      BY <1>9, <3>3, FS_Subset, FS_CardinalityType
    <3>5. Cardinality(left) = Cardinality(low) + Cardinality(m + 1 .. n)
                                - Cardinality(low \cap (m + 1 .. n))
      BY <3>1, <3>2, <3>4, FS_Union
    <3>6. Cardinality(low \cap (m + 1 .. n)) = 0
      BY <3>1, FS_EmptySet
    <3>7. Cardinality(left) = g.num_free_slots
      BY <1>7, <1>9
    <3>. HIDE DEF m, n, g
    <3>. QED
      BY <1>2, <2>2, <3>2, <3>4, <3>5, <3>6, <3>7
  <2>5. /\ h \in HeaderType /\ h.num_slots = m
        /\ h.free_space_upper_bound = up + len
        /\ h.free_space_lower_bound = m
        /\ h.num_free_slots = Cardinality(low)
    <3>1. Cardinality(low) \in Nat
      BY <2>4, FS_CardinalityType
    <3>2. m \in Nat
      BY <1>2, <2>2
    <3>. HIDE DEF h, g, m, n, low, up, len
    <3>. QED
      BY <1>7, <2>3, <2>4, <3>1, <3>2 DEF HeaderType
  <2>6. PageOf(c, m, V, up + len)
    <3>. HIDE DEF c, m, V, n, up, len
    <3>. QED
      BY <1>4, <2>2, Shorter
  <2>7. SoundPage(c, h, V)
    <3>1. h.num_free_slots = Cardinality((1 .. m) \ V)
      BY <2>5
    <3>. HIDE DEF c, h, V, m, up, len
    <3>. QED
      BY <1>10, <2>2, <2>5, <2>6, <3>1 DEF SoundPage
  <2>. QED
    BY <1>4, <2>7
<1>. QED
  BY <1>11, <1>12

-----------------------------------------------------------------------------
(* Every step keeps IInv.                                                  *)

(* A slot of the array that is unused; or else the bytes behind the array, *)
(* which may be those of a record.                                         *)
LEMMA AvailableIs ==
    ASSUME Sound, NEW r \in Records, r # <<>>, hasSpaceForRecord(r)
    PROVE  /\ ~ NoneAvailable
           /\ \/ ~ IsUsed(data, AvailableSlot)
              \/ /\ header.num_free_slots = 0
                 /\ header.num_slots < header.free_space_upper_bound
<1> DEFINE n == header.num_slots
           up == header.free_space_upper_bound
           free == (1 .. n) \ UsedSlots
<1>1. /\ header.num_free_slots = Cardinality(free)
      /\ header.free_space_lower_bound = n
      /\ PageOf(data, n, UsedSlots, up)
  BY DEF Sound, SoundPage
<1>2. n \in Nat /\ up \in Nat
  BY <1>1 DEF PageOf
<1>3. Len(r) \in Nat /\ Len(r) > 0
  OBVIOUS
<1>4. IsFiniteSet(free) /\ Cardinality(free) \in Nat
  <2>1. free \in SUBSET (1 .. n)
    OBVIOUS
  <2>. HIDE DEF n, free
  <2>2. IsFiniteSet(1 .. n)
    BY <1>2, FS_Interval
  <2>. QED
    BY <2>1, <2>2, FS_Subset, FS_CardinalityType
<1>5. CASE header.num_free_slots > 0
  <2>1. free = {s \in 1 .. n : ~ IsUsed(data, s)}
    BY DEF UsedSlots
  <2>2. AvailableSlot = Min({s \in 1 .. n : ~ IsUsed(data, s)})
    BY <1>5 DEF AvailableSlot
  <2>3. free \subseteq Nat
    OBVIOUS
  <2>4. free # {}
    <3>. HIDE DEF free
    <3>1. Cardinality(free) > 0
      BY <1>1, <1>5
    <3>2. Cardinality(free) = 0 <=> free = {}
      BY <1>4, FS_EmptySet
    <3>. QED
      BY <3>1, <3>2
  <2>5. AvailableSlot \in free
    <3>1. AvailableSlot = Min(free)
      BY <2>1, <2>2
    <3>. HIDE DEF free
    <3>. QED
      BY <2>3, <2>4, <3>1, MinIs
  <2>. QED
    BY <2>1, <2>5 DEF NoneAvailable
<1>6. CASE header.num_free_slots = 0
  <2>1. Len(r) + 1 <= up - n
    BY <1>1, <1>2, <1>3, <1>6 DEF hasSpaceForRecord, FreeSpace
  <2>. QED
    BY <1>2, <1>3, <1>6, <2>1 DEF NoneAvailable
<1>. QED
  BY <1>1, <1>4, <1>5, <1>6

(* What stays as it is when neither the data area nor the header changes.  *)
LEMMA SamePage ==
    ASSUME UNCHANGED <<data, header>>
    PROVE  /\ UsedSlots' = UsedSlots
           /\ Filled' = Filled
           /\ Sound' <=> Sound
           /\ [s \in SlotIds |-> Record(s)]' = [s \in SlotIds |-> Record(s)]
<1>1. UsedSlots' = UsedSlots
  BY DEF UsedSlots, IsUsed
<1>2. Filled' = Filled
  BY <1>1 DEF Filled
<1>3. Sound' <=> Sound
  BY <1>1 DEF Sound
<1>4. [s \in SlotIds |-> Record(s)]' = [s \in SlotIds |-> Record(s)]
  BY <1>2 DEF Record, getSlot
<1>. QED
  BY <1>1, <1>2, <1>3, <1>4

(* The failed insertion adds a slot to the array that holds no record.     *)
LEMMA InUseStep ==
    ASSUME Sound, NEW r \in Records, r # <<>>, InsertSlotInUse(r)
    PROVE  Filled' = Filled
<1> DEFINE n == header.num_slots
           up == header.free_space_upper_bound
<1>1. /\ data' = data /\ header' = SlotTaken
      /\ IsUsed(data, AvailableSlot) /\ hasSpaceForRecord(r)
  BY DEF InsertSlotInUse
<1>2. header.num_free_slots = 0 /\ n < up
  BY <1>1, AvailableIs
<1>3. /\ header \in HeaderType /\ PageOf(data, n, UsedSlots, up)
  BY DEF Sound, SoundPage
<1>4. /\ n \in Nat /\ up \in Nat /\ up <= DATA_SIZE
      /\ \A o \in n .. DATA_SIZE - 1 : data[o] \in Bytes \cup {Zero}
  BY <1>3 DEF PageOf
<1>5. header' = [header EXCEPT !.num_slots = n + 1,
                               !.num_free_slots = 1,
                               !.free_space_lower_bound = n + 1]
  <2>1. ~ (header.num_free_slots > 0) /\ header.num_free_slots + 1 = 1
    BY <1>2
  <2>. QED
    BY <1>1, <2>1 DEF SlotTaken
<1>6. header'.num_slots = n + 1
  BY <1>3, <1>5 DEF HeaderType
<1>7. Filled' = {s \in 1 .. n + 1 : data[s - 1] # Zero /\ data[s - 1] \in PageSlot}
  BY <1>1, <1>6 DEF Filled, UsedSlots, IsUsed
<1>8. Filled = {s \in 1 .. n : data[s - 1] # Zero /\ data[s - 1] \in PageSlot}
  BY DEF Filled, UsedSlots, IsUsed
<1>9. data[(n + 1) - 1] \notin PageSlot
  <2>1. n \in n .. DATA_SIZE - 1 /\ (n + 1) - 1 = n
    BY <1>2, <1>4
  <2>2. data[n] \in Bytes \cup {Zero}
    BY <1>4, <2>1
  <2>. QED
    BY <2>1, <2>2
<1>10. \A s \in 1 .. n + 1 : s # n + 1 => s \in 1 .. n
  BY <1>4
<1>11. 1 .. n \subseteq 1 .. n + 1
  BY <1>4
<1>. HIDE DEF n
<1>. QED
  BY <1>7, <1>8, <1>9, <1>10, <1>11

(* The greater of two numbers is one of them.                              *)
LEMMA MaxOfTwo ==
    ASSUME NEW i \in Int, NEW j \in Int
    PROVE  Max({i, j}) \in {i, j}
<1>1. \E x \in {i, j} : \A y \in {i, j} : x >= y
  OBVIOUS
<1>. QED
  BY <1>1 DEF Max

(* The iterator stops at a slot number, or at none.                        *)
LEMMA NextSlotIs ==
    ASSUME Sound, NEW start \in Nat
    PROVE  getNextUsedSlot(start) \in {INVALID_SLOT} \cup SlotIds
<1> DEFINE behind == {s \in UsedSlots : s > start}
<1>1. UsedSlots \subseteq SlotIds
  <2>1. PageOf(data, header.num_slots, UsedSlots, header.free_space_upper_bound)
    BY DEF Sound, SoundPage
  <2>2. /\ UsedSlots \subseteq 1 .. header.num_slots
        /\ header.num_slots \in Nat /\ header.num_slots <= DATA_SIZE
    BY <2>1 DEF PageOf
  <2>. QED
    BY <2>2 DEF SlotIds
<1>2. CASE behind = {}
  BY <1>2 DEF getNextUsedSlot
<1>3. CASE behind # {}
  <2>1. getNextUsedSlot(start) = Min(behind)
    BY <1>3 DEF getNextUsedSlot
  <2>2. behind \subseteq SlotIds /\ behind \subseteq Nat
    <3>1. SlotIds \subseteq Nat
      BY DEF SlotIds
    <3>2. behind \subseteq UsedSlots
      OBVIOUS
    <3>. HIDE DEF behind
    <3>. QED
      BY <1>1, <3>1, <3>2
  <2>. HIDE DEF behind
  <2>. QED
    BY <1>3, <2>1, <2>2, MinIs
<1>. QED
  BY <1>2, <1>3

(* A new page is sound.                                                    *)
LEMMA InitInv == Init => IInv
<1>. SUFFICES ASSUME Init PROVE IInv
  OBVIOUS
<1>1. /\ data = [o \in Offsets |-> Zero]
      /\ header = [free_space_lower_bound |-> 0,
                   free_space_upper_bound |-> DATA_SIZE,
                   num_slots |-> 0, num_free_slots |-> 0]
      /\ issued = 0 /\ current = INVALID_SLOT /\ thrown = "none"
      /\ damage = 0
  BY DEF Init
<1>2. UsedSlots = {}
  BY <1>1 DEF UsedSlots
<1>3. Laid(data, {}, DATA_SIZE)
  BY DEF Laid
<1>4. PageOf(data, 0, {}, DATA_SIZE)
  BY <1>1, <1>3 DEF PageOf, Offsets
<1>5. Cardinality((1 .. 0) \ {}) = 0
  <2>1. (1 .. 0) \ {} = {}
    OBVIOUS
  <2>. QED
    BY <2>1, FS_EmptySet
<1>6. SoundPage(data, header, {})
  BY <1>1, <1>4, <1>5 DEF SoundPage, HeaderType
<1>7. Sound
  BY <1>2, <1>6, Zenon DEF Sound
<1>8. /\ issued \in 0 .. DATA_SIZE /\ current = INVALID_SLOT
      /\ thrown = "none" /\ damage = 0
  BY <1>1
<1>. QED
  BY <1>7, <1>8 DEF IInv

(* A call on a sound page whose slot is in the array.                      *)
LEMMA InArray ==
    ASSUME NEW s \in SlotIds, Valid(s), ~ Stale(s), Sound
    PROVE  s \in UsedSlots /\ ThePage
<1>1. header.num_slots \in Nat /\ ThePage
  BY SoundIs DEF Sound, SoundPage, ThePage
<1>. QED
  BY <1>1 DEF Valid, Stale, UsedSlots, SlotIds

(* What a call does to the count of the calls that are followed.           *)
LEMMA DamageIs ==
    /\ Running /\ damage \in 0 .. CallsAfter + 1 => damage \in 0 .. CallsAfter
    /\ damage \in 0 .. CallsAfter /\ Harm =>
         damage' \in 0 .. CallsAfter + 1 /\ damage' # 0
    /\ damage \in 0 .. CallsAfter /\ NoNewHarm =>
         damage' \in 0 .. CallsAfter + 1 /\ (damage' = 0 <=> damage = 0)
<1>1. Running /\ damage \in 0 .. CallsAfter + 1 => damage \in 0 .. CallsAfter
  BY DEF Running
<1>2. damage \in 0 .. CallsAfter /\ Harm =>
         damage' \in 0 .. CallsAfter + 1 /\ damage' # 0
  BY DEF Harm
<1>3. damage \in 0 .. CallsAfter /\ NoNewHarm =>
         damage' \in 0 .. CallsAfter + 1 /\ (damage' = 0 <=> damage = 0)
  BY DEF NoNewHarm
<1>. QED
  BY <1>1, <1>2, <1>3

(* Whatever the clients do.                                                *)
LEMMA StepInv == NoEmptyRecord => (IInv /\ [Next]_vars => IInv')
<1>. SUFFICES ASSUME NoEmptyRecord, IInv, [Next]_vars PROVE IInv'
  OBVIOUS
<1>0. \A r \in Records : r # <<>>
  BY DEF NoEmptyRecord
<1> DEFINE Outcomes == {"none", "InsufficientSpace", "InvalidRecord",
                        "SlotInUse", "InvalidSlot", "out_of_range", "overrun",
                        "abort"}
<1>1. /\ thrown \in Outcomes
      /\ damage \in 0 .. CallsAfter + 1
      /\ damage = 0 => /\ Sound
                       /\ issued \in 0 .. DATA_SIZE
                       /\ current \in {INVALID_SLOT} \cup SlotIds
  BY DEF IInv
<1>2. ASSUME thrown' \in Outcomes, damage' \in 0 .. CallsAfter + 1, damage' # 0
      PROVE  IInv'
  BY <1>2 DEF IInv
<1>3. ASSUME thrown' \in Outcomes, damage' \in 0 .. CallsAfter + 1,
             damage' = 0 => Sound' /\ UNCHANGED <<issued, current>> /\ damage = 0
      PROVE  IInv'
  BY <1>1, <1>3 DEF IInv, SlotIds
<1>4. ASSUME UNCHANGED <<data, header, issued, current, damage>>,
             thrown' \in Outcomes
      PROVE  IInv'
  BY <1>1, <1>4, SamePage DEF IInv, SlotIds
<1>5. ASSUME NEW how, how \in Outcomes, Ends(how) PROVE IInv'
  <2>1. thrown' \in Outcomes /\ damage' = CallsAfter + 1
    BY <1>5 DEF Ends
  <2>2. damage' \in 0 .. CallsAfter + 1 /\ damage' # 0
    BY <2>1
  <2>. HIDE DEF Outcomes
  <2>. QED
    BY <1>2, <2>1, <2>2
<1>6. ASSUME NEW how, how \in Outcomes, Refused(how) PROVE IInv'
  <2>1. thrown' \in Outcomes /\ UNCHANGED <<data, header, issued, current, damage>>
    BY <1>6 DEF Refused
  <2>. HIDE DEF Outcomes
  <2>. QED
    BY <1>4, <2>1
<1>7. ASSUME NEW r \in Records, InsertRecord(r) PROVE IInv'
  <2>1. /\ Running /\ hasSpaceForRecord(r) /\ ~IsUsed(data, AvailableSlot)
        /\ data' = Stored(data, SlotTaken, AvailableSlot, r)
        /\ header' = WithItem(SlotTaken, r)
        /\ issued' = Max({issued, AvailableSlot})
        /\ thrown' = "none" /\ NoNewHarm /\ UNCHANGED current
    BY <1>7 DEF InsertRecord
  <2>2. damage' \in 0 .. CallsAfter + 1 /\ (damage' = 0 <=> damage = 0)
    BY <1>1, <2>1, DamageIs
  <2>3. CASE damage = 0
    <3>1. /\ AvailableSlot \in SlotIds
          /\ SoundPage(data', header', UsedSlots \cup {AvailableSlot})
      BY <1>0, <1>1, <2>1, <2>3, InsertSound
    <3>2. Sound'
      BY <3>1, SoundNext
    <3>3. issued' \in 0 .. DATA_SIZE
      <4>1. issued \in Int /\ AvailableSlot \in Int /\ AvailableSlot \in 0 .. DATA_SIZE
              /\ issued \in 0 .. DATA_SIZE
        BY <1>1, <2>3, <3>1 DEF SlotIds
      <4>2. issued' \in {issued, AvailableSlot}
        BY <2>1, <4>1, MaxOfTwo
      <4>. QED
        BY <4>1, <4>2
    <3>. QED
      BY <1>1, <2>1, <2>2, <2>3, <3>2, <3>3 DEF IInv, SlotIds
  <2>4. CASE damage # 0
    <3>1. thrown' \in Outcomes
      BY <2>1
    <3>. HIDE DEF Outcomes
    <3>. QED
      BY <1>2, <2>2, <2>4, <3>1
  <2>. QED
    BY <2>3, <2>4
<1>8. ASSUME NEW r \in Records, InsertSlotInUse(r) PROVE IInv'
  <2>1. Running /\ Harm /\ thrown' \in Outcomes
    BY <1>8 DEF InsertSlotInUse
  <2>. HIDE DEF Outcomes
  <2>. QED
    BY <1>1, <1>2, <2>1, DamageIs
<1>9. ASSUME NEW s \in SlotIds, NEW r \in Records, UpdateRecord(s, r) PROVE IInv'
  <2>1. /\ Running /\ Valid(s) /\ ~Stale(s) /\ FitsInstead(s, r)
        /\ data' = Stored(Closed(s), WithoutItem(s), s, r)
        /\ header' = WithItem(WithoutItem(s), r)
        /\ thrown' \in Outcomes /\ NoNewHarm /\ UNCHANGED <<issued, current>>
    BY <1>9 DEF UpdateRecord, Valid
  <2>2. damage' \in 0 .. CallsAfter + 1 /\ (damage' = 0 <=> damage = 0)
    BY <1>1, <2>1, DamageIs
  <2>3. ASSUME damage = 0 PROVE Sound'
    <3>1. s \in UsedSlots
      BY <1>1, <2>1, <2>3, InArray
    <3>2. SoundPage(data', header', UsedSlots)
      BY <1>0, <1>1, <2>1, <2>3, <3>1, UpdateSound
    <3>. QED
      BY <3>2, SoundNext
  <2>. HIDE DEF Outcomes
  <2>. QED
    BY <1>3, <2>1, <2>2, <2>3
<1>10. ASSUME NEW s \in SlotIds, DeleteRecord(s) PROVE IInv'
  <2>1. /\ Running /\ Valid(s) /\ data' = Closed(s)
        /\ header' = Compacted(Closed(s), WithoutItem(s), s)
        /\ thrown' \in Outcomes /\ UNCHANGED <<issued, current>>
        /\ IF Stale(s) THEN Harm ELSE NoNewHarm
    BY <1>10 DEF DeleteRecord, Valid
  <2>2. CASE Stale(s)
    <3>1. Harm
      BY <2>1, <2>2
    <3>. HIDE DEF Outcomes
    <3>. QED
      BY <1>1, <1>2, <2>1, <3>1, DamageIs
  <2>3. CASE ~Stale(s)
    <3>1. NoNewHarm
      BY <2>1, <2>3
    <3>2. damage' \in 0 .. CallsAfter + 1 /\ (damage' = 0 <=> damage = 0)
      BY <1>1, <2>1, <3>1, DamageIs
    <3>3. ASSUME damage = 0 PROVE Sound'
      <4>1. s \in UsedSlots
        BY <1>1, <2>1, <2>3, <3>3, InArray
      <4>2. SoundPage(data', header', UsedSlots \ {s})
        BY <1>1, <2>1, <3>3, <4>1, DeleteSound
      <4>. QED
        BY <4>2, SoundNext
    <3>. HIDE DEF Outcomes
    <3>. QED
      BY <1>3, <2>1, <3>2, <3>3
  <2>. QED
    BY <2>2, <2>3
<1>11. ASSUME NEW s \in SlotIds, NEW r \in Records, UpdateStale(s, r) PROVE IInv'
  <2>1. Running /\ Harm /\ thrown' \in Outcomes
    BY <1>11 DEF UpdateStale, Valid
  <2>. HIDE DEF Outcomes
  <2>. QED
    BY <1>1, <1>2, <2>1, DamageIs
<1>12. ASSUME NEW slot, MoveTo(slot),
              damage = 0 => slot \in {INVALID_SLOT} \cup SlotIds
       PROVE  IInv'
  <2>1. /\ thrown' = "none" /\ current' = slot
        /\ UNCHANGED <<data, header, issued, damage>>
    BY <1>12 DEF MoveTo
  <2>. QED
    BY <1>1, <1>12, <2>1, SamePage DEF IInv, SlotIds
<1>13. CASE UNCHANGED vars
  BY <1>1, <1>4, <1>13 DEF vars
<1>14. ASSUME Begin PROVE IInv'
  BY <1>1, <1>12, <1>14, NextSlotIs DEF Begin
<1>15. ASSUME Advance PROVE IInv'
  <2>1. damage = 0 => current \in Nat
    BY <1>1 DEF SlotIds
  <2>2. damage = 0 => getNextUsedSlot(current) \in {INVALID_SLOT} \cup SlotIds
    BY <1>1, <2>1, NextSlotIs
  <2>. QED
    BY <1>12, <1>15, <2>2 DEF Advance
<1>16. ASSUME NEW r \in Records, InsertRefused(r) PROVE IInv'
  BY <1>6, <1>16 DEF InsertRefused
<1>17. ASSUME NEW r \in Records, InsertAborts(r) PROVE IInv'
  BY <1>5, <1>17 DEF InsertAborts
<1>18. ASSUME NEW s \in SlotIds, NEW r \in Records, UpdateRefused(s, r) PROVE IInv'
  BY <1>6, <1>18 DEF UpdateRefused
<1>19. ASSUME NEW s \in SlotIds, IdRefused(s) PROVE IInv'
  BY <1>6, <1>19 DEF IdRefused
<1>20. ASSUME NEW s \in SlotIds, OutOfRange(s) PROVE IInv'
  BY <1>6, <1>20 DEF OutOfRange
<1>21. ASSUME NEW s \in SlotIds, Overruns(s) PROVE IInv'
  BY <1>5, <1>21 DEF Overruns
<1>22. CASE Stopped
  BY <1>13, <1>22 DEF Stopped
<1>. QED
  BY <1>7, <1>8, <1>9, <1>10, <1>11, <1>13, <1>14, <1>15, <1>16, <1>17, <1>18,
     <1>19, <1>20, <1>21, <1>22 DEF Next

-----------------------------------------------------------------------------
(* The theorems.                                                           *)

(* The page is laid out as SoundPage says between any two calls, as long   *)
(* as no bytes of a record were taken for a slot.                          *)
THEOREM Inductive == NoEmptyRecord => (Spec => []IInv)
<1>. SUFFICES ASSUME NoEmptyRecord PROVE Spec => []IInv
  OBVIOUS
<1>1. IInv /\ [Next]_vars => IInv'
  BY StepInv
<1>. QED
  BY <1>1, InitInv, PTL DEF Spec

(* The invariants the run checks follow.                                   *)
LEMMA InvIs == IInv => ItemsContiguous /\ SlotsExact
<1>. SUFFICES ASSUME IInv PROVE ItemsContiguous /\ SlotsExact
  OBVIOUS
<1>1. /\ thrown \in {"none", "InsufficientSpace", "InvalidRecord", "SlotInUse",
                     "InvalidSlot", "out_of_range", "overrun", "abort"}
      /\ damage \in 0 .. CallsAfter + 1
      /\ damage = 0 => /\ Sound
                       /\ issued \in 0 .. DATA_SIZE
                       /\ current \in {INVALID_SLOT} \cup SlotIds
  BY DEF IInv
<1>2. CASE damage # 0
  BY <1>1, <1>2 DEF SlotsExact, TypeOK, ItemsContiguous
<1>3. CASE damage = 0
  <2>1. TypeOK /\ ItemsContiguous
    BY <1>1, <1>3, SoundIs DEF TypeOK
  <2>2. /\ header.num_free_slots = Cardinality((1 .. header.num_slots) \ UsedSlots)
        /\ header.num_slots > 0 => header.num_slots \in UsedSlots
    BY <1>1, <1>3 DEF Sound, SoundPage
  <2>. QED
    BY <1>3, <2>1, <2>2 DEF SlotsExact
<1>. QED
  BY <1>2, <1>3

(* ItemsContiguous of Page: deleteRecord closes every hole, updateRecord    *)
(* and insertRecord overlap no other record, until a slot is misread.      *)
THEOREM NoSpaceLost == NoEmptyRecord => (Spec => []ItemsContiguous)
<1>1. NoEmptyRecord => (Spec => []IInv)
  BY Inductive
<1>. QED
  BY <1>1, InvIs, PTL

(* SlotsExact of Page: num_free_slots counts the unused slots, of which    *)
(* none is the last, so that getAvailableSlot finds what it looks for.     *)
THEOREM SlotsCounted == NoEmptyRecord => (Spec => []SlotsExact)
<1>1. NoEmptyRecord => (Spec => []IInv)
  BY Inductive
<1>. QED
  BY <1>1, InvIs, PTL

-----------------------------------------------------------------------------
(* Page implements RecordPage.                                             *)

record == [s \in SlotIds |-> Record(s)]

(* The record of a used slot is the text in its item.                      *)
LEMMA RecordIs ==
    Sound => /\ UsedSlots \subseteq SlotIds
             /\ \A s \in SlotIds :
                  record[s] = IF s \in UsedSlots THEN Text(data, s) ELSE NoRecord
             /\ \A s \in UsedSlots : Text(data, s) \in Records
<1>. SUFFICES ASSUME Sound
              PROVE  /\ UsedSlots \subseteq SlotIds
                     /\ \A s \in SlotIds :
                          record[s] = IF s \in UsedSlots THEN Text(data, s)
                                      ELSE NoRecord
                     /\ \A s \in UsedSlots : Text(data, s) \in Records
  OBVIOUS
<1>1. Filled = UsedSlots
  BY SoundIs
<1>2. /\ PageOf(data, header.num_slots, UsedSlots, header.free_space_upper_bound)
      /\ \A s \in UsedSlots : Text(data, s) \in Records
  BY DEF Sound, SoundPage
<1>3. UsedSlots \subseteq SlotIds
  <2>1. /\ UsedSlots \subseteq 1 .. header.num_slots
        /\ header.num_slots \in Nat /\ header.num_slots <= DATA_SIZE
    BY <1>2 DEF PageOf
  <2>. QED
    BY <2>1 DEF SlotIds
<1>4. \A s \in SlotIds :
         record[s] = IF s \in UsedSlots THEN Text(data, s) ELSE NoRecord
  <2>1. \A s \in UsedSlots : getSlot(data, s) = data[s - 1]
    BY SoundIs, SlotIs
  <2>. QED
    BY <1>1, <2>1 DEF record, Record, Text, Start, Length
<1>. QED
  BY <1>2, <1>3, <1>4

(* The same after a step.                                                  *)
LEMMA RecordNext ==
    Sound' => /\ UsedSlots' \subseteq SlotIds
              /\ \A s \in SlotIds :
                   record'[s] = IF s \in UsedSlots' THEN Text(data', s)
                                ELSE NoRecord
<1>1. (Sound => /\ UsedSlots \subseteq SlotIds
                /\ \A s \in SlotIds :
                     record[s] = IF s \in UsedSlots THEN Text(data, s)
                                 ELSE NoRecord)'
  BY RecordIs, PTL
<1>. QED
  BY <1>1 DEF Text, Start, Length, SlotIds

(* The iterator moves to the next record there is.                         *)
LEMMA NextRecord ==
    ASSUME Sound, NEW start \in Nat
    PROVE  {t \in SlotIds : t > start /\ record[t] # NoRecord}
             = {s \in UsedSlots : s > start}
<1>1. \A t \in SlotIds : record[t] # NoRecord <=> t \in UsedSlots
  BY RecordIs
<1>. QED
  BY <1>1, RecordIs

(* Each call on a sound page is one of RecordPage's steps, or none, or     *)
(* takes a stale RecordId for one of a record: a call that fails changes   *)
(* no record.                                                              *)
LEMMA RecordStep ==
    NoEmptyRecord =>
      (IInv /\ IInv' /\ Next =>
         (damage = 0 => KeepsRecords \/ TakesStaleId))
<1>. SUFFICES ASSUME NoEmptyRecord, IInv, IInv', Next, damage = 0
              PROVE  KeepsRecords \/ TakesStaleId
  OBVIOUS
<1>0. \A r \in Records : r # <<>>
  BY DEF NoEmptyRecord
<1>1. Sound /\ (damage' = 0 => Sound') /\ damage = 0 /\ damage \in 0 .. CallsAfter
      /\ current \in {INVALID_SLOT} \cup SlotIds
  BY DEF IInv
<1>a. NoNewHarm => Sound'
  BY <1>1, DamageIs
<1>b. ASSUME Contents!Next \/ UNCHANGED <<record, current>>,
             thrown' \notin {"overrun", "abort"}
      PROVE  KeepsRecords
  BY <1>b DEF KeepsRecords, Contents!vars, record
<1>2. DOMAIN record = SlotIds /\ DOMAIN record' = SlotIds
  BY DEF record, SlotIds
<1>3. ASSUME UNCHANGED <<data, header, current>>
      PROVE  UNCHANGED <<record, current>>
  BY <1>3, SamePage DEF record, SlotIds
<1>4. ASSUME NEW r \in Records, InsertRecord(r)
      PROVE  \E s \in SlotIds : Contents!Insert(s, r)
  <2> DEFINE a == AvailableSlot
  <2>1. /\ Sound' /\ thrown' = "none" /\ hasSpaceForRecord(r) /\ ~IsUsed(data, a)
        /\ data' = Stored(data, SlotTaken, a, r)
        /\ header' = WithItem(SlotTaken, r)
        /\ UNCHANGED current
    BY <1>a, <1>4 DEF InsertRecord
  <2>2. /\ a \in SlotIds \ UsedSlots
        /\ SoundPage(data', header', UsedSlots \cup {a})
        /\ Text(data', a) = r
        /\ \A t \in UsedSlots : Text(data', t) = Text(data, t)
    BY <1>0, <1>1, <2>1, InsertSound
  <2>3. UsedSlots' = UsedSlots \cup {a}
    BY <2>2, SoundNext
  <2>. HIDE DEF a
  <2>4. record[a] = NoRecord
    BY <1>1, <2>1, <2>2, RecordIs
  <2>5. record' = [record EXCEPT ![a] = r]
    <3>1. \A s \in SlotIds : record'[s] = IF s = a THEN r ELSE record[s]
      BY <1>1, <2>1, <2>2, <2>3, RecordIs, RecordNext
    <3>2. record' = [s \in SlotIds |-> record'[s]]
      BY DEF record, SlotIds
    <3>3. [record EXCEPT ![a] = r] = [s \in SlotIds |-> IF s = a THEN r ELSE record[s]]
      BY <1>2, <2>2
    <3>. QED
      BY <3>1, <3>2, <3>3
  <2>. QED
    BY <2>1, <2>2, <2>4, <2>5 DEF Contents!Insert, record
<1>5. ASSUME NEW s \in SlotIds, NEW r \in Records, UpdateRecord(s, r)
      PROVE  Contents!Update(s, r)
  <2>0. s \in UsedSlots
    BY <1>1, <1>5, InArray DEF UpdateRecord
  <2>1. /\ Sound' /\ s \in UsedSlots /\ FitsInstead(s, r)
        /\ data' = Stored(Closed(s), WithoutItem(s), s, r)
        /\ header' = WithItem(WithoutItem(s), r)
        /\ UNCHANGED current
    BY <1>a, <1>5, <2>0 DEF UpdateRecord
  <2>2. /\ SoundPage(data', header', UsedSlots)
        /\ Text(data', s) = r
        /\ \A t \in UsedSlots \ {s} : Text(data', t) = Text(data, t)
    BY <1>0, <1>1, <2>1, UpdateSound
  <2>3. UsedSlots' = UsedSlots
    BY <2>2, SoundNext
  <2>4. record[s] # NoRecord
    BY <1>1, <2>1, RecordIs
  <2>5. record' = [record EXCEPT ![s] = r]
    <3>1. \A t \in SlotIds : record'[t] = IF t = s THEN r ELSE record[t]
      BY <1>1, <2>1, <2>2, <2>3, RecordIs, RecordNext
    <3>2. record' = [t \in SlotIds |-> record'[t]]
      BY DEF record, SlotIds
    <3>3. [record EXCEPT ![s] = r] = [t \in SlotIds |-> IF t = s THEN r ELSE record[t]]
      BY <1>2
    <3>. QED
      BY <3>1, <3>2, <3>3
  <2>. QED
    BY <2>1, <2>4, <2>5 DEF Contents!Update, record
<1>6. ASSUME NEW s \in SlotIds, DeleteRecord(s), ~Stale(s)
      PROVE  Contents!Delete(s)
  <2>0. s \in UsedSlots
    BY <1>1, <1>6, InArray DEF DeleteRecord
  <2>1. /\ Sound' /\ s \in UsedSlots
        /\ data' = Closed(s)
        /\ header' = Compacted(Closed(s), WithoutItem(s), s)
        /\ UNCHANGED current
    BY <1>a, <1>6, <2>0 DEF DeleteRecord
  <2>2. /\ SoundPage(data', header', UsedSlots \ {s})
        /\ \A t \in UsedSlots \ {s} : Text(data', t) = Text(data, t)
    BY <1>1, <2>1, DeleteSound
  <2>3. UsedSlots' = UsedSlots \ {s}
    BY <2>2, SoundNext
  <2>4. record[s] # NoRecord
    BY <1>1, <2>1, RecordIs
  <2>5. record' = [record EXCEPT ![s] = NoRecord]
    <3>1. \A t \in SlotIds : record'[t] = IF t = s THEN NoRecord ELSE record[t]
      BY <1>1, <2>1, <2>2, <2>3, RecordIs, RecordNext
    <3>2. record' = [t \in SlotIds |-> record'[t]]
      BY DEF record, SlotIds
    <3>3. [record EXCEPT ![s] = NoRecord]
            = [t \in SlotIds |-> IF t = s THEN NoRecord ELSE record[t]]
      BY <1>2
    <3>. QED
      BY <3>1, <3>2, <3>3
  <2>. QED
    BY <2>1, <2>4, <2>5 DEF Contents!Delete, record
<1>7. ASSUME NEW start \in Nat, MoveTo(getNextUsedSlot(start))
      PROVE  Contents!Step(start)
  <2>1. /\ current' = getNextUsedSlot(start)
        /\ UNCHANGED <<data, header>>
    BY <1>7 DEF MoveTo
  <2>2. UNCHANGED record
    BY <2>1, SamePage DEF record, SlotIds
  <2> DEFINE behind == {t \in SlotIds : t > start /\ record[t] # NoRecord}
  <2>3. behind = {s \in UsedSlots : s > start}
    BY <1>1, <2>1, NextRecord
  <2>4. getNextUsedSlot(start) = IF behind = {} THEN 0 ELSE Min(behind)
    BY <2>3, Zenon DEF getNextUsedSlot, INVALID_SLOT
  <2>5. Contents!Min(behind) = Min(behind)
    BY Zenon DEF Contents!Min, Min
  <2>. QED
    BY <2>1, <2>2, <2>4, <2>5, Zenon DEF Contents!Step, record
<1>8. ASSUME NEW r \in Records, InsertSlotInUse(r)
      PROVE  UNCHANGED <<record, current>>
  <2>1. UNCHANGED <<data, current>>
    BY <1>8 DEF InsertSlotInUse
  <2>2. Filled' = Filled
    BY <1>0, <1>1, <1>8, <2>1, InUseStep
  <2>. QED
    BY <2>1, <2>2 DEF record, Record, SlotIds, getSlot
<1>9. ASSUME Begin PROVE Contents!Step(0)
  BY <1>7, <1>9 DEF Begin
<1>10. ASSUME Advance PROVE current # 0 /\ Contents!Step(current)
  <2>1. current \in Nat
    BY <1>1 DEF SlotIds
  <2>. QED
    BY <1>7, <1>10, <2>1 DEF Advance
<1>11. ASSUME NEW r \in Records, InsertAborts(r) PROVE FALSE
  BY <1>0, <1>1, <1>11, AvailableIs DEF InsertAborts
<1>12. ASSUME NEW s \in SlotIds, Overruns(s), ~Stale(s) PROVE FALSE
  <2>1. s \in UsedSlots /\ ThePage
    BY <1>1, <1>12, InArray DEF Overruns
  <2>2. StaysInside(s)
    BY <2>1, InsideIs
  <2>3. PICK r \in Records : FitsInstead(s, r) /\ ~RoomFor(WithoutItem(s), r)
    BY <1>12, <2>2 DEF Overruns
  <2>. QED
    BY <1>0, <1>1, <2>1, <2>3, UpdateSound
<1>13. ASSUME NEW how, Refused(how), how \notin {"overrun", "abort"}
       PROVE  KeepsRecords
  BY <1>3, <1>b, <1>13 DEF Refused
<1>14. CASE \E r \in Records :
              \/ InsertRecord(r) \/ InsertSlotInUse(r)
              \/ InsertRefused(r) \/ InsertAborts(r)
              \/ \E s \in SlotIds :
                   UpdateRecord(s, r) \/ UpdateStale(s, r) \/ UpdateRefused(s, r)
  <2>1. PICK r \in Records :
              \/ InsertRecord(r) \/ InsertSlotInUse(r)
              \/ InsertRefused(r) \/ InsertAborts(r)
              \/ \E s \in SlotIds :
                   UpdateRecord(s, r) \/ UpdateStale(s, r) \/ UpdateRefused(s, r)
    BY <1>14
  <2>2. CASE InsertRecord(r)
    <3>1. Contents!Next
      BY <1>4, <2>2 DEF Contents!Next
    <3>. QED
      BY <1>b, <2>2, <3>1 DEF InsertRecord
  <2>3. CASE InsertSlotInUse(r)
    BY <1>8, <1>b, <2>3 DEF InsertSlotInUse
  <2>4. CASE InsertRefused(r)
    BY <1>13, <2>4 DEF InsertRefused
  <2>5. CASE InsertAborts(r)
    BY <1>11, <2>5
  <2>6. ASSUME NEW s \in SlotIds, UpdateRecord(s, r)
        PROVE  KeepsRecords
    <3>1. Contents!Next
      BY <1>5, <2>6 DEF Contents!Next
    <3>. QED
      BY <1>b, <2>6, <3>1 DEF UpdateRecord
  <2>7. ASSUME NEW s \in SlotIds, UpdateStale(s, r)
        PROVE  TakesStaleId
    BY <2>7 DEF UpdateStale, TakesStaleId
  <2>8. ASSUME NEW s \in SlotIds, UpdateRefused(s, r)
        PROVE  KeepsRecords
    BY <1>13, <2>8 DEF UpdateRefused
  <2>. QED
    BY <2>1, <2>2, <2>3, <2>4, <2>5, <2>6, <2>7, <2>8
<1>15. CASE \E s \in SlotIds :
              DeleteRecord(s) \/ IdRefused(s) \/ OutOfRange(s) \/ Overruns(s)
  <2>1. PICK s \in SlotIds :
              DeleteRecord(s) \/ IdRefused(s) \/ OutOfRange(s) \/ Overruns(s)
    BY <1>15
  <2>2. CASE DeleteRecord(s) /\ ~Stale(s)
    <3>1. Contents!Next
      BY <1>6, <2>2 DEF Contents!Next
    <3>. QED
      BY <1>b, <2>2, <3>1 DEF DeleteRecord
  <2>3. CASE Stale(s) /\ (DeleteRecord(s) \/ Overruns(s))
    BY <2>3 DEF TakesStaleId
  <2>4. CASE IdRefused(s)
    BY <1>13, <2>4 DEF IdRefused
  <2>5. CASE OutOfRange(s)
    BY <1>13, <2>5 DEF OutOfRange
  <2>6. CASE Overruns(s) /\ ~Stale(s)
    BY <1>12, <2>6
  <2>. QED
    BY <2>1, <2>2, <2>3, <2>4, <2>5, <2>6
<1>16. CASE Begin
  <2>1. Contents!Next
    BY <1>9, <1>16 DEF Contents!Next
  <2>. QED
    BY <1>b, <1>16, <2>1 DEF Begin, MoveTo
<1>17. CASE Advance
  <2>1. Contents!Next
    BY <1>10, <1>17 DEF Contents!Next
  <2>. QED
    BY <1>b, <1>17, <2>1 DEF Advance, MoveTo
<1>18. CASE Stopped
  <2>1. Running
    <3>1. damage <= CallsAfter
      BY <1>1
    <3>. QED
      BY <1>1, <3>1, SoundIs DEF Running
  <2>. QED
    BY <1>18, <2>1 DEF Stopped
<1>. QED
  BY <1>14, <1>15, <1>16, <1>17, <1>18 DEF Next

(* A new page has no records.                                              *)
LEMMA RecordInit == Init => Contents!Init
<1>. SUFFICES ASSUME Init PROVE Contents!Init
  OBVIOUS
<1>1. UsedSlots = {} /\ current = 0
  BY DEF Init, UsedSlots
<1>2. Filled = {}
  BY <1>1 DEF Filled
<1>3. \A s \in SlotIds : Record(s) = NoRecord
  BY <1>2 DEF Record
<1>. QED
  BY <1>1, <1>3 DEF Contents!Init

(* RecordsSpec of Page: however records and slots are moved, each record   *)
(* keeps its number and content, an iterator misses none, and no call      *)
(* reaches outside the page; only a stale RecordId taken for another makes *)
(* it otherwise.                                                           *)
THEOREM RecordsKeptOtherwise == NoEmptyRecord => (Spec => RecordsSpec)
<1>. SUFFICES ASSUME NoEmptyRecord PROVE Spec => RecordsSpec
  OBVIOUS
<1>1. Spec => []IInv
  BY Inductive
<1>2. IInv /\ IInv' /\ [Next]_vars =>
        [damage = 0 => KeepsRecords \/ TakesStaleId]_vars
  BY RecordStep
<1>. QED
  BY <1>1, <1>2, RecordInit, PTL DEF Spec, RecordsSpec

=============================================================================
