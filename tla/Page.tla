-------------------------------- MODULE Page --------------------------------
(***************************************************************************)
(* A page of records (src/p2/src/page.cpp).  The data area of a page holds *)
(* two things that grow towards each other: an array of slots from the     *)
(* low end and the records from the high end.  Deleting a record closes    *)
(* the hole it leaves; a slot keeps its number as long as it is used.      *)
(*                                                                         *)
(* Slots and records share their bytes: what is read as a slot may belong  *)
(* to a record, and a call that does so goes on with the offset and the    *)
(* length it finds there.  One unit of the data area is the size of a      *)
(* slot, and records are measured in such units.                           *)
(***************************************************************************)
EXTENDS Sequences, FiniteSetsExt

CONSTANTS
    DATA_SIZE,  \* units in the data area
    Bytes,      \* what a record is made of, none of it zero
    Zero,       \* a unit of zero bytes, which is also an unused slot
    Records,    \* the records clients store
    NoRecord,   \* RecordPage's empty slot
    slotOf,     \* what a unit of a record is when it is read as a slot
    CallsAfter  \* bound: calls followed on a page that has come to harm

ASSUME DataSizeAssumption == DATA_SIZE \in Nat
ASSUME BytesAssumption == Zero \notin Bytes /\ Records \subseteq Seq(Bytes)
ASSUME NoRecordAssumption == NoRecord \notin Records

VARIABLES
    data,       \* the data area, units 0 .. DATA_SIZE - 1
    header,     \* the PageHeader
    issued,     \* client side: the highest slot number ever in a RecordId
    current,    \* client side: the slot of its PageIterator
    thrown,     \* the exception the last operation ended with, if any
    damage      \* 0, or calls since bytes of a record were taken for a slot

vars == <<data, header, issued, current, thrown, damage>>

Offsets == 0 .. DATA_SIZE - 1
SlotIds == 1 .. DATA_SIZE
INVALID_SLOT == 0

(* Page::initialize. *)
Init ==
    /\ data = [o \in Offsets |-> Zero]
    /\ header = [free_space_lower_bound |-> 0,
                 free_space_upper_bound |-> DATA_SIZE,
                 num_slots |-> 0, num_free_slots |-> 0]
    /\ issued = 0
    /\ current = INVALID_SLOT
    /\ thrown = "none"
    /\ damage = 0

-----------------------------------------------------------------------------
PageSlot == [item_offset : 0 .. DATA_SIZE, item_length : 0 .. DATA_SIZE]

(* What was written as a slot is told apart from the bytes of a record,    *)
(* even where the program takes one for the other.                         *)
ASSUME UnitsAssumption == PageSlot \cap (Bytes \cup {Zero}) = {}
ASSUME SlotOfAssumption ==
         slotOf \in [Bytes -> [item_offset : Nat, item_length : Nat]]
ASSUME CallsAfterAssumption == CallsAfter \in Nat

(* The slot s of a data area d, as its bytes are read.                     *)
getSlot(d, s) ==
    IF d[s - 1] \in Bytes THEN slotOf[d[s - 1]]
    ELSE IF d[s - 1] = Zero THEN [item_offset |-> 0, item_length |-> 0]
    ELSE d[s - 1]

IsUsed(d, s) == d[s - 1] # Zero

FreeSpace(h) == h.free_space_upper_bound - h.free_space_lower_bound

UsedSlots == {s \in 1 .. header.num_slots : IsUsed(data, s)}

-----------------------------------------------------------------------------
(* deleteRecord, on the slot s of whatever is read there.  It reads the    *)
(* slot anew after every change it makes to the data.                      *)

(* The bytes of the record are zeroed. *)
Erased(s) ==
    LET slot == getSlot(data, s)
    IN  [o \in Offsets |->
           IF o \in slot.item_offset .. slot.item_offset + slot.item_length - 1
           THEN Zero ELSE data[o]]

(* The slots of the records that lie below the one that slot s describes.  *)

(* Slip: only the next record is taken to be below. *)
Below_Next(d, s) ==
    {t \in 1 .. header.num_slots :
        /\ t # s /\ IsUsed(d, t)
        /\ getSlot(d, t).item_offset + getSlot(d, t).item_length
             = getSlot(d, s).item_offset}

Below(d, s) ==
    {t \in 1 .. header.num_slots :
        IsUsed(d, t) /\ getSlot(d, t).item_offset < getSlot(d, s).item_offset}

(* move_offset and move_bytes. *)
LowestBelow(d, s) ==
    Min({getSlot(d, s).item_offset}
          \cup {getSlot(d, t).item_offset : t \in Below(d, s)})

BytesBelow(d, s) ==
    MapThenSumSet(LAMBDA t : getSlot(d, t).item_length, Below(d, s))

Adjusted(s) ==
    LET d == Erased(s)
    IN  [o \in Offsets |->
           IF o + 1 \in Below(d, s)
           THEN [getSlot(d, o + 1) EXCEPT
                   !.item_offset = @ + getSlot(d, s).item_length]
           ELSE d[o]]

(* The bytes from the lowest record below on are moved up; those left      *)
(* behind by the move stay as they are.                                    *)
Moved(s) ==
    LET d   == Erased(s)
        len == getSlot(d, s).item_length
        to  == LowestBelow(d, s) + len
    IN  [o \in Offsets |->
           IF o \in to .. to + BytesBelow(d, s) - 1
           THEN Adjusted(s)[o - len] ELSE Adjusted(s)[o]]

(* The slot is marked unused. *)
Closed(s) == [Moved(s) EXCEPT ![s - 1] = Zero]

WithoutItem(s) ==
    [header EXCEPT
       !.free_space_upper_bound = @ + getSlot(Moved(s), s).item_length,
       !.num_free_slots = @ + 1]

(* A deleted last slot takes the unused slots before it along. *)

(* Slip: only the deleted slot goes. *)
Compacted_LastOnly(d, h, s) ==
    IF s # h.num_slots THEN h
    ELSE [h EXCEPT !.num_slots = @ - 1, !.num_free_slots = @ - 1,
                   !.free_space_lower_bound = @ - 1]

Compacted(d, h, s) ==
    IF s # h.num_slots THEN h
    ELSE LET gone == s - Max({0} \cup {t \in 1 .. s - 1 : IsUsed(d, t)})
         IN  [h EXCEPT !.num_slots = @ - gone,
                       !.num_free_slots = @ - gone,
                       !.free_space_lower_bound = @ - gone]

(* The bytes that are zeroed and those that are moved are bytes of the     *)
(* page.                                                                   *)
StaysInside(s) ==
    LET d == Erased(s)
    IN  /\ getSlot(data, s).item_offset + getSlot(data, s).item_length
             <= DATA_SIZE
        /\ BytesBelow(d, s) > 0 =>
             LowestBelow(d, s) + getSlot(d, s).item_length + BytesBelow(d, s)
               <= DATA_SIZE

(* insertRecordInSlot, into an unused slot. *)
Stored(d, h, s, r) ==
    LET off == h.free_space_upper_bound - Len(r)
    IN  [o \in Offsets |->
           IF o \in off .. off + Len(r) - 1 THEN r[o - off + 1]
           ELSE IF o = s - 1
           THEN [item_offset |-> off, item_length |-> Len(r)]
           ELSE d[o]]

WithItem(h, r) ==
    [h EXCEPT !.free_space_upper_bound = @ - Len(r), !.num_free_slots = @ - 1]

-----------------------------------------------------------------------------
(* Calls are followed on a sound page, and on a harmed one for as long as  *)
(* its header describes a page.                                            *)
Running ==
    /\ damage <= CallsAfter
    /\ header.num_free_slots \in 0 .. header.num_slots
    /\ header.num_slots <= header.free_space_upper_bound
    /\ header.free_space_upper_bound <= DATA_SIZE

Harm == damage' = damage + 1
NoNewHarm == damage' = IF damage = 0 THEN 0 ELSE damage + 1

(* The call ends the process, or leaves a page that nothing can be said    *)
(* of.                                                                     *)
Ends(how) ==
    /\ thrown' = how
    /\ damage' = CallsAfter + 1
    /\ UNCHANGED <<data, header, issued, current>>

Refused(exception) ==
    /\ thrown' = exception
    /\ UNCHANGED <<data, header, issued, current, damage>>

(* insertRecord *)

hasSpaceForRecord(r) ==
    Len(r) + (IF header.num_free_slots = 0 THEN 1 ELSE 0) <= FreeSpace(header)

(* getAvailableSlot: the first unused slot, or a new one.  A new slot is   *)
(* whatever its bytes are.                                                 *)
AvailableSlot ==
    IF header.num_free_slots > 0
    THEN Min({s \in 1 .. header.num_slots : ~IsUsed(data, s)})
    ELSE header.num_slots + 1

SlotTaken ==
    IF header.num_free_slots > 0 THEN header
    ELSE [header EXCEPT !.num_slots = @ + 1, !.num_free_slots = @ + 1,
                        !.free_space_lower_bound = header.num_slots + 1]

(* Slots are counted as unused and none is: an assertion fails. *)
NoneAvailable ==
    header.num_free_slots > 0 /\ \A s \in 1 .. header.num_slots : IsUsed(data, s)

InsertRecord(r) ==
    /\ Running
    /\ hasSpaceForRecord(r)
    /\ ~NoneAvailable
    /\ ~IsUsed(data, AvailableSlot)
    /\ data' = Stored(data, SlotTaken, AvailableSlot, r)
    /\ header' = WithItem(SlotTaken, r)
    /\ issued' = Max({issued, AvailableSlot})
    /\ thrown' = "none"
    /\ NoNewHarm
    /\ UNCHANGED current

(* A new slot whose bytes are those of an old record looks used: the call  *)
(* fails, with the slot already added to the array.                        *)
InsertSlotInUse(r) ==
    /\ Running
    /\ hasSpaceForRecord(r)
    /\ ~NoneAvailable
    /\ IsUsed(data, AvailableSlot)
    /\ header' = SlotTaken
    /\ thrown' = "SlotInUse"
    /\ Harm
    /\ UNCHANGED <<data, issued, current>>

InsertRefused(r) ==
    /\ Running
    /\ ~hasSpaceForRecord(r)
    /\ Refused("InsufficientSpace")

InsertAborts(r) ==
    /\ Running
    /\ hasSpaceForRecord(r)
    /\ NoneAvailable
    /\ Ends("abort")

-----------------------------------------------------------------------------
(* Calls with a RecordId that the client was once given.  validateRecordId *)
(* looks at the bytes of its slot, and not at whether the slot is still in *)
(* the array: where a record has come to lie there, its bytes are taken    *)
(* for a slot.                                                             *)
Valid(s) ==
    /\ Running
    /\ s <= issued
    /\ IsUsed(data, s)

Stale(s) == s > header.num_slots

IdRefused(s) ==
    /\ Running
    /\ s <= issued
    /\ ~IsUsed(data, s)
    /\ Refused("InvalidRecord")

DeleteRecord(s) ==
    /\ Valid(s)
    /\ StaysInside(s)
    /\ data' = Closed(s)
    /\ header' = Compacted(Closed(s), WithoutItem(s), s)
    /\ thrown' = "none"
    /\ IF Stale(s) THEN Harm ELSE NoNewHarm
    /\ UNCHANGED <<issued, current>>

FitsInstead(s, r) ==
    Len(r) <= FreeSpace(header) + getSlot(data, s).item_length

(* After the deletion the record has room above the start of the page. *)
RoomFor(h, r) == h.free_space_upper_bound \in Len(r) .. DATA_SIZE

(* updateRecord: deleted without compaction of the slots, then inserted    *)
(* into the same slot.                                                     *)

(* Slip: the slots are compacted in between, and the record goes to the    *)
(* slot an insertion would give it.                                        *)
UpdateRecord_Compacts(s, r) ==
    LET h == Compacted(Closed(s), WithoutItem(s), s)
        t == IF s > h.num_slots THEN h.num_slots + 1 ELSE s
    IN  /\ Valid(s) /\ ~Stale(s)
        /\ FitsInstead(s, r) /\ StaysInside(s) /\ RoomFor(h, r)
        /\ data' = Stored(Closed(s), h, t, r)
        /\ header' = [WithItem(h, r) EXCEPT !.num_slots = Max({t, @})]
        /\ thrown' = "none"
        /\ NoNewHarm
        /\ UNCHANGED <<issued, current>>

UpdateRecord(s, r) ==
    /\ Valid(s) /\ ~Stale(s)
    /\ FitsInstead(s, r) /\ StaysInside(s) /\ RoomFor(WithoutItem(s), r)
    /\ data' = Stored(Closed(s), WithoutItem(s), s, r)
    /\ header' = WithItem(WithoutItem(s), r)
    /\ thrown' = "none"
    /\ NoNewHarm
    /\ UNCHANGED <<issued, current>>

(* insertRecordInSlot finds that the slot is not in the array, after what  *)
(* was taken for its record has been deleted.                              *)
UpdateStale(s, r) ==
    /\ Valid(s) /\ Stale(s)
    /\ FitsInstead(s, r) /\ StaysInside(s)
    /\ data' = Closed(s)
    /\ header' = WithoutItem(s)
    /\ thrown' = "InvalidSlot"
    /\ Harm
    /\ UNCHANGED <<issued, current>>

UpdateRefused(s, r) ==
    /\ Valid(s)
    /\ ~FitsInstead(s, r)
    /\ Refused("InsufficientSpace")

(* An offset behind the end of the page is refused by std::string, before  *)
(* anything is changed.                                                    *)
OutOfRange(s) ==
    /\ Valid(s)
    /\ getSlot(data, s).item_offset > DATA_SIZE
    /\ Refused("out_of_range")

(* A record that only ends there makes the string longer than the page, or *)
(* is moved in part.  That is not followed.                                *)
Overruns(s) ==
    /\ Valid(s)
    /\ getSlot(data, s).item_offset <= DATA_SIZE
    /\ \/ ~StaysInside(s)
       \/ ~Stale(s) /\ \E r \in Records :
            FitsInstead(s, r) /\ ~RoomFor(WithoutItem(s), r)
    /\ Ends("overrun")

-----------------------------------------------------------------------------
(* A PageIterator of the client, which is no more than a slot number: the  *)
(* page may change in any way before it is advanced.                       *)

getNextUsedSlot(start) ==
    LET behind == {s \in UsedSlots : s > start}
    IN  IF behind = {} THEN INVALID_SLOT ELSE Min(behind)

(* Page::begin, and the iterator's operator++. *)
MoveTo(slot) ==
    /\ Running
    /\ current' = slot
    /\ thrown' = "none"
    /\ UNCHANGED <<data, header, issued, damage>>

Begin == MoveTo(getNextUsedSlot(INVALID_SLOT))

Advance == current # INVALID_SLOT /\ MoveTo(getNextUsedSlot(current))

Stopped == ~Running /\ UNCHANGED vars

Next ==
    \/ \E r \in Records :
         \/ InsertRecord(r) \/ InsertSlotInUse(r)
         \/ InsertRefused(r) \/ InsertAborts(r)
         \/ \E s \in SlotIds :
              UpdateRecord(s, r) \/ UpdateStale(s, r) \/ UpdateRefused(s, r)
    \/ \E s \in SlotIds :
         DeleteRecord(s) \/ IdRefused(s) \/ OutOfRange(s) \/ Overruns(s)
    \/ Begin \/ Advance
    \/ Stopped

Spec == Init /\ [][Next]_vars

-----------------------------------------------------------------------------
(* The slots of the array that hold a record. *)
Filled == {s \in UsedSlots : data[s - 1] \in PageSlot}

Item(s) == getSlot(data, s).item_offset ..
             getSlot(data, s).item_offset + getSlot(data, s).item_length - 1

(* The types, of a page no call has harmed; the slot array and the records *)
(* stay apart.                                                             *)
TypeOK ==
    /\ thrown \in {"none", "InsufficientSpace", "InvalidRecord", "SlotInUse",
                   "InvalidSlot", "out_of_range", "overrun", "abort"}
    /\ damage \in 0 .. CallsAfter + 1
    /\ damage = 0 =>
         /\ DOMAIN data = Offsets
         /\ \A s \in UsedSlots : data[s - 1] \in PageSlot
         /\ header.num_slots \in 0 .. DATA_SIZE
         /\ header.num_free_slots \in 0 .. header.num_slots
         /\ header.free_space_lower_bound = header.num_slots
         /\ header.free_space_upper_bound \in header.num_slots .. DATA_SIZE
         /\ issued \in 0 .. DATA_SIZE
         /\ current \in {INVALID_SLOT} \cup SlotIds

(* The records lie side by side without hole or overlap, from the upper    *)
(* bound of the free space to the end of the page: no space is lost, so a  *)
(* record is refused only when it does not fit.  (page.h:165: the page is  *)
(* compacted upon delete.)                                                 *)
ItemsContiguous ==
    damage = 0 =>
      /\ UNION {Item(s) : s \in Filled}
           = header.free_space_upper_bound .. DATA_SIZE - 1
      /\ \A s, t \in Filled : s # t => Item(s) \cap Item(t) = {}

(* The header's count of unused slots is exact, so that getAvailableSlot   *)
(* finds the slot it is promised, and the array never ends in an unused    *)
(* slot.                                                                   *)
SlotsExact ==
    /\ TypeOK
    /\ damage = 0 =>
        /\ header.num_free_slots
             = Cardinality(1 .. header.num_slots \ UsedSlots)
        /\ header.num_slots > 0 => header.num_slots \in UsedSlots

(* Through all moves of bytes and slots every record keeps its number and  *)
(* its content, as RecordPage says, and an iterator goes on to the next    *)
(* record behind it, even if its own record has been deleted and the slot  *)
(* array has become shorter than the number it stands at.  No call reaches *)
(* outside the page and no assertion fails.  One kind of call does not     *)
(* keep that: one with the RecordId of a deleted record whose slot has     *)
(* left the array and is taken for used.  It should be refused             *)
(* (InvalidRecordException, page.h:308-315) and changes other records.     *)
Record(s) ==
    IF s \in Filled
    THEN [i \in 1 .. getSlot(data, s).item_length |->
            data[getSlot(data, s).item_offset + i - 1]]
    ELSE NoRecord

Contents == INSTANCE RecordPage
              WITH Slots <- SlotIds, record <- [s \in SlotIds |-> Record(s)]

TakesStaleId ==
    \E s \in SlotIds :
      /\ Stale(s)
      /\ DeleteRecord(s) \/ Overruns(s) \/ \E r \in Records : UpdateStale(s, r)

KeepsRecords ==
    /\ [Contents!Next]_(Contents!vars)
    /\ thrown' \notin {"overrun", "abort"}

RecordsSpec ==
    /\ Contents!Init
    /\ [][damage = 0 => KeepsRecords \/ TakesStaleId]_vars
=============================================================================
