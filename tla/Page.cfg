\* A page of seven units; no empty records.
SPECIFICATION Spec
CONSTANTS
    DATA_SIZE = 7
    x = x
    y = y
    Bytes <- MCBytes
    Zero = zero
    Records <- MCRecords
    NoRecord = norecord
    slotOf <- MCSlotOf
    CallsAfter = 1
INVARIANTS
    ItemsContiguous
    SlotsExact
PROPERTIES
    RecordsSpec
