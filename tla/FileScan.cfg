\* A file of up to three pages with two slots each, and two
\* frames for the scan.
SPECIFICATION Spec
CONSTANTS
    MaxPage = 3
    MaxSlot = 2
    numBufs = 2
    Contents = {{}, {1, 2}}
    Absent = absent
    NotPooled = notpooled
INVARIANTS
    ScanPins
    EachRecordOnce
PROPERTIES
    WritesOnlyMarked
    ScanNextReturns
