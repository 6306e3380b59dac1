\* Pages of eight words: leaves of two entries and inner nodes of three keys.
\* Six entries can split an inner node, the seventh goes in below it.  Five
\* entries, the most that are scanned, make four leaves, in their order or not.
SPECIFICATION SpecIndex
CONSTANTS
    Keys <- MCKeys
    pageWords = 8
    numBufs = 3
    MaxEntries = 7
    MaxFailures = 1
    Ranges <- MCRanges
    MaxScanned = 5
INVARIANTS
    AllStored
    Ordered
    LinkedUntil
    ChangesMarkedDirty
    ScanExact
    ScanPins
    DestructorReturns
