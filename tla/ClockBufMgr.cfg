\* One File object with three pages over two frames and three chains.
SPECIFICATION Spec
CONSTANTS
    A = A
    Files <- MCFiles
    address <- MCAddress
    WordSize = 4
    NoFile = NoFile
    numBufs = 2
    MaxPage = 3
    MaxPins <- MCMaxPins
    Shared = {1}
    Empty = e
    Absent = absent
    Data = {e, d}
    NoFrame = NoFrame
INVARIANTS
    HashDescAgree
    PinAccounting
PROPERTIES
    StoreSpec
    ExceededOnlyWhenAllPinned
    StumblesOnlyOverStrays
    FlushEmpties
