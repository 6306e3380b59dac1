\* One file of three pages over two frames, two holders per page; no
\* symmetry, liveness is checked.
SPECIFICATION Spec
CONSTANTS
    Files = {A}
    NoFile = NoFile
    numBufs = 2
    MaxPage = 3
    MaxPins = 2
    Empty = e
    Absent = absent
    Data = {e, d}
    NoFrame = NoFrame
INVARIANTS
    TypeOK
    HashDescAgree
    PinAccounting
    CleanMatchesDisk
PROPERTIES
    StoreSpec
    PinnedPagesStay
    ExceededOnlyWhenStuck
    CallReturns
    WedgedOnlyByFailedRead
