\* A file of up to five pages.
SPECIFICATION Spec
CONSTANTS
    MaxPage = 5
    Empty = e
    Absent = absent
    NoCopy = nocopy
    Data = {e, d}
INVARIANTS
    FreeListExact
    UsedListExact
PROPERTIES
    FileSpec
