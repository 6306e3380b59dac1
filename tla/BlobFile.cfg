\* Three objects of two files of up to two pages.
SPECIFICATION Spec
CONSTANTS
    Clients = {c1, c2, c3}
    Names = {a, b}
    Data = {e, d}
    Blank = e
    NoFile = NoFile
    Gone = Gone
    Nothing = Nothing
    MaxPage = 2
SYMMETRY Symmetry
INVARIANT
    HandlesExact
PROPERTY
    BlobSpec
