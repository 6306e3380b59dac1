\* Two files, four File objects of clients and two frame descriptors.
SPECIFICATION Spec
CONSTANTS
    Clients = {c1, c2, c3, c4}
    Descriptors = {f1, f2}
    Names = {a, b}
    Streams = {s1, s2, s3, s4, s5, s6, s7}
    NoName = NoName
    NoEntry = NoEntry
    Null = Null
    Gone = Gone
    MaxDrift = 4
SYMMETRY Symmetry
INVARIANT
    HandlesExact
PROPERTY
    ClearNeverThrows
