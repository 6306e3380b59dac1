\* The shortest way: one item with a bid.
SPECIFICATION Spec
CONSTANTS
    Users = {u, v, w}
    Categories = {"c", "d"}
    None = None
    ItemIDs = {i1}
    Items <- MCItems
SYMMETRY Symmetry
INVARIANT
    AuctionsOfSellers
