\* Two items, three users, up to three bids or categories an item.
SPECIFICATION Spec
CONSTANTS
    Users = {u, v, w}
    Categories = {"c", "d"}
    None = None
    ItemIDs = {i1, i2}
    Items <- MCItems
SYMMETRY Symmetry
INVARIANTS
    UsersOnce
    RowsRetell
