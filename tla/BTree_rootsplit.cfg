\* The shortest way to a split of the root, when it is an inner node.
SPECIFICATION SpecIndex
CONSTANTS
    Keys <- MCKeys
    pageWords = 8
    numBufs = 3
    MaxEntries = 7
    MaxFailures = 1
    Ranges = {}
    MaxScanned = 0
INVARIANT
    RootSplitGrowsTree
