CONSTANTS
    Threads = {p1, p2}
    Kinds <- MCKinds
    MaxActive = 1
    Addresses = {a1, a2, a3, a4}
    MaxPictures = 3
    MaxLeaked = 1
    NULL = NULL
SPECIFICATION FairSpec
INVARIANTS
    PoolInv
    FreesOwnButSurplus
PROPERTIES
    BorrowersServed
