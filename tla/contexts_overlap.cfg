CONSTANTS
    Tokens = {t1}
    Workers = {w1, w2}
    Models = {m1, m2}
    Cleaner = Cleaner
    MaxImages = 1
    Overlap = TRUE
    Lateness = {FALSE}
    NULL = NULL
SYMMETRY Symmetry
SPECIFICATION Spec
INVARIANTS
    LifeInv
    DeleteOnce
    MappedIsUsable
    LockHolderUnmapsOwn
    LeaksHaveAReason
PROPERTIES
    ImplementsLifecycle
