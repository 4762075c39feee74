CONSTANTS
    Tokens = {t1}
    Workers = {w1, w2}
    Models = {m1, m2}
    Cleaner = Cleaner
    MaxImages = 1
    Overlap = FALSE
    Lateness = {TRUE, FALSE}
    NULL = NULL
SPECIFICATION FairSpec
INVARIANTS
    OnlyCleanerTakesInstance
    LateFramesAreDropped
PROPERTIES
    ExpiredIsUnmapped
