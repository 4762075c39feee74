CONSTANT
    Inputs <- MCInputs
SPECIFICATION FairSpec
CHECK_DEADLOCK FALSE
INVARIANTS
    BoxesAreHulls
    TestIsExact
PROPERTIES
    MergingEnds
