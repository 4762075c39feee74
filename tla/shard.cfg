CONSTANTS
    MaxRecords = 3
    MaxBatch = 2
    MaxRestarts = 1
    Tokens = {t1, t2}
    Bad = Bad
    KeepCheckpoint = TRUE
SPECIFICATION MCFairSpec
CHECK_DEADLOCK FALSE
INVARIANTS
    ShardInv
    EveryRecordAccounted
PROPERTIES
    FramesInOrder
    CheckpointAdvances
    ImplementsDelivery
    CallReturns
    SubmittedIsHandled
