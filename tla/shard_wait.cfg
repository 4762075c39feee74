CONSTANTS
    MaxRecords = 1
    MaxBatch = 1
    MaxRestarts = 0
    Tokens = {t1}
    Bad = Bad
    KeepCheckpoint = TRUE
SPECIFICATION Spec
CHECK_DEADLOCK FALSE
INVARIANTS
    BatchWaitsForResults
