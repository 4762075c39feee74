CONSTANTS
    Images = {i1, i2}
    Days = {1}
    Expired = {1, 2, 7, 30}
    Sizes = {0, 1}
    MAX_MERGE_FILE_NUM = 2
    NULL = NULL
SYMMETRY Symmetry
SPECIFICATION Spec
INVARIANTS
    CollectedIsUploaded
