CONSTANTS
    Images = {i1, i2, i3}
    Days = {1, 14}
    Expired = {1, 2, 7, 30}
    Sizes = {0, 2}
    MAX_MERGE_FILE_NUM = 2
    NULL = NULL
SPECIFICATION FairSpec
INVARIANTS
    PutInv
    RangesCutOutImages
    MergeLimit
    PublishedOnce
    TagFitsAll
    LostOnlyAtBadTail
PROPERTIES
    ImagesGetOut
