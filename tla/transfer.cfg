CONSTANTS
    Contents <- SmallFiles
    ChunkSize = 2
    MaxFileSize = 0
    Capacity = 1
    SourceMayChange = FALSE
    Corrupting = TRUE
    DiskMayFail = TRUE
    Old = Old
    NoFile = NoFile
SPECIFICATION Spec
CHECK_DEADLOCK FALSE
INVARIANTS
    TypeOK
    StopAndWait
    EndsAgree
PROPERTIES
    Delivers
    BothFinish
