CONSTANTS
    Contents <- GrowingFiles
    ChunkSize = 2
    MaxFileSize = 2
    Capacity = 1
    SourceMayChange = TRUE
    Corrupting = TRUE
    DiskMayFail = TRUE
    Old = Old
    NoFile = NoFile
SPECIFICATION Spec
CHECK_DEADLOCK FALSE
INVARIANTS
    AckedIsWritten
    RefusedLeavesNoTrace
    PastedIsWhole
