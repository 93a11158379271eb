\* One attempt after the other, of files whose last chunk is short, empty after full ones, or all there is, under fairness.
CONSTANTS
    MaxAttempts = 3
    Size <- AnySizes
    ChunkSize = 2
    HashLimit = 2
    Concurrent = FALSE
    Absent = Absent
SPECIFICATION FairSpec
INVARIANTS
    HashIsOfASource
    HashVouchesForFile
PROPERTY UploadCompletes
CHECK_DEADLOCK FALSE
