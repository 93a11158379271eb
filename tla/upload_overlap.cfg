\* Attempts that overlap, of a file with a short last chunk and one without, under fairness.
CONSTANTS
    MaxAttempts = 2
    Size <- MixedSizes
    ChunkSize = 2
    HashLimit = 2
    Concurrent = TRUE
    Absent = Absent
SPECIFICATION FairSpec
INVARIANTS
    TypeOK
    CountMatchesFile
PROPERTIES CommandEnds HashingStartsOnCompleteFile
CHECK_DEADLOCK FALSE
