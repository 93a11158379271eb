\* A late chunk of the first attempt, after the second is hashed.
CONSTANTS
    MaxAttempts = 2
    Size <- UnevenSizes
    ChunkSize = 2
    HashLimit = 2
    Concurrent = TRUE
    Absent = Absent
SPECIFICATION FairSpec
PROPERTY EarlierAttemptsDisregarded
CHECK_DEADLOCK FALSE
