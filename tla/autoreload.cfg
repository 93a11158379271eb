\* Three changes, compiled in any order, and one deployment.
SPECIFICATION FairSpec
CONSTANTS
    MaxEdits = 3
    MaxDeploys = 1
    Code <- FourVersions
INVARIANTS
    TypeOK
    RunsOneReload
PROPERTIES
    ReloadsInOrder
    ReloadEndsRunning
CHECK_DEADLOCK FALSE
