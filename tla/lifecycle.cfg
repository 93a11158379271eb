\* One upgrade, a seed from raw_rand before and after it, one from the developer.
SPECIFICATION FairSpec
CONSTANTS
    mapA = mapA
    mapB = mapB
    MemoryIds = {mapA, mapB}
    Keys = {k1, k2}
    Values = {v}
    None = None
    Codes <- TwoVersions
    UserSeeds = {seed}
    TimerIds = {timer}
    MaxItems = 1
    MaxRaw = 2
    MaxDraws = 1
    MaxUpgrades = 1
INVARIANTS
    TypeOK
    IdsFresh
    MapsUsable
    SeededTogether
PROPERTIES
    ImplementsStableStore
    EventuallySeeded
