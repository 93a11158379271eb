\* Up to three items under keys that are easily confused, with values nested three deep.
CONSTANTS
    Keys <- ConfusingKeys
    Values <- NestedValues
    undefined <- Undefined
    None = None
    MaxItems = 3
    keyToBytes <- ToBytesOnce
    keyFromBytes <- FromBytesOnce
    valueToBytes <- ToBytesOnce
    valueFromBytes <- FromBytesOnce
    Below <- ByRank
SPECIFICATION Spec
INVARIANTS
    TypeOK
    PagesAreTheMap
PROPERTY ImplementsMapOfValues
