SPECIFICATION FairSpec
CONSTANTS
    Methods = {m1, m2}
    Manual = {m2}
    NoMethod = NoMethod
    MaxIds = 2
    MaxInitCalls = 1
PROPERTIES
    EveryCallIsSettled
    EveryAwaitEnds
