\* Two timers of either kind, under fairness.
CONSTANT MaxTimers = 2
SPECIFICATION FairSpec
INVARIANTS
    TypeOK
    TableMatchesTasks
    OneTriggerPerTimer
PROPERTIES
    ImplementsTimerContract
    ClearedStaysCleared
    OnceEnds
    IntervalGoesOn
