\* Two concurrent update calls, one of a manual method, and three promise ids,
\* at most one of them drawn while the module is evaluated.
SPECIFICATION Spec
CONSTANTS
    Methods = {m1, m2}
    Manual = {m2}
    NoMethod = NoMethod
    MaxIds = 3
    MaxInitCalls = 1
INVARIANTS
    TypeOK
    CallbackTablesExact
    NoLostWakeup
    DrainedAtRest
    RejectedHasCause
PROPERTIES
    SettledForever
    ImplementsContract
