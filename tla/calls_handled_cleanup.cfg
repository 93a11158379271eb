\* A method that handles the CleanupCallback error and returns.
SPECIFICATION Spec
CONSTANTS
    Methods = {m1}
    Manual = {}
    NoMethod = NoMethod
    MaxIds = 2
    MaxInitCalls = 1
INVARIANTS
    HandledCleanupCommits
