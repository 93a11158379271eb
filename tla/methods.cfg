\* Fourteen programs, edited, built, deployed and reloaded in any order.
SPECIFICATION Spec
CONSTANTS
    Names = {"a", "b", "c", "d"}
    Params = {"nat", "text", "none"}
    NoParams = "none"
    Programs <- SomePrograms
    MaxObjects = 1
INVARIANTS
    TypeOK
    ExportsFindMethods
    StartsWithInitial
    CandidDescribesMethods
