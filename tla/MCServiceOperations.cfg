SPECIFICATION Spec
CONSTANTS
    Ops = {a, r}
    Resets = {r}
    NoOp = NoOp
    Capacity = 1
    MaxRestarts = 1
    MaxRetries = 1
    MaxRepeaters = 1
    MaxAsks = 1
    MaxClients = 2
    StoreFaults = TRUE
    QueryRefusals = {"linux"}
INVARIANTS
    TypeOK
PROPERTIES
    RepeatIsAnsweredFromRecord
    ImplementsContract
    EveryOperationIsReported
CHECK_DEADLOCK FALSE
