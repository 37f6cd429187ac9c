SPECIFICATION Spec
CONSTANTS
    Ops = {a, r}
    Resets = {r}
    NoOp = NoOp
    Capacity = 1
    MaxRestarts = 0
    MaxRetries = 0
    MaxRepeaters = 0
    MaxAsks = 1
    MaxClients = 1
    StoreFaults = FALSE
    QueryRefusals = {"windows", "linux"}
INVARIANTS
    FailureIsNotCommitted
CHECK_DEADLOCK FALSE
