SPECIFICATION Spec
CONSTANTS
    Gpus = {g1}
    NoGpu = NoGpu
    Profiles = {"a"}
    Requests <- ManualOnly
    StartupPolicies <- NoPolicies
    MaxStartAttempts = 3
    MaxHandbacks = 2
    MaxBoots = 1
    MaxOps = 2
    MaxCrashes = 1
    StoreFaults = TRUE
    DirSyncFaults = FALSE
    ReadFaults = FALSE
    BackendFaults = FALSE
    HardwareFaults = TRUE
PROPERTIES
    FailedOperationIsNotReplayable
CHECK_DEADLOCK FALSE
