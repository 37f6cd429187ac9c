SPECIFICATION Spec
CONSTANTS
    Gpus = {g1}
    NoGpu = NoGpu
    Profiles = {"a"}
    Requests <- ManualOnly
    StartupPolicies <- NoPolicies
    MaxStartAttempts = 3
    MaxHandbacks = 2
    MaxBoots = 1
    MaxOps = 3
    MaxCrashes = 1
    StoreFaults = TRUE
    DirSyncFaults = TRUE
    ReadFaults = FALSE
    BackendFaults = FALSE
    HardwareFaults = FALSE
INVARIANTS
    ManualFanIsRecorded
CHECK_DEADLOCK FALSE
