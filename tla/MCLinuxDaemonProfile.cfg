SPECIFICATION Spec
CONSTANTS
    Gpus = {g1}
    NoGpu = NoGpu
    Profiles = {"a"}
    Requests <- ManualOnly
    StartupPolicies <- AllPolicies
    MaxStartAttempts = 3
    MaxHandbacks = 2
    MaxBoots = 1
    MaxOps = 2
    MaxCrashes = 1
    StoreFaults = FALSE
    DirSyncFaults = FALSE
    ReadFaults = FALSE
    BackendFaults = FALSE
    HardwareFaults = TRUE
INVARIANTS
    StartWriteSeesSettledRecord
CHECK_DEADLOCK FALSE
