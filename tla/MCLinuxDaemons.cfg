\* A machine with one adapter, with failing stores and four deaths of the daemon, and one
\* with two adapters, every policy, every request and two deaths.  A daemon that may crash
\* no more and has served its requests stops.
CONSTANTS
    Gpus = {g1, g2}
    SecondGpu = g2
    NoGpu = NoGpu
    Profiles = {"a", "b"}
    Requests <- TwoRequests
    StartupPolicies <- NoPolicies
    MaxStartAttempts = 3
    MaxHandbacks = 2
    MaxBoots = 2
    MaxOps = 2
    MaxCrashes = 4
    StoreFaults = TRUE
    DirSyncFaults = FALSE
    ReadFaults = FALSE
    BackendFaults = TRUE
    HardwareFaults = TRUE
SPECIFICATION MCSpec
INVARIANTS
    TypeOK
    ManualFanIsRecorded
    StartWritesBounded
    HandbackDeathsBounded
    AutomaticWriteIsDurablyAuthorized
    SettledIntentIsOnHardware
    ReplayedIntentIsTheCommittedOne
    UncertaintyIsDurableOnWorkingStores
PROPERTIES
    LockoutNeedsUser
CHECK_DEADLOCK FALSE
