SPECIFICATION Spec
CONSTANT Scenarios <- UseAndDevice
INVARIANTS
    TypeOK
    NoLostWake
    RetiredAuthorityStaysRetired
PROPERTIES
    DraftLeavesWithItsCommit
    WaitingResetIsKept
    EveryWriteEnds
CHECK_DEADLOCK FALSE
