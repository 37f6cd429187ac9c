SPECIFICATION MCSpec
CONSTANTS
    MaxApplies = 1
    MaxEvents = 2
    Threshold = 2
INVARIANTS TypeOK NoAutomaticWriteUnderLockout RecoveriesBounded ReapplyingHasContinuation
PROPERTIES RestoreWritesLastApplied ServiceReturns ExternalStopEnds DriverFaultIsHandled StrandedFanIsResolved
CHECK_DEADLOCK FALSE
