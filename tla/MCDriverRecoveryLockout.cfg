SPECIFICATION Spec
CONSTANTS
    MaxApplies = 1
    MaxEvents = 1
    Threshold = 3
INVARIANTS LockoutCanBeAcknowledged
CHECK_DEADLOCK FALSE
