SPECIFICATION Spec
CONSTANT Scenarios <- DeviceOnly
PROPERTY
    WindowReturnsToReady
CHECK_DEADLOCK FALSE
