\* Two producers with a line each and a shutdown that gives the writer up.
CONSTANTS
    Producers = {p1, p2}
    MaxLines = 2
    RingLines = 1
    RouteSlots = 1
    MaxRoutes = 2
    MaxFileFaults = 1
SPECIFICATION Spec
INVARIANTS ShutdownDrainsEitherWay
CHECK_DEADLOCK FALSE
