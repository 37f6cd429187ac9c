\* The worker threads of the Windows service: three requests around the fan worker with
\* one failed wait or creation; a line of each of two producers over two routes and one
\* slot too few, a ring of one line and one file fault.  The log of a process that has ended stops.
CONSTANTS
    FailureLimit = 3
    MaxRequests = 3
    MaxMishaps = 1
    Producers = {p1, p2}
    MaxLines = 2
    RingLines = 1
    RouteSlots = 1
    MaxRoutes = 2
    MaxFileFaults = 1
SPECIFICATION MCSpec
CHECK_DEADLOCK FALSE
INVARIANTS
    FanTypeOK
    AtMostOneWorker
    HeldFanIsAccountedFor
    InstallFindsNoRuntime
    LogTypeOK
    GapsAreCounted
    
PROPERTIES
    RuntimeIsDriven
    EveryRequestEnds
    RingIsDrained
    StopEnds
