-------------------------- MODULE MCServiceThreads --------------------------
(* The worker threads of the Windows service: the fan worker and the writer *)
(* of the debug log.  They share no state, so a behaviour exercises one of  *)
(* them while the other stays as it was started.                            *)
EXTENDS FanWorker, Sequences

CONSTANTS Producers, MaxLines, RingLines, RouteSlots, MaxRoutes, MaxFileFaults

VARIABLES ring, dropped, rerouted, current, slots, event, published, starting, stopping,
          fileLock, pc, hand, written, reported, forgotten, late, lines, faults,
          exercised   \* the thread this behaviour is about

logVars == <<ring, dropped, rerouted, current, slots, event, published, starting, stopping,
             fileLock, pc, hand, written, reported, forgotten, late, lines, faults>>

Log == INSTANCE DebugLog

ASSUME LogAssumption == Log!LogParameters

MCInit == Init /\ Log!Init /\ exercised \in {"fan", "log"}

MCNext ==
    \/ exercised = "fan" /\ Next /\ UNCHANGED <<logVars, exercised>>
    \/ exercised = "log" /\ Log!Next /\ UNCHANGED <<vars, exercised>>

\* No fair action is enabled in an initial state: the thread that is not exercised owes
\* no step
MCSpec == MCInit /\ [][MCNext]_<<vars, logVars, exercised>> /\ Fairness /\ Log!Fairness

\* The state of the debug log is well formed and its file is touched under its lock
LogTypeOK == Log!TypeOK

\* As long as no write failed uncounted, no line and no reroute misses in the counts (DebugLog)
GapsAreCounted == Log!GapsAreCounted

\* A shutdown in time leaves in ring and counters only what came after it (DebugLog)
ShutdownSettlesTheLog == Log!ShutdownSettlesTheLog

\* Committed lines are drained until the log is shut down (DebugLog)
RingIsDrained == Log!RingIsDrained

\* The shutdown of the log ends without help of its timeout (DebugLog)
StopEnds == Log!StopEnds
=============================================================================
