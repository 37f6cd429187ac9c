------------------------ MODULE ServiceThreadsProofs ------------------------
(***************************************************************************)
(* What DebugLogProofs proves of the log by itself holds of the log beside *)
(* the fan worker, in the specification whose small instance TLC checks.   *)
(* The log of the composition and the log of the proofs are two instances  *)
(* of one module: the lemmas below identify them, action by action.        *)
(***************************************************************************)
EXTENDS MCServiceThreads, TLAPS

LP == INSTANCE DebugLogProofs

-----------------------------------------------------------------------------
(* One log.                                                                *)

\* Both instances count alike.
LEMMA SameCount == \A S : Log!Cardinality(S) = LP!Cardinality(S)
BY DEF Log!Cardinality, LP!Cardinality

\* The steps of a producer are the same.
LEMMA SameProducer ==
    ASSUME NEW p \in Producers, Log!Log(p) \/ Log!Producer(p)
    PROVE  LP!Log(p) \/ LP!Producer(p)
<1>1. Log!Log(p) => LP!Log(p)
  BY Zenon
   DEF Log!Log, LP!Log, Log!Goto, LP!Goto, Log!ringVars, LP!ringVars, Log!routeVars,
       LP!routeVars, Log!fileVars, LP!fileVars
<1>2. Log!Create(p) => LP!Create(p)
  BY Zenon
   DEF Log!Create, LP!Create, Log!Goto, LP!Goto, Log!ringVars, LP!ringVars, Log!routeVars,
       LP!routeVars, Log!fileVars, LP!fileVars
<1>3. Log!Commit(p) => LP!Commit(p)
  BY Zenon
   DEF Log!Commit, LP!Commit, Log!Goto, LP!Goto, Log!Since, LP!Since, Log!routeVars, LP!routeVars,
       Log!threadVars, LP!threadVars, Log!fileVars, LP!fileVars
<1>4. Log!Signal(p) => LP!Signal(p)
  BY Zenon
   DEF Log!Signal, LP!Signal, Log!Goto, LP!Goto, Log!ringVars, LP!ringVars, Log!routeVars,
       LP!routeVars, Log!fileVars, LP!fileVars
<1>5. Log!SyncLock(p) => LP!SyncLock(p)
  BY Zenon
   DEF Log!SyncLock, LP!SyncLock, Log!Goto, LP!Goto, Log!ringVars, LP!ringVars,
       Log!routeVars, LP!routeVars, Log!threadVars, LP!threadVars, Log!fileVars,
       LP!fileVars, Log!Nobody, LP!Nobody
<1>6. Log!SyncWrite(p) => LP!SyncWrite(p)
  BY Zenon
   DEF Log!SyncWrite, LP!SyncWrite, Log!Goto, LP!Goto, Log!WriteLine, LP!WriteLine,
       Log!Nobody, LP!Nobody, Log!routeVars, LP!routeVars, Log!threadVars, LP!threadVars,
       Log!fileVars, LP!fileVars
<1> QED
  BY <1>1, <1>2, <1>3, <1>4, <1>5, <1>6 DEF Log!Producer, LP!Producer

\* The steps of a drain are the same.
LEMMA SameDrain ==
    ASSUME NEW a \in Log!Drainers, Log!Drain(a)
    PROVE  a \in LP!Drainers /\ LP!Drain(a)
<1>1. Log!DrainBegin(a) => LP!DrainBegin(a)
  BY SameCount, Zenon
   DEF Log!DrainBegin, LP!DrainBegin, Log!Goto, LP!Goto, Log!Nobody, LP!Nobody,
       Log!routeVars, LP!routeVars, Log!threadVars, LP!threadVars
<1>2. Log!Take(a) => LP!Take(a)
  BY Zenon
   DEF Log!Take, LP!Take, Log!Goto, LP!Goto, Log!RouteOf, LP!RouteOf, Log!routeVars,
       LP!routeVars, Log!threadVars, LP!threadVars, Log!fileVars, LP!fileVars
<1>3. Log!Write(a) => LP!Write(a)
  BY Zenon
   DEF Log!Write, LP!Write, Log!Goto, LP!Goto, Log!WriteLine, LP!WriteLine, Log!Nothing,
       LP!Nothing, Log!routeVars, LP!routeVars, Log!threadVars, LP!threadVars,
       Log!fileVars, LP!fileVars
<1>4. Log!Leave(a) => LP!Leave(a)
  BY Zenon
   DEF Log!Leave, LP!Leave, Log!Goto, LP!Goto, Log!Nobody, LP!Nobody, Log!ringVars,
       LP!ringVars, Log!routeVars, LP!routeVars, Log!threadVars, LP!threadVars,
       Log!fileVars, LP!fileVars
<1> QED
  BY <1>1, <1>2, <1>3, <1>4 DEF Log!Drain, LP!Drain, Log!Drainers, LP!Drainers

\* The wake, a new route and the shutdown are the same.
LEMMA SameOthers ==
    ASSUME Log!Wake \/ Log!SetRoute \/ Log!Stop \/ Log!Join \/ Log!JoinTimesOut
    PROVE  LP!Wake \/ LP!SetRoute \/ LP!Stop \/ LP!Join \/ LP!JoinTimesOut
<1>1. Log!Wake => LP!Wake
  BY Zenon
   DEF Log!Wake, LP!Wake, Log!Goto, LP!Goto, Log!ringVars, LP!ringVars, Log!routeVars,
       LP!routeVars, Log!fileVars, LP!fileVars
<1>2. Log!SetRoute => LP!SetRoute
  BY Zenon
   DEF Log!SetRoute, LP!SetRoute, Log!ringVars, LP!ringVars, Log!fileVars, LP!fileVars
<1>3. Log!Stop => LP!Stop
  BY Zenon
   DEF Log!Stop, LP!Stop, Log!Goto, LP!Goto, Log!ringVars, LP!ringVars, Log!routeVars,
       LP!routeVars, Log!fileVars, LP!fileVars
<1>4. Log!Join => LP!Join
  BY Zenon
   DEF Log!Join, LP!Join, Log!Goto, LP!Goto, Log!ringVars, LP!ringVars, Log!routeVars,
       LP!routeVars, Log!fileVars, LP!fileVars
<1>5. Log!JoinTimesOut => LP!JoinTimesOut
  BY Zenon
   DEF Log!JoinTimesOut, LP!JoinTimesOut, Log!Goto, LP!Goto, Log!ringVars, LP!ringVars,
       Log!routeVars, LP!routeVars, Log!fileVars, LP!fileVars
<1> QED
  BY <1>1, <1>2, <1>3, <1>4, <1>5

\* A step of the composition is a step of the log or leaves the log alone: the two threads
\* share no state.
LEMMA SameStep ==
    ASSUME [MCNext]_<<vars, logVars, exercised>>
    PROVE  [LP!Next]_LP!vars
<1>1. UNCHANGED logVars => UNCHANGED LP!vars
  BY DEF logVars, LP!vars, LP!ringVars, LP!routeVars, LP!threadVars, LP!fileVars
<1>2. Log!Next => LP!Next
  BY SameProducer, SameDrain, SameOthers DEF Log!Next, LP!Next
<1> QED
  BY <1>1, <1>2 DEF MCNext

\* The log starts alike, and its parameters are those the runs check.
LEMMA SameStart ==
    ASSUME MCInit
    PROVE  LP!Init /\ LP!LogParameters
<1>1. LP!LogParameters
  BY LogAssumption, Zenon DEF Log!LogParameters, LP!LogParameters, Log!IsFiniteSet, LP!IsFiniteSet
<1>2. Log!Init => LP!Init
  BY Zenon
   DEF Log!Init, LP!Init, Log!Nobody, LP!Nobody, Log!Drainers, LP!Drainers, Log!Nothing,
       LP!Nothing, Log!None, LP!None
<1> QED
  BY <1>1, <1>2 DEF MCInit

\* So are the properties.
LEMMA SameProperties ==
    ASSUME LP!TypeOK, LP!GapsAreCounted, LP!ShutdownSettlesTheLog
    PROVE  LogTypeOK /\ GapsAreCounted /\ ShutdownSettlesTheLog
<1>1. LogTypeOK
  BY Zenon DEF LogTypeOK, Log!TypeOK, LP!TypeOK
<1>2. GapsAreCounted
  <2>1. Log!InHand = LP!InHand
    BY Zenon DEF Log!InHand, LP!InHand
  <2>2. Log!Cardinality(Log!InHand) = LP!Cardinality(LP!InHand)
    BY <2>1, SameCount
  <2> QED
    BY <2>2 DEF GapsAreCounted, Log!GapsAreCounted, LP!GapsAreCounted
<1>3. ShutdownSettlesTheLog
  BY DEF ShutdownSettlesTheLog, Log!ShutdownSettlesTheLog, LP!ShutdownSettlesTheLog
<1> QED
  BY <1>1, <1>2, <1>3

-----------------------------------------------------------------------------
(* The theorems.                                                           *)

\* The invariants of DebugLogProofs hold of the log of the composition, and imply what
\* the run checks.
LEMMA LogOfComposition ==
    MCSpec => [](LogTypeOK /\ GapsAreCounted /\ ShutdownSettlesTheLog)
<1>1. MCInit => LP!IInv /\ LP!ShutdownOK
  BY SameStart, LP!InitHolds, LP!ShutdownStarts
<1>2. LP!LogParameters
  BY LogAssumption, Zenon DEF Log!LogParameters, LP!LogParameters, Log!IsFiniteSet, LP!IsFiniteSet
<1>3. LP!IInv /\ LP!ShutdownOK /\ [MCNext]_<<vars, logVars, exercised>>
        => (LP!IInv /\ LP!ShutdownOK)'
  BY <1>2, SameStep, LP!StepHolds, LP!ShutdownHolds
<1>4. LP!IInv /\ LP!ShutdownOK => LogTypeOK /\ GapsAreCounted /\ ShutdownSettlesTheLog
  BY <1>2, LP!InvariantSays, SameProperties
<1> QED
  BY <1>1, <1>3, <1>4, PTL DEF MCSpec

\* The state of the log stays well formed: ring, counters and routes are within their
\* bounds, and the thread inside debug_log_writer_drain or the synchronous write, and no
\* other, owns g_debugLogFileLock.
THEOREM LogTypeCorrect == MCSpec => []LogTypeOK
BY LogOfComposition, PTL

\* As long as no WriteFile to an open file and no marker has failed, a logged line is in the
\* ring, in a thread's hand, in a file, or in the count a marker reports, and a line in
\* another route's file is in the count of reroutes (debug_log_enqueue,
\* debug_log_writer_drain, debug_log_capture_route_locked), whatever the interleaving, the
\* size of the ring and the files that cannot be opened.
THEOREM CountsCoverTheGaps == MCSpec => []GapsAreCounted
BY LogOfComposition, PTL

\* After a shutdown that joined its writer in time (debug_log_writer_stop) the ring and the
\* count of dropped lines hold only what reached them after its own drain had looked, and
\* the faults of the volume.
THEOREM ShutdownIsThorough == MCSpec => []ShutdownSettlesTheLog
BY LogOfComposition, PTL
=============================================================================
