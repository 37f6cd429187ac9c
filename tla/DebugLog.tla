------------------------------ MODULE DebugLog ------------------------------
(***************************************************************************)
(* The debug log of the Windows processes (main_debug_log_writer.cpp,      *)
(* debug_log_queue_policy.h): producers commit lines to a bounded ring, one *)
(* writer thread drains it to the file of the route each line was produced *)
(* for, and the shutdown joins the writer for a bounded time.              *)
(*                                                                         *)
(* A line is known by its route alone and the ring holds lines instead of  *)
(* bytes.  A route is its generation: a new route has another destination. *)
(***************************************************************************)
EXTENDS Integers, Sequences, FiniteSets

CONSTANTS
    Producers,      \* threads that log
    MaxLines,       \* bound: lines logged
    RingLines,      \* kRingBytes, in lines
    RouteSlots,     \* kMaxRouteSlots
    MaxRoutes,      \* bound: route generations
    MaxFileFaults   \* bound: failed opens, failed writes, failed creations of the writer

\* What the log takes for granted of them: thread names are distinct, and there is a
\* slot and a route to begin with
LogParameters ==
    /\ IsFiniteSet(Producers) /\ Producers \cap {"writer", "stopper", "nobody"} = {}
    /\ MaxLines \in Nat /\ RingLines \in Nat /\ MaxFileFaults \in Nat
    /\ RouteSlots \in Nat \ {0} /\ MaxRoutes \in Nat \ {0}

VARIABLES
    ring,       \* committed records: the route generation of each
    dropped,    \* g_debugLogDroppedLines
    rerouted,   \* g_debugLogReroutedLines
    current,    \* g_debugLogCurrentRouteGen
    slots,      \* g_debugLogRoutes: the generation of each slot, 0 when invalid
    event,      \* g_debugLogWriterEvent, reset by the wait it ends
    published,  \* g_debugLogWriterThread # nullptr
    starting,   \* g_debugLogWriterStartGuard
    stopping,   \* g_debugLogWriterStopping
    fileLock,   \* owner of g_debugLogFileLock
    pc,         \* where each producer, the writer and the stopper are
    hand,       \* the record a drain has taken from the ring: its route and its file
    written,    \* the files: the number of lines, and of those in the file of another route
    reported,   \* history: what the drop and the reroute markers in the files add up to
    forgotten,  \* history: lines and counts that failed writes have taken along uncounted
    late,       \* history: lines that reached the ring after the shutdown had looked at it
    lines,      \* lines logged so far, against MaxLines
    faults      \* file faults so far, against MaxFileFaults

ringVars   == <<ring, dropped, rerouted>>
routeVars  == <<current, slots>>
threadVars == <<event, published, starting, stopping>>
fileVars   == <<written, reported, forgotten>>
vars == <<ringVars, routeVars, threadVars, fileLock, pc, hand, fileVars, late, lines, faults>>

Nobody   == "nobody"
Drainers == {"writer", "stopper"}
Nothing  == [gen |-> 0, file |-> 0]
None     == [lines |-> 0, reroutes |-> 0]

Goto(a, where) == pc' = [pc EXCEPT ![a] = where]

---------------------------------------------------------------------------
(* debug_log_enqueue                                                         *)

\* debug_log_writer_ensure_started: one producer wins the creation; the others, and all
\* after a shutdown, write their line themselves
Log(p) ==
    /\ pc[p] = "idle" /\ lines < MaxLines
    /\ lines' = lines + 1
    /\ Goto(p, IF published THEN "commit" ELSE IF stopping \/ starting THEN "sync" ELSE "create")
    /\ starting' = (starting \/ (~published /\ ~stopping))
    /\ UNCHANGED <<ringVars, routeVars, event, published, stopping, fileLock, hand, fileVars,
                   faults, late>>

Create(p) ==
    /\ pc[p] = "create"
    /\ \/ /\ published' = TRUE
          /\ pc' = [pc EXCEPT ![p] = "commit", !["writer"] = "wait"]
          /\ UNCHANGED <<starting, faults>>
       \/ /\ faults < MaxFileFaults /\ faults' = faults + 1
          /\ starting' = FALSE
          /\ Goto(p, "sync")
          /\ UNCHANGED published
    /\ UNCHANGED <<ringVars, routeVars, event, stopping, fileLock, hand, fileVars, lines, late>>

\* One more when the shutdown has come this far with its own drain
Since(places) == IF pc["stopper"] \in places THEN 1 ELSE 0

\* Mutation: a full ring refuses the line without a word.
CommitUncounted(p) ==
    /\ pc[p] = "commit"
    /\ IF Len(ring) < RingLines
       THEN /\ ring' = Append(ring, current)
            /\ Goto(p, "signal")
       ELSE /\ Goto(p, "idle") /\ UNCHANGED ring
    /\ UNCHANGED <<dropped, rerouted, routeVars, threadVars, fileLock, hand, fileVars, lines,
                   faults, late>>

\* Under the ring lock: the record and its route, or a full ring is counted
Commit(p) ==
    /\ pc[p] = "commit"
    /\ IF Len(ring) < RingLines
       THEN /\ ring' = Append(ring, current)
            /\ late' = late + Since({"lastLeave", "ended"})
            /\ Goto(p, "signal")
            /\ UNCHANGED dropped
       ELSE /\ dropped' = dropped + 1
            /\ late' = late + Since({"lastTake", "lastWrite", "lastLeave", "ended"})
            /\ Goto(p, "idle")
            /\ UNCHANGED ring
    /\ UNCHANGED <<rerouted, routeVars, threadVars, fileLock, hand, fileVars, lines, faults>>

\* Mutation: a committed line does not wake the writer.
SignalNot(p) ==
    /\ pc[p] = "signal"
    /\ Goto(p, "idle")
    /\ UNCHANGED <<ringVars, routeVars, threadVars, fileLock, hand, fileVars, lines, faults, late>>

Signal(p) ==
    /\ pc[p] = "signal"
    /\ event' = TRUE
    /\ Goto(p, "idle")
    /\ UNCHANGED <<ringVars, routeVars, published, starting, stopping, fileLock, hand,
                   fileVars, lines, faults, late>>

\* debug_log_write_line_to_path_locked: written; no handle, which is counted; or the
\* second attempt fails too, and nothing is
WriteLine(record) ==
    \/ /\ written' = [lines |-> written.lines + 1,
                      reroutes |-> written.reroutes + (IF record.file # record.gen THEN 1 ELSE 0)]
       /\ UNCHANGED <<dropped, reported, forgotten, faults>>
    \/ /\ faults < MaxFileFaults /\ faults' = faults + 1
       /\ dropped' = dropped + 1
       /\ UNCHANGED fileVars
    \/ /\ faults < MaxFileFaults /\ faults' = faults + 1
       /\ forgotten' = [forgotten EXCEPT !.lines = @ + 1]
       /\ UNCHANGED <<dropped, written, reported>>

\* Mutation: a late line is written without waiting for the writer.
SyncLockFree(p) ==
    /\ pc[p] = "sync"
    /\ fileLock' = p
    /\ Goto(p, "syncWrite")
    /\ UNCHANGED <<ringVars, routeVars, threadVars, hand, fileVars, lines, faults, late>>

SyncLock(p) ==
    /\ pc[p] = "sync" /\ fileLock = Nobody
    /\ fileLock' = p
    /\ Goto(p, "syncWrite")
    /\ UNCHANGED <<ringVars, routeVars, threadVars, hand, fileVars, lines, faults, late>>

SyncWrite(p) ==
    /\ pc[p] = "syncWrite"
    /\ WriteLine([gen |-> current, file |-> current])
    /\ fileLock' = Nobody
    /\ Goto(p, "idle")
    /\ UNCHANGED <<ring, rerouted, routeVars, threadVars, hand, lines, late>>

Producer(p) ==
    \/ Create(p) \/ Commit(p) \/ Signal(p) \/ SyncLock(p) \/ SyncWrite(p)

---------------------------------------------------------------------------
(* debug_log_writer_drain, by the writer and by the shutdown                 *)

\* The file lock, then the counters: one marker line is written for each that is not
\* zero.  A marker that is not written takes its count along; one that found no file is
\* itself counted as a dropped line.
DrainBegin(a) ==
    LET counts == [lines |-> dropped, reroutes |-> rerouted]
        due    == {m \in DOMAIN counts : counts[m] > 0}
        Added(sums, markers) ==
            [m \in DOMAIN counts |-> sums[m] + IF m \in markers THEN counts[m] ELSE 0]
    IN
    /\ pc[a] \in {"drain", "lastDrain"} /\ fileLock = Nobody
    /\ fileLock' = a
    /\ Goto(a, IF pc[a] = "drain" THEN "take" ELSE "lastTake")
    /\ rerouted' = 0
    /\ \E lost \in SUBSET due :
         /\ faults + Cardinality(lost) <= MaxFileFaults
         /\ faults' = faults + Cardinality(lost)
         /\ dropped' \in 0..Cardinality(lost)
         /\ reported' = Added(reported, due \ lost)
         /\ forgotten' = Added(forgotten, lost)
    /\ UNCHANGED <<ring, routeVars, threadVars, hand, written, lines, late>>

\* debug_log_capture_route_locked: a recycled slot sends the line to the current route
RouteOf(gen) ==
    IF slots[gen % RouteSlots] = gen
    THEN [file |-> gen, lost |-> 0]
    ELSE [file |-> current, lost |-> IF gen # current THEN 1 ELSE 0]

\* debug_log_dequeue, under the ring lock; nothing left, or one record
Take(a) ==
    /\ pc[a] \in {"take", "lastTake"}
    /\ IF ring = <<>>
       THEN /\ Goto(a, IF pc[a] = "take" THEN "leave" ELSE "lastLeave")
            /\ UNCHANGED <<ring, rerouted, hand>>
       ELSE /\ hand' = [hand EXCEPT ![a] = [gen |-> Head(ring),
                                            file |-> RouteOf(Head(ring)).file]]
            /\ ring' = Tail(ring)
            /\ rerouted' = rerouted + RouteOf(Head(ring)).lost
            /\ Goto(a, IF pc[a] = "take" THEN "write" ELSE "lastWrite")
    /\ UNCHANGED <<dropped, routeVars, threadVars, fileLock, fileVars, lines, faults, late>>

Write(a) ==
    /\ pc[a] \in {"write", "lastWrite"}
    /\ WriteLine(hand[a])
    /\ hand' = [hand EXCEPT ![a] = Nothing]
    /\ Goto(a, IF pc[a] = "write" THEN "take" ELSE "lastTake")
    /\ UNCHANGED <<ring, rerouted, routeVars, threadVars, fileLock, lines, late>>

\* The writer waits again, or drains once more and ends once it is told to stop
Leave(a) ==
    /\ pc[a] \in {"leave", "lastLeave"}
    /\ fileLock' = Nobody
    /\ Goto(a, IF pc[a] = "lastLeave" THEN "ended"
               ELSE IF stopping THEN "lastDrain" ELSE "wait")
    /\ UNCHANGED <<ringVars, routeVars, threadVars, hand, fileVars, lines, faults, late>>

Drain(a) == DrainBegin(a) \/ Take(a) \/ Write(a) \/ Leave(a)

\* debug_log_writer_thread_proc
Wake ==
    /\ pc["writer"] = "wait" /\ event
    /\ event' = FALSE
    /\ Goto("writer", "drain")
    /\ UNCHANGED <<ringVars, routeVars, published, starting, stopping, fileLock, hand,
                   fileVars, lines, faults, late>>

---------------------------------------------------------------------------
(* debug_log_set_route_path and debug_log_writer_stop                        *)

SetRoute ==
    /\ current < MaxRoutes
    /\ current' = current + 1
    /\ slots' = [slots EXCEPT ![(current + 1) % RouteSlots] = current + 1]
    /\ event' = (event \/ pc["writer"] # "none")
    /\ UNCHANGED <<ringVars, published, starting, stopping, fileLock, pc, hand, fileVars,
                   lines, faults, late>>

\* Mutation: the writer is told to stop and not woken.
StopUnsignaled ==
    /\ pc["stopper"] = "none"
    /\ stopping' = TRUE
    /\ Goto("stopper", IF published THEN "join" ELSE "lastDrain")
    /\ UNCHANGED <<ringVars, routeVars, event, published, starting, fileLock, hand,
                   fileVars, lines, faults, late>>

Stop ==
    /\ pc["stopper"] = "none"
    /\ stopping' = TRUE
    /\ event' = (event \/ published)
    /\ Goto("stopper", IF published THEN "join" ELSE "lastDrain")
    /\ UNCHANGED <<ringVars, routeVars, published, starting, fileLock, hand, fileVars,
                   lines, faults, late>>

\* Mutation: a writer that was joined is trusted to have left nothing.
JoinWithoutDrain ==
    /\ pc["stopper"] = "join" /\ pc["writer"] = "ended"
    /\ published' = FALSE
    /\ Goto("stopper", "ended")
    /\ UNCHANGED <<ringVars, routeVars, event, starting, stopping, fileLock, hand, fileVars,
                   lines, faults, late>>

\* A join in time is followed by a drain of what came after the writer's last one
Join ==
    /\ pc["stopper"] = "join" /\ pc["writer"] = "ended"
    /\ published' = FALSE
    /\ Goto("stopper", "lastDrain")
    /\ UNCHANGED <<ringVars, routeVars, event, starting, stopping, fileLock, hand, fileVars,
                   lines, faults, late>>

\* A writer that is still in the file system after five seconds keeps the rest: nobody
\* else drains, and what the process's end finds in the ring is lost
JoinTimesOut ==
    /\ pc["stopper"] = "join" /\ pc["writer"] # "ended"
    /\ published' = FALSE
    /\ Goto("stopper", "gaveUp")
    /\ UNCHANGED <<ringVars, routeVars, event, starting, stopping, fileLock, hand, fileVars,
                   lines, faults, late>>

---------------------------------------------------------------------------
Init ==
    /\ ring = <<>> /\ dropped = 0 /\ rerouted = 0
    /\ current = 1 /\ slots = [s \in 0..(RouteSlots - 1) |-> IF s = 1 % RouteSlots THEN 1 ELSE 0]
    /\ event = FALSE /\ published = FALSE /\ starting = FALSE /\ stopping = FALSE
    /\ fileLock = Nobody
    /\ pc = [a \in Producers \cup Drainers |-> IF a \in Producers THEN "idle" ELSE "none"]
    /\ hand = [a \in Drainers |-> Nothing]
    /\ written = None /\ reported = None /\ forgotten = None
    /\ late = 0 /\ lines = 0 /\ faults = 0

Next ==
    \/ \E p \in Producers : Log(p) \/ Producer(p)
    \/ \E a \in Drainers : Drain(a)
    \/ Wake \/ SetRoute \/ Stop \/ Join \/ JoinTimesOut

Spec == Init /\ [][Next]_vars

\* Threads run and the volume answers in the end; nobody has to log or to stop
Fairness ==
    /\ \A p \in Producers : WF_vars(Producer(p))
    /\ \A a \in Drainers : WF_vars(Drain(a))
    /\ WF_vars(Wake) /\ WF_vars(Join)

---------------------------------------------------------------------------
(* Properties                                                                *)

\* The state is well formed, and only the owner of the file lock touches the file
TypeOK ==
    /\ Len(ring) <= RingLines
    /\ \A i \in 1..Len(ring) : ring[i] \in 1..current
    /\ dropped \in 0..(2 * MaxLines + MaxFileFaults) /\ rerouted \in 0..MaxLines
    /\ current \in 1..MaxRoutes /\ \A s \in DOMAIN slots : slots[s] \in 0..current
    /\ {event, published, starting, stopping} \subseteq BOOLEAN
    /\ \A a \in DOMAIN pc :
         pc[a] \in {"syncWrite", "take", "write", "leave", "lastTake", "lastWrite", "lastLeave"} <=> fileLock = a

InHand == {a \in DOMAIN pc : pc[a] \in {"create", "commit", "sync", "syncWrite", "write", "lastWrite"}}

\* The log is honest about its gaps.  As long as no write to an open file and no marker
\* has failed (forgotten), a line that is not in the ring, in the hands of a thread or in a
\* file is in the count of dropped lines or in a marker in the file, and a line in the file
\* of another route than its own is in the count of rerouted ones.  A full ring, a file
\* that cannot be opened, a late line and a shutdown lose none uncounted.
GapsAreCounted ==
    /\ forgotten.lines = 0 =>
         lines <= Len(ring) + Cardinality(InHand) + written.lines + dropped + reported.lines
    /\ forgotten.reroutes = 0 => written.reroutes <= rerouted + reported.reroutes

\* A shutdown that joined its writer in time leaves no line in the ring and no count
\* without its marker (debug_log_writer_stop drains once more), except for lines that
\* reached the ring after its own drain had looked, and for file faults.
ShutdownSettlesTheLog == pc["stopper"] = "ended" => Len(ring) + dropped <= late + faults

\* Whether or not the writer could be joined, a shutdown that has returned has drained
\* whatever was left (debug_log_queue_policy.h on kWriterJoinMs).
ShutdownDrainsEitherWay == pc["stopper"] \in {"ended", "gaveUp"} => Len(ring) <= late

\* Committed lines leave the ring, up to a shutdown: no commit is left without a wake
\* (what a shutdown owes the ring is ShutdownSettlesTheLog)
RingIsDrained == (ring # <<>>) ~> (ring = <<>> \/ stopping)

\* The shutdown of the log ends without help of its timeout
StopEnds == (pc["stopper"] = "join") ~> (pc["stopper"] \in {"gaveUp", "ended"})
=============================================================================
