------------------------- MODULE ServiceOperations -------------------------
(***************************************************************************)
(* A mutation from the client's send to its reported outcome: the operation*)
(* tracker and its request guard (the same code in the Windows service and *)
(* the Linux daemon), the durable records behind it, and the client that   *)
(* recovers the outcome after a transport failure.                         *)
(*                                                                         *)
(* "platform" is fixed by the initial state.  The Windows service reads    *)
(* requests on several threads and serialises their dispatch with a lock   *)
(* that is not a queue; the Linux daemon serves its socket in order.  Both *)
(* persist the operation last begun or completed; the daemon's state       *)
(* record carries an operation ID too and has the last word at a restart.  *)
(*                                                                         *)
(* A durable store either takes effect or leaves the file alone; the store *)
(* that fails after its rename is LinuxDaemon's DirSyncFaults.             *)
(***************************************************************************)
EXTENDS Naturals, Sequences, FiniteSets, SequencesExt

CONSTANTS
    Ops,          \* operation IDs, each of one client
    Resets,       \* the operations that are a Reset; the others are Applies
    NoOp,         \* operation ID 0
    Capacity,     \* SERVICE_OPERATION_HISTORY_CAPACITY
    MaxRestarts,  \* bound: deaths of the service
    MaxRetries,   \* bound: repeated requests under one operation ID
    MaxRepeaters, \* bound: operations whose client repeats its request
    MaxAsks,      \* bound: result queries one recovery budget allows
    MaxClients,   \* bound: clients with an operation under way
    StoreFaults,  \* a durable store may fail
    QueryRefusals \* platforms on which a result query may be refused as a mutation may

ASSUME OperationAssumption == NoOp \notin Ops /\ Resets \subseteq Ops
ASSUME TrackerAssumption == Capacity \in Nat \ {0}
ASSUME BudgetAssumption ==
    /\ MaxRestarts \in Nat
    /\ MaxRetries \in Nat
    /\ MaxRepeaters \in Nat
    /\ MaxAsks \in Nat \ {0}
    /\ MaxClients \in Nat \ {0}
    /\ StoreFaults \in BOOLEAN
    /\ QueryRefusals \subseteq {"windows", "linux"}

VARIABLES
    platform,     \* "windows" or "linux"
    client,       \* per operation: where its client is
    told,         \* per operation: what the client reported
    retries,      \* per operation: repeated requests so far
    asks,         \* per operation: result queries so far
    inbox,        \* requests on their way to the dispatcher
    answers,      \* responses on their way back
    up,           \* the service process runs
    restarts,     \* its deaths so far
    tracker,      \* [records : ring of records, nextRecord : index]
    handler,      \* the mutation being dispatched
    opFile,       \* service_operation.bin / the daemon's operation file
    stateFile,    \* the operation carried by the daemon's state record
    verdicts,     \* history: the verdicts reached about each operation
    window        \* history: the newest operations begun or restored, oldest first

clientVars  == <<client, told, retries, asks>>
wireVars    == <<inbox, answers>>
serviceVars == <<up, restarts, tracker, handler>>
fileVars    == <<opFile, stateFile>>
history     == <<verdicts, window>>
vars == <<platform, clientVars, wireVars, serviceVars, fileVars, history>>

States == {"none", "inProgress", "succeeded", "failed", "unknown"}
Record == [op : Ops \cup {NoOp}, state : States]
NoRecord == [op |-> NoOp, state |-> "none"]
Kinds == {"mutate", "query"}
Requests == [op : Ops, kind : Kinds, live : BOOLEAN]
Answers  == [op : Ops, kind : Kinds, state : States]
Trackers == [records : [1..Capacity -> Record], nextRecord : 1..Capacity]
Handlers == [stage : {"idle", "begun", "prepared", "written", "committed", "failed"},
             op : Ops \cup {NoOp}, live : BOOLEAN, saved : Record]
Windows  == {seq \in Seq(Ops) : Len(seq) <= Capacity}
Idle == [stage |-> "idle", op |-> NoOp, live |-> FALSE, saved |-> NoRecord]

TypeOK ==
    /\ platform \in {"windows", "linux"}
    /\ client \in [Ops -> {"idle", "waiting", "recovering", "querying", "done"}]
    /\ told \in [Ops -> {"none", "success", "failure", "unknown"}]
    /\ retries \in [Ops -> 0..MaxRetries]
    /\ asks \in [Ops -> 0..MaxAsks]
    /\ inbox \in Seq(Requests)
    /\ answers \subseteq Answers
    /\ up \in BOOLEAN
    /\ restarts \in 0..MaxRestarts
    /\ tracker \in Trackers
    /\ handler \in Handlers
    /\ opFile \in Record
    /\ stateFile \in Record
    /\ verdicts \in [Ops -> SUBSET {"committed", "failed"}]
    /\ window \in Windows

EmptyTracker == [records |-> [i \in 1..Capacity |-> NoRecord], nextRecord |-> 1]

Init ==
    /\ platform \in {"windows", "linux"}
    /\ client = [op \in Ops |-> "idle"]
    /\ told = [op \in Ops |-> "none"]
    /\ retries = [op \in Ops |-> 0]
    /\ asks = [op \in Ops |-> 0]
    /\ inbox = <<>>
    /\ answers = {}
    /\ up = TRUE
    /\ restarts = 0
    /\ tracker = EmptyTracker
    /\ handler = Idle
    /\ opFile = NoRecord
    /\ stateFile = NoRecord
    /\ verdicts = [op \in Ops |-> {}]
    /\ window = <<>>

---------------------------------------------------------------------------
(* The tracker.                                                            *)

Tracked(t, op) == \E i \in 1..Capacity : t.records[i].op = op

\* service_operation_find: the state recorded, "unknown" when there is none.
Lookup(t, op) ==
    IF Tracked(t, op)
    THEN t.records[CHOOSE i \in 1..Capacity : t.records[i].op = op].state
    ELSE "unknown"

\* Mutation: the index runs past the end of the ring.
BeginRecordUnwrapped(t, op) ==
    IF Tracked(t, op) THEN t
    ELSE [records |-> [t.records EXCEPT ![t.nextRecord] =
                           [op |-> op, state |-> "inProgress"]],
          nextRecord |-> t.nextRecord + 1]

\* service_operation_begin: a new operation takes the oldest slot.
BeginRecord(t, op) ==
    IF Tracked(t, op) THEN t
    ELSE [records |-> [t.records EXCEPT ![t.nextRecord] =
                           [op |-> op, state |-> "inProgress"]],
          nextRecord |-> (t.nextRecord % Capacity) + 1]

SetState(t, op, from, state) ==
    [t EXCEPT !.records = [i \in 1..Capacity |->
        IF t.records[i].op = op /\ t.records[i].state \in from
        THEN [t.records[i] EXCEPT !.state = state] ELSE t.records[i]]]

CompleteRecord(t, op, state) == SetState(t, op, {"inProgress"}, state)
RestoreRecord(t, op, state)  == SetState(BeginRecord(t, op), op, States, state)

\* What a persisted record is worth after a restart.
RestoredState(rec) == IF rec.state = "inProgress" THEN "unknown" ELSE rec.state

LoadFrom(t, rec) ==
    IF rec.op = NoOp THEN t ELSE RestoreRecord(t, rec.op, RestoredState(rec))

---------------------------------------------------------------------------
(* The client.                                                             *)

Request(op, kind) == [op |-> op, kind |-> kind, live |-> TRUE]

MayStart(op) ==
    /\ client[op] = "idle"
    /\ Cardinality({o \in Ops : client[o] \notin {"idle", "done"}}) < MaxClients

\* The request is written to the pipe or socket in full.
Send(op) ==
    /\ MayStart(op) /\ up
    /\ client' = [client EXCEPT ![op] = "waiting"]
    /\ inbox' = Append(inbox, Request(op, "mutate"))
    /\ UNCHANGED <<platform, told, retries, asks, answers, serviceVars, fileVars, history>>

\* It is not: the Linux client knows that nothing was submitted, the Windows
\* client goes on to ask for the result.
SendFails(op) ==
    /\ MayStart(op)
    /\ IF platform = "linux"
       THEN /\ client' = [client EXCEPT ![op] = "done"]
            /\ told' = [told EXCEPT ![op] = "failure"]
       ELSE /\ client' = [client EXCEPT ![op] = "recovering"]
            /\ UNCHANGED told
    /\ UNCHANGED <<platform, retries, asks, wireVars, serviceVars, fileVars, history>>

\* A client that lost its answer repeats the request under the same ID.
Retry(op) ==
    /\ client[op] = "recovering" /\ up
    /\ retries[op] < MaxRetries
    /\ Cardinality({o \in Ops : retries[o] > 0} \cup {op}) <= MaxRepeaters
    /\ retries' = [retries EXCEPT ![op] = @ + 1]
    /\ client' = [client EXCEPT ![op] = "waiting"]
    /\ inbox' = Append(inbox, Request(op, "mutate"))
    /\ UNCHANGED <<platform, told, asks, answers, serviceVars, fileVars, history>>

\* Reading the response to the mutation.  A refusal (state "none") of the only
\* request sent is a failure: nothing ran.
ReadMutation(a) ==
    CASE a.state = "succeeded" -> "success"
      [] a.state = "failed" -> "failure"
      [] a.state = "none" -> IF retries[a.op] = 0 THEN "failure" ELSE "unknown"
      [] a.state \in {"inProgress", "unknown"} -> "unknown"

\* Reading the response to a result query.  The Windows client takes every state
\* but these two for the outcome, a refusal of the query itself included; to the
\* Linux client a response with an error status is no answer at all.
ReadQuery(a) ==
    CASE a.state = "succeeded" -> "success"
      [] a.state \in {"failed", "none"} ->
            IF platform = "windows" THEN "failure" ELSE "unknown"
      [] a.state \in {"inProgress", "unknown"} -> "unknown"

\* Mutation: a response that names no verdict is read by its error status.
ReadByStatus(a) == IF a.state = "succeeded" THEN "success" ELSE "failure"

Outcome(a) == IF a.kind = "mutate" THEN ReadMutation(a) ELSE ReadQuery(a)

Receive(op) ==
    /\ client[op] \in {"waiting", "querying"}
    /\ \E a \in answers :
         /\ a.op = op
         /\ told' = [told EXCEPT ![op] = Outcome(a)]
         /\ answers' = answers \ {a}
    /\ client' = [client EXCEPT ![op] = "done"]
    /\ UNCHANGED <<platform, retries, asks, inbox, serviceVars, fileVars, history>>

\* The exchange times out or breaks; its connection is closed, so nobody reads
\* a late answer, but a request already written may still be dispatched.
\* Mutation: a client whose service died waits on.
GiveUpOnLiveService(op) ==
    /\ up
    /\ client[op] \in {"waiting", "querying"}
    /\ ~ \E a \in answers : a.op = op

GiveUpEnabled(op) ==
    /\ client[op] \in {"waiting", "querying"}
    /\ ~ \E a \in answers : a.op = op

\* What is already written is still dispatched, but nobody reads its answer.
Abandon(requests, op) ==
    [i \in DOMAIN requests |->
        IF requests[i].op = op THEN [requests[i] EXCEPT !.live = FALSE] ELSE requests[i]]

GiveUp(op) ==
    /\ GiveUpEnabled(op)
    /\ IF \/ client[op] = "waiting"
          \/ platform = "linux" /\ asks[op] < MaxAsks
       THEN client' = [client EXCEPT ![op] = "recovering"] /\ UNCHANGED told
       ELSE /\ client' = [client EXCEPT ![op] = "done"]
            /\ told' = [told EXCEPT ![op] = "unknown"]
    /\ inbox' = Abandon(inbox, op)
    /\ handler' = IF handler.op = op THEN [handler EXCEPT !.live = FALSE] ELSE handler
    /\ UNCHANGED <<platform, retries, asks, answers, up, restarts, tracker, fileVars, history>>

\* GET_OPERATION_RESULT: asked once on Windows, within one budget on Linux.
Ask(op) ==
    /\ client[op] = "recovering"
    /\ IF up /\ asks[op] < MaxAsks
       THEN /\ client' = [client EXCEPT ![op] = "querying"]
            /\ asks' = [asks EXCEPT ![op] = @ + 1]
            /\ inbox' = Append(inbox, Request(op, "query"))
            /\ UNCHANGED told
       ELSE /\ client' = [client EXCEPT ![op] = "done"]
            /\ told' = [told EXCEPT ![op] = "unknown"]
            /\ UNCHANGED <<asks, inbox>>
    /\ UNCHANGED <<platform, retries, answers, serviceVars, fileVars, history>>

---------------------------------------------------------------------------
(* The service.                                                            *)

\* The last Capacity operations, op the newest of them unless it is there already.
Newest(seq, op) ==
    IF op = NoOp \/ (\E i \in DOMAIN seq : seq[i] = op) THEN seq
    ELSE LET all == Append(seq, op) IN IF Len(all) > Capacity THEN Tail(all) ELSE all

Answer(live, op, kind, state) ==
    answers' = IF live THEN answers \cup {[op |-> op, kind |-> kind, state |-> state]}
               ELSE answers

\* The next request dispatched: the Windows lock is not a queue.
Turn(i) == platform = "linux" => i = 1

\* A durable store that may fail and leave the file as it was.
Stored(file, rec) == {rec} \cup (IF StoreFaults THEN {file} ELSE {})

\* Throttled, malformed, not entitled or early: the gates in front of the operation
\* guard stand in front of a result query as well.
Refusable(kind) == kind = "query" => platform \in QueryRefusals

Refuse(i) ==
    /\ up /\ handler = Idle /\ Turn(i)
    /\ Refusable(inbox[i].kind)
    /\ Answer(inbox[i].live, inbox[i].op, inbox[i].kind, "none")
    /\ inbox' = RemoveAt(inbox, i)
    /\ UNCHANGED <<platform, clientVars, serviceVars, fileVars, history>>

\* ServiceOperationRequestGuard's constructor.
\* Mutation: every request is executed, known or not.
KnownNever(op) == FALSE
Known(op) == Tracked(tracker, op)

BeginOperation(i) ==
    LET op == inbox[i].op IN
    /\ up /\ handler = Idle /\ Turn(i)
    /\ inbox[i].kind = "mutate"
    /\ inbox' = RemoveAt(inbox, i)
    /\ IF Known(op)
       THEN /\ Answer(inbox[i].live, op, "mutate", Lookup(tracker, op))
            /\ UNCHANGED <<tracker, handler, opFile, window>>
       ELSE /\ tracker' = BeginRecord(tracker, op)
            /\ handler' = [stage |-> "begun", op |-> op, live |-> inbox[i].live,
                           saved |-> NoRecord]
            /\ opFile' \in Stored(opFile, [op |-> op, state |-> "inProgress"])
            /\ window' = Newest(window, op)
            /\ UNCHANGED answers
    /\ UNCHANGED <<platform, clientVars, up, restarts, stateFile, verdicts>>

AnswerQuery(i) ==
    /\ up /\ handler = Idle /\ Turn(i)
    /\ inbox[i].kind = "query"
    /\ Answer(inbox[i].live, inbox[i].op, "query", Lookup(tracker, inbox[i].op))
    /\ inbox' = RemoveAt(inbox, i)
    /\ UNCHANGED <<platform, clientVars, serviceVars, fileVars, history>>

\* The request fails before any hardware write.
Abort ==
    /\ handler.stage = "begun"
    /\ handler' = [handler EXCEPT !.stage = "failed"]
    /\ verdicts' = [verdicts EXCEPT ![handler.op] = @ \cup {"failed"}]
    /\ UNCHANGED <<platform, clientVars, wireVars, up, restarts, tracker, fileVars, window>>

\* The daemon stores the PREPARED record first; a failed store is an Abort.
Prepare ==
    /\ platform = "linux" /\ handler.stage = "begun"
    /\ stateFile' = [op |-> handler.op, state |-> "inProgress"]
    /\ handler' = [handler EXCEPT !.stage = "prepared", !.saved = stateFile]
    /\ UNCHANGED <<platform, clientVars, wireVars, up, restarts, tracker, opFile, history>>

\* The hardware transaction.  On Windows its result is the verdict.
Write ==
    /\ handler.stage = IF platform = "linux" THEN "prepared" ELSE "begun"
    /\ \/ /\ handler' = [handler EXCEPT !.stage =
                           IF platform = "linux" THEN "written" ELSE "committed"]
          /\ verdicts' = [verdicts EXCEPT ![handler.op] =
                            IF platform = "linux" THEN @ ELSE @ \cup {"committed"}]
          /\ UNCHANGED stateFile
       \/ /\ handler' = [handler EXCEPT !.stage = "failed"]
          /\ verdicts' = [verdicts EXCEPT ![handler.op] = @ \cup {"failed"}]
          /\ IF platform = "linux"
             THEN stateFile' \in Stored(stateFile,
                    IF handler.saved.state = "inProgress" THEN handler.saved ELSE NoRecord)
             ELSE UNCHANGED stateFile
    /\ UNCHANGED <<platform, clientVars, wireVars, up, restarts, tracker, opFile, window>>

\* The daemon commits the ACTIVE record of an Apply or removes it for a Reset;
\* when it cannot, it rolls the hardware back and puts the old record back.
Commit ==
    /\ handler.stage = "written"
    /\ \/ /\ stateFile' = IF handler.op \in Resets THEN NoRecord
                          ELSE [op |-> handler.op, state |-> "succeeded"]
          /\ handler' = [handler EXCEPT !.stage = "committed"]
          /\ verdicts' = [verdicts EXCEPT ![handler.op] = @ \cup {"committed"}]
       \/ /\ StoreFaults
          /\ stateFile' \in Stored(stateFile,
               IF handler.saved.state = "inProgress" THEN handler.saved ELSE NoRecord)
          /\ handler' = [handler EXCEPT !.stage = "failed"]
          /\ verdicts' = [verdicts EXCEPT ![handler.op] = @ \cup {"failed"}]
    /\ UNCHANGED <<platform, clientVars, wireVars, up, restarts, tracker, opFile, window>>

\* The guard's destructor, and the response it precedes.
Complete ==
    LET state == IF handler.stage = "committed" THEN "succeeded" ELSE "failed" IN
    /\ handler.stage \in {"committed", "failed"}
    /\ tracker' = CompleteRecord(tracker, handler.op, state)
    /\ opFile' \in Stored(opFile, [op |-> handler.op, state |-> state])
    /\ Answer(handler.live, handler.op, "mutate", state)
    /\ handler' = Idle
    /\ UNCHANGED <<platform, clientVars, inbox, up, restarts, stateFile, history>>

\* The process dies: memory and connections are gone, the files stay.
Die ==
    /\ up /\ restarts < MaxRestarts
    /\ up' = FALSE
    /\ restarts' = restarts + 1
    /\ inbox' = <<>>
    /\ answers' = {}
    /\ tracker' = EmptyTracker
    /\ handler' = Idle
    /\ window' = <<>>
    /\ UNCHANGED <<platform, clientVars, fileVars, verdicts>>

\* The next process loads the operation file (the Windows service at its first
\* mutation or query), then the daemon its state record.
Restart ==
    \E readable \in {TRUE} \cup (IF StoreFaults THEN {FALSE} ELSE {}) :
        LET fromOpFile == IF readable THEN LoadFrom(EmptyTracker, opFile) ELSE EmptyTracker
            loaded     == IF readable THEN Newest(<<>>, opFile.op) ELSE <<>>
        IN /\ ~up
           /\ up' = TRUE
           /\ tracker' = IF platform = "linux" THEN LoadFrom(fromOpFile, stateFile)
                         ELSE fromOpFile
           /\ window' = IF platform = "linux" THEN Newest(loaded, stateFile.op) ELSE loaded
           /\ UNCHANGED <<platform, clientVars, wireVars, restarts, handler, fileVars, verdicts>>

Next ==
    \/ \E op \in Ops : \/ Send(op) \/ SendFails(op) \/ Retry(op)
                       \/ Receive(op) \/ GiveUp(op) \/ Ask(op)
    \/ \E i \in DOMAIN inbox : Refuse(i) \/ BeginOperation(i) \/ AnswerQuery(i)
    \/ Abort \/ Prepare \/ Write \/ Commit \/ Complete
    \/ Die \/ Restart

\* Clients block on deadlines only: a lost exchange ends by itself, and a client
\* that has lost one asks or gives up.
Fairness == \A op \in Ops : WF_vars(Receive(op) \/ GiveUp(op)) /\ WF_vars(Ask(op))

Spec == Init /\ [][Next]_vars /\ Fairness

---------------------------------------------------------------------------
(* Properties.                                                             *)

\* Whatever is lost, delayed, repeated or restarted, a client reports a success
\* or a failure only when that is the service's verdict on the operation, and
\* an unknown outcome otherwise (main_service_client_commands.cpp,
\* linux_daemon_client.h, the operation guards and their persisted records).
\* The Windows client keeps it as long as its result queries are not refused:
\* see FailureIsNotCommitted.
Contract == INSTANCE MutationContract WITH verdicts <- verdicts, told <- told
ImplementsContract == Contract!Spec

\* An operation reported as failed has not committed, unless it failed as well (a
\* repeated request may run again once its record is gone): what is not known is
\* reported as unknown until the recovery query resolves it.  The code does not
\* keep it when the gates refuse that query on Windows.
FailureIsNotCommitted ==
    \A op \in Ops :
        told[op] = "failure" /\ "committed" \in verdicts[op] => "failed" \in verdicts[op]

\* A request repeated under its ID never runs a second time while the operation
\* is among the last Capacity ones that this process has begun or found in its
\* files, however requests, queries, duplicates and restarts interleave: the
\* guard answers from the record (service_operation_begin, the request guards,
\* the load at a restart).
RepeatIsAnsweredFromRecord ==
    [][\A i \in DOMAIN window : handler'.op = window[i] => handler.op = window[i]]_vars

\* A client that sent a mutation always comes to an end, also when the service
\* dies under it and never returns (the deadlines of service_send_request and
\* linux_daemon_send_deadline).
EveryOperationIsReported ==
    \A op \in Ops : client[op] # "idle" ~> client[op] = "done"
=============================================================================
