---------------------------- MODULE GuiService ----------------------------
(***************************************************************************)
(* The Windows GUI's service coordinator: the window thread, the one worker*)
(* thread that owns every pipe exchange, the mutation queue between them,  *)
(* the reducer that decides which service state the window may present,    *)
(* and as much of the service as answers them (instance, GPU generation,   *)
(* phase).  Removal and arrival of the GPU reach the service and the GUI   *)
(* as separate notifications, each in its own time.                        *)
(*                                                                         *)
(* One GPU: its topology is valid exactly while the service is READY, and  *)
(* the draft is attached from the first READY state on.  The state         *)
(* revision is left out: one worker makes one exchange at a time and posts *)
(* completions in order, so an answer never arrives behind a newer one.    *)
(* A mutation is seen here as MutationContract has it: what the client     *)
(* reports is the service's verdict, or unknown.                           *)
(***************************************************************************)
EXTENDS Naturals, Sequences

CONSTANTS
    Scenarios     \* what a behaviour may hold, as bounds chosen at the start:
                  \*   works   mutations, refreshes, installs and removals
                  \*   upsets  device changes, service restarts and faults
                  \*   happens which of these occur, beside Apply and Reset:
                  \*   device    the GPU is removed and comes back
                  \*   restart   the service process is replaced
                  \*   fault     an allocation, post, refresh or answer fails
                  \*   telemetry the telemetry timer fires
                  \*   refresh, admin, close: what else the user may do

Happenings == {"device", "restart", "fault", "telemetry", "refresh", "admin", "close"}

ASSUME ScenariosAssumption ==
    Scenarios \subseteq [works : Nat, upsets : Nat, happens : SUBSET Happenings]

VARIABLES
    device,       \* the GPU is there
    cues,         \* notifications not yet delivered, per process
    service,      \* [up, instance, generation, phase, authority]
    model,        \* GuiServiceModel
    queue,        \* the coordinator's state under g_guiMutationLock
    worker,       \* the worker thread
    posted,       \* the window's message queue
    epochs,       \* [gpu, presentation, connection, tracked]
    window,       \* [dirty, inFlight, dialog, reconnectTimer]
    works,        \* requests of the user so far
    budget,       \* the scenario, less the upsets so far
    committed,    \* history: per mutation, the authority it was committed under
    retired       \* history: READY authorities a notification has retired

vars == <<device, cues, service, model, queue, worker, posted, epochs, window,
          works, budget, committed, retired>>

Phases == {"DISCONNECTED", "SYNCING", "DEVICE_MISSING", "RECOVERING", "DEGRADED", "READY"}
Events == {"removed", "started"}
NoWork == [id |-> 0, kind |-> "none", gpuEpoch |-> 0, presentationEpoch |-> 0,
           instance |-> 0, generation |-> 0]
NoEnvelope == [instance |-> 0, generation |-> 0, phase |-> "DISCONNECTED"]
NoAuthority == [instance |-> 0, generation |-> 0]
Waiting == [stage |-> "waiting", kind |-> "none", work |-> NoWork, presentation |-> 0,
            outcome |-> "none", envelope |-> NoEnvelope]

Authority == [instance : Nat, generation : Nat]
Envelopes == [instance : Nat, generation : Nat, phase : Phases]
Works == [id : Nat, kind : {"none", "apply", "reset"}, gpuEpoch : Nat,
          presentationEpoch : Nat, instance : Nat, generation : Nat]
Outcomes == {"none", "success", "failure", "unknown", "notSent", "answered", "missed",
             "unreachable", "removed", "installed", "failed"}
Services == [up : BOOLEAN, instance : Nat, generation : Nat,
             phase : Phases \ {"DISCONNECTED", "SYNCING"}, authority : BOOLEAN]
Models == [phase : Phases, connection : Nat, instance : Nat, generation : Nat,
           minimum : Nat, retired : Nat, accepted : BOOLEAN]
Queues == [active : Works, dispatched : BOOLEAN, pending : Works,
           admin : {"none", "install", "remove"}, fullSync : BOOLEAN, telemetry : BOOLEAN,
           busy : BOOLEAN, closing : BOOLEAN, event : BOOLEAN]
Workers == [stage : {"waiting", "checking", "sending", "written", "refused", "answered",
                     "posting", "reading", "read", "readPosted", "stopped"},
            kind : {"none", "fullSync", "telemetry", "install", "remove"},
            work : Works, presentation : Nat, outcome : Outcomes, envelope : Envelopes]
Messages == [kind : {"mutation", "read", "admin", "cue"}, work : Works, outcome : Outcomes,
             envelope : Envelopes, presentation : Nat, connection : Nat,
             event : Events \cup {"none"}]
EpochSets == [gpu : Nat, presentation : Nat, connection : Nat, tracked : Nat]
Windows == [dirty : BOOLEAN, inFlight : BOOLEAN, dialog : BOOLEAN, reconnectTimer : BOOLEAN]

TypeOK ==
    /\ device \in BOOLEAN
    /\ cues \in [{"gui", "service"} -> Seq(Events)]
    /\ service \in Services
    /\ model \in Models
    /\ queue \in Queues
    /\ queue.pending # NoWork => queue.active # NoWork
    /\ worker \in Workers
    /\ posted \in Seq(Messages)
    /\ epochs \in EpochSets
    /\ window \in Windows
    /\ budget \in [works : Nat, upsets : Nat, happens : SUBSET Happenings]
    /\ works \in 0..budget.works
    /\ committed \in [1..budget.works -> Authority]
    /\ retired \subseteq Authority

\* The service runs; the window has just asked for its initial state.
Init ==
    /\ device = TRUE
    /\ cues = [p \in {"gui", "service"} |-> <<>>]
    /\ service = [up |-> TRUE, instance |-> 1, generation |-> 1,
                  phase |-> "RECOVERING", authority |-> FALSE]
    /\ model = [phase |-> "SYNCING", connection |-> 1, instance |-> 0, generation |-> 0,
                minimum |-> 0, retired |-> 0, accepted |-> FALSE]
    /\ queue = [active |-> NoWork, dispatched |-> FALSE, pending |-> NoWork,
                admin |-> "none", fullSync |-> TRUE, telemetry |-> FALSE,
                busy |-> FALSE, closing |-> FALSE, event |-> TRUE]
    /\ worker = Waiting
    /\ posted = <<>>
    /\ epochs = [gpu |-> 1, presentation |-> 1, connection |-> 1, tracked |-> 0]
    /\ window = [dirty |-> FALSE, inFlight |-> FALSE, dialog |-> FALSE,
                 reconnectTimer |-> FALSE]
    /\ works = 0
    /\ budget \in Scenarios
    /\ committed = [i \in 1..budget.works |-> NoAuthority]
    /\ retired = {}

Upset == budget.upsets > 0 /\ budget' = [budget EXCEPT !.upsets = @ - 1]
Fault == "fault" \in budget.happens /\ Upset

---------------------------------------------------------------------------
(* The coordinator's queue.                                                *)

Dispatchable(q) ==
    /\ ~q.closing /\ ~q.busy
    /\ IF q.active # NoWork THEN ~q.dispatched
       ELSE q.admin # "none" \/ q.fullSync \/ q.telemetry

\* Mutation: the event is not set.
SignalNever(q) == q
Signal(q) == IF Dispatchable(q) THEN [q EXCEPT !.event = TRUE] ELSE q

QueueFullSync(q) == Signal([q EXCEPT !.fullSync = TRUE, !.telemetry = FALSE])

QueueTelemetry(q) ==
    IF q.fullSync \/ q.active # NoWork \/ q.admin # "none" \/ q.busy THEN q
    ELSE Signal([q EXCEPT !.telemetry = TRUE])

\* gui_mutation_advance_gpu_epoch: a waiting mutation is dropped.
RetirePending(q) == QueueFullSync([q EXCEPT !.pending = NoWork])

\* Mutation: the latest request always replaces the waiting one.
DecideLatest(q, kind) ==
    CASE q.active = NoWork -> "start"
      [] q.active # NoWork /\ q.pending = NoWork -> "pending"
      [] q.active # NoWork /\ q.pending # NoWork -> "replace"

\* gui_mutation_queue_decide.
Decide(q, kind) ==
    CASE q.active = NoWork -> "start"
      [] q.active # NoWork /\ q.pending = NoWork -> "pending"
      [] q.active # NoWork /\ q.pending # NoWork ->
           IF q.pending.kind = "reset" /\ kind = "apply" THEN "keep" ELSE "replace"

\* Mutation: the waiting one is not promoted.
AdvanceWithoutNext(q) ==
    Signal([q EXCEPT !.active = NoWork, !.dispatched = FALSE, !.fullSync = TRUE])

\* The active mutation is over: the waiting one follows, and a full sync.
Advance(q) ==
    LET next == IF q.closing THEN NoWork ELSE q.pending
    IN Signal([q EXCEPT !.active = next, !.dispatched = FALSE, !.fullSync = TRUE,
                        !.pending = IF q.closing THEN @ ELSE NoWork])

---------------------------------------------------------------------------
(* The reducer, gui_service_model.h.                                       *)

ModelReady(m) == m.phase = "READY" /\ m.accepted

Forgotten(m) == [m EXCEPT !.accepted = FALSE, !.generation = 0]

BeginSync(m, connection) ==
    [(IF connection > m.connection
      THEN [Forgotten(m) EXCEPT !.connection = connection] ELSE m)
     EXCEPT !.phase = "SYNCING"]

Disconnect(m, connection) ==
    [Forgotten(m) EXCEPT
        !.connection = IF connection >= @ THEN connection ELSE @,
        !.phase = "DISCONNECTED"]

\* The generation a notification that retires READY authority asks for.
\* Mutation: the generation it retires will do.
RequireSameGeneration(m) ==
    IF ModelReady(m) THEN [m EXCEPT !.minimum = m.generation] ELSE m

RequireNewGeneration(m) ==
    IF ModelReady(m) THEN [m EXCEPT !.minimum = m.generation + 1] ELSE m

\* What gui_service_model_accept makes of an envelope before its own checks.
Opened(m, connection, env) ==
    LET synced == IF connection > m.connection THEN BeginSync(m, connection) ELSE m
    IN IF /\ ~synced.accepted /\ synced.instance # 0
          /\ env.instance # synced.instance /\ env.instance # synced.retired
       THEN [synced EXCEPT !.retired = synced.instance, !.minimum = 0]
       ELSE synced

Accepts(m, connection, env) ==
    LET o == Opened(m, connection, env) IN
    /\ env # NoEnvelope
    /\ connection >= m.connection
    /\ env.instance # (IF connection > m.connection THEN BeginSync(m, connection) ELSE m).retired
    /\ env.instance = o.instance => env.generation >= o.minimum
    /\ o.accepted => env.instance = o.instance /\ env.generation >= o.generation

\* A rejected envelope may still have opened a new connection.
Adopt(m, connection, env) ==
    LET o == Opened(m, connection, env) IN
    IF Accepts(m, connection, env)
    THEN [o EXCEPT !.accepted = TRUE, !.instance = env.instance,
                   !.generation = env.generation, !.phase = env.phase,
                   !.minimum = IF env.generation >= @ THEN 0 ELSE @]
    ELSE IF env = NoEnvelope \/ connection < m.connection THEN m ELSE o

---------------------------------------------------------------------------
(* The window thread: effects shared by its handlers.                      *)

\* gui_service_accept_response_on_main_thread, for the window state w and the
\* queue q it finds.
AcceptResponse(connection, env, w, q) ==
    LET m == Adopt(model, connection, env)
        accepted == Accepts(model, connection, env)
        changed == /\ accepted
                   /\ \/ /\ model.instance # 0
                         /\ \/ model.instance # env.instance
                            \/ model.generation # env.generation
                      \/ model.phase = "READY" /\ m.phase # "READY"
    IN /\ model' = m
       /\ epochs' = [epochs EXCEPT !.gpu = IF changed THEN @ + 1 ELSE @]
       /\ queue' = IF changed THEN RetirePending(q) ELSE q
       /\ window' = IF ~accepted THEN w
                    ELSE [w EXCEPT !.reconnectTimer = m.phase # "READY"]

\* gui_service_handle_transport_failure.
TransportFailure(connection, w, q) ==
    /\ model' = Disconnect(model, connection)
    /\ epochs' = [epochs EXCEPT !.gpu = IF ModelReady(model) THEN @ + 1 ELSE @]
    /\ queue' = IF ModelReady(model) THEN RetirePending(q) ELSE q
    /\ window' = [w EXCEPT !.reconnectTimer = TRUE]

\* gui_service_begin_full_sync.
BeginFullSync(q) ==
    /\ epochs' = [epochs EXCEPT !.presentation =
                    IF model.phase # "SYNCING" THEN @ + 1 ELSE @]
    /\ model' = BeginSync(model, epochs.connection)
    /\ queue' = QueueFullSync(q)

---------------------------------------------------------------------------
(* The window thread: user and timers.                                     *)

Interactive == ~window.dialog /\ ~queue.closing

\* The editor stays usable while a write is in flight.
Edit ==
    /\ Interactive /\ ModelReady(model)
    /\ ~window.dirty
    /\ window' = [window EXCEPT !.dirty = TRUE]
    /\ UNCHANGED <<device, cues, service, model, queue, worker, posted, epochs, works,
                   budget, committed, retired>>

\* Apply and Reset from the window, or an Apply by a profile rule or the tray,
\* which an open dialog does not stop.  Stamped with what the window presents.
QueueMutation(kind) ==
    LET work == [id |-> works + 1, kind |-> kind, gpuEpoch |-> epochs.gpu,
                 presentationEpoch |-> epochs.presentation,
                 instance |-> model.instance, generation |-> model.generation]
        q == [queue EXCEPT !.telemetry = FALSE]
        decision == Decide(q, kind)
    IN /\ ~queue.closing /\ works < budget.works
       /\ kind = "reset" => ~window.dialog
       /\ ModelReady(model)
       /\ queue' = CASE decision = "start" ->
                          Signal([q EXCEPT !.active = work, !.dispatched = FALSE])
                     [] decision \in {"pending", "replace"} -> [q EXCEPT !.pending = work]
                     [] decision = "keep" -> q
       /\ window' = IF decision = "keep" THEN window ELSE [window EXCEPT !.inFlight = TRUE]
       /\ works' = works + 1
       /\ UNCHANGED <<device, cues, service, model, worker, posted, epochs, budget,
                      committed, retired>>

\* Refresh, which keeps a READY presentation until the answer is there.
Refresh ==
    /\ "refresh" \in budget.happens /\ Interactive /\ works < budget.works /\ works' = works + 1
    /\ IF ModelReady(model)
       THEN queue' = QueueFullSync(queue) /\ UNCHANGED <<model, epochs>>
       ELSE BeginFullSync(queue)
    /\ UNCHANGED <<device, cues, service, worker, posted, window, budget, committed, retired>>

\* Install or remove the service.
ToggleService ==
    /\ "admin" \in budget.happens /\ Interactive
    /\ works < budget.works /\ works' = works + 1
    /\ queue.active = NoWork /\ queue.admin = "none"
    /\ BeginFullSync(Signal([queue EXCEPT
         !.admin = IF service.up THEN "remove" ELSE "install", !.telemetry = FALSE]))
    /\ UNCHANGED <<device, cues, service, worker, posted, window, budget,
                   committed, retired>>

\* WM_TIMER comes only when nothing is posted.
ReconnectTick ==
    /\ posted = <<>> /\ ~queue.closing
    /\ window.reconnectTimer /\ ~ModelReady(model)
    /\ queue' = QueueFullSync(queue)
    /\ UNCHANGED <<device, cues, service, model, worker, posted, epochs, window, works,
                   budget, committed, retired>>

TelemetryTick ==
    /\ "telemetry" \in budget.happens
    /\ posted = <<>> /\ ~queue.closing /\ ~window.inFlight
    /\ queue' = IF ModelReady(model) THEN QueueTelemetry(queue) ELSE QueueFullSync(queue)
    /\ UNCHANGED <<device, cues, service, model, worker, posted, epochs, window, works,
                   budget, committed, retired>>

\* gui_mutation_shutdown, up to the wait for the worker.
Close ==
    /\ "close" \in budget.happens /\ Interactive
    /\ queue' = [queue EXCEPT !.closing = TRUE, !.pending = NoWork, !.admin = "none",
                              !.fullSync = FALSE, !.telemetry = FALSE, !.event = TRUE]
    /\ posted' = <<>>
    /\ UNCHANGED <<device, cues, service, model, worker, epochs, window, works, budget,
                   committed, retired>>

---------------------------------------------------------------------------
(* The window thread: posted messages.                                     *)

Message(kind) == posted # <<>> /\ Head(posted).kind = kind /\ posted' = Tail(posted)

\* handle_gui_service_io_completion for a read.
HandleRead ==
    LET msg == Head(posted) IN
    /\ Message("read")
    /\ IF msg.presentation # epochs.presentation \/ msg.outcome = "missed"
       THEN UNCHANGED <<model, epochs, queue, window>>
       ELSE IF msg.outcome = "unreachable"
            THEN TransportFailure(msg.connection, window, queue)
            ELSE AcceptResponse(msg.connection, msg.envelope, window, queue)
    /\ UNCHANGED <<device, cues, service, worker, works, budget, committed, retired>>

\* gui_service_handle_admin_completion.
HandleAdmin ==
    LET msg == Head(posted) IN
    /\ Message("admin")
    /\ model' = IF msg.outcome = "removed" THEN Disconnect(model, msg.connection) ELSE model
    /\ UNCHANGED <<device, cues, service, queue, worker, epochs, window, works, budget,
                   committed, retired>>

\* A completion belongs to the presentation and GPU epochs of its request.
ContextCurrent(work) ==
    /\ work.gpuEpoch = epochs.gpu
    /\ work.presentationEpoch = epochs.presentation

SameAuthority(env) ==
    env.instance = model.instance /\ env.generation = model.generation

\* Mutation: the write's success is enough.
CanCommitOnSuccess(msg) == msg.outcome = "success"

\* gui_service_mutation_can_commit, on the reducer's preview of the answer.
CanCommit(msg) ==
    /\ msg.outcome = "success"
    /\ ContextCurrent(msg.work)
    /\ msg.envelope # NoEnvelope
    /\ SameAuthority(msg.envelope)
    /\ Accepts(model, msg.connection, msg.envelope)
    /\ ModelReady(Adopt(model, msg.connection, msg.envelope))

\* gui_mutation_acknowledge_and_dispatch_next.
Acknowledged(w, q) == [w EXCEPT !.inFlight = IF q.active = NoWork THEN FALSE ELSE @,
                                !.dialog = FALSE]

\* handle_gui_mutation_completion.  A result that needs an answer opens a modal
\* dialog whose message loop runs before the acknowledgement.
HandleMutation ==
    LET msg == Head(posted)
        current == ContextCurrent(msg.work)
    IN /\ Message("mutation")
       /\ \E dialog \in BOOLEAN :
            LET q == IF dialog THEN queue ELSE Advance(queue)
                w == IF dialog THEN [window EXCEPT !.dialog = TRUE]
                     ELSE Acknowledged(window, q)
                cleared == [w EXCEPT !.dirty = IF CanCommit(msg) THEN FALSE ELSE @]
            IN IF current /\ msg.envelope # NoEnvelope
               THEN AcceptResponse(msg.connection, msg.envelope, cleared, q)
               ELSE IF current /\ msg.outcome # "notSent"
               THEN TransportFailure(msg.connection, cleared, q)
               ELSE /\ queue' = q /\ window' = cleared
                    /\ UNCHANGED <<model, epochs>>
       /\ UNCHANGED <<device, cues, service, worker, works, budget, committed, retired>>

Dismiss ==
    /\ window.dialog
    /\ queue' = Advance(queue)
    /\ window' = Acknowledged(window, queue')
    /\ UNCHANGED <<device, cues, service, model, worker, posted, epochs, works, budget,
                   committed, retired>>

\* gui_handle_selected_gpu_pnp_event.
HandleCue ==
    LET event == Head(posted).event IN
    /\ Message("cue")
    /\ epochs' = [epochs EXCEPT !.presentation = @ + 1, !.gpu = @ + 1]
    /\ model' = [RequireNewGeneration(model) EXCEPT
                   !.phase = IF event = "removed" THEN "DEVICE_MISSING" ELSE "RECOVERING"]
    /\ queue' = RetirePending(queue)
    /\ window' = [window EXCEPT !.reconnectTimer = TRUE]
    /\ retired' = IF ModelReady(model)
                  THEN retired \cup {[instance |-> model.instance,
                                      generation |-> model.generation]}
                  ELSE retired
    /\ UNCHANGED <<device, cues, service, worker, works, budget, committed>>

---------------------------------------------------------------------------
(* The worker thread.                                                      *)

\* The wait returns; under the lock one piece of work is taken, writes first.
Take ==
    LET q == [queue EXCEPT !.event = FALSE]
        read(kind) == [Waiting EXCEPT !.stage = "reading", !.kind = kind,
                                      !.presentation = epochs.presentation]
    IN /\ worker.stage = "waiting" /\ queue.event
       /\ IF q.closing
          THEN queue' = q /\ worker' = [worker EXCEPT !.stage = "stopped"]
          ELSE IF q.active # NoWork
          THEN IF q.dispatched THEN queue' = q /\ UNCHANGED worker
               ELSE /\ queue' = [q EXCEPT !.dispatched = TRUE, !.busy = TRUE]
                    /\ worker' = [Waiting EXCEPT !.stage = "checking", !.work = q.active]
          ELSE IF q.admin # "none"
          THEN /\ queue' = [q EXCEPT !.admin = "none", !.busy = TRUE]
               /\ worker' = read(q.admin)
          ELSE IF q.fullSync
          THEN /\ queue' = [q EXCEPT !.fullSync = FALSE, !.busy = TRUE]
               /\ worker' = read("fullSync")
          ELSE IF q.telemetry
          THEN /\ queue' = [q EXCEPT !.telemetry = FALSE, !.busy = TRUE]
               /\ worker' = read("telemetry")
          ELSE queue' = q /\ UNCHANGED worker
       /\ UNCHANGED <<device, cues, service, model, posted, epochs, window, works, budget,
                      committed, retired>>

\* Mutation: the worker is free again, the mutation stays active.
ReleaseWorkerOnly ==
    /\ queue' = Signal([queue EXCEPT !.busy = FALSE])
    /\ worker' = Waiting

\* gui_worker_release_after_mutation_post_failure.
ReleaseMutation ==
    /\ queue' = Advance([queue EXCEPT !.busy = FALSE])
    /\ worker' = Waiting

\* No memory for the completion.
AllocFails ==
    /\ Fault
    /\ \/ worker.stage = "checking" /\ ReleaseMutation
       \/ /\ worker.stage = "reading"
          /\ queue' = Signal([queue EXCEPT !.busy = FALSE])
          /\ worker' = Waiting
    /\ UNCHANGED <<device, cues, service, model, posted, epochs, window, works, committed,
                   retired>>

\* gui_mutation_work_context_is_current, on the worker thread before the send.
Check ==
    /\ worker.stage = "checking"
    /\ worker' = IF worker.work.gpuEpoch = epochs.gpu
                 THEN [worker EXCEPT !.stage = "sending"]
                 ELSE [worker EXCEPT !.stage = "answered", !.outcome = "notSent"]
    /\ UNCHANGED <<device, cues, service, model, queue, posted, epochs, window, works,
                   budget, committed, retired>>

\* gui_worker_record_connection_result: a failure proves nothing about which
\* process is at the other end.
Recorded(instance) ==
    IF instance \in {0, epochs.tracked} THEN epochs
    ELSE [epochs EXCEPT !.tracked = instance, !.connection = @ + 1]

\* Done with the exchange: the lock is taken to drop "busy", then it is posted.
FinishMutation ==
    /\ worker.stage = "answered"
    /\ epochs' = Recorded(worker.envelope.instance)
    /\ worker' = [worker EXCEPT !.stage = "posting"]
    /\ queue' = [queue EXCEPT !.busy = FALSE]
    /\ UNCHANGED <<device, cues, service, model, posted, window, works, budget, committed,
                   retired>>

Completion(kind) ==
    [kind |-> kind, work |-> worker.work, outcome |-> worker.outcome,
     envelope |-> worker.envelope, presentation |-> worker.presentation,
     connection |-> epochs.connection, event |-> "none"]

\* PostMessage to a window that is gone fails.
PostMutation ==
    /\ worker.stage = "posting"
    /\ \/ /\ ~queue.closing
          /\ posted' = Append(posted, Completion("mutation"))
          /\ worker' = Waiting
          /\ UNCHANGED <<queue, budget>>
       \/ /\ IF queue.closing THEN UNCHANGED budget ELSE Fault
          /\ ReleaseMutation
          /\ UNCHANGED posted
    /\ UNCHANGED <<device, cues, service, model, epochs, window, works, committed, retired>>

\* A read is posted while the worker is still marked busy.
PostRead ==
    LET recorded == Recorded(worker.envelope.instance) IN
    /\ worker.stage = "read"
    /\ epochs' = recorded
    /\ \/ /\ ~queue.closing
          /\ posted' = Append(posted, [Completion(IF worker.kind \in {"install", "remove"}
                                                  THEN "admin" ELSE "read")
                                       EXCEPT !.connection = recorded.connection])
          /\ UNCHANGED budget
       \/ /\ IF queue.closing THEN UNCHANGED budget ELSE Fault
          /\ UNCHANGED posted
    /\ worker' = [worker EXCEPT !.stage = "readPosted"]
    /\ UNCHANGED <<device, cues, service, model, queue, window, works, committed, retired>>

ReleaseRead ==
    /\ worker.stage = "readPosted"
    /\ worker' = Waiting
    /\ queue' = Signal([queue EXCEPT !.busy = FALSE])
    /\ UNCHANGED <<device, cues, service, model, posted, epochs, window, works, budget,
                   committed, retired>>

---------------------------------------------------------------------------
(* The service.                                                            *)

\* populate_service_state_response: authority is live only in READY.
Published(s) == [s EXCEPT !.authority = (s.phase = "READY")]
Envelope(s) == [instance |-> s.instance, generation |-> s.generation, phase |-> s.phase]

\* service_handle_snapshot_request: READY only after a complete refresh.
Refreshed(ok) ==
    [service EXCEPT !.phase = IF ok THEN "READY"
                              ELSE IF @ \in {"DEVICE_MISSING", "RECOVERING"} THEN @
                              ELSE "DEGRADED",
                    !.generation = IF ~ok /\ service.phase = "READY" THEN @ + 1 ELSE @]

Answered(s) ==
    /\ service' = Published(s)
    /\ worker' = [worker EXCEPT !.stage = "read", !.outcome = "answered",
                                !.envelope = Envelope(s)]

\* GET_SNAPSHOT and GET_TELEMETRY.  A refresh succeeds only with the device there.
ServeRead ==
    /\ worker.stage = "reading" /\ worker.kind \in {"fullSync", "telemetry"} /\ service.up
    /\ \/ worker.kind = "telemetry" /\ Answered(service) /\ UNCHANGED budget
       \/ worker.kind = "fullSync" /\ Answered(Refreshed(device)) /\ UNCHANGED budget
       \/ worker.kind = "fullSync" /\ device /\ Fault /\ Answered(Refreshed(FALSE))
    /\ UNCHANGED <<device, cues, model, queue, posted, epochs, window, works, committed, retired>>

\* A reachable service misses its deadline; no service can be reached.
ReadFails ==
    /\ worker.stage = "reading" /\ worker.kind \in {"fullSync", "telemetry"}
    /\ IF service.up THEN Fault ELSE UNCHANGED budget
    /\ worker' = [worker EXCEPT !.stage = "read",
                    !.outcome = IF service.up THEN "missed" ELSE "unreachable"]
    /\ UNCHANGED <<device, cues, service, model, queue, posted, epochs, window, works,
                   committed, retired>>

Restarted == [up |-> TRUE, instance |-> service.instance + 1, generation |-> 1,
              phase |-> "RECOVERING", authority |-> FALSE]

\* The elevated install or removal succeeds or fails.
ServeAdmin ==
    /\ worker.stage = "reading" /\ worker.kind \in {"install", "remove"}
    /\ \/ /\ worker.kind = "remove" /\ service.up
          /\ service' = [service EXCEPT !.up = FALSE]
          /\ worker' = [worker EXCEPT !.stage = "read", !.outcome = "removed"]
       \/ /\ worker.kind = "install" /\ ~service.up
          /\ service' = Restarted
          /\ worker' = [worker EXCEPT !.stage = "read", !.outcome = "installed"]
       \/ /\ worker' = [worker EXCEPT !.stage = "read", !.outcome = "failed"]
          /\ UNCHANGED service
    /\ UNCHANGED <<device, cues, model, queue, posted, epochs, window, works, budget,
                   committed, retired>>

\* service_mutation_preconditions_match, then the write.
Preconditions(work) ==
    /\ work.instance = service.instance
    /\ work.generation = service.generation
    /\ service.phase = "READY"

ExecuteMutation ==
    /\ worker.stage = "sending" /\ service.up
    /\ \/ /\ Preconditions(worker.work)
          /\ worker' = [worker EXCEPT !.stage = "written"]
          /\ committed' = [committed EXCEPT ![worker.work.id] =
               [instance |-> service.instance, generation |-> service.generation]]
       \/ /\ worker' = [worker EXCEPT !.stage = "refused"]
          /\ UNCHANGED committed
    /\ UNCHANGED <<device, cues, service, model, queue, posted, epochs, window, works,
                   budget, retired>>

\* The answer, or the answer to the query after it; MutationContract.
AnswerMutation ==
    /\ worker.stage \in {"written", "refused"} /\ service.up
    /\ service' = Published(service)
    /\ \/ /\ worker' = [worker EXCEPT !.stage = "answered", !.envelope = Envelope(service),
                          !.outcome = IF worker.stage = "written" THEN "success" ELSE "failure"]
          /\ UNCHANGED budget
       \/ /\ Fault
          /\ worker' = [worker EXCEPT !.stage = "answered", !.envelope = Envelope(service),
                          !.outcome = "unknown"]
    /\ UNCHANGED <<device, cues, model, queue, posted, epochs, window, works, committed, retired>>

\* Neither the mutation nor the query is answered.
MutationFails ==
    /\ worker.stage \in {"sending", "written", "refused"}
    /\ IF service.up THEN Fault ELSE UNCHANGED budget
    /\ worker' = [worker EXCEPT !.stage = "answered", !.outcome = "unknown"]
    /\ UNCHANGED <<device, cues, service, model, queue, posted, epochs, window, works,
                   committed, retired>>

\* The service's process ends and another follows.
RestartService ==
    /\ service.up /\ "restart" \in budget.happens /\ Upset
    /\ service' = Restarted
    /\ cues' = [cues EXCEPT !["service"] = <<>>]
    /\ UNCHANGED <<device, model, queue, worker, posted, epochs, window, works,
                   committed, retired>>

---------------------------------------------------------------------------
(* The device.                                                             *)

DeviceChanges ==
    /\ "device" \in budget.happens /\ Upset
    /\ device' = ~device
    /\ cues' = [p \in DOMAIN cues |->
         IF p = "service" /\ ~service.up THEN cues[p]
         ELSE Append(cues[p], IF device THEN "removed" ELSE "started")]
    /\ UNCHANGED <<service, model, queue, worker, posted, epochs, window, works,
                   committed, retired>>

\* service_selected_gpu_notification_callback.
DeliverToService ==
    /\ cues["service"] # <<>>
    /\ cues' = [cues EXCEPT !["service"] = Tail(@)]
    /\ service' = IF Head(cues["service"]) = "removed"
         THEN [service EXCEPT !.authority = FALSE, !.phase = "DEVICE_MISSING",
                              !.generation = @ + 1]
         ELSE [service EXCEPT !.authority = FALSE, !.phase = "RECOVERING",
                              !.generation = IF service.authority THEN @ + 1 ELSE @]
    /\ UNCHANGED <<device, model, queue, worker, posted, epochs, window, works, budget,
                   committed, retired>>

\* gui_selected_gpu_notification_callback posts to the window.
DeliverToGui ==
    /\ cues["gui"] # <<>>
    /\ cues' = [cues EXCEPT !["gui"] = Tail(@)]
    /\ posted' = IF queue.closing THEN posted
                 ELSE Append(posted, [kind |-> "cue", work |-> NoWork, outcome |-> "none",
                        envelope |-> NoEnvelope, presentation |-> 0, connection |-> 0,
                        event |-> Head(cues["gui"])])
    /\ UNCHANGED <<device, service, model, queue, worker, epochs, window, works, budget,
                   committed, retired>>

---------------------------------------------------------------------------
HandleMessage == HandleRead \/ HandleAdmin \/ HandleMutation \/ HandleCue

WorkerStep ==
    \/ Take \/ Check \/ FinishMutation \/ PostMutation \/ PostRead \/ ReleaseRead
    \/ ServeRead \/ ReadFails \/ ServeAdmin
    \/ ExecuteMutation \/ AnswerMutation \/ MutationFails

Next ==
    \/ Edit \/ QueueMutation("apply") \/ QueueMutation("reset") \/ Refresh
    \/ ToggleService \/ Close \/ Dismiss
    \/ ReconnectTick \/ TelemetryTick
    \/ HandleMessage
    \/ WorkerStep \/ AllocFails
    \/ RestartService \/ DeviceChanges \/ DeliverToService \/ DeliverToGui

\* The threads run, the service answers or the exchange times out, timers fire
\* and notifications arrive.  Nothing is assumed of the user.
Fairness ==
    /\ WF_vars(HandleMessage)
    /\ WF_vars(WorkerStep)
    /\ WF_vars(ReconnectTick)
    /\ WF_vars(TelemetryTick)
    /\ WF_vars(DeliverToService)
    /\ WF_vars(DeliverToGui)

Spec == Init /\ [][Next]_vars /\ Fairness

---------------------------------------------------------------------------
(* Properties.                                                             *)

\* No lost wake-up: whenever there is work the worker could take and the worker
\* is in its wait, the event is set, whichever of the two threads made the work
\* takeable (gui_worker_signal_if_dispatchable_locked at every such place).
NoLostWake ==
    (worker.stage = "waiting" /\ Dispatchable(queue)) => queue.event

\* An authority that a device notification took from the window never comes
\* back: READY is only presented for a newer generation or another instance,
\* however answers, reconnects and notifications are ordered
\* (gui_service_model_require_new_gpu_generation and gui_service_model_accept).
RetiredAuthorityStaysRetired ==
    ModelReady(model) =>
        [instance |-> model.instance, generation |-> model.generation] \notin retired

\* The draft is given up only for a mutation the service committed under the
\* very instance and generation the window presents at that moment, and never
\* once a notification has retired what the user saw when asking for it
\* (the reducer preview in handle_gui_mutation_completion).
DraftLeavesWithItsCommit ==
    [][(window.dirty /\ ~window'.dirty) =>
         /\ committed[Head(posted).work.id] =
              [instance |-> model.instance, generation |-> model.generation]
         /\ committed[Head(posted).work.id] \notin retired
         /\ Head(posted).work.presentationEpoch = epochs.presentation]_vars

\* A Reset waiting behind an active write is not displaced by an Apply: it is
\* sent, gives way to another Reset, or falls with the GPU epoch it was asked
\* under or with the GUI (gui_mutation_queue_decide).
WaitingResetIsKept ==
    [][(queue.pending.kind = "reset" /\ queue'.pending # queue.pending) =>
         \/ queue'.active = queue.pending
         \/ queue'.pending.kind = "reset"
         \/ epochs'.gpu # epochs.gpu
         \/ queue'.closing]_vars

\* A write that was started is over in the end, or its result is on screen
\* waiting for the user; allocation and post failures, refused and unanswered
\* requests and a service that dies included.
EveryWriteEnds ==
    queue.active # NoWork ~> (queue.active = NoWork \/ window.dialog \/ queue.closing)

\* Notifications are "presentation invalidation cues only": with the device
\* there, the service reachable and every notification delivered, the window
\* presents the service's READY state again.
Settled ==
    /\ device /\ service.up
    /\ cues["gui"] = <<>> /\ cues["service"] = <<>>
    /\ ~queue.closing /\ ~window.dialog /\ ~window.inFlight
WindowReturnsToReady == []<>(Settled => ModelReady(model))
=============================================================================
