# Green Curve: TLA+ models

Green Curve sets overclocks and fan curves of NVIDIA GPUs. A privileged process
(a root daemon on Linux, a service on Windows) owns the hardware; a GUI, a TUI
and a CLI send it requests. The difficult part is not a single write but what is
left behind when something stops half way: a fan held at a fixed duty that
nobody tracks any more, an overclock that crashes the machine and is replayed at
every start, a record on disk that disagrees with the GPU. These modules model
that part, first for the Linux daemon and then for the Windows service and its
GUI.

## Inventory

| Part | State | Operations | What is hard |
|---|---|---|---|
| Linux daemon, explicit operations (`linux_daemon.cpp`, `linux_daemon_state.*`) | `g_activeDesired`, `g_activeTarget`, `g_stateUncertain`, the state record | Apply, Reset | PREPARED / write / ACTIVE with a crash or a failed store between any two steps; rollback of hardware and of the record |
| Linux daemon, automatic restores (`linux_auto_restore_*`) | the guard: lockout, attempts, boot id | restore at start, startup profile, restore after standby | crash loops; authorization that is stale when the write happens |
| Fan ownership (`linux_fan_ownership.h`, `ownership_handback_policy.h`) | the per-boot marker, pending and deferred handback | take, retire, hand back at start, give up | the marker and the fan are two things that cannot change together |
| Startup policy (`linux_startup_policy.h`) | the policy record | set, load, apply a profile | it acts before the state record is read |
| Fan worker (`linux_fan_runtime.h`, `fan_runtime_policy.h`) | wake generation, failure counter, last temperature | maintain, escalate | lost wakes, state re-read after a wait |
| Serving loop (`linux_daemon_serve.h`) | socket, stop flag, watchdog | accept, dispatch, stop | deadlines, stall detection |
| Backend transaction (`linux_transaction.h`, `linux_backend_mutation.cpp`, `linux_backend_rollback.h`) | the phases attempted | apply, reset, restore a snapshot | order of phases, partial rollback |
| Operation tracker (`service_operation_tracker.h`) | 16 remembered operations | begin, complete, restore | retries across lost answers and restarts |
| Windows recovery (`driver_recovery_flow.h`, `service_lifecycle_policy.h`, `service_recovery_policy.h`) | lifecycle reducer, awake-time proof, recovery ledger | arm, queue, restore once, lock out | driver resets, restarts, concurrent logon and resume events |
| Windows fan worker (`fan_worker_lifecycle_policy.h`) | thread, stop event, runtime mutex | ensure, stop, join | self-stop, lock order, abandoned mutex |
| Pipe server (`main_service_pipe*.cpp`, `service_pipe_transport_lease.h`, `service_ipc_throttle_policy.h`) | leases, buckets | connect, throttle, dispatch | limits per account |
| GUI (`gui_mutation_*`, `gui_service_*`) | one active and one pending mutation, the service model | submit, complete, resync | stale answers, a Reset behind an Apply |
| Auto profiles (`auto_profile_controller.cpp`) | target, debounce, cool-down | evaluate, fire, fail | timers racing changes |
| Updater (`main_service_update_*.cpp`, `update_*_policy.h`) | staged package, schedule | check, stage, install | failed checks, hand-over of the runtime |
| Installer (`installer_transaction*`) | files, registry record, service | replace, record, register, roll back | failure at each step |
| Debug log (`debug_log_queue_policy.h`) | a byte ring, dropped count | produce, drain, shut down | a stalled disk, the join timeout |

Interfaces, drawing, configuration parsing, access control and diagnostics have
no protocol state of their own and are not modelled; `PROJECT.json` lists them
with the reason.

How the parts interact: on Linux, clients talk to the daemon over a socket; the
daemon runs every request under one lock (`g_lock`) and shares it with the fan
worker; both write the GPU through the backend and the records under
`/var/lib/greencurve`. A restart of the daemon reads those records and decides
what to write unattended. On Windows, pipe threads, the lifecycle worker, the fan
worker, the updater and the main thread of the service serialise hardware work
with the runtime mutex; the lifecycle worker gets its work through an inbox; a
helper process and the service control manager restart the service, which finds
a snapshot, an authorization, a ledger and a lockout on disk. The GUI has one
worker thread that owns every exchange with the service, and learns of device
changes by notifications the service gets independently. Both platforms share
the operation tracker, which ties a request to one ID from the client's retry to
the record on disk. Every process writes its log through a queue of its own.

## The modules

`LinuxDaemon.tla` models the daemon with its four durable records and the GPUs.

* **What an action is.** Requests and worker cycles do not interleave (`g_lock`),
  and start-up is single threaded. The death of the process does interleave, so a
  handler is split exactly where a step outlives the process: a record replaced
  or removed, a hardware transaction. `pc` names the next such step, `op` holds
  the handler's locals. Assignments to globals happen with the effect they
  accompany, in the source's order.
* **Records.** `dRec` is the state record (PREPARED, ACTIVE, UNCERTAIN), `dGuard`
  the crash-loop guard, `dMarker` the fan ownership marker, `dPolicy` the startup
  policy. A store is temp file, fsync, rename, fsync of the directory: a failed
  one leaves the old file, or, when only the last step failed, the new one
  (`Replace`).
* **Hardware.** `hw[g]` keeps the overclock as a name ("stock", a profile, or
  "unknown" after a rollback that failed) and who drives the fan. A backend
  transaction succeeds, fails having undone everything, or leaves unknown clocks
  and either fan state. Taking a fan by curve may begin in the driver's zero-RPM
  range, so the fan may still be automatic afterwards (`FanAfter`).
* **Memory.** `active`, `uncertain`, `guard`, `mk`, `deferred`, `policy`, `ready`,
  `sel` are the daemon's globals; a crash, an exit or a reboot clears them.
* **History.** `startWrites`, `deaths` count what two properties bound; `ops` and
  `crashes` bound the model.

| Handler in the code | Actions |
|---|---|
| `linux_daemon_run` up to the listener | `Start`, `BootInit`, `HandbackAtStart`, `LoadStartupPolicy`, `LoadStateRecord` |
| `daemon_fan_ownership_run_handback` | `HandbackResolve`, `HandbackWrite`, `HandbackRetire`, `HandbackRefused`, `HandbackLatch` |
| `daemon_automatic_restore_write` | `Authorize`, `PrepareBackend`, `SelectAndOwn`, `AutoWrite`, `AutoCommit`, `AutoRetire`, `AutoRollback`, `AutoUncertain`, `NoteAutomaticFailure` |
| `handle_request`, Apply and Reset | `ApplyBegin`, `ResetBegin`, `StorePrepared`, `Mutate`, `Commit`, `RetireMarker`, `NoteExplicitSuccess`, `RollbackMutation`, `RestoreRecord`, `StoreUncertain` |
| `daemon_enter_uncertain_state` | `ReleaseFan`, `ReleaseRetire` |
| other requests | `ResumeRestore`, `SetStartupPolicy`, `TargetedRead`, `UntargetedRead` |
| `fan_reassert_thread` | `ResumeDeferredHandback`, `FanMaintain`, `FanLockout`, `FanLockoutRecord` |
| orderly stop | `Stop`, `ReleaseAtStop`, `RetireAtStop`, `Exit` |
| environment | `Crash`, `Reboot`, `Standby` |

Abstractions: an overclock is one name, so a request replaces it as a whole and
only the fan is merged with the previous intent; a resume may be refused by the
rate limit at any time; the boot id is readable (the code fails closed
otherwise); records written by older versions, and marker files that cannot be
parsed, are left out.

Definitions introduced by a comment "Mutation:" are wrong on purpose. They are
not used by the specification: each replaces the definition after it to show
that some property would notice.

`MCLinuxDaemon.tla` gives the requests and policies of the instances, and
`MCLinuxDaemons.tla` puts two of them into one run: a machine with one adapter, where
everything may fail, and one with two adapters and stores that work (`adapters` says
which).
`LinuxDaemonProofs.tla` and `LinuxFanProofs.tla` hold the theorems.
The theorems about the modules below are in `ServiceOperationsProofs.tla`,
`GuiServiceProofs.tla`, `DriverRecoveryProofs.tla`, `FanWorkerProofs.tla` and
`DebugLogProofs.tla`; `ServiceThreadsProofs.tla` carries those of the log over to the
composition that TLC checks.

`ServiceOperations.tla` follows one mutation from the client to its report: the
operation tracker (`service_operation_tracker.h`) with its bounded history, the
request guards of both platforms, the operation file, the load of the files at a
restart, and the client with its deadline, its result queries and its repeated
request. `Refuse` answers with no operation state what does not pass the gates in
front of the operation guard: throttling, a malformed or unentitled request, a service
that is not ready. They stand in front of a result query as well; `QueryRefusals`
names the platforms on which an instance lets them refuse one. The two clients read
such an answer differently (`ReadMutation`, `ReadQuery`). `platform` is chosen
initially: the Windows service takes waiting requests in any order, the Linux daemon
in the order of its socket, and its state record has the last word at a restart.
Answers may be lost and arrive late, the service may die between any two steps of a
handler, stores may fail. `MutationContract.tla` is what a client may rely on, without
messages, records or restarts; `ServiceOperations` implements it
(`ImplementsContract`, with the verdicts kept as history and `told` as the mapping).

`GuiService.tla` models the GUI's window thread, its worker thread, the mutation
queue between them, the service model reducer and as much of the service as
answers them. A message of the window is one action (`HandleRead`,
`HandleMutation`, `HandleAdmin`, `HandleCue`), the worker is split where it
takes and releases the queue's lock (`Take`, `Check`, the exchange, the posting,
the release). Device notifications go to the service and to the window in
separate queues. `Scenarios` bounds what one behaviour may hold; `MCGuiService`
gives the three that are checked together. Left out: the state revision (one
worker, one exchange at a time) and what is drawn.

`LifecycleReducer.tla` is `service_lifecycle_reduce` as operators, one per event.
`DriverRecovery.tla` puts it to work: the main thread's watch loop, the lifecycle
worker, a client, the helper processes, the failure action of the service control
manager, and the files that survive the process.

| Code | Actions |
|---|---|
| explicit Apply and Reset (`main_service_pipe_switch.cpp`, `main_service_apply_runtime.cpp`) | `ClientAsk`, `ClientRun`, `ApplyEnd`, `ResetEnd`, `Publish` |
| lifecycle worker (`main_service_logon_coordinator.cpp`, `main_service_lifecycle_apply.cpp`) | `WorkerDrain`, `WorkerRemoval`, `WorkerArrival`, `WorkerGate`, `LookLogon`, `LookStandby`, `LookDriver`, `LateLockout`, `LogonAttempt`, `StandbyAttempt`, `DriverAttempt`, `AutomaticEnd`, `WorkerFinish`, `WorkerStop` |
| watch loop and controlled restart (`main_service_host.cpp`, `main.cpp`, `main_service_controlled_restart.cpp`) | `MainWorkerDead`, `MainCue`, `MainEpoch`, `MainRequest`, `MainWake`, `MainClaim`, `MainJoin`, `Emergency` |
| startup gate and helper (`main_service_recovery.cpp`, `driver_recovery_flow.h`) | `FailureStart`, `HelperStart` with `Arm`, `HelperGivesUp`, `HelperLost` |
| environment | `Logon`, `Standby`, `Remove`, `Arrive`, `Nudge`, `Fault`, `WorkerDies`, `Kill`, `ExternalStop`, `Mature` |

A hardware write is a pair of steps, and `write` says who holds the runtime lock
between them, so that a death, a lockout or a stop can fall into it. Abstracted:
the ledger's time window and failures to store the ledger,
update installs, logoff and several identities, an external stop
between the two looks of the claim, the age check of the authorization.
`MCDriverRecovery.tla` checks it side by side with an instance of `LinuxDaemon` whose
fans are stranded: both runs are about what must eventually be resolved, and one
behaviour exercises one of the two.

`FanWorker.tla` models the Windows fan runtime: the worker thread with its wait
and its cancellable wait for the mutex, the tick with verification, write,
rollback, failure counter and escalation, and everything that starts, stops,
joins and replaces the worker: Apply, Reset, rollback, lockout, the updater's
install reservation, the watchdog, telemetry. The hardware's fan (`fan.hw`) and
the process's cache of it (`fan.isAuto`, `fan.counted`) are separate, because
every driver call may fail and the code decides by the cache. A read (`ReadFans`) may
fail before or after it has reset the cache, and one that succeeds may not have read
the policy: then it believes the fan automatic unless a target above zero was read,
which it asks for only over a runtime or a mode of its own (`Beliefs`). A request is split
at its joins, where the worker moves while the request keeps the mutex. Requests
that are refused before any effect are no steps. Left out: the path of
`service_disable_automatic_restore` without the mutex, which runs only before the first
worker exists. Abstracted: percentages and
temperatures, `activeFanMode` being derived again by a full refresh, and a
worker that dies in the driver while it owns the mutex (in `DriverRecovery`);
`FAN_WORKER_ENSURE_REFUSE_SELF` is not reachable, since a worker that stopped its
runtime does not start one.

`DebugLog.tla` models the log queue of the Windows processes: producers commit to the
ring or write themselves while there is no writer, the writer drains under the file
lock, routes change, the shutdown joins for a bounded time. A line is its route, the
ring holds lines. Two histories say what the program does not know: `forgotten` are
lines and counts that failed writes took along uncounted, `late` are lines that
reached the ring after the shutdown had looked at it. Not modelled: the bytes of the
ring, the crash drain, rotation, the wrap of the route generation.

`MCServiceThreads.tla` checks these two side by side, like `MCDriverRecovery.tla`.
They share no state, so one behaviour exercises one of them; an interleaving of both
would only multiply their states.

## Properties

* `ManualFanIsRecorded`: a fan at a fixed duty is named by a marker of this boot,
  whatever step the daemon dies at.
* `StartWritesBounded`, `AutomaticWriteIsDurablyAuthorized`: a crash loop through
  a start-time write ends, because the attempt is on disk before the write and
  the guard on disk is not locked when it happens.
* `HandbackDeathsBounded`: so does a crash loop through a fan handback.
* `LockoutNeedsUser`: restarts, reboots and clean stops never unlock the guard.
* `SettledIntentIsOnHardware`, `ReplayedIntentIsTheCommittedOne`,
  `UncertaintyIsDurableOnWorkingStores`: what the daemon publishes, what a restart
  would replay and what the GPU holds stay consistent through failed commits and
  rollbacks.
* `StrandedFanIsResolved`: a manual fan is returned, driven, or reported.

* `ImplementsContract`: a client reports success or failure only on the service's own
  verdict. This holds as long as the gates of the Windows service refuse no result
  query; without that, `FailureIsNotCommitted` is what fails.
  `RepeatIsAnsweredFromRecord`: a repeated request never runs a second time while its
  operation is within the history. `EveryOperationIsReported`.
* `NoLostWake`, `WaitingResetIsKept`, `EveryWriteEnds`: the GUI's queue and worker.
  `RetiredAuthorityStaysRetired`, `DraftLeavesWithItsCommit`: what the window may
  present and when it may give up the user's draft.
* `RestoreWritesLastApplied`, `NoAutomaticWriteUnderLockout`, `RecoveriesBounded`:
  what an unattended write of the Windows service writes, when, and how often.
  `ReapplyingHasContinuation`, `ServiceReturns`, `ExternalStopEnds`,
  `DriverFaultIsHandled`: it neither hangs in a recovery nor resists a stop.
* `AtMostOneWorker`, `EveryRequestEnds`, `RuntimeIsDriven`: two workers never
  live at once, a join under the mutex never deadlocks (not even if it had no
  timeout), and an active runtime is pulsed however its worker ends.
  `HeldFanIsAccountedFor`: between requests a fan the driver does not control is
  driven or reported, unless a read took it for automatic (`fan.slipped`, below).
  `InstallFindsNoRuntime`: no runtime is started while the
  pulses are suspended for an install. `FanTypeOK` includes that the failure counter
  never stays at its limit.
* `GapsAreCounted`: up to the first write that fails uncounted, a line that is missing
  and a line in another route's file are in a count or in a marker.
  `ShutdownSettlesTheLog`: a shutdown that joined its writer leaves in the ring and in
  the counters only what came after it. `RingIsDrained`: until a shutdown every commit
  wakes the writer. `StopEnds`, `LogTypeOK` (only the owner of the file lock is at the
  file).

## Runs and bounds

| Run | Instance | Shows |
|---|---|---|
| `crash` | one adapter, manual and automatic fan requests, 2 operations, all store, backend and hardware faults, 4 deaths in one boot or 3 with a second; or two adapters, three requests, all startup policies, backend and hardware faults, 2 deaths in one boot or 1 with a second | the daemon's safety properties, ownership across adapters, records against memory; 2.4 million states |
| `dirsync` | as `crash`, with directory fsync failures | expected violation, below |
| `reset` | store and hardware faults | expected violation, below |
| `profile` | a PROFILE policy, hardware faults | expected violation, below |
| `operations` | an Apply and a Reset, two clients, a history of one, one death, one repeated request, one query per client, store faults, both platforms, Linux queries may be refused | refinement, at-most-once, liveness; 570,000 states |
| `queryrefusal` | two operations, one client at a time, one query, no deaths | expected violation, below |
| `gui` | three scenarios: 3 requests and 1 upset of any kind with closing; 1 request, 2 device changes, telemetry; install or removal around a device change | the GUI properties; 590,000 states |
| `guifence` | two device changes, no request | expected violation, below |
| `recovery` | Windows: one explicit request, two events, threshold 2; Linux: one adapter, 3 deaths, backend faults and unreadable records | the recovery properties with liveness, and `StrandedFanIsResolved`; 190,000 states |
| `recoverylockout` | one request, one event | expected violation, below |
| `threads` | fan worker: 3 requests, failure limit 3, 1 failed wait or creation; log: 2 lines of 2 producers, a ring of 1, 2 routes in 1 slot, 1 file fault | the fan worker's and the log's properties; 210,000 states |
| `logshutdown` | the log of `threads` | expected violation, below |

`MaxStartAttempts` and `MaxHandbacks` have the code's values 3 and 2. Four deaths
are one more than it takes to use up the start attempts, and enough for one
ordinary crash followed by three deaths in handbacks. Two boots let every record
of the first be stale in the second. Two operations are an intent and a failing
successor. The combination of all deaths with the second boot is left out
(`WithinBound`): a boot makes marker and attempts stale, so what it adds is seen with
one death less. No new behaviour needs more than two adapters: ownership concerns the
recorded one and any other. Deadlock is not checked: once the bounds are used up
a daemon waiting for requests has nothing to do.

On the machine with two adapters in `crash`, stores do not fail, because
`UncertaintyIsDurable` promises nothing about a record that could not be written. With
the Linux daemon in `recovery`, hardware and stores do not fail, because a refused fan
stays as it is by design until the user acts.

In `operations` a history of one makes every second operation evict the first.
In `recovery` a threshold of 2 is reached by two recoveries; larger instances
passed by hand: two requests with two events (440,000 states) and with three
(2.7 million), one request with three events (556,000), for safety. In `threads`
three failures reach the code's smallest limit, three requests are an Apply, its
successor and an install or Reset around it, and a second line meets a full ring;
the log alone passed with three lines. Deadlock is not checked in these runs
either: users, clients and producers may stop, and a stopped service stays down.

Fairness.

* `LinuxDaemon`: a handler that has begun continues (`WF` of `HandlerStep`; it runs
  on a thread of a process that has not died, and death is itself an action), and
  the fan worker resumes a deferred handback once the backend is up (it is woken
  and polls). Nothing is assumed of clients, crashes or restarts.
* `ServiceOperations`: clients block on deadlines only, so an exchange ends by
  itself; nothing is assumed of the service.
* `GuiService`: both threads run, timers fire, notifications arrive, an exchange is
  answered or times out; nothing is assumed of the user.
* `DriverRecovery`: the worker, the main loop and a client that is being served run
  (a driver call returns, or the hang is one of the events), the failure action and
  the helper act. Nothing is assumed of events.
* `FanWorker`: the worker and the owner of the mutex run, the watchdog comes back
  (it is a loop with a timeout). No timeout of a join is assumed, nor requests, nor
  telemetry.
* `DebugLog`: threads run and the volume answers in the end; nobody has to log or to
  stop, and the timeout of the join is not assumed.

## Where the code and its comments disagree

* `dirsync`: removing the marker returns failure when the unlink happened and
  only the directory fsync failed. Memory keeps the marker, the disk has none, and
  the next manual fan is not recorded, although the code "fails closed"
  (`linux_fan_ownership.h:80`).
* `reset`: a Reset whose commit and rollback fail leaves the previous intent
  ACTIVE on disk; Apply stores UNCERTAIN in the same situation
  (`linux_daemon.cpp:421`), as `linux_daemon_state.h:20` asks.
* `profile`: with a PROFILE policy the boot profile is written before the record
  is read, so PREPARED and UNCERTAIN do not block it, against
  `linux_daemon.cpp:673`.

* `guifence`: a device notification the window gets after the service's new READY
  generation demands a generation newer than that one, which never comes
  (`gui_selected_gpu_pnp.cpp:130`); the window stays in RECOVERING.
* `recoverylockout`: a refused or failed driver restore leaves
  `g_serviceControlledRecoveryValidated` up (`driver_recovery_flow.h:205`), the GPU
  phase stays RECOVERING and the explicit Apply that "is the only action permitted
  to acknowledge and clear this safety lockout" (`main_service_recovery.cpp:12`) is
  refused. The clients of the repository bind every Apply and Reset to a READY state and
  refuse to send one that is not (`main_service_client_commands.cpp:270`); a request
  without those fields would pass.
* `queryrefusal`: a result query stands before the same gates as a mutation
  (`main_service_pipe.cpp:241`, `508`), and refused it is answered with an error and no
  operation state. The Windows client takes that for the outcome
  (`main_service_client_commands.cpp:52`) and reports a failure for an operation that may
  have committed, although a mutation "reports 'outcome unknown' until operation recovery
  resolves it" (`llm-wiki/windows-architecture.md:29`).
* `logshutdown`: the join bound of the log says "the shutdown thread drains whatever is
  left either way, so the timeout can cost a duplicated line but never a lost one"
  (`debug_log_queue_policy.h:64`); after a timeout it returns before its drain
  (`main_debug_log_writer.cpp:532`), on purpose as its own comment says.

Observations met while modelling, without a run of their own:

* `nvml_read_fans` sets `fanIsAuto` and clears `fanCount` before the count can fail
  (`main_runtime_nvml.cpp:283-299`). A Reset after such a read sees an automatic fan,
  writes none, answers "Reset applied." and clears the ownership marker with the fan
  still manual; rollback (`main_gpu_rollback.h:75`) and install handback
  (`main_fan_runtime.cpp:445`) decide alike. A read that cannot read the policy does
  the same, unless a runtime or a mode of its own makes it read the target and that is
  above zero (`main_runtime_nvml.cpp:315-346`). `HeldFanIsAccountedFor` excludes it by
  `~fan.slipped`; without that conjunct TLC shows the behaviour.
* After a lockout has cleared the runtime but not the mode, an Apply of the same fixed
  duty "matches" and starts no runtime (`main_runtime_nvml.cpp:572`).
  `HeldFanIsAccountedFor` does not see it: the lockout has reported the fan, and the
  Apply does not take the report back.
* Outside the emergency path, the wedge watchdog's restart request waits for the
  runtime lock (`main.cpp:439`), which a wedged owner holds.
* A superseded restart finds `g_serviceStopEvent` reset (`main_service_host.cpp:593`),
  but the lifecycle worker waits on the same event and may already have ended; the
  service then locks out and stops with an error.
* After a shutdown of the log that timed out, a new line takes the synchronous path and
  waits for the file lock of the stalled writer.
* "The log stays honest about its own gap" (`debug_log_queue_policy.h:38`) up to the
  first failed write: a `WriteFile` that fails twice loses its line uncounted
  (`main_debug_log_writer.cpp:259-265`), and a marker that cannot be written loses the
  count it was to report (`main_debug_log_writer.cpp:412-424`). `GapsAreCounted` excludes
  both by `forgotten`. A line the writer has taken from the ring but not written is not
  in the crash drain.
* The Linux client reports a result query that is answered FAILED as an unknown outcome:
  an answer whose status is not OK counts as none (`linux_daemon_client.h:124-131`),
  although `linux_daemon_deadline_policy.h:343` calls a record that was read back known.

## Proofs

Every safety invariant and every action property that a passing run checks is also a
theorem, `UncertaintyIsDurableOnWorkingStores` in the form of `UncertaintyIsDurable`;
so is the refinement of `MutationContract`. The run shows it on a small
instance, the theorem for arbitrary constants that satisfy the named assumptions of
the module:

* `LinuxDaemon`: any adapters, profiles, requests, policies, bounds and fault switches
  such that `NoGpu` is no adapter, profile names differ from "stock" and "unknown", a
  PROFILE policy names an adapter, the bounds are natural numbers, and the two limits
  and `MaxBoots` are not zero.
* `ServiceOperations`: any operations, a history of at least one (`TrackerAssumption`),
  any budgets of clients, queries, repeats and restarts, queries refused on any
  platform.
* `GuiService`: any scenarios, that is, any number of requests and upsets.
* `DriverRecovery`: any numbers of requests and events, a threshold of at least one.
* `FanWorker`: any numbers of requests and mishaps, a failure limit between 3 and 10,
  the range of `fan_runtime_failure_limit`.
* `DebugLog`: any finite set of producers, any ring, route slots and bounds
  (`LogParameters`).

Each proof of a step has one case per action. A module's type invariant is not
inductive alone; what is, is named in the following.

`LinuxDaemonProofs.tla`:

* `TypeCorrect`. `TypeOK` is not inductive alone: a write to `sel = NoGpu` would
  leave `hw` without a value to disturb, and an automatic restore of a record that
  names no adapter would start one. `Targeted` adds that whatever may be replayed
  names an adapter and that a write under way is on the adapter of its operation.
* `GuardIsSound`, and from it `StartWritesAreBounded`, `WritesAreAuthorized` and
  `LockoutIsTheUsers`. The bound on `startWrites` says nothing about how the count
  is kept, so `GuardInv` relates the three counts: the guard in memory is at least
  as strict as the one on disk; each is locked or counts every write there was;
  and from the authorisation to the write (`Counting`, which spans a fan handback
  that may run in between) each counts one more. A crash anywhere leaves the
  count on disk, and a reboot resets it together with the writes. No assumption
  about faults is made: a store that fails after its rename only makes the disk
  stricter, or clears it together with `startWrites`.

`LinuxFanProofs.tla`:

* `ManualFanIsAlwaysRecorded`, assuming `~DirSyncFaults` (the `dirsync` run shows
  why). `FanInv` has these parts: the marker in memory and on disk agree from the
  handback decision on (`MarkerAgrees`); a handback is about inherited ownership
  (`HandbackIsInherited`), and nothing is driven before it is decided
  (`NothingBeforeHandback`); the intent the fan worker follows, and every write or
  rollback that may make a fan manual, is on the owned adapter (`IntentIsOwned`,
  `WriteIsOwned`); and where a handler is about to remove the marker, the fan is
  no longer manual (`FanIsBack`).

* `HandbackDeathsAreBounded`, assuming `~DirSyncFaults` too. A count of deaths says
  nothing about how it is bounded, so `DeathsCounted` relates it to the attempts on
  disk: the marker counts every death; at the write it counts one more, within the
  limit; and a handback that is decided but deferred until the backend is up
  (`HandbackDue`) still finds the marker it was decided on, below the limit.

`LinuxDaemonProofs.tla`, about records, memory and hardware:

* `ReplayIsTheCommittedIntent`, assuming `~DirSyncFaults` (the record of a commit that
  reports failure may otherwise be the new one). `ActiveIsCommitted` is the property
  without its restriction to a serving daemon: it holds in the middle of handlers.
* `UncertaintyIsOnDisk`, assuming `~StoreFaults` and `~ReadFaults`: an UNCERTAIN record
  that cannot be stored is not on disk, and a record that cannot be read makes the
  daemon uncertain while it stays. `UncertainIsStored` adds that a transaction whose
  commit can be stored is not rolled back after its write.
* `SettledIntentIsHeld`, for all faults. `IntentHeld` says where the intent is on the
  GPU although a handler is under way, that the handler is on the intent's adapter,
  and that the snapshot a rollback goes back to agrees with the intent.

`ServiceOperationsProofs.tla`:

* `OperationsAreSound` is the invariant, for any `QueryRefusals`. `NewestAreRecorded`:
  the ring holds the newest operations, each in the slot that its age and the write
  index give. Records and answers are sincere: a state that is kept or on its way,
  "committed" or "failed", is a verdict that was reached (`RecordsAreSincere`,
  `AnswersAreSincere`, `HandlerHasItsVerdict`). `SentOnce`: until the first repeated
  request an operation has one mutation under way, and none once it was refused.
  `ReportIsFinal`: where no Windows result query is refused, an operation reported as
  failed has that verdict or nothing left that could still run.
* From it `SuccessIsNeverInvented`, `OperationTypeCorrect` and `RepeatsNeverRun`, all
  for any refusals, and the refinement `ReportsAreVerdicts`, which assumes
  `"windows" \notin QueryRefusals` (the `queryrefusal` run shows why): the initial states are the
  contract's, and each step is a verdict, a report that the contract allows, or a
  stutter.

`GuiServiceProofs.tla`:

* `CoordinatorIsSound` is the invariant: one mutation at a time, in the worker, the
  window's queue or the dialog (`MutationHeld`); what it was stamped with is still
  current (`StampsAreCurrent`); a success in flight was committed
  (`SuccessIsCommitted`); envelopes reach the window in the order in which the service
  published them (`AnswersAreOrdered`); and what was retired is below them, or below
  the generation the window asks for (`RetiredIsBehind`).
* From it `CoordinatorTypeCorrect`, `WakesAreNotLost`, `RetiredStaysRetired`,
  `WaitingResetSurvives` and `DraftIsNotLost`. The order of envelopes is what a unit
  test of the model reducer cannot see: it needs both processes and their queues.

`DriverRecoveryProofs.tla`:

* Nearly every operation transforms disk, globals, reducer and helpers together. The
  invariant is therefore stated of such a world (`WorldOK`), lemmas say what each
  transformation does to it, and the actions combine them. Its core is a budget: the
  restores made, one that is pending, and the recoveries counted and not yet carried
  out never exceed what the ledger allows. `DownOK`, `WriteOK` and `PlaceOK` add what
  a process that is down, a write in flight and the worker's place mean.
* From it `RecoveryTypeCorrect`, `LockoutStopsAutomaticWrites`,
  `RestoresStayBelowThreshold`, `ReapplyingContinues` and `RestoresWriteWhatStands`.

`FanWorkerProofs.tla`:

* A request lives over many steps between which the worker moves. The invariant says,
  for every place a request may go on at (its aims), what it may rely on there
  (`JobInv`); that only the handle's thread lives (`ThreadInv`), because a handle is
  dropped only after a join; and what a reservation and a held fan mean meanwhile
  (`ReserveInv`, `HeldInv`).
* From it `FanTypeCorrect`, `OneWorker`, `ReservationFindsNoRuntime` and
  `HeldFanIsNeverForgotten`.

`DebugLogProofs.tla` and `ServiceThreadsProofs.tla`:

* The counts are sums over the lines in the threads' hands, so the invariant follows
  their number through every step (`CountsOK`), with the owner of the file lock
  (`LockOK`) and the single creator of the writer (`CreateOK`). `ShutdownOK` bounds, at
  every place of the shutdown's own drain, what is left by what came late.
* `LogTypeCorrect`, `CountsCoverTheGaps` and `ShutdownIsThorough` state it of the
  composition that TLC checks: the log there and the log of the proofs are two
  instances of one module, and the lemmas identify their steps.

Only model-checked: liveness, since fairness and ENABLED are outside the prover's
reach. These are `StrandedFanIsResolved`, `EveryOperationIsReported`,
`EveryWriteEnds`, `ServiceReturns`, `ExternalStopEnds`, `DriverFaultIsHandled`,
`RuntimeIsDriven`, `EveryRequestEnds`, `RingIsDrained` and `StopEnds`. The seven
disagreements above are counterexamples, so nothing is to be proved of them.

## Not modelled, and why

* Linux: the phases of the backend transaction and the clock ceiling (driver calls
  on data; `LinuxDaemon` has their three outcomes), the wake of the fan worker (one
  generation under one mutex), sockets, deadlines and the systemd watchdog.
* Windows: the curve and its correction passes, the Windows caller of the ownership
  handback policy, the pipe transport and its throttling (counters under one lock),
  update download and staging, the installer (a sequential program of file steps).
* User interfaces, auto profiles, configuration, access control, crash reports:
  `PROJECT.json` gives the reason for each.

## Plan for further proofs

Every safety property of the passing runs is proved. What would say more:

* that the two theorems of `LinuxFanProofs` need their assumption only for the marker:
  a directory fsync that fails on another file should not matter to them;
* properties for the hazards that have none yet (`PROJECT.json`, "hazards"), with
  their theorems in the proof module of the component;
* the steps on which the liveness arguments rest: that each handler of `LinuxDaemon`
  and each stop of `DriverRecovery` goes through its places in one direction.
