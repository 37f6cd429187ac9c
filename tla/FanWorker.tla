----------------------------- MODULE FanWorker -----------------------------
(***************************************************************************)
(* The fan runtime of the Windows service: the worker thread that drives   *)
(* the fan, the threads that start, stop, replace and join it, and the     *)
(* escalation that hands a failing fan back to the driver                  *)
(* (main_service_fan_worker.cpp, fan_worker_lifecycle_policy.h,            *)
(* main_fan_runtime.cpp, main_fan_runtime_failure.cpp).                    *)
(*                                                                         *)
(* Every change of the fan's state is made by a thread that owns the       *)
(* runtime mutex, except in service_disable_automatic_restore's path       *)
(* without the mutex, which runs only before the first worker exists and   *)
(* is left out.  The threads other than the worker (pipe clients,          *)
(* lifecycle worker, updater, the main thread's watchdog) have no state of *)
(* their own while they queue on the mutex, so they are one process here,  *)
(* the one that owns it; what it does between two joins is one step.       *)
(***************************************************************************)
EXTENDS Integers, FiniteSets

CONSTANTS
    FailureLimit,   \* fan_runtime_failure_limit(): 3 to 10 by the poll interval
    MaxRequests,    \* bound: Applies, Resets, installs, lockouts, telemetry with a runtime
    MaxMishaps      \* bound: waits of the worker and CreateThread calls that fail

ASSUME FanWorkerAssumption ==
    /\ FailureLimit \in 3..10
    /\ MaxRequests \in Nat
    /\ MaxMishaps \in Nat

Threads  == {1, 2}   \* thread objects; one is reused once it ended and its handle is closed
NoThread == 0
Free     == 0    \* nobody owns the mutex
Requester == 0 - 1  \* a thread other than the worker owns it

VARIABLES
    mutex,      \* the owner of the runtime mutex
    worker,     \* where each worker thread is; "ended" before its creation and after its exit
    handle,     \* g_serviceFanThread
    stopEvent,  \* g_serviceFanStopEvent is signaled
    runtime,    \* "off", "fixed", "curve": fanFixedRuntimeActive, fanCurveRuntimeActive
    mode,       \* activeFanMode
    failures,   \* fanRuntimeConsecutiveFailures
    applied,    \* fanRuntimeLastApplyTickMs # 0
    fan,        \* the hardware and what the process believes of it
    reserved,   \* g_serviceUpdateInstallReserved
    handedBack, \* g_updateInstallFanHandback.runtime
    job,        \* the request that owns the mutex
    told,       \* history: a path that may leave a manual fan behind has said so
    requests,   \* requests so far, against MaxRequests
    mishaps     \* failed waits and creations so far, against MaxMishaps

runtimeVars == <<runtime, mode, failures, applied>>
threadVars  == <<worker, handle, stopEvent>>
updateVars  == <<reserved, handedBack>>
vars == <<mutex, threadVars, runtimeVars, fan, updateVars, job, told, requests, mishaps>>

Runtimes == {"off", "fixed", "curve"}
Modes    == {"auto", "fixed", "curve"}

\* at: the next step; then, else: where a join goes on; start, after: the runtime to
\* start and where that goes on; before: the runtime and mode an Apply found
NoJob == [at |-> "none", then |-> "none", else |-> "none", op |-> "none",
          start |-> "off", after |-> "none", before |-> "off", beforeMode |-> "auto"]

---------------------------------------------------------------------------
(* The driver's fan calls.  hw is what the fan does: under the driver, held *)
(* at a duty of the runtime, or at 100%.  isAuto and counted are the cached *)
(* g_app.fanIsAuto and g_app.fanCount > 0; slipped records that a read left *)
(* the cache at auto over a fan that was not.  Each call is the set of its  *)
(* possible results.                                                        *)

Unread(f) == [ok |-> FALSE, fan |-> [f EXCEPT !.slipped = @ \/ (f.isAuto /\ f.hw # "auto")]]

\* A read that succeeds and takes the fan for automatic or not
Read(f, auto) ==
    [ok |-> TRUE, fan |-> [f EXCEPT !.isAuto = auto, !.counted = TRUE,
                                    !.slipped = f.hw # "auto" /\ (@ \/ auto)]]

\* The policy tells; unreadable, it counts as automatic, unless a target above zero
\* says manual, and that is read only over a runtime or a mode of its own
Beliefs(f) == {f.hw = "auto", TRUE} \cup (IF runtime # "off" \/ mode # "auto" THEN {FALSE} ELSE {})

\* nvml_read_fans: it succeeds, or NVML is not ready, or the count fails after the
\* cache was reset
ReadFans(f) ==
    {Read(f, auto) : auto \in Beliefs(f)}
    \cup {Unread(f), Unread([f EXCEPT !.isAuto = TRUE, !.counted = FALSE])}

\* nvml_set_fan_auto: writes the fans it has counted, then believes the readback
SetFanAuto(f) ==
    LET written == {f} \cup {[f EXCEPT !.hw = IF f.counted THEN "auto" ELSE @]} IN
    {[ok |-> FALSE, fan |-> f]}
    \cup {[ok |-> r.ok /\ r.fan.isAuto, fan |-> r.fan] : r \in UNION {ReadFans(w) : w \in written}}

\* rollback_changed_fans: it reaches the fans that the last readback counted
RolledBack(f) ==
    LET tried == {f} \cup {[f EXCEPT !.hw = IF f.counted THEN "auto" ELSE @]} IN
    {[ok |-> FALSE, fan |-> r.fan] : r \in UNION {ReadFans(w) : w \in tried}}

\* nvml_set_fan_manual: the policy, the duty, the readback and the rollback
SetFanManual(f, duty) ==
    LET refused  == {f} \cup {[f EXCEPT !.hw = IF @ = "auto" THEN "held" ELSE @]}
        written  == IF f.counted THEN {[f EXCEPT !.hw = duty], f} ELSE {f}
        readback == UNION {ReadFans(w) : w \in written} IN
    {[ok |-> FALSE, fan |-> f]}
    \cup (IF f.counted
          THEN {[ok |-> FALSE, fan |-> r.fan] : r \in UNION {ReadFans(w) : w \in refused}}
          ELSE {})
    \cup {r \in readback : r.ok /\ r.fan.hw = duty}
    \cup UNION {RolledBack(g) : g \in {r.fan : r \in readback}}

---------------------------------------------------------------------------
(* apply_fan_curve_tick: the results a tick of the runtime k can have        *)

Tick(verdict, S) == {[verdict |-> verdict, fan |-> r.fan] : r \in S}
ByOk(S) == {[verdict |-> IF r.ok THEN "success" ELSE "failure", fan |-> r.fan] : r \in S}

\* the duty is verified or written again; a timer decides when it has been applied
VerifyOrWrite(S) ==
    Tick("success", {r \in S : r.ok /\ r.fan.hw = "held" /\ ~r.fan.isAuto})
    \cup ByOk(UNION {SetFanManual(f, "held") : f \in {r.fan : r \in S}})

FixedTick(f) ==
    VerifyOrWrite(ReadFans(f))
    \cup (IF applied THEN Tick("failure", {r \in ReadFans(f) : ~r.ok}) ELSE {})

\* the temperature is unreadable; native zero RPM; hysteresis holds; the manual curve
CurveTick(f) ==
    {[verdict |-> "failure", fan |-> f]}
    \cup Tick("success", {r \in ReadFans(f) : r.ok /\ r.fan.isAuto})
    \cup ByOk(UNION {SetFanAuto(r.fan) : r \in {q \in ReadFans(f) : ~(q.ok /\ q.fan.isAuto)}})
    \cup (IF applied THEN {[verdict |-> "same", fan |-> f]} ELSE {})
    \cup VerifyOrWrite(ReadFans(f))
    \cup ByOk(SetFanManual(f, "held"))

Ticks(k, f) == IF k = "fixed" THEN FixedTick(f) ELSE CurveTick(f)

\* stop_fan_curve_runtime without its write and its stop of the thread
ClearRuntime ==
    /\ runtime' = "off" /\ failures' = 0 /\ applied' = FALSE
    /\ mode' = IF runtime # "off" /\ mode # "auto" THEN "auto" ELSE mode

\* escalate_fan_runtime_failure: driver auto, else 100%, and the report
Escalated(f) ==
    UNION {IF r.ok THEN {r} ELSE SetFanManual(r.fan, "max") : r \in SetFanAuto(f)}

\* Mutation: the limit itself still counts as a retry.
AtLimitPast(n) == n > FailureLimit

\* note_fan_runtime_failure_locked: the failure that reaches the limit escalates
AtLimit(n) == n >= FailureLimit

\* One tick with mark_fan_runtime_success or report_fan_runtime_failure;
\* Stopped is what the stop of the thread means to the caller
RunTick(Stopped) ==
    \E t \in Ticks(runtime, fan) :
        \/ /\ t.verdict = "success"
           /\ fan' = t.fan /\ failures' = 0 /\ applied' = TRUE /\ mode' = runtime
           /\ told' = FALSE
           /\ UNCHANGED <<runtime, stopEvent>>
        \/ /\ t.verdict = "same"
           /\ fan' = t.fan
           /\ UNCHANGED <<runtimeVars, told, stopEvent>>
        \/ /\ t.verdict = "failure" /\ ~AtLimit(failures + 1)
           /\ fan' = t.fan /\ failures' = failures + 1 /\ applied' = FALSE
           /\ UNCHANGED <<runtime, mode, told, stopEvent>>
        \/ /\ t.verdict = "failure" /\ AtLimit(failures + 1)
           /\ \E e \in Escalated(t.fan) : fan' = e.fan
           /\ ClearRuntime
           /\ told' = TRUE
           /\ Stopped

---------------------------------------------------------------------------
(* service_fan_runtime_thread_proc                                           *)

\* The top of the loop reads the flags without the mutex: with no runtime the
\* wait has no timeout
WorkerTop(t) ==
    /\ worker[t] = "top"
    /\ worker' = [worker EXCEPT ![t] = IF runtime = "off" THEN "sleep" ELSE "wait"]
    /\ UNCHANGED <<mutex, handle, stopEvent, runtimeVars, fan, updateVars, job, told,
                   requests, mishaps>>

\* Mutation: the lock is waited for without the stop event.
WorkerSeesStopUnqueued(t) ==
    /\ worker[t] \in {"sleep", "wait"} /\ stopEvent
    /\ worker' = [worker EXCEPT ![t] = "ended"]
    /\ UNCHANGED <<mutex, handle, stopEvent, runtimeVars, fan, updateVars, job, told,
                   requests, mishaps>>

\* WaitForMultipleObjects on the stop event, then on {stop event, mutex}: the
\* stop comes first
WorkerSeesStop(t) ==
    /\ worker[t] \in {"sleep", "wait", "queued"} /\ stopEvent
    /\ worker' = [worker EXCEPT ![t] = "ended"]
    /\ UNCHANGED <<mutex, handle, stopEvent, runtimeVars, fan, updateVars, job, told,
                   requests, mishaps>>

WorkerTimeout(t) ==
    /\ worker[t] = "wait" /\ ~stopEvent
    /\ worker' = [worker EXCEPT ![t] = "queued"]
    /\ UNCHANGED <<mutex, handle, stopEvent, runtimeVars, fan, updateVars, job, told,
                   requests, mishaps>>

\* WAIT_FAILED ends the thread
WorkerWaitFails(t) ==
    /\ worker[t] \in {"sleep", "wait"} /\ mishaps < MaxMishaps
    /\ worker' = [worker EXCEPT ![t] = "ended"]
    /\ mishaps' = mishaps + 1
    /\ UNCHANGED <<mutex, handle, stopEvent, runtimeVars, fan, updateVars, job, told, requests>>

\* lock_service_runtime_unless_signaled
WorkerLocks(t) ==
    /\ worker[t] = "queued" /\ ~stopEvent /\ mutex = Free
    /\ mutex' = t
    /\ worker' = [worker EXCEPT ![t] = "owns"]
    /\ UNCHANGED <<handle, stopEvent, runtimeVars, fan, updateVars, job, told, requests, mishaps>>

\* service_runtime_pulse and the release of the mutex.  The pulse is skipped
\* during an install, without a runtime, while the device is gone and while a
\* recovery owns the driver; a stop it asks for itself is only a signal.
WorkerPulse(t) ==
    /\ worker[t] = "owns"
    /\ mutex' = Free
    /\ worker' = [worker EXCEPT ![t] = "top"]
    /\ \/ UNCHANGED <<runtimeVars, fan, told, stopEvent>>
       \/ ~reserved /\ runtime # "off" /\ RunTick(stopEvent' = TRUE)
    /\ UNCHANGED <<handle, updateVars, job, requests, mishaps>>

Worker(t) ==
    \/ WorkerTop(t) \/ WorkerSeesStop(t) \/ WorkerTimeout(t)
    \/ WorkerLocks(t) \/ WorkerPulse(t)

---------------------------------------------------------------------------
(* Stopping, joining and creating the thread, by the owner of the mutex      *)

Goto(pc) == job' = [job EXCEPT !.at = pc]
Alive(t) == worker[t] # "ended"

\* stop_service_fan_runtime_thread by another thread: signal, then join with the
\* mutex kept
StopThen(pc) ==
    IF handle = NoThread
    THEN Goto(pc) /\ UNCHANGED stopEvent
    ELSE stopEvent' = TRUE /\ job' = [job EXCEPT !.at = "join", !.then = pc]

\* stop_fan_curve_runtime: the thread is stopped when a runtime was active
StopRuntimeThen(pc) ==
    /\ ClearRuntime
    /\ IF runtime # "off" THEN StopThen(pc) ELSE Goto(pc) /\ UNCHANGED stopEvent

Join ==
    /\ job.at = "join"
    /\ ~Alive(handle)
    /\ handle' = NoThread
    /\ Goto(job.then)
    /\ UNCHANGED <<mutex, worker, stopEvent, runtimeVars, fan, updateVars, told, requests, mishaps>>

\* Mutation: a late worker is forgotten.
JoinTimesOutForgets ==
    /\ job.at \in {"join", "retire"}
    /\ Alive(handle)
    /\ handle' = NoThread
    /\ Goto(IF job.at = "join" THEN job.then ELSE job.else)
    /\ UNCHANGED <<mutex, worker, stopEvent, runtimeVars, fan, updateVars, told, requests, mishaps>>

\* A join that lasts five seconds is given up; the handle is kept
JoinTimesOut ==
    /\ job.at \in {"join", "retire"}
    /\ Alive(handle)
    /\ Goto(IF job.at = "join" THEN job.then ELSE job.else)
    /\ UNCHANGED <<mutex, threadVars, runtimeVars, fan, updateVars, told, requests, mishaps>>

\* The stop event is reset, the thread created
Create(pc) ==
    /\ stopEvent' = FALSE
    /\ \E t \in {u \in Threads : ~Alive(u)} :
         /\ \A u \in {v \in Threads : ~Alive(v)} : t <= u
         /\ handle' = t
         /\ worker' = [worker EXCEPT ![t] = "top"]
    /\ Goto(pc)
    /\ UNCHANGED mishaps

CreateFails(pc) ==
    /\ mishaps < MaxMishaps
    /\ mishaps' = mishaps + 1
    /\ stopEvent' = FALSE /\ handle' = NoThread
    /\ Goto(pc)
    /\ UNCHANGED worker

\* Mutation: a handle is taken for a live worker.
EnsureThenByHandle(yes, no) ==
    IF handle # NoThread
    THEN /\ IF stopEvent
            THEN job' = [job EXCEPT !.at = "retire", !.then = yes, !.else = no]
            ELSE Goto(yes)
         /\ UNCHANGED <<threadVars, mishaps>>
    ELSE Create(yes) \/ CreateFails(no)

\* fan_worker_ensure_plan: reap, join a retiring worker, keep a live one
EnsureThen(yes, no) ==
    IF handle # NoThread /\ Alive(handle)
    THEN /\ IF stopEvent
            THEN job' = [job EXCEPT !.at = "retire", !.then = yes, !.else = no]
            ELSE Goto(yes)
         /\ UNCHANGED <<threadVars, mishaps>>
    ELSE Create(yes) \/ CreateFails(no)

JoinRetiring ==
    /\ job.at = "retire"
    /\ ~Alive(handle)
    /\ Create(job.then) \/ CreateFails(job.else)
    /\ UNCHANGED <<mutex, runtimeVars, fan, updateVars, told, requests>>

---------------------------------------------------------------------------
(* start_fixed_fan_runtime, start_fan_curve_runtime                          *)

StartThen(k, pc) == job' = [job EXCEPT !.at = "start", !.start = k, !.after = pc]

\* The flags first, then the thread; nothing at all when manual control is refused
Start ==
    /\ job.at = "start"
    /\ \/ Goto(job.after) /\ UNCHANGED <<threadVars, runtimeVars, mishaps>>
       \/ /\ runtime' = job.start /\ mode' = job.start
          /\ failures' = 0 /\ applied' = FALSE
          /\ EnsureThen("tick", "startFailed")
    /\ UNCHANGED <<mutex, fan, updateVars, told, requests>>

StartFailed ==
    /\ job.at = "startFailed"
    /\ StopRuntimeThen(job.after)
    /\ UNCHANGED <<mutex, worker, handle, fan, updateVars, told, requests, mishaps>>

\* The count has just been cleared: this tick cannot escalate
FirstTick ==
    /\ job.at = "tick"
    /\ RunTick(FALSE)
    /\ Goto(job.after)
    /\ UNCHANGED <<mutex, worker, handle, updateVars, requests, mishaps>>

---------------------------------------------------------------------------
(* Requests: each owns the runtime mutex from its first step to its last     *)

Request(op, pc, k) ==
    /\ mutex = Free /\ requests < MaxRequests
    /\ mutex' = Requester
    /\ requests' = requests + 1
    /\ job' = [NoJob EXCEPT !.op = op, !.at = pc, !.start = k, !.after = "verify",
                            !.before = runtime, !.beforeMode = mode]
    /\ UNCHANGED <<threadVars, runtimeVars, fan, updateVars, told, mishaps>>

End ==
    /\ job.at = "end"
    /\ mutex' = Free
    /\ job' = NoJob
    /\ UNCHANGED <<threadVars, runtimeVars, fan, updateVars, told, requests, mishaps>>

\* Mutation: an install keeps nobody out.
AdmittedAlways == TRUE

\* Apply and Reset answer an error while an install is reserved
Admitted == ~reserved

Apply(k)     == Admitted /\ Request("apply", "fan", k)
Reset        == Admitted /\ Request("reset", "quit", "off")
Install      == Admitted /\ Request("install", "install", "off")
InstallFails == reserved /\ Request("release", "release", "off")
Lockout      == Request("lockout", "disable", "off")

\* fan_setting_matches_current, from the cache
MatchesCurrent(k) ==
    /\ mode = k
    /\ CASE k = "auto"  -> fan.isAuto
         [] k = "curve" -> runtime = "curve"
         [] k = "fixed" -> ~fan.isAuto /\ fan.counted /\ fan.hw = "held"

\* apply_fan_settings: nothing to do, or the auto write, or the stop before a start;
\* another duty or another curve of the same mode is a change too
ApplyFan ==
    /\ job.at = "fan"
    /\ \/ /\ MatchesCurrent(job.start)
          /\ Goto("core")
          /\ UNCHANGED <<fan, runtimeVars, stopEvent>>
       \/ /\ job.start = "auto" /\ ~MatchesCurrent("auto")
          /\ \E r \in SetFanAuto(fan) :
               /\ fan' = r.fan
               /\ IF r.ok THEN StopRuntimeThen("verify")
                  ELSE Goto("fanFailed") /\ UNCHANGED <<runtimeVars, stopEvent>>
       \/ \* the request does not fit the fan
          /\ job.start # "auto"
          /\ Goto("fanFailed")
          /\ UNCHANGED <<fan, runtimeVars, stopEvent>>
       \/ /\ job.start # "auto"
          /\ StopRuntimeThen("start")
          /\ UNCHANGED fan
    /\ UNCHANGED <<mutex, worker, handle, updateVars, told, requests, mishaps>>

\* ... the runtime must run and its first tick must have applied
ApplyVerify ==
    /\ job.at = "verify"
    /\ IF job.start = "auto" \/ (runtime = job.start /\ applied)
       THEN mode' = job.start /\ Goto("core") /\ told' = FALSE
       ELSE Goto("fanFailed") /\ UNCHANGED <<mode, told>>
    /\ UNCHANGED <<mutex, threadVars, runtime, failures, applied, fan, updateVars,
                   requests, mishaps>>

\* ... or the previous runtime is started again, and the Apply is recovered
ApplyFanFailed ==
    /\ job.at = "fanFailed"
    /\ mode' = job.beforeMode
    /\ IF job.before = "off" THEN Goto("quit") ELSE StartThen(job.before, "quit")
    /\ UNCHANGED <<mutex, threadVars, runtime, failures, applied, fan, updateVars, told,
                   requests, mishaps>>

\* The other controls of the Apply succeeded and the state is read again, or one failed
ApplyCore ==
    /\ job.at = "core"
    /\ \/ Goto("tail") /\ \E r \in ReadFans(fan) : fan' = r.fan
       \/ Goto("quit") /\ UNCHANGED fan
    /\ UNCHANGED <<mutex, threadVars, runtimeVars, updateVars, told, requests, mishaps>>

\* service_apply_desired_settings ends with a worker for an active runtime and
\* with none otherwise
ApplyTail ==
    /\ job.at = "tail"
    /\ IF runtime # "off"
       THEN EnsureThen("end", "end")
       ELSE StopThen("end") /\ UNCHANGED <<worker, handle, mishaps>>
    /\ UNCHANGED <<mutex, runtimeVars, fan, updateVars, told, requests>>

---------------------------------------------------------------------------
(* service_reset_all and rollback_to_safe_defaults return the fan alike      *)

Quit ==
    /\ job.at = "quit"
    /\ StopRuntimeThen("quitThread")
    /\ UNCHANGED <<mutex, worker, handle, fan, updateVars, told, requests, mishaps>>

QuitThread ==
    /\ job.at = "quitThread"
    /\ StopThen("giveBack")
    /\ UNCHANGED <<mutex, worker, handle, runtimeVars, fan, updateVars, told, requests, mishaps>>

\* Mutation: the runtime, which has just been stopped, decides whether the fan is written.
NeedsGiveBackByRuntime == runtime # "off"

\* What the cache and the mode say decides whether the fan is written
NeedsGiveBack == ~fan.isAuto \/ mode # "auto"

GiveBack ==
    /\ job.at = "giveBack"
    /\ \/ /\ NeedsGiveBack
          /\ \E r \in SetFanAuto(fan) :
               /\ fan' = r.fan
               /\ mode' = IF r.ok THEN "auto" ELSE mode
               /\ Goto(IF r.ok /\ job.op = "reset" THEN "refresh" ELSE "refreshFailed")
       \/ /\ ~NeedsGiveBack
          /\ Goto(IF job.op = "reset" THEN "refresh" ELSE "refreshFailed")
          /\ UNCHANGED <<fan, mode>>
    /\ UNCHANGED <<mutex, threadVars, runtime, failures, applied, updateVars, told,
                   requests, mishaps>>

\* The state is read again; what the fans' part of it says is not looked at.  A Reset
\* with a failed control, or whose refresh failed as a whole, is a failed Reset.
Refresh ==
    /\ job.at \in {"refresh", "refreshFailed"}
    /\ \E r \in ReadFans(fan), others \in BOOLEAN :
         /\ fan' = r.fan
         /\ IF job.at = "refresh" /\ others THEN Goto("end") /\ told' = FALSE
            ELSE Goto("disable") /\ UNCHANGED told
    /\ UNCHANGED <<mutex, threadVars, runtimeVars, updateVars, requests, mishaps>>

\* service_disable_automatic_restore by an owner of the mutex: the flags and the
\* signal, no join and no hardware
Disable ==
    /\ job.at = "disable"
    /\ runtime' = "off"
    /\ stopEvent' = TRUE
    /\ told' = TRUE
    /\ Goto("end")
    /\ UNCHANGED <<mutex, worker, handle, mode, failures, applied, fan, updateVars,
                   requests, mishaps>>

---------------------------------------------------------------------------
(* The install reservation: the fan goes to the driver before pulses stop    *)

\* service_update_hand_fans_to_driver_for_install
InstallReserve ==
    /\ job.at = "install"
    /\ reserved' = TRUE /\ handedBack' = runtime
    /\ IF runtime = "off"
       THEN Goto("end") /\ UNCHANGED <<fan, runtimeVars, stopEvent>>
       ELSE /\ \E r \in (IF fan.isAuto THEN {[ok |-> TRUE, fan |-> fan]} ELSE SetFanAuto(fan)) :
                fan' = r.fan
            /\ StopRuntimeThen("installed")
    /\ UNCHANGED <<mutex, worker, handle, told, requests, mishaps>>

InstallReserved ==
    /\ job.at = "installed"
    /\ \E r \in ReadFans(fan) : fan' = r.fan /\ told' = (told \/ ~r.fan.isAuto)
    /\ Goto("end")
    /\ UNCHANGED <<mutex, threadVars, runtimeVars, updateVars, requests, mishaps>>

\* service_update_release_install_reservation, update_install_fan_restore_plan
InstallRelease ==
    /\ job.at = "release"
    /\ reserved' = FALSE /\ handedBack' = "off"
    /\ IF handedBack # "off" /\ runtime = "off" THEN StartThen(handedBack, "end") ELSE Goto("end")
    /\ UNCHANGED <<mutex, threadVars, runtimeVars, fan, told, requests, mishaps>>

---------------------------------------------------------------------------
(* The main thread's watchdog and the telemetry request                      *)

\* try_lock_service_runtime(0): a busy mutex defers the look to the next tick
Watchdog ==
    /\ mutex = Free /\ runtime # "off"
    /\ ~(handle # NoThread /\ Alive(handle) /\ ~stopEvent)
    /\ mutex' = Requester
    /\ job' = [NoJob EXCEPT !.op = "watch", !.at = "tail"]
    /\ UNCHANGED <<threadVars, runtimeVars, fan, updateVars, told, requests, mishaps>>

\* service_refresh_telemetry_for_request: without a runtime the fans are read
IdleTelemetry ==
    /\ mutex = Free /\ runtime = "off"
    /\ \E r \in ReadFans(fan) : fan' = r.fan
    /\ UNCHANGED <<mutex, threadVars, runtimeVars, updateVars, job, told, requests, mishaps>>

\* ... with one, a dead or missing worker is replaced
Telemetry == runtime # "off" /\ Request("telemetry", "poll", "off")

TelemetryPoll ==
    /\ job.at = "poll"
    /\ IF handle # NoThread /\ Alive(handle)
       THEN Goto("polled") /\ UNCHANGED <<threadVars, mishaps>>
       ELSE EnsureThen("polled", "polled")
    /\ UNCHANGED <<mutex, runtimeVars, fan, updateVars, told, requests>>

\* ... and a stale cache is pulsed here when there is no worker, or was no pulse yet
TelemetryPulse ==
    /\ job.at = "polled"
    /\ \/ Goto("end") /\ UNCHANGED <<runtimeVars, fan, told, stopEvent>>
       \/ /\ RunTick(UNCHANGED stopEvent)
          /\ Goto(IF runtime' = "off" THEN "tail" ELSE "end")   \* the escalation joins the worker
    /\ UNCHANGED <<mutex, worker, handle, updateVars, requests, mishaps>>

---------------------------------------------------------------------------
Init ==
    /\ mutex = Free
    /\ worker = [t \in Threads |-> "ended"]
    /\ handle = NoThread /\ stopEvent = FALSE
    /\ runtime = "off" /\ mode = "auto" /\ failures = 0 /\ applied = FALSE
    /\ fan = [hw |-> "auto", isAuto |-> TRUE, counted |-> TRUE, slipped |-> FALSE]
    /\ reserved = FALSE /\ handedBack = "off"
    /\ job = NoJob
    /\ told = FALSE /\ requests = 0 /\ mishaps = 0

JobStep ==
    \/ Join \/ JoinRetiring \/ End
    \/ Start \/ StartFailed \/ FirstTick
    \/ ApplyFan \/ ApplyVerify \/ ApplyFanFailed \/ ApplyCore \/ ApplyTail
    \/ Quit \/ QuitThread \/ GiveBack \/ Refresh \/ Disable
    \/ InstallReserve \/ InstallReserved \/ InstallRelease
    \/ TelemetryPoll \/ TelemetryPulse

Next ==
    \/ \E t \in Threads : Worker(t) \/ WorkerWaitFails(t)
    \/ \E k \in Modes : Apply(k)
    \/ Reset \/ Install \/ InstallFails \/ Lockout
    \/ JobStep \/ JoinTimesOut
    \/ Watchdog \/ Telemetry \/ IdleTelemetry

\* The threads run; the watchdog's tick comes back every few seconds.  Nothing is
\* assumed of the join's timeout, of requests or of telemetry.
Fairness ==
    /\ \A t \in Threads : WF_vars(Worker(t))
    /\ WF_vars(JobStep)
    /\ WF_vars(Watchdog)

Spec == Init /\ [][Next]_vars /\ Fairness

---------------------------------------------------------------------------
(* Properties                                                                *)

\* The state is well formed, and the failure counter never stays at the limit:
\* the failure that reaches it has escalated and cleared it
FanTypeOK ==
    /\ mutex \in {Free, Requester} \cup Threads
    /\ worker \in [Threads -> {"ended", "top", "sleep", "wait", "queued", "owns"}]
    /\ handle \in {NoThread} \cup Threads
    /\ stopEvent \in BOOLEAN /\ applied \in BOOLEAN
    /\ runtime \in Runtimes /\ mode \in Modes
    /\ failures \in 0..(FailureLimit - 1)
    /\ fan \in [hw : {"auto", "held", "max"}, isAuto : BOOLEAN, counted : BOOLEAN,
                slipped : BOOLEAN]
    /\ reserved \in BOOLEAN /\ handedBack \in Runtimes
    /\ told \in BOOLEAN
    /\ requests \in 0..MaxRequests /\ mishaps \in 0..MaxMishaps

\* Two workers never live at once: a retiring worker, and one whose join timed out,
\* is joined before the handle is dropped and its successor created
AtMostOneWorker == Cardinality({t \in Threads : Alive(t)}) <= 1

\* Between requests, a fan that the driver does not control has a runtime that drives
\* it, or the path that left it said so (escalation, failed Reset, rollback, lockout,
\* install).  What was said stands through an Apply that finds its duty held already
\* and starts nothing.  Excluded is the fan that a read, failed or blind to the policy,
\* left cached as automatic.
HeldFanIsAccountedFor ==
    mutex = Free /\ fan.hw # "auto" /\ ~fan.slipped => runtime # "off" \/ told

\* Once an install is reserved, no request starts a runtime before its release: the
\* worker's pulses are suspended and nothing would drive the fan
InstallFindsNoRuntime == reserved /\ mutex = Free => runtime = "off"

\* An active runtime is pulsed again and again until it is stopped, although its
\* worker may die, may have been told to stop, or may be late for its join
RuntimeIsDriven == (runtime # "off") ~> (runtime = "off" \/ \E t \in Threads : worker[t] = "owns")

\* A request that owns the mutex gives it back, also when no join ever times out: the
\* worker it joins never waits for that mutex without listening to the stop event
EveryRequestEnds == (mutex = Requester) ~> (mutex # Requester)
=============================================================================
