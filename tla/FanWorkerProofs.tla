-------------------------- MODULE FanWorkerProofs --------------------------
(***************************************************************************)
(* Theorems about FanWorker for every failure limit, every number of       *)
(* requests and every number of failing waits and creations: the type      *)
(* invariant, that two fan workers never live at once, that an install     *)
(* reservation finds no runtime, and that a fan the driver does not        *)
(* control is accounted for whenever the mutex is free.                    *)
(*                                                                         *)
(* A request lives over many steps, and the worker moves between them.  So *)
(* what is inductive says, for every place the request may go on at (its   *)
(* aims), what it may rely on there.                                       *)
(***************************************************************************)
EXTENDS FanWorker, FiniteSetTheorems, TLAPS

-----------------------------------------------------------------------------
(* The fan and the driver's calls on it.                                   *)

Fans == [hw : {"auto", "held", "max"}, isAuto : BOOLEAN, counted : BOOLEAN,
         slipped : BOOLEAN]

\* A cache that says auto over a fan that is not is always recorded as slipped
HonestFans == {f \in Fans : f.isAuto /\ f.hw # "auto" => f.slipped}

\* The driver has the fan, or a failed read made the process believe so
Released(f) == f.hw = "auto" \/ f.slipped

Results == [ok : BOOLEAN, fan : HonestFans]

\* nvml_read_fans, whatever it finds, makes the cache honest, leaves the fan alone
\* and does not lose a released one.
LEMMA ReadFansResult ==
    ASSUME NEW f \in Fans, NEW r \in ReadFans(f)
    PROVE  /\ r \in Results
           /\ r.fan.hw = f.hw
           /\ Released(f) => Released(r.fan)
<1>1. CASE r \in {Read(f, auto) : auto \in Beliefs(f)}
  <2>1. PICK auto \in BOOLEAN : r = Read(f, auto) /\ auto \in Beliefs(f)
    BY <1>1 DEF Beliefs
  <2> QED
    BY <2>1 DEF Read, Fans, HonestFans, Results, Released
<1>2. CASE r = Unread(f)
  BY <1>2 DEF Unread, Fans, HonestFans, Results, Released
<1>3. CASE r = Unread([f EXCEPT !.isAuto = TRUE, !.counted = FALSE])
  BY <1>3 DEF Unread, Fans, HonestFans, Results, Released
<1> QED
  BY <1>1, <1>2, <1>3 DEF ReadFans

\* nvml_set_fan_auto succeeds only when the readback finds the fan with the driver.
LEMMA SetFanAutoResult ==
    ASSUME NEW f \in HonestFans, NEW r \in SetFanAuto(f)
    PROVE  r \in Results /\ (r.ok => Released(r.fan))
<1>1. CASE r = [ok |-> FALSE, fan |-> f]
  BY <1>1 DEF Results
<1>2. ASSUME NEW w \in {f} \cup {[f EXCEPT !.hw = IF f.counted THEN "auto" ELSE @]},
             NEW q \in ReadFans(w),
             r = [ok |-> q.ok /\ q.fan.isAuto, fan |-> q.fan]
      PROVE  r \in Results /\ (r.ok => Released(r.fan))
  <2>1. w \in Fans
    BY DEF HonestFans, Fans
  <2>2. q \in Results
    BY <2>1, ReadFansResult
  <2> QED
    BY <1>2, <2>2 DEF Results, Released, HonestFans, Fans
<1> QED
  BY <1>1, <1>2 DEF SetFanAuto

\* rollback_changed_fans leaves an honest cache and reports the failure it rolls back.
LEMMA RolledBackResult ==
    ASSUME NEW f \in Fans, NEW r \in RolledBack(f)
    PROVE  r \in Results
<1>1. PICK w \in {f} \cup {[f EXCEPT !.hw = IF f.counted THEN "auto" ELSE @]} :
        \E q \in ReadFans(w) : r = [ok |-> FALSE, fan |-> q.fan]
  BY DEF RolledBack
<1>2. w \in Fans
  BY DEF Fans
<1> QED
  BY <1>1, <1>2, ReadFansResult DEF Results

\* nvml_set_fan_manual leaves an honest cache on each of its ways out.
LEMMA SetFanManualResult ==
    ASSUME NEW f \in HonestFans, NEW duty \in {"held", "max"}, NEW r \in SetFanManual(f, duty)
    PROVE  r \in Results
<1> DEFINE refused  == {f} \cup {[f EXCEPT !.hw = IF @ = "auto" THEN "held" ELSE @]}
           written  == IF f.counted THEN {[f EXCEPT !.hw = duty], f} ELSE {f}
           readback == UNION {ReadFans(w) : w \in written}
<1>1. refused \subseteq Fans /\ written \subseteq Fans
  BY DEF HonestFans, Fans
<1>2. readback \subseteq Results
  BY <1>1, ReadFansResult
<1>3. CASE r = [ok |-> FALSE, fan |-> f]
  BY <1>3 DEF Results
<1>4. CASE r \in {[ok |-> FALSE, fan |-> q.fan] : q \in UNION {ReadFans(w) : w \in refused}}
  <2>1. PICK w \in refused : \E q \in ReadFans(w) : r = [ok |-> FALSE, fan |-> q.fan]
    BY <1>4
  <2> QED
    BY <2>1, <1>1, ReadFansResult DEF Results
<1>5. CASE r \in readback
  BY <1>5, <1>2
<1>6. CASE r \in UNION {RolledBack(g) : g \in {q.fan : q \in readback}}
  <2>1. PICK q \in readback : r \in RolledBack(q.fan)
    BY <1>6
  <2>2. q.fan \in Fans
    BY <1>2 DEF Results, HonestFans
  <2> QED
    BY <2>1, <2>2, RolledBackResult
<1> QED
  BY <1>3, <1>4, <1>5, <1>6 DEF SetFanManual

\* escalate_fan_runtime_failure, which tries both calls, leaves an honest cache.
LEMMA EscalatedResult ==
    ASSUME NEW f \in HonestFans, NEW r \in Escalated(f)
    PROVE  r.fan \in HonestFans
<1>1. PICK q \in SetFanAuto(f) : r \in (IF q.ok THEN {q} ELSE SetFanManual(q.fan, "max"))
  BY DEF Escalated
<1>2. q \in Results
  BY SetFanAutoResult
<1> QED
  BY <1>1, <1>2, SetFanManualResult DEF Results

TickResults == [verdict : {"success", "failure", "same"}, fan : HonestFans]

\* A call's results, sorted into ticks by their outcome, stay well formed.
LEMMA TickOfResults ==
    ASSUME NEW S \in SUBSET Results
    PROVE  ByOk(S) \subseteq TickResults
           /\ \A v \in {"success", "failure"} : Tick(v, S) \subseteq TickResults
BY DEF ByOk, Tick, Results, TickResults

\* The duty's verification or rewrite ends with an honest cache.
LEMMA VerifyOrWriteResult ==
    ASSUME NEW S \in SUBSET Results
    PROVE  VerifyOrWrite(S) \subseteq TickResults
<1>1. ByOk(UNION {SetFanManual(f, "held") : f \in {r.fan : r \in S}}) \subseteq TickResults
  <2> DEFINE W == UNION {SetFanManual(f, "held") : f \in {r.fan : r \in S}}
  <2>1. {r.fan : r \in S} \subseteq HonestFans
    BY DEF Results
  <2>2. W \in SUBSET Results
    BY <2>1, SetFanManualResult
  <2> QED
    BY <2>2, TickOfResults
<1>2. Tick("success", {r \in S : r.ok /\ r.fan.hw = "held" /\ ~r.fan.isAuto}) \subseteq TickResults
  <2> DEFINE T == {r \in S : r.ok /\ r.fan.hw = "held" /\ ~r.fan.isAuto}
  <2>1. T \in SUBSET Results
    OBVIOUS
  <2> QED
    BY <2>1, TickOfResults
<1> QED
  BY <1>1, <1>2 DEF VerifyOrWrite

\* apply_fan_curve_tick, fixed or curve, ends with an honest cache.
LEMMA TicksResult ==
    ASSUME NEW f \in HonestFans, NEW k, NEW t \in Ticks(k, f)
    PROVE  t \in TickResults
<1>1. f \in Fans
  BY DEF HonestFans
<1>2. ReadFans(f) \in SUBSET Results
  BY <1>1, ReadFansResult
<1>3. VerifyOrWrite(ReadFans(f)) \subseteq TickResults
  BY <1>2, VerifyOrWriteResult
<1>4. FixedTick(f) \subseteq TickResults
  <2> DEFINE T == {r \in ReadFans(f) : ~r.ok}
  <2>1. T \in SUBSET Results
    BY <1>2
  <2>2. Tick("failure", T) \subseteq TickResults
    BY <2>1, TickOfResults
  <2> QED
    BY <1>3, <2>2 DEF FixedTick
<1>5. CurveTick(f) \subseteq TickResults
  <2> DEFINE T == {r \in ReadFans(f) : r.ok /\ r.fan.isAuto}
             U == {q \in ReadFans(f) : ~(q.ok /\ q.fan.isAuto)}
  <2>1. T \in SUBSET Results /\ U \in SUBSET Results
    BY <1>2
  <2>2. Tick("success", T) \subseteq TickResults
    BY <2>1, TickOfResults
  <2>3. ByOk(UNION {SetFanAuto(r.fan) : r \in U}) \subseteq TickResults
    <3> DEFINE W == UNION {SetFanAuto(r.fan) : r \in U}
    <3>1. \A r \in U : r.fan \in HonestFans
      BY <2>1 DEF Results
    <3>2. W \in SUBSET Results
      BY <3>1, SetFanAutoResult
    <3> QED
      BY <3>2, TickOfResults
  <2>4. ByOk(SetFanManual(f, "held")) \subseteq TickResults
    <3>1. SetFanManual(f, "held") \in SUBSET Results
      BY SetFanManualResult
    <3> QED
      BY <3>1, TickOfResults
  <2>5. \A v \in {"failure", "same"} : [verdict |-> v, fan |-> f] \in TickResults
    BY DEF TickResults
  <2> QED
    BY <1>3, <2>2, <2>3, <2>4, <2>5 DEF CurveTick
<1> QED
  BY <1>4, <1>5 DEF Ticks

-----------------------------------------------------------------------------
(* The inductive invariant.                                                *)

\* Where a request may be, apart from its waits for a worker to end
Places == {"start", "startFailed", "tick", "fan", "verify", "fanFailed", "core", "tail",
           "quit", "quitThread", "giveBack", "refresh", "refreshFailed", "disable",
           "install", "installed", "release", "poll", "polled", "end"}

Driven == {"fixed", "curve"}

Jobs == [at : Places \cup {"none", "join", "retire"},
         then : Places \cup {"none"}, else : Places \cup {"none"},
         op : {"none", "apply", "reset", "install", "release", "lockout", "telemetry", "watch"},
         start : Runtimes \cup Modes, after : {"none", "verify", "quit", "end"},
         before : Runtimes, beforeMode : Modes]

\* Where the request goes on, once the worker it may be waiting for has ended or not
Aims == IF job.at = "join" THEN {job.then}
        ELSE IF job.at = "retire" THEN {job.then, job.else}
        ELSE {job.at}

\* Only the handle's thread lives, the mutex has the owner it says, and a join has a
\* thread to wait for
ThreadInv ==
    /\ \A t \in Threads : Alive(t) => t = handle
    /\ \A t \in Threads : worker[t] = "owns" <=> mutex = t
    /\ job.at \in {"join", "retire"} => handle # NoThread

\* A request exists while it owns the mutex; what it carries fits where it goes on
JobInv ==
    /\ job \in Jobs
    /\ IF mutex = Requester THEN Aims \subseteq Places ELSE job.at = "none"
    /\ Aims \cap {"start", "startFailed", "tick"} # {}
         => job.start \in Driven /\ job.after # "none"
    /\ "fan" \in Aims => job.start \in Modes /\ job.after = "verify"
    /\ "verify" \in Aims => job.start \in Modes
    /\ "tick" \in Aims => runtime = job.start
    /\ Aims \cap {"poll", "polled"} # {} => runtime # "off"

\* Under a reservation there is no runtime and no request that could start one
ReserveInv ==
    reserved => runtime = "off"
                /\ Aims \subseteq {"none", "end", "installed", "release", "disable"}

Accounted == Released(fan) \/ runtime # "off" \/ told

\* The fan is accounted for wherever a request has not yet touched it or is done with
\* it; where the runtime is off and nothing has been said yet, the fan was released
HeldInv ==
    /\ fan \in HonestFans
    /\ Aims \cap {"none", "fan", "core", "tail", "install", "release", "poll", "polled", "end"} # {}
         => Accounted
    /\ "refresh" \in Aims => Released(fan)
    /\ "verify" \in Aims /\ job.start = "auto" => Released(fan)
    /\ Aims \cap {"start", "startFailed"} # {} /\ job.after = "end" => Released(fan) \/ told

IInv == FanTypeOK /\ ThreadInv /\ JobInv /\ ReserveInv /\ HeldInv

-----------------------------------------------------------------------------
(* What the pieces of an action do to the request and to the threads.      *)

SameRequest ==
    /\ job'.op = job.op /\ job'.start = job.start /\ job'.after = job.after
    /\ job'.before = job.before /\ job'.beforeMode = job.beforeMode

\* The limit leaves room for a count of zero and for a first failure.
LEMMA LimitIsPositive == FailureLimit \in Nat /\ FailureLimit >= 3
BY FanWorkerAssumption DEF FanWorkerAssumption

\* A request that goes on at pc keeps everything else it carries.
LEMMA GotoAims ==
    ASSUME job \in Jobs, NEW pc \in Places, Goto(pc)
    PROVE  job' \in Jobs /\ Aims' = {pc} /\ SameRequest /\ job'.at = pc
BY DEF Goto, Jobs, Aims, SameRequest, Places

\* stop_service_fan_runtime_thread goes on at pc, at once or after a join of the
\* handle's thread.
LEMMA StopAims ==
    ASSUME job \in Jobs, stopEvent \in BOOLEAN, NEW pc \in Places, StopThen(pc)
    PROVE  /\ job' \in Jobs /\ Aims' = {pc} /\ SameRequest /\ stopEvent' \in BOOLEAN
           /\ job'.at \in {"join", "retire"} => handle # NoThread
<1>1. CASE handle = NoThread
  <2>1. Goto(pc) /\ stopEvent' = stopEvent
    BY <1>1 DEF StopThen
  <2> QED
    BY <2>1, GotoAims DEF Places
<1>2. CASE handle # NoThread
  <2>1. stopEvent' = TRUE /\ job' = [job EXCEPT !.at = "join", !.then = pc]
    BY <1>2 DEF StopThen
  <2> QED
    BY <1>2, <2>1 DEF Jobs, Aims, SameRequest, Places
<1> QED
  BY <1>1, <1>2

\* stop_fan_curve_runtime also leaves no runtime, and a mode the process knows.
LEMMA StopRuntimeAims ==
    ASSUME FanTypeOK, job \in Jobs, NEW pc \in Places, StopRuntimeThen(pc)
    PROVE  /\ job' \in Jobs /\ Aims' = {pc} /\ SameRequest /\ stopEvent' \in BOOLEAN
           /\ job'.at \in {"join", "retire"} => handle # NoThread
           /\ runtime' = "off" /\ mode' \in Modes
           /\ failures' \in 0..(FailureLimit - 1) /\ applied' \in BOOLEAN
<1>1. /\ runtime' = "off" /\ mode' \in Modes /\ applied' \in BOOLEAN
      /\ failures' \in 0..(FailureLimit - 1)
  <2>1. /\ runtime' = "off" /\ applied' = FALSE /\ failures' = 0
        /\ mode' = IF runtime # "off" /\ mode # "auto" THEN "auto" ELSE mode
    BY DEF StopRuntimeThen, ClearRuntime
  <2>2. failures' \in 0..(FailureLimit - 1)
    BY <2>1, LimitIsPositive
  <2> QED
    BY <2>1, <2>2 DEF FanTypeOK, Modes
<1>2. CASE runtime # "off"
  <2>1. StopThen(pc)
    BY <1>2 DEF StopRuntimeThen
  <2> QED
    BY <1>1, <2>1, StopAims DEF FanTypeOK
<1>3. CASE runtime = "off"
  <2>1. Goto(pc) /\ stopEvent' = stopEvent
    BY <1>3 DEF StopRuntimeThen
  <2> QED
    BY <1>1, <2>1, GotoAims DEF FanTypeOK, Places
<1> QED
  BY <1>2, <1>3

\* The state of the threads after a step that may create one.
ThreadsOK ==
    /\ handle' \in {NoThread} \cup Threads /\ stopEvent' \in BOOLEAN
    /\ mishaps' \in 0..MaxMishaps
    /\ worker' \in [Threads -> {"ended", "top", "sleep", "wait", "queued", "owns"}]
    /\ \A t \in Threads : Alive(t)' => t = handle'
    /\ \A t \in Threads : worker'[t] = "owns" <=> worker[t] = "owns"
    /\ job'.at \in {"join", "retire"} => handle' # NoThread

\* A thread is created, or fails to be, only when the handle's thread has ended, so
\* none lived before and one lives at most after.
LEMMA CreateThreads ==
    ASSUME FanTypeOK, ThreadInv, job \in Jobs, NEW yes \in Places, NEW no \in Places,
           handle # NoThread => ~Alive(handle),
           Create(yes) \/ CreateFails(no)
    PROVE  /\ ThreadsOK /\ job' \in Jobs /\ Aims' \subseteq {yes, no} /\ SameRequest
           /\ Aims' # {}
<1>1. \A t \in Threads : worker[t] = "ended"
  BY DEF ThreadInv, Alive, Threads, NoThread
<1>2. CASE Create(yes)
  <2>1. PICK t \in Threads : handle' = t /\ worker' = [worker EXCEPT ![t] = "top"]
    BY <1>2 DEF Create
  <2>2. Goto(yes) /\ stopEvent' = FALSE /\ mishaps' = mishaps
    BY <1>2 DEF Create
  <2>3. job' \in Jobs /\ Aims' = {yes} /\ SameRequest /\ job'.at = yes
    BY <2>2, GotoAims
  <2> QED
    BY <1>1, <2>1, <2>2, <2>3 DEF ThreadsOK, FanTypeOK, Alive, Places
<1>3. CASE CreateFails(no)
  <2>1. Goto(no) /\ stopEvent' = FALSE /\ mishaps' = mishaps + 1 /\ mishaps < MaxMishaps
        /\ handle' = NoThread /\ worker' = worker
    BY <1>3 DEF CreateFails
  <2>2. job' \in Jobs /\ Aims' = {no} /\ SameRequest /\ job'.at = no
    BY <2>1, GotoAims
  <2>3. mishaps' \in 0..MaxMishaps
    <3>1. mishaps \in 0..MaxMishaps /\ MaxMishaps \in Nat
      BY FanWorkerAssumption DEF FanWorkerAssumption, FanTypeOK
    <3> QED
      BY <2>1, <3>1
  <2> QED
    BY <1>1, <2>1, <2>2, <2>3 DEF ThreadsOK, FanTypeOK, Alive, Places
<1> QED
  BY <1>2, <1>3

\* fan_worker_ensure_plan keeps a live worker, waits for a retiring one, and creates
\* one only when there is none.
LEMMA EnsureThreads ==
    ASSUME FanTypeOK, ThreadInv, job \in Jobs, NEW yes \in Places, NEW no \in Places,
           EnsureThen(yes, no)
    PROVE  /\ ThreadsOK /\ job' \in Jobs /\ Aims' \subseteq {yes, no} /\ SameRequest
           /\ Aims' # {}
<1>1. CASE handle # NoThread /\ Alive(handle) /\ stopEvent
  <2>1. job' = [job EXCEPT !.at = "retire", !.then = yes, !.else = no]
        /\ UNCHANGED <<threadVars, mishaps>>
    BY <1>1 DEF EnsureThen
  <2>2. job'.at = "retire" /\ job'.then = yes /\ job'.else = no /\ SameRequest
    BY <2>1 DEF Jobs, SameRequest
  <2>3. job' \in Jobs
    BY <2>1 DEF Jobs
  <2>4. Aims' = {yes, no}
    BY <2>2 DEF Aims
  <2> QED
    BY <1>1, <2>1, <2>2, <2>3, <2>4 DEF ThreadsOK, ThreadInv, FanTypeOK, Alive, threadVars
<1>2. CASE handle # NoThread /\ Alive(handle) /\ ~stopEvent
  <2>1. Goto(yes) /\ UNCHANGED <<threadVars, mishaps>>
    BY <1>2 DEF EnsureThen
  <2>2. job' \in Jobs /\ Aims' = {yes} /\ SameRequest
    BY <2>1, GotoAims
  <2> QED
    BY <1>2, <2>1, <2>2 DEF ThreadsOK, ThreadInv, FanTypeOK, Alive, threadVars
<1>3. CASE ~(handle # NoThread /\ Alive(handle))
  <2>1. Create(yes) \/ CreateFails(no)
    BY <1>3 DEF EnsureThen
  <2> QED
    BY <1>3, <2>1, CreateThreads
<1> QED
  BY <1>1, <1>2, <1>3

\* A tick of an active runtime keeps it, or gives it up after saying so.
LEMMA RunTickOutcome ==
    ASSUME FanTypeOK, fan \in HonestFans, runtime # "off", RunTick(TRUE)
    PROVE  /\ fan' \in HonestFans
           /\ runtime' \in Runtimes /\ mode' \in Modes
           /\ failures' \in 0..(FailureLimit - 1)
           /\ applied' \in BOOLEAN /\ told' \in BOOLEAN
           /\ (runtime' = runtime) \/ (runtime' = "off" /\ told')
<1>1. PICK t \in Ticks(runtime, fan) :
        \/ /\ t.verdict = "success"
           /\ fan' = t.fan /\ failures' = 0 /\ applied' = TRUE /\ mode' = runtime
           /\ told' = FALSE /\ runtime' = runtime
        \/ /\ fan' = t.fan
           /\ UNCHANGED <<runtimeVars, told>>
        \/ /\ ~AtLimit(failures + 1)
           /\ fan' = t.fan /\ failures' = failures + 1 /\ applied' = FALSE
           /\ UNCHANGED <<runtime, mode, told>>
        \/ /\ \E e \in Escalated(t.fan) : fan' = e.fan
           /\ ClearRuntime
           /\ told' = TRUE
  BY DEF RunTick
<1>2. t.fan \in HonestFans
  BY TicksResult DEF TickResults
<1>3. fan' \in HonestFans
  BY <1>1, <1>2, EscalatedResult
<1>4. runtime \in Modes
  BY DEF FanTypeOK, Runtimes, Modes
<1>5. failures' \in 0..(FailureLimit - 1)
  <2>1. failures \in 0..(FailureLimit - 1)
    BY DEF FanTypeOK
  <2>2. \/ failures' = 0 \/ failures' = failures
        \/ failures' = failures + 1 /\ ~(failures + 1 >= FailureLimit)
    BY <1>1 DEF runtimeVars, AtLimit, ClearRuntime
  <2> QED
    BY <2>1, <2>2, LimitIsPositive
<1>6. applied' \in BOOLEAN /\ told' \in BOOLEAN
  BY <1>1 DEF FanTypeOK, runtimeVars, ClearRuntime
<1>7. mode' \in Modes /\ runtime' \in Runtimes
  BY <1>1, <1>4 DEF FanTypeOK, runtimeVars, ClearRuntime, Runtimes, Modes
<1>8. (runtime' = runtime) \/ (runtime' = "off" /\ told')
  BY <1>1 DEF runtimeVars, ClearRuntime
<1> QED
  BY <1>3, <1>5, <1>6, <1>7, <1>8
-----------------------------------------------------------------------------
(* Every step keeps the invariant.                                         *)

\* A request that is at one of its places owns the mutex and goes on there.
LEMMA AtPlace ==
    ASSUME IInv, NEW p \in Places, job.at = p
    PROVE  mutex = Requester /\ Aims = {p} /\ job \in Jobs
BY DEF IInv, JobInv, Aims, Places

\* A request that waits for the worker owns the mutex and goes on at a place of its own.
LEMMA AtJoin ==
    ASSUME IInv, job.at \in {"join", "retire"}
    PROVE  /\ mutex = Requester /\ job \in Jobs /\ Aims \subseteq Places
           /\ handle \in Threads
           /\ job.at = "join" => Aims = {job.then}
           /\ job.at = "retire" => Aims = {job.then, job.else}
BY DEF IInv, FanTypeOK, ThreadInv, JobInv, Aims, Places

\* Nobody but a request is anywhere else: while another owns the mutex, or nobody does,
\* there is no request.
LEMMA NoRequest ==
    ASSUME IInv, mutex # Requester
    PROVE  Aims = {"none"} /\ job.at = "none"
BY DEF IInv, JobInv, Aims

\* The worker's own steps outside the mutex, and its lock, touch nothing of a request.
LEMMA WorkerMoves ==
    ASSUME IInv, NEW t \in Threads,
           \/ WorkerTop(t) \/ WorkerSeesStop(t) \/ WorkerTimeout(t)
           \/ WorkerLocks(t) \/ WorkerWaitFails(t)
    PROVE  IInv'
<1>1. /\ UNCHANGED <<handle, stopEvent, runtimeVars, fan, updateVars, job, told, requests>>
      /\ worker[t] # "ended" /\ worker[t] # "owns"
      /\ \E w \in {"ended", "top", "sleep", "wait", "queued", "owns"} :
           /\ worker' = [worker EXCEPT ![t] = w]
           /\ IF w = "owns" THEN mutex = Free /\ mutex' = t ELSE mutex' = mutex
  BY DEF WorkerTop, WorkerSeesStop, WorkerTimeout, WorkerLocks, WorkerWaitFails
<1>2. mishaps' \in 0..MaxMishaps
  <2>1. mishaps \in 0..MaxMishaps /\ MaxMishaps \in Nat
    BY FanWorkerAssumption DEF FanWorkerAssumption, IInv, FanTypeOK
  <2>2. mishaps' = mishaps \/ (mishaps < MaxMishaps /\ mishaps' = mishaps + 1)
    BY DEF WorkerTop, WorkerSeesStop, WorkerTimeout, WorkerLocks, WorkerWaitFails
  <2> QED
    BY <2>1, <2>2
<1>3. FanTypeOK'
  BY <1>1, <1>2 DEF IInv, FanTypeOK, runtimeVars, updateVars
<1>4. ThreadInv'
  BY <1>1 DEF IInv, FanTypeOK, ThreadInv, Alive, Threads, Free
<1>5. Aims' = Aims /\ (mutex' = Requester <=> mutex = Requester)
  BY <1>1 DEF Aims, Threads, Free, Requester
<1>6. JobInv' /\ ReserveInv' /\ HeldInv'
  BY <1>1, <1>5 DEF IInv, JobInv, ReserveInv, HeldInv, Accounted, runtimeVars, updateVars
<1> QED
  BY <1>3, <1>4, <1>6 DEF IInv

\* service_runtime_pulse: a tick without a request around, or none.
LEMMA WorkerPulses ==
    ASSUME IInv, NEW t \in Threads, WorkerPulse(t)
    PROVE  IInv'
<1>1. /\ mutex' = Free /\ worker[t] = "owns" /\ worker' = [worker EXCEPT ![t] = "top"]
      /\ UNCHANGED <<handle, updateVars, job, requests, mishaps>>
  BY DEF WorkerPulse
<1>2. mutex = t /\ mutex # Requester /\ Aims = {"none"}
  <2>1. mutex = t
    BY <1>1 DEF IInv, ThreadInv
  <2> QED
    BY <2>1, NoRequest DEF Threads, Requester
<1>3. Aims' = {"none"} /\ job'.at = "none" /\ job' \in Jobs
  BY <1>1, <1>2, NoRequest DEF Aims, IInv, JobInv
<1>4. /\ fan' \in HonestFans /\ runtime' \in Runtimes /\ mode' \in Modes
      /\ failures' \in 0..(FailureLimit - 1)
      /\ applied' \in BOOLEAN /\ told' \in BOOLEAN /\ stopEvent' \in BOOLEAN
      /\ Accounted' /\ (reserved => runtime' = "off")
  <2>1. CASE UNCHANGED <<runtimeVars, fan, told, stopEvent>>
    BY <1>2, <2>1 DEF IInv, FanTypeOK, HeldInv, ReserveInv, Accounted, runtimeVars
  <2>2. CASE ~reserved /\ runtime # "off" /\ RunTick(stopEvent' = TRUE)
    <3>1. RunTick(TRUE)
      BY <2>2 DEF RunTick
    <3>2. stopEvent' \in BOOLEAN
      BY <2>2 DEF RunTick, IInv, FanTypeOK
    <3> QED
      BY <2>2, <3>1, <3>2, RunTickOutcome DEF IInv, HeldInv, Accounted
  <2> QED
    BY <2>1, <2>2 DEF WorkerPulse
<1>5. FanTypeOK'
  BY <1>1, <1>4 DEF IInv, FanTypeOK, updateVars, HonestFans, Fans
<1>6. ThreadInv'
  BY <1>1, <1>2, <1>3 DEF IInv, FanTypeOK, ThreadInv, Alive, Threads, Free
<1>7. JobInv' /\ ReserveInv' /\ HeldInv'
  BY <1>1, <1>3, <1>4
     DEF IInv, JobInv, ReserveInv, HeldInv, Free, Requester, updateVars
<1> QED
  BY <1>5, <1>6, <1>7 DEF IInv

\* The state a request's step leaves the runtime, the fan and the reservation in.
DataOK ==
    /\ fan' \in HonestFans /\ runtime' \in Runtimes /\ mode' \in Modes
    /\ failures' \in 0..(FailureLimit - 1)
    /\ applied' \in BOOLEAN /\ told' \in BOOLEAN
    /\ reserved' \in BOOLEAN /\ handedBack' \in Runtimes

\* A step that creates no thread keeps the threads as they are.
LEMMA SameThreads ==
    ASSUME IInv, UNCHANGED <<worker, handle, mishaps>>, stopEvent' \in BOOLEAN,
           job'.at \in {"join", "retire"} => handle # NoThread
    PROVE  ThreadsOK
BY DEF IInv, FanTypeOK, ThreadInv, ThreadsOK, Alive

\* A step inside a request keeps the owner of the mutex.
LEMMA InsideRequest ==
    ASSUME IInv, mutex = Requester, UNCHANGED <<mutex, requests>>, ThreadsOK, DataOK
    PROVE  FanTypeOK' /\ ThreadInv'
<1>1. FanTypeOK'
  BY DEF IInv, FanTypeOK, ThreadsOK, DataOK, HonestFans, Fans
<1>2. ThreadInv'
  BY DEF IInv, ThreadInv, ThreadsOK
<1> QED
  BY <1>1, <1>2

\* A join that ends, and one that is given up, go on where the request said.
LEMMA Joins ==
    ASSUME IInv, Join \/ JoinTimesOut \/ JoinRetiring
    PROVE  IInv'
<1> USE AtJoin
<1>1. /\ job.at \in {"join", "retire"} /\ mutex = Requester /\ Aims \subseteq Places
      /\ UNCHANGED <<mutex, requests, runtimeVars, fan, updateVars, told>>
  BY DEF Join, JoinTimesOut, JoinRetiring
<1>2. /\ ThreadsOK /\ job' \in Jobs /\ Aims' \subseteq Aims /\ SameRequest
  <2>1. CASE Join
    <3>1. job.then \in Places /\ Aims = {job.then} /\ Goto(job.then)
      BY <1>1, <2>1 DEF Join
    <3>2. job' \in Jobs /\ Aims' = {job.then} /\ SameRequest /\ job'.at = job.then
      BY <1>1, <3>1, GotoAims
    <3>3. ThreadsOK
      BY <1>1, <2>1, <3>1, <3>2
         DEF Join, IInv, FanTypeOK, ThreadInv, ThreadsOK, Alive, Places
    <3> QED
      BY <3>1, <3>2, <3>3
  <2>2. CASE JoinTimesOut
    <3> DEFINE pc == IF job.at = "join" THEN job.then ELSE job.else
    <3>1. pc \in Aims /\ pc \in Places /\ Goto(pc) /\ UNCHANGED <<threadVars, mishaps>>
      BY <1>1, <2>2 DEF JoinTimesOut
    <3> HIDE DEF pc
    <3>2. job' \in Jobs /\ Aims' = {pc} /\ SameRequest /\ job'.at = pc
      BY <1>1, <3>1, GotoAims
    <3>3. ThreadsOK
      BY <3>1, <3>2, SameThreads DEF threadVars, Places, IInv, FanTypeOK
    <3> QED
      BY <3>1, <3>2, <3>3
  <2>3. CASE JoinRetiring
    <3>1. /\ job.then \in Places /\ job.else \in Places /\ Aims = {job.then, job.else}
          /\ ~Alive(handle) /\ (Create(job.then) \/ CreateFails(job.else))
      BY <1>1, <2>3 DEF JoinRetiring
    <3>2. /\ ThreadsOK /\ job' \in Jobs /\ Aims' \subseteq {job.then, job.else}
          /\ SameRequest
      BY <1>1, <3>1, CreateThreads DEF IInv
    <3> QED
      BY <3>1, <3>2
  <2> QED
    BY <2>1, <2>2, <2>3
<1>3. DataOK
  BY <1>1 DEF IInv, FanTypeOK, HeldInv, DataOK, runtimeVars, updateVars
<1>4. FanTypeOK' /\ ThreadInv'
  BY <1>1, <1>2, <1>3, InsideRequest
<1>5. JobInv'
  BY <1>1, <1>2 DEF IInv, JobInv, SameRequest, runtimeVars
<1>6. ReserveInv' /\ HeldInv'
  BY <1>1, <1>2 DEF IInv, ReserveInv, HeldInv, Accounted, SameRequest, runtimeVars, updateVars
<1> QED
  BY <1>4, <1>5, <1>6 DEF IInv

\* A request that starts a runtime goes on with the start, and then where it says.
LEMMA StartAims ==
    ASSUME job \in Jobs, NEW k \in Driven, NEW pc \in {"quit", "end"},
           job' = [job EXCEPT !.at = "start", !.start = k, !.after = pc]
    PROVE  /\ job' \in Jobs /\ Aims' = {"start"} /\ job'.at = "start"
           /\ job'.start = k /\ job'.after = pc
<1>1. job' \in Jobs
  <2>1. "start" \in Places /\ k \in Runtimes \cup Modes
    BY DEF Places, Driven, Runtimes
  <2> QED
    BY <2>1 DEF Jobs
<1>2. job'.at = "start" /\ job'.start = k /\ job'.after = pc
  BY DEF Jobs
<1> QED
  BY <1>1, <1>2 DEF Aims

\* start_fixed_fan_runtime and start_fan_curve_runtime, their failure and their first
\* tick: the runtime that is started is the one the request asked for.
LEMMA Starts ==
    ASSUME IInv, Start \/ StartFailed \/ FirstTick
    PROVE  IInv'
<1>1. /\ mutex = Requester /\ Aims = {job.at} /\ job \in Jobs
      /\ job.at \in {"start", "startFailed", "tick"}
      /\ UNCHANGED <<mutex, requests, updateVars>>
  BY AtPlace DEF Start, StartFailed, FirstTick, Places
<1>2. job.start \in Driven /\ job.after \in {"verify", "quit", "end"}
  BY <1>1 DEF IInv, JobInv, Jobs
<1>3. ~reserved
  BY <1>1 DEF IInv, ReserveInv
<1>4. CASE Start
  <2>1. CASE Goto(job.after) /\ UNCHANGED <<threadVars, runtimeVars, mishaps>>
    <3>1. job' \in Jobs /\ Aims' = {job.after} /\ SameRequest /\ job'.at = job.after
      BY <1>1, <1>2, <2>1, GotoAims DEF Places
    <3>2. UNCHANGED <<fan, told>>
      BY <1>4 DEF Start
    <3>3. ThreadsOK /\ DataOK
      BY <1>1, <1>2, <2>1, <3>1, <3>2, SameThreads
         DEF IInv, FanTypeOK, HeldInv, DataOK, threadVars, runtimeVars, updateVars
    <3>4. FanTypeOK' /\ ThreadInv'
      BY <1>1, <3>3, InsideRequest
    <3>5. JobInv' /\ ReserveInv' /\ HeldInv'
      BY <1>1, <1>2, <1>3, <1>4, <2>1, <3>1, <3>2
         DEF Start, IInv, JobInv, ReserveInv, HeldInv, Accounted, SameRequest, Places,
             Driven, Modes, runtimeVars, updateVars
    <3> QED
      BY <3>4, <3>5 DEF IInv
  <2>2. CASE /\ runtime' = job.start /\ mode' = job.start
             /\ failures' = 0 /\ applied' = FALSE
             /\ EnsureThen("tick", "startFailed")
    <3>1. /\ ThreadsOK /\ job' \in Jobs /\ Aims' \subseteq {"tick", "startFailed"}
          /\ SameRequest
      BY <1>1, <2>2, EnsureThreads DEF IInv, Places
    <3>2. UNCHANGED <<fan, told>>
      BY <1>4 DEF Start
    <3>3. DataOK
      <4>1. failures' \in 0..(FailureLimit - 1)
        BY <2>2, LimitIsPositive
      <4> QED
        BY <1>1, <1>2, <2>2, <3>2, <4>1
           DEF IInv, FanTypeOK, HeldInv, DataOK, updateVars, Driven, Runtimes, Modes
    <3>4. FanTypeOK' /\ ThreadInv'
      BY <1>1, <3>1, <3>3, InsideRequest
    <3>5. JobInv'
      BY <1>1, <1>2, <2>2, <3>1 DEF JobInv, SameRequest, Places
    <3>6. ReserveInv' /\ HeldInv'
      BY <1>1, <1>3, <1>4, <3>1, <3>2
         DEF Start, IInv, ReserveInv, HeldInv, SameRequest, updateVars
    <3> QED
      BY <3>4, <3>5, <3>6 DEF IInv
  <2> QED
    BY <1>4, <2>1, <2>2 DEF Start
<1>5. CASE StartFailed
  <2>1. StopRuntimeThen(job.after) /\ UNCHANGED <<worker, handle, fan, told, mishaps>>
        /\ job.at = "startFailed"
    BY <1>5 DEF StartFailed
  <2>2. /\ job' \in Jobs /\ Aims' = {job.after} /\ SameRequest /\ stopEvent' \in BOOLEAN
        /\ job'.at \in {"join", "retire"} => handle # NoThread
        /\ runtime' = "off" /\ mode' \in Modes
        /\ failures' \in 0..(FailureLimit - 1) /\ applied' \in BOOLEAN
    BY <1>1, <1>2, <2>1, StopRuntimeAims DEF IInv, Places
  <2>3. ThreadsOK /\ DataOK
    BY <1>1, <2>1, <2>2, SameThreads
       DEF IInv, FanTypeOK, HeldInv, DataOK, updateVars, Runtimes
  <2>4. FanTypeOK' /\ ThreadInv'
    BY <1>1, <2>3, InsideRequest
  <2>5. JobInv' /\ ReserveInv' /\ HeldInv'
    BY <1>1, <1>2, <1>3, <2>1, <2>2
       DEF IInv, JobInv, ReserveInv, HeldInv, Accounted, SameRequest, Places,
           Driven, Modes, updateVars
  <2> QED
    BY <2>4, <2>5 DEF IInv
<1>6. CASE FirstTick
  <2>1. /\ RunTick(FALSE) /\ Goto(job.after) /\ job.at = "tick"
        /\ UNCHANGED <<worker, handle, mishaps>>
    BY <1>6 DEF FirstTick
  <2>2. runtime = job.start /\ runtime # "off"
    BY <1>1, <1>2, <2>1 DEF IInv, JobInv, Driven
  <2>3. RunTick(TRUE) /\ UNCHANGED <<runtime, stopEvent>>
    BY <2>1 DEF RunTick, runtimeVars
  <2>4. /\ fan' \in HonestFans /\ runtime' = runtime /\ mode' \in Modes
        /\ failures' \in 0..(FailureLimit - 1)
        /\ applied' \in BOOLEAN /\ told' \in BOOLEAN
    BY <2>2, <2>3, RunTickOutcome DEF IInv, HeldInv
  <2>5. job' \in Jobs /\ Aims' = {job.after} /\ SameRequest /\ job'.at = job.after
    BY <1>1, <1>2, <2>1, GotoAims DEF Places
  <2>6. ThreadsOK /\ DataOK
    BY <1>1, <1>2, <2>1, <2>3, <2>4, <2>5, SameThreads DEF IInv, FanTypeOK, DataOK, updateVars
  <2>7. FanTypeOK' /\ ThreadInv'
    BY <1>1, <2>6, InsideRequest
  <2>8. JobInv' /\ ReserveInv' /\ HeldInv'
    BY <1>1, <1>2, <1>3, <2>2, <2>4, <2>5
       DEF IInv, JobInv, ReserveInv, HeldInv, Accounted, SameRequest, Places,
           Driven, Modes, updateVars
  <2> QED
    BY <2>7, <2>8 DEF IInv
<1> QED
  BY <1>4, <1>5, <1>6

\* apply_fan_settings: whichever way it goes on, the fan is accounted for where the
\* Apply is done with it, and released where the driver was asked to have it.
LEMMA AppliesFan ==
    ASSUME IInv, ApplyFan
    PROVE  IInv'
<1>1. /\ mutex = Requester /\ Aims = {"fan"} /\ job \in Jobs
      /\ job.start \in Modes /\ job.after = "verify" /\ Accounted /\ ~reserved
      /\ UNCHANGED <<mutex, requests, updateVars, worker, handle, told, mishaps>>
  BY AtPlace DEF ApplyFan, Places, IInv, JobInv, HeldInv, ReserveInv
<1>2. ASSUME NEW pc \in {"core", "fanFailed"}, Goto(pc), UNCHANGED <<runtimeVars, stopEvent>>,
             fan' \in HonestFans, pc = "core" => fan' = fan
      PROVE  IInv'
  <2>1. job' \in Jobs /\ Aims' = {pc} /\ SameRequest /\ job'.at = pc
    BY <1>1, <1>2, GotoAims DEF Places
  <2>2. ThreadsOK /\ DataOK
    BY <1>1, <1>2, <2>1, SameThreads DEF IInv, FanTypeOK, DataOK, runtimeVars, updateVars
  <2>3. FanTypeOK' /\ ThreadInv'
    BY <1>1, <2>2, InsideRequest
  <2>4. JobInv' /\ ReserveInv' /\ HeldInv'
    BY <1>1, <1>2, <2>1
       DEF JobInv, ReserveInv, HeldInv, Accounted, Places, runtimeVars, updateVars
  <2> QED
    BY <2>3, <2>4 DEF IInv
<1>3. ASSUME NEW pc \in {"verify", "start"}, StopRuntimeThen(pc), fan' \in HonestFans,
             pc = "verify" => Released(fan'), pc = "start" => job.start # "auto"
      PROVE  IInv'
  <2>1. /\ job' \in Jobs /\ Aims' = {pc} /\ SameRequest /\ stopEvent' \in BOOLEAN
        /\ job'.at \in {"join", "retire"} => handle # NoThread
        /\ runtime' = "off" /\ mode' \in Modes
        /\ failures' \in 0..(FailureLimit - 1) /\ applied' \in BOOLEAN
    BY <1>1, <1>3, StopRuntimeAims DEF IInv, Places
  <2>2. ThreadsOK /\ DataOK
    BY <1>1, <1>3, <2>1, SameThreads DEF IInv, FanTypeOK, DataOK, updateVars, Runtimes
  <2>3. FanTypeOK' /\ ThreadInv'
    BY <1>1, <2>2, InsideRequest
  <2>4. JobInv' /\ ReserveInv' /\ HeldInv'
    BY <1>1, <1>3, <2>1
       DEF JobInv, ReserveInv, HeldInv, SameRequest, Places, Modes, Driven, updateVars
  <2> QED
    BY <2>3, <2>4 DEF IInv
<1>4. fan \in HonestFans
  BY DEF IInv, HeldInv
<1>5. CASE job.start = "auto" /\ \E r \in SetFanAuto(fan) :
              /\ fan' = r.fan
              /\ IF r.ok THEN StopRuntimeThen("verify")
                 ELSE Goto("fanFailed") /\ UNCHANGED <<runtimeVars, stopEvent>>
  <2>1. PICK r \in SetFanAuto(fan) :
              /\ fan' = r.fan
              /\ IF r.ok THEN StopRuntimeThen("verify")
                 ELSE Goto("fanFailed") /\ UNCHANGED <<runtimeVars, stopEvent>>
    BY <1>5
  <2>2. r \in Results /\ (r.ok => Released(r.fan))
    BY <1>4, SetFanAutoResult
  <2>3. fan' \in HonestFans /\ (r.ok => Released(fan'))
    BY <2>1, <2>2 DEF Results
  <2> QED
    BY <1>2, <1>3, <2>1, <2>3
<1>6. CASE Goto("core") /\ UNCHANGED <<fan, runtimeVars, stopEvent>>
  BY <1>2, <1>4, <1>6
<1>7. CASE Goto("fanFailed") /\ UNCHANGED <<fan, runtimeVars, stopEvent>>
  BY <1>2, <1>4, <1>7
<1>8. CASE job.start # "auto" /\ StopRuntimeThen("start") /\ UNCHANGED fan
  BY <1>3, <1>4, <1>8
<1> QED
  BY <1>5, <1>6, <1>7, <1>8 DEF ApplyFan

\* The rest of an Apply: verification, the restart of the previous runtime, the other
\* controls, and the worker it ends with.
LEMMA AppliesRest ==
    ASSUME IInv, ApplyVerify \/ ApplyFanFailed \/ ApplyCore \/ ApplyTail
    PROVE  IInv'
<1>1. /\ mutex = Requester /\ Aims = {job.at} /\ job \in Jobs /\ ~reserved
      /\ job.at \in {"verify", "fanFailed", "core", "tail"}
      /\ UNCHANGED <<mutex, requests, updateVars>>
  <2>1. job.at \in {"verify", "fanFailed", "core", "tail"}
    BY DEF ApplyVerify, ApplyFanFailed, ApplyCore, ApplyTail
  <2>2. mutex = Requester /\ Aims = {job.at} /\ job \in Jobs
    BY <2>1, AtPlace DEF Places
  <2> QED
    BY <2>1, <2>2
       DEF ApplyVerify, ApplyFanFailed, ApplyCore, ApplyTail, IInv, ReserveInv
<1>2. CASE ApplyVerify
  <2>1. /\ job.at = "verify" /\ job.start \in Modes
        /\ UNCHANGED <<threadVars, runtime, failures, applied, fan, mishaps>>
    BY <1>1, <1>2 DEF ApplyVerify, IInv, JobInv
  <2>2. PICK pc \in {"core", "fanFailed"} :
          /\ Goto(pc) /\ mode' \in Modes /\ told' \in BOOLEAN
          /\ pc = "core" => Released(fan) \/ runtime # "off"
    <3>1. CASE job.start = "auto" \/ (runtime = job.start /\ applied)
      <4>1. Goto("core") /\ mode' = job.start /\ told' = FALSE
        BY <1>2, <3>1 DEF ApplyVerify
      <4>2. Released(fan) \/ runtime # "off"
        BY <1>1, <2>1, <3>1 DEF IInv, HeldInv, Modes
      <4> QED
        BY <2>1, <4>1, <4>2
    <3>2. CASE ~(job.start = "auto" \/ (runtime = job.start /\ applied))
      <4>1. Goto("fanFailed") /\ mode' = mode /\ told' = told
        BY <1>2, <3>2 DEF ApplyVerify
      <4> QED
        BY <4>1 DEF IInv, FanTypeOK
    <3> QED
      BY <3>1, <3>2
  <2>3. job' \in Jobs /\ Aims' = {pc} /\ SameRequest /\ job'.at = pc
    BY <1>1, <2>2, GotoAims DEF Places
  <2>4. ThreadsOK /\ DataOK
    BY <1>1, <2>1, <2>2, <2>3, SameThreads
       DEF IInv, FanTypeOK, HeldInv, DataOK, threadVars, updateVars
  <2>5. FanTypeOK' /\ ThreadInv'
    BY <1>1, <2>4, InsideRequest
  <2>6. JobInv' /\ ReserveInv' /\ HeldInv'
    BY <1>1, <2>1, <2>2, <2>3
       DEF IInv, JobInv, ReserveInv, HeldInv, Accounted, Places, updateVars
  <2> QED
    BY <2>5, <2>6 DEF IInv
<1>3. CASE ApplyFanFailed
  <2>1. /\ job.at = "fanFailed" /\ mode' = job.beforeMode
        /\ UNCHANGED <<threadVars, runtime, failures, applied, fan, told, mishaps>>
    BY <1>3 DEF ApplyFanFailed
  <2>2. /\ job' \in Jobs /\ job'.at \notin {"join", "retire"}
        /\ \/ Aims' = {"quit"}
           \/ Aims' = {"start"} /\ job'.start \in Driven /\ job'.after = "quit"
    <3>1. CASE job.before = "off"
      <4>1. Goto("quit")
        BY <1>3, <3>1 DEF ApplyFanFailed
      <4> QED
        BY <1>1, <4>1, GotoAims DEF Places
    <3>2. CASE job.before # "off"
      <4>1. job' = [job EXCEPT !.at = "start", !.start = job.before, !.after = "quit"]
        BY <1>3, <3>2 DEF ApplyFanFailed, StartThen
      <4>2. job.before \in Driven
        BY <1>1, <3>2 DEF Jobs, Driven, Runtimes
      <4> QED
        BY <1>1, <4>1, <4>2, StartAims
    <3> QED
      BY <3>1, <3>2
  <2>3. ThreadsOK /\ DataOK
    BY <1>1, <2>1, <2>2, SameThreads
       DEF IInv, FanTypeOK, HeldInv, DataOK, threadVars, updateVars, Jobs
  <2>4. FanTypeOK' /\ ThreadInv'
    BY <1>1, <2>3, InsideRequest
  <2>5. JobInv' /\ ReserveInv' /\ HeldInv'
    BY <1>1, <2>1, <2>2 DEF IInv, JobInv, ReserveInv, HeldInv, Places, updateVars
  <2> QED
    BY <2>4, <2>5 DEF IInv
<1>4. CASE ApplyCore
  <2>1. job.at = "core" /\ UNCHANGED <<threadVars, runtimeVars, told, mishaps>>
    BY <1>4 DEF ApplyCore
  <2>2. Accounted /\ fan \in HonestFans
    BY <1>1, <2>1 DEF IInv, HeldInv
  <2>3. PICK pc \in {"tail", "quit"} :
          Goto(pc) /\ fan' \in HonestFans /\ (Released(fan) => Released(fan'))
    <3>1. ASSUME NEW r \in ReadFans(fan), fan' = r.fan
          PROVE  fan' \in HonestFans /\ (Released(fan) => Released(fan'))
      BY <2>2, <3>1, ReadFansResult DEF HonestFans, Results
    <3> QED
      BY <1>4, <2>2, <3>1 DEF ApplyCore
  <2>4. job' \in Jobs /\ Aims' = {pc} /\ SameRequest /\ job'.at = pc
    BY <1>1, <2>3, GotoAims DEF Places
  <2>5. ThreadsOK /\ DataOK
    BY <1>1, <2>1, <2>3, <2>4, SameThreads
       DEF IInv, FanTypeOK, DataOK, threadVars, runtimeVars, updateVars
  <2>6. FanTypeOK' /\ ThreadInv'
    BY <1>1, <2>5, InsideRequest
  <2>7. JobInv' /\ ReserveInv' /\ HeldInv'
    BY <1>1, <2>1, <2>2, <2>3, <2>4
       DEF JobInv, ReserveInv, HeldInv, Accounted, Places, updateVars, runtimeVars
  <2> QED
    BY <2>6, <2>7 DEF IInv
<1>5. CASE ApplyTail
  <2>1. job.at = "tail" /\ UNCHANGED <<runtimeVars, fan, told>>
    BY <1>5 DEF ApplyTail
  <2>2. ThreadsOK /\ job' \in Jobs /\ Aims' = {"end"} /\ SameRequest
    <3>1. CASE runtime # "off"
      <4>1. EnsureThen("end", "end")
        BY <1>5, <3>1 DEF ApplyTail
      <4>2. /\ ThreadsOK /\ job' \in Jobs /\ Aims' \subseteq {"end", "end"} /\ SameRequest
            /\ Aims' # {}
        BY <1>1, <4>1, EnsureThreads DEF IInv, Places
      <4> QED
        BY <4>2
    <3>2. CASE runtime = "off"
      <4>1. StopThen("end") /\ UNCHANGED <<worker, handle, mishaps>>
        BY <1>5, <3>2 DEF ApplyTail
      <4> QED
        BY <1>1, <4>1, StopAims, SameThreads DEF IInv, FanTypeOK, Places
    <3> QED
      BY <3>1, <3>2
  <2>3. DataOK
    BY <1>1, <2>1 DEF IInv, FanTypeOK, HeldInv, DataOK, runtimeVars, updateVars
  <2>4. FanTypeOK' /\ ThreadInv'
    BY <1>1, <2>2, <2>3, InsideRequest
  <2>5. JobInv' /\ ReserveInv' /\ HeldInv'
    BY <1>1, <2>1, <2>2
       DEF IInv, JobInv, ReserveInv, HeldInv, Accounted, Places, updateVars, runtimeVars
  <2> QED
    BY <2>4, <2>5 DEF IInv
<1> QED
  BY <1>2, <1>3, <1>4, <1>5

\* service_reset_all and rollback_to_safe_defaults: a Reset that ends well has released
\* the fan, every other way out says that it may not have.
LEMMA Quits ==
    ASSUME IInv, Quit \/ QuitThread \/ GiveBack \/ Refresh \/ Disable
    PROVE  IInv'
<1>1. /\ mutex = Requester /\ Aims = {job.at} /\ job \in Jobs
      /\ job.at \in {"quit", "quitThread", "giveBack", "refresh", "refreshFailed", "disable"}
      /\ UNCHANGED <<mutex, requests, updateVars, worker, handle, mishaps>>
      /\ fan \in HonestFans
  <2>1. job.at \in {"quit", "quitThread", "giveBack", "refresh", "refreshFailed", "disable"}
    BY DEF Quit, QuitThread, GiveBack, Refresh, Disable
  <2>2. mutex = Requester /\ Aims = {job.at} /\ job \in Jobs
    BY <2>1, AtPlace DEF Places
  <2> QED
    BY <2>1, <2>2 DEF Quit, QuitThread, GiveBack, Refresh, Disable, IInv, HeldInv, threadVars
<1>2. job.at # "disable" => ~reserved
  BY <1>1 DEF IInv, ReserveInv
<1>3. CASE Quit
  <2>1. StopRuntimeThen("quitThread") /\ UNCHANGED <<fan, told>> /\ job.at = "quit"
    BY <1>3 DEF Quit
  <2>2. /\ job' \in Jobs /\ Aims' = {"quitThread"} /\ SameRequest /\ stopEvent' \in BOOLEAN
        /\ job'.at \in {"join", "retire"} => handle # NoThread
        /\ runtime' = "off" /\ mode' \in Modes
        /\ failures' \in 0..(FailureLimit - 1) /\ applied' \in BOOLEAN
    BY <1>1, <2>1, StopRuntimeAims DEF IInv, Places
  <2>3. ThreadsOK /\ DataOK
    BY <1>1, <2>1, <2>2, SameThreads DEF IInv, FanTypeOK, DataOK, updateVars, Runtimes
  <2>4. FanTypeOK' /\ ThreadInv'
    BY <1>1, <2>3, InsideRequest
  <2>5. JobInv' /\ ReserveInv' /\ HeldInv'
    BY <1>1, <1>2, <2>1, <2>2 DEF JobInv, ReserveInv, HeldInv, Places, updateVars
  <2> QED
    BY <2>4, <2>5 DEF IInv
<1>4. CASE QuitThread
  <2>1. StopThen("giveBack") /\ UNCHANGED <<runtimeVars, fan, told>> /\ job.at = "quitThread"
    BY <1>4 DEF QuitThread
  <2>2. /\ job' \in Jobs /\ Aims' = {"giveBack"} /\ SameRequest /\ stopEvent' \in BOOLEAN
        /\ job'.at \in {"join", "retire"} => handle # NoThread
    BY <1>1, <2>1, StopAims DEF IInv, FanTypeOK, Places
  <2>3. ThreadsOK /\ DataOK
    BY <1>1, <2>1, <2>2, SameThreads DEF IInv, FanTypeOK, DataOK, updateVars, runtimeVars
  <2>4. FanTypeOK' /\ ThreadInv'
    BY <1>1, <2>3, InsideRequest
  <2>5. JobInv' /\ ReserveInv' /\ HeldInv'
    BY <1>1, <1>2, <2>1, <2>2 DEF JobInv, ReserveInv, HeldInv, Places, updateVars
  <2> QED
    BY <2>4, <2>5 DEF IInv
<1>5. CASE GiveBack
  <2>1. job.at = "giveBack" /\ UNCHANGED <<threadVars, runtime, failures, applied, told>>
    BY <1>5 DEF GiveBack
  <2>2. PICK pc \in {"refresh", "refreshFailed"} :
          /\ Goto(pc) /\ fan' \in HonestFans /\ mode' \in Modes
          /\ pc = "refresh" => Released(fan')
    <3>1. CASE NeedsGiveBack
      <4>1. PICK r \in SetFanAuto(fan) :
              /\ fan' = r.fan
              /\ mode' = IF r.ok THEN "auto" ELSE mode
              /\ Goto(IF r.ok /\ job.op = "reset" THEN "refresh" ELSE "refreshFailed")
        BY <1>5, <3>1 DEF GiveBack
      <4>2. r \in Results /\ (r.ok => Released(r.fan))
        BY <1>1, SetFanAutoResult
      <4>3. fan' \in HonestFans /\ mode' \in Modes
        BY <4>1, <4>2 DEF Results, IInv, FanTypeOK, Modes
      <4> QED
        BY <4>1, <4>2, <4>3
    <3>2. CASE ~NeedsGiveBack
      <4>1. /\ Goto(IF job.op = "reset" THEN "refresh" ELSE "refreshFailed")
            /\ UNCHANGED <<fan, mode>>
        BY <1>5, <3>2 DEF GiveBack
      <4>2. Released(fan)
        BY <1>1, <3>2 DEF NeedsGiveBack, HonestFans, Fans, Released
      <4> QED
        BY <1>1, <4>1, <4>2 DEF IInv, FanTypeOK
    <3> QED
      BY <3>1, <3>2
  <2>3. job' \in Jobs /\ Aims' = {pc} /\ SameRequest /\ job'.at = pc
    BY <1>1, <2>2, GotoAims DEF Places
  <2>4. ThreadsOK /\ DataOK
    BY <1>1, <2>1, <2>2, <2>3, SameThreads
       DEF IInv, FanTypeOK, DataOK, threadVars, updateVars
  <2>5. FanTypeOK' /\ ThreadInv'
    BY <1>1, <2>4, InsideRequest
  <2>6. JobInv' /\ ReserveInv' /\ HeldInv'
    BY <1>1, <1>2, <2>1, <2>2, <2>3 DEF JobInv, ReserveInv, HeldInv, Places, updateVars
  <2> QED
    BY <2>5, <2>6 DEF IInv
<1>6. CASE Refresh
  <2>1. UNCHANGED <<threadVars, runtimeVars>> /\ job.at \in {"refresh", "refreshFailed"}
    BY <1>6 DEF Refresh
  <2>2. PICK r \in ReadFans(fan), others \in BOOLEAN :
          /\ fan' = r.fan
          /\ IF job.at = "refresh" /\ others THEN Goto("end") /\ told' = FALSE
             ELSE Goto("disable") /\ UNCHANGED told
    BY <1>6 DEF Refresh
  <2>3. fan' \in HonestFans /\ (Released(fan) => Released(fan'))
    BY <1>1, <2>2, ReadFansResult DEF HonestFans, Results
  <2>4. PICK pc \in {"end", "disable"} :
          Goto(pc) /\ told' \in BOOLEAN /\ (pc = "end" => Released(fan'))
    BY <1>1, <2>2, <2>3 DEF IInv, FanTypeOK, HeldInv
  <2>5. job' \in Jobs /\ Aims' = {pc} /\ SameRequest /\ job'.at = pc
    BY <1>1, <2>4, GotoAims DEF Places
  <2>6. ThreadsOK /\ DataOK
    BY <1>1, <2>1, <2>3, <2>4, <2>5, SameThreads
       DEF IInv, FanTypeOK, DataOK, threadVars, runtimeVars, updateVars
  <2>7. FanTypeOK' /\ ThreadInv'
    BY <1>1, <2>6, InsideRequest
  <2>8. JobInv' /\ ReserveInv' /\ HeldInv'
    BY <1>1, <1>2, <2>1, <2>3, <2>4, <2>5
       DEF JobInv, ReserveInv, HeldInv, Accounted, Places, updateVars
  <2> QED
    BY <2>7, <2>8 DEF IInv
<1>7. CASE Disable
  <2>1. /\ runtime' = "off" /\ stopEvent' = TRUE /\ told' = TRUE /\ Goto("end")
        /\ UNCHANGED <<mode, failures, applied, fan>>
    BY <1>7 DEF Disable
  <2>2. job' \in Jobs /\ Aims' = {"end"} /\ SameRequest /\ job'.at = "end"
    BY <1>1, <2>1, GotoAims DEF Places
  <2>3. ThreadsOK /\ DataOK
    BY <1>1, <2>1, <2>2, SameThreads DEF IInv, FanTypeOK, DataOK, updateVars, Runtimes
  <2>4. FanTypeOK' /\ ThreadInv'
    BY <1>1, <2>3, InsideRequest
  <2>5. JobInv' /\ ReserveInv' /\ HeldInv'
    BY <1>1, <2>1, <2>2 DEF JobInv, ReserveInv, HeldInv, Accounted, Places, updateVars
  <2> QED
    BY <2>4, <2>5 DEF IInv
<1> QED
  BY <1>3, <1>4, <1>5, <1>6, <1>7

\* The reservation is made only after the runtime is off, and dropped before one is
\* started again.
LEMMA Installs ==
    ASSUME IInv, InstallReserve \/ InstallReserved \/ InstallRelease
    PROVE  IInv'
<1>1. /\ mutex = Requester /\ Aims = {job.at} /\ job \in Jobs
      /\ job.at \in {"install", "installed", "release"}
      /\ UNCHANGED <<mutex, requests, worker, handle, mishaps>>
      /\ fan \in HonestFans
  <2>1. job.at \in {"install", "installed", "release"}
    BY DEF InstallReserve, InstallReserved, InstallRelease
  <2>2. mutex = Requester /\ Aims = {job.at} /\ job \in Jobs
    BY <2>1, AtPlace DEF Places
  <2> QED
    BY <2>1, <2>2
       DEF InstallReserve, InstallReserved, InstallRelease, IInv, HeldInv, threadVars
<1>2. CASE InstallReserve
  <2>1. reserved' = TRUE /\ handedBack' = runtime /\ told' = told /\ Accounted
    BY <1>1, <1>2 DEF InstallReserve, IInv, HeldInv
  <2>2. CASE runtime = "off"
    <3>1. Goto("end") /\ UNCHANGED <<fan, runtimeVars, stopEvent>>
      BY <1>2, <2>2 DEF InstallReserve
    <3>2. job' \in Jobs /\ Aims' = {"end"} /\ SameRequest /\ job'.at = "end"
      BY <1>1, <3>1, GotoAims DEF Places
    <3>3. ThreadsOK /\ DataOK
      BY <1>1, <2>1, <3>1, <3>2, SameThreads DEF IInv, FanTypeOK, DataOK, runtimeVars
    <3>4. FanTypeOK' /\ ThreadInv'
      BY <1>1, <3>3, InsideRequest
    <3>5. JobInv' /\ ReserveInv' /\ HeldInv'
      BY <1>1, <2>1, <2>2, <3>1, <3>2
         DEF JobInv, ReserveInv, HeldInv, Accounted, Places, runtimeVars
    <3> QED
      BY <3>4, <3>5 DEF IInv
  <2>3. CASE runtime # "off"
    <3>1. PICK r \in (IF fan.isAuto THEN {[ok |-> TRUE, fan |-> fan]} ELSE SetFanAuto(fan)) :
            fan' = r.fan
      BY <1>2, <2>3 DEF InstallReserve
    <3>2. fan' \in HonestFans
      BY <1>1, <3>1, SetFanAutoResult DEF Results
    <3>3. StopRuntimeThen("installed")
      BY <1>2, <2>3 DEF InstallReserve
    <3>4. /\ job' \in Jobs /\ Aims' = {"installed"} /\ SameRequest /\ stopEvent' \in BOOLEAN
          /\ job'.at \in {"join", "retire"} => handle # NoThread
          /\ runtime' = "off" /\ mode' \in Modes
          /\ failures' \in 0..(FailureLimit - 1) /\ applied' \in BOOLEAN
      BY <1>1, <3>3, StopRuntimeAims DEF IInv, Places
    <3>5. ThreadsOK /\ DataOK
      BY <1>1, <2>1, <3>2, <3>4, SameThreads DEF IInv, FanTypeOK, DataOK, Runtimes
    <3>6. FanTypeOK' /\ ThreadInv'
      BY <1>1, <3>5, InsideRequest
    <3>7. JobInv' /\ ReserveInv' /\ HeldInv'
      BY <1>1, <3>2, <3>4 DEF JobInv, ReserveInv, HeldInv, Places
    <3> QED
      BY <3>6, <3>7 DEF IInv
  <2> QED
    BY <2>2, <2>3
<1>3. CASE InstallReserved
  <2>1. /\ job.at = "installed" /\ Goto("end") /\ UNCHANGED <<threadVars, runtimeVars, updateVars>>
        /\ \E r \in ReadFans(fan) : fan' = r.fan /\ told' = (told \/ ~r.fan.isAuto)
    BY <1>3 DEF InstallReserved
  <2>2. PICK r \in ReadFans(fan) : fan' = r.fan /\ told' = (told \/ ~r.fan.isAuto)
    BY <2>1
  <2>3. fan' \in HonestFans
    BY <1>1, <2>2, ReadFansResult DEF HonestFans, Results
  <2>4. told' \in BOOLEAN /\ (Released(fan') \/ told')
    BY <2>2, <2>3 DEF HonestFans, Fans, Released
  <2>5. job' \in Jobs /\ Aims' = {"end"} /\ SameRequest /\ job'.at = "end"
    BY <1>1, <2>1, GotoAims DEF Places
  <2>6. ThreadsOK /\ DataOK
    BY <1>1, <2>1, <2>3, <2>4, <2>5, SameThreads
       DEF IInv, FanTypeOK, DataOK, threadVars, runtimeVars, updateVars
  <2>7. FanTypeOK' /\ ThreadInv'
    BY <1>1, <2>6, InsideRequest
  <2>8. JobInv' /\ ReserveInv' /\ HeldInv'
    BY <1>1, <2>1, <2>3, <2>4, <2>5
       DEF IInv, JobInv, ReserveInv, HeldInv, Accounted, Places, runtimeVars, updateVars
  <2> QED
    BY <2>7, <2>8 DEF IInv
<1>4. CASE InstallRelease
  <2>1. /\ job.at = "release" /\ reserved' = FALSE /\ handedBack' = "off"
        /\ UNCHANGED <<threadVars, runtimeVars, fan, told>> /\ Accounted
    BY <1>1, <1>4 DEF InstallRelease, IInv, HeldInv
  <2>2. /\ job' \in Jobs /\ job'.at \notin {"join", "retire"}
        /\ \/ Aims' = {"end"}
           \/ Aims' = {"start"} /\ job'.start \in Driven /\ job'.after = "end" /\ runtime = "off"
    <3>1. CASE handedBack # "off" /\ runtime = "off"
      <4>1. job' = [job EXCEPT !.at = "start", !.start = handedBack, !.after = "end"]
        BY <1>4, <3>1 DEF InstallRelease, StartThen
      <4>2. handedBack \in Driven
        BY <3>1 DEF IInv, FanTypeOK, Driven, Runtimes
      <4> QED
        BY <1>1, <3>1, <4>1, <4>2, StartAims
    <3>2. CASE ~(handedBack # "off" /\ runtime = "off")
      <4>1. Goto("end")
        BY <1>4, <3>2 DEF InstallRelease
      <4> QED
        BY <1>1, <4>1, GotoAims DEF Places
    <3> QED
      BY <3>1, <3>2
  <2>3. ThreadsOK /\ DataOK
    BY <1>1, <2>1, <2>2, SameThreads
       DEF IInv, FanTypeOK, DataOK, threadVars, runtimeVars, Runtimes
  <2>4. FanTypeOK' /\ ThreadInv'
    BY <1>1, <2>3, InsideRequest
  <2>5. JobInv' /\ ReserveInv' /\ HeldInv'
    BY <1>1, <2>1, <2>2
       DEF JobInv, ReserveInv, HeldInv, Accounted, Places, runtimeVars
  <2> QED
    BY <2>4, <2>5 DEF IInv
<1> QED
  BY <1>2, <1>3, <1>4

\* The telemetry request replaces a dead worker, and may run a tick itself.
LEMMA Polls ==
    ASSUME IInv, TelemetryPoll \/ TelemetryPulse
    PROVE  IInv'
<1>1. /\ mutex = Requester /\ Aims = {job.at} /\ job \in Jobs
      /\ job.at \in {"poll", "polled"}
      /\ UNCHANGED <<mutex, requests, updateVars>>
      /\ fan \in HonestFans /\ runtime # "off" /\ ~reserved
  <2>1. job.at \in {"poll", "polled"}
    BY DEF TelemetryPoll, TelemetryPulse
  <2>2. mutex = Requester /\ Aims = {job.at} /\ job \in Jobs
    BY <2>1, AtPlace DEF Places
  <2> QED
    BY <2>1, <2>2 DEF TelemetryPoll, TelemetryPulse, IInv, JobInv, ReserveInv, HeldInv
<1>2. CASE TelemetryPoll
  <2>1. job.at = "poll" /\ UNCHANGED <<runtimeVars, fan, told>>
    BY <1>2 DEF TelemetryPoll
  <2>2. ThreadsOK /\ job' \in Jobs /\ Aims' = {"polled"} /\ SameRequest
    <3>1. CASE handle # NoThread /\ Alive(handle)
      <4>1. Goto("polled") /\ UNCHANGED <<threadVars, mishaps>>
        BY <1>2, <3>1 DEF TelemetryPoll
      <4>2. job' \in Jobs /\ Aims' = {"polled"} /\ SameRequest /\ job'.at = "polled"
        BY <1>1, <4>1, GotoAims DEF Places
      <4> QED
        BY <4>1, <4>2, SameThreads DEF threadVars, IInv, FanTypeOK
    <3>2. CASE ~(handle # NoThread /\ Alive(handle))
      <4>1. EnsureThen("polled", "polled")
        BY <1>2, <3>2 DEF TelemetryPoll
      <4>2. /\ ThreadsOK /\ job' \in Jobs /\ Aims' \subseteq {"polled", "polled"} /\ SameRequest
            /\ Aims' # {}
        BY <1>1, <4>1, EnsureThreads DEF IInv, Places
      <4> QED
        BY <4>2
    <3> QED
      BY <3>1, <3>2
  <2>3. DataOK
    BY <1>1, <2>1 DEF IInv, FanTypeOK, DataOK, runtimeVars, updateVars
  <2>4. FanTypeOK' /\ ThreadInv'
    BY <1>1, <2>2, <2>3, InsideRequest
  <2>5. JobInv' /\ ReserveInv' /\ HeldInv'
    BY <1>1, <2>1, <2>2
       DEF JobInv, ReserveInv, HeldInv, Accounted, Places, updateVars, runtimeVars
  <2> QED
    BY <2>4, <2>5 DEF IInv
<1>3. CASE TelemetryPulse
  <2>1. UNCHANGED <<worker, handle, mishaps>>
    BY <1>3 DEF TelemetryPulse
  <2>2. PICK pc \in {"end", "tail"} :
          /\ Goto(pc) /\ stopEvent' = stopEvent /\ Accounted'
          /\ fan' \in HonestFans /\ runtime' \in Runtimes /\ mode' \in Modes
          /\ failures' \in 0..(FailureLimit - 1)
          /\ applied' \in BOOLEAN /\ told' \in BOOLEAN
    <3>1. CASE Goto("end") /\ UNCHANGED <<runtimeVars, fan, told, stopEvent>>
      BY <1>1, <3>1 DEF IInv, FanTypeOK, Accounted, runtimeVars
    <3>2. CASE /\ RunTick(UNCHANGED stopEvent)
               /\ Goto(IF runtime' = "off" THEN "tail" ELSE "end")
      <4>1. RunTick(TRUE) /\ stopEvent' = stopEvent
        BY <3>2 DEF RunTick
      <4>2. /\ fan' \in HonestFans
            /\ runtime' \in Runtimes /\ mode' \in Modes
            /\ failures' \in 0..(FailureLimit - 1)
            /\ applied' \in BOOLEAN /\ told' \in BOOLEAN
            /\ (runtime' = runtime) \/ (runtime' = "off" /\ told')
        BY <1>1, <4>1, RunTickOutcome DEF IInv
      <4>3. Accounted'
        BY <1>1, <4>2 DEF Accounted
      <4>4. Goto("tail") \/ Goto("end")
        BY <3>2
      <4> QED
        BY <4>1, <4>2, <4>3, <4>4
    <3> QED
      BY <1>3, <3>1, <3>2 DEF TelemetryPulse
  <2>3. job' \in Jobs /\ Aims' = {pc} /\ SameRequest /\ job'.at = pc
    BY <1>1, <2>2, GotoAims DEF Places
  <2>4. ThreadsOK /\ DataOK
    BY <1>1, <2>1, <2>2, <2>3, SameThreads DEF IInv, FanTypeOK, DataOK, updateVars
  <2>5. FanTypeOK' /\ ThreadInv'
    BY <1>1, <2>4, InsideRequest
  <2>6. JobInv' /\ ReserveInv' /\ HeldInv'
    BY <1>1, <2>2, <2>3 DEF JobInv, ReserveInv, HeldInv, Places, updateVars
  <2> QED
    BY <2>5, <2>6 DEF IInv
<1> QED
  BY <1>2, <1>3

\* A request that is let in finds the fan accounted for, and starts where it is meant to.
LEMMA Begins ==
    ASSUME IInv, NEW op \in {"apply", "reset", "install", "release", "lockout", "telemetry"},
           NEW pc \in {"fan", "quit", "install", "release", "disable", "poll"},
           NEW k \in Runtimes \cup Modes, Request(op, pc, k),
           pc = "fan" => k \in Modes, pc = "poll" => runtime # "off",
           reserved => pc \in {"release", "disable", "poll"}
    PROVE  IInv'
<1>1. /\ mutex = Free /\ mutex' = Requester /\ requests < MaxRequests
      /\ requests' = requests + 1
      /\ job' = [NoJob EXCEPT !.op = op, !.at = pc, !.start = k, !.after = "verify",
                              !.before = runtime, !.beforeMode = mode]
      /\ UNCHANGED <<threadVars, runtimeVars, fan, updateVars, told, mishaps>>
  BY DEF Request
<1>2. mutex # Requester /\ Aims = {"none"}
  BY <1>1, NoRequest DEF Free, Requester
<1>3. /\ job'.at = pc /\ job'.start = k /\ job'.after = "verify"
      /\ job' = [at |-> pc, then |-> "none", else |-> "none", op |-> op,
                 start |-> k, after |-> "verify", before |-> runtime, beforeMode |-> mode]
  BY <1>1 DEF NoJob
<1>4. job' \in Jobs
  <2>1. pc \in Places /\ runtime \in Runtimes /\ mode \in Modes
    BY DEF Places, IInv, FanTypeOK
  <2> QED
    BY <1>3, <2>1 DEF Jobs
<1>5. Aims' = {pc} /\ pc \in Places
  BY <1>3 DEF Aims, Places
<1>6. requests' \in 0..MaxRequests
  <2>1. requests \in 0..MaxRequests /\ MaxRequests \in Nat
    BY FanWorkerAssumption DEF FanWorkerAssumption, IInv, FanTypeOK
  <2> QED
    BY <1>1, <2>1
<1>7. FanTypeOK'
  BY <1>1, <1>6 DEF IInv, FanTypeOK, threadVars, runtimeVars, updateVars
<1>8. ThreadInv'
  BY <1>1, <1>3 DEF IInv, ThreadInv, Alive, threadVars, Threads, Free, Requester
<1>9. Accounted /\ fan \in HonestFans
  BY <1>2 DEF IInv, HeldInv
<1>10. JobInv'
  BY <1>1, <1>3, <1>4, <1>5 DEF JobInv, runtimeVars
<1>11. ReserveInv' /\ HeldInv'
  BY <1>1, <1>3, <1>5, <1>9
     DEF IInv, ReserveInv, HeldInv, Accounted, runtimeVars, updateVars
<1> QED
  BY <1>7, <1>8, <1>10, <1>11 DEF IInv

\* The end of a request, the watchdog's look and the idle read of the fans.
LEMMA EndsAndWatches ==
    ASSUME IInv, End \/ Watchdog \/ IdleTelemetry
    PROVE  IInv'
<1>1. /\ UNCHANGED <<threadVars, runtimeVars, updateVars, told, requests, mishaps>>
      /\ fan \in HonestFans
  BY DEF End, Watchdog, IdleTelemetry, IInv, HeldInv
<1>2. NoJob \in Jobs /\ NoJob.at = "none"
  BY DEF NoJob, Jobs, Places, Runtimes, Modes
<1>3. CASE End
  <2>1. job.at = "end" /\ mutex' = Free /\ job' = NoJob /\ fan' = fan
    BY <1>3 DEF End
  <2>2. mutex = Requester /\ Aims = {"end"}
    BY <2>1, AtPlace DEF Places
  <2>3. Aims' = {"none"} /\ job'.at = "none" /\ job' \in Jobs
    BY <1>2, <2>1 DEF Aims
  <2>4. FanTypeOK'
    BY <1>1, <2>1 DEF IInv, FanTypeOK, threadVars, runtimeVars, updateVars
  <2>5. ThreadInv'
    BY <1>1, <2>1, <2>2, <2>3
       DEF IInv, ThreadInv, Alive, threadVars, Threads, Free, Requester
  <2>6. JobInv' /\ ReserveInv' /\ HeldInv'
    BY <1>1, <2>1, <2>2, <2>3
       DEF IInv, JobInv, ReserveInv, HeldInv, Accounted, Free, Requester, runtimeVars,
           updateVars
  <2> QED
    BY <2>4, <2>5, <2>6 DEF IInv
<1>4. CASE Watchdog
  <2>1. /\ mutex = Free /\ runtime # "off" /\ mutex' = Requester /\ fan' = fan
        /\ job' = [NoJob EXCEPT !.op = "watch", !.at = "tail"]
    BY <1>4 DEF Watchdog
  <2>2. /\ job'.at = "tail"
        /\ job' = [at |-> "tail", then |-> "none", else |-> "none", op |-> "watch",
                   start |-> "off", after |-> "none", before |-> "off", beforeMode |-> "auto"]
    BY <2>1 DEF NoJob
  <2>3. job' \in Jobs /\ Aims' = {"tail"}
    BY <2>2 DEF Jobs, Places, Runtimes, Modes, Aims
  <2>4. FanTypeOK'
    BY <1>1, <2>1 DEF IInv, FanTypeOK, threadVars, runtimeVars, updateVars
  <2>5. ThreadInv'
    BY <1>1, <2>1, <2>2
       DEF IInv, ThreadInv, Alive, threadVars, Threads, Free, Requester
  <2>6. JobInv' /\ ReserveInv' /\ HeldInv'
    BY <1>1, <2>1, <2>3
       DEF IInv, JobInv, ReserveInv, HeldInv, Accounted, Places, runtimeVars, updateVars
  <2> QED
    BY <2>4, <2>5, <2>6 DEF IInv
<1>5. CASE IdleTelemetry
  <2>1. mutex = Free /\ UNCHANGED <<mutex, job>> /\ \E r \in ReadFans(fan) : fan' = r.fan
    BY <1>5 DEF IdleTelemetry
  <2>2. Aims' = {"none"} /\ Aims = {"none"}
    BY <2>1, NoRequest DEF Aims, Free, Requester
  <2>3. fan' \in HonestFans /\ (Released(fan) => Released(fan'))
    BY <1>1, <2>1, ReadFansResult DEF HonestFans, Results
  <2>4. FanTypeOK'
    BY <1>1, <2>1, <2>3
       DEF IInv, FanTypeOK, threadVars, runtimeVars, updateVars, HonestFans, Fans
  <2>5. ThreadInv'
    BY <1>1, <2>1 DEF IInv, ThreadInv, Alive, threadVars
  <2>6. JobInv' /\ ReserveInv' /\ HeldInv'
    BY <1>1, <2>1, <2>2, <2>3
       DEF IInv, JobInv, ReserveInv, HeldInv, Accounted, runtimeVars, updateVars
  <2> QED
    BY <2>4, <2>5, <2>6 DEF IInv
<1> QED
  BY <1>3, <1>4, <1>5

\* The service starts without a runtime, a worker or a request, the fan with the driver.
LEMMA InitHolds == Init => IInv
<1> SUFFICES ASSUME Init
             PROVE  IInv
  OBVIOUS
<1>1. failures \in 0..(FailureLimit - 1) /\ requests \in 0..MaxRequests
        /\ mishaps \in 0..MaxMishaps
  BY LimitIsPositive, FanWorkerAssumption DEF FanWorkerAssumption, Init
<1>2. job \in Jobs /\ Aims = {"none"} /\ job.at = "none"
  BY DEF Init, NoJob, Jobs, Places, Runtimes, Modes, Aims
<1>3. fan \in HonestFans /\ Released(fan)
  BY DEF Init, HonestFans, Fans, Released
<1>4. FanTypeOK
  BY <1>1, <1>3 DEF Init, FanTypeOK, Runtimes, Modes, HonestFans, Fans
<1>5. ThreadInv
  BY <1>2 DEF Init, ThreadInv, Alive, Threads, Free
<1>6. JobInv /\ ReserveInv /\ HeldInv
  BY <1>2, <1>3 DEF Init, JobInv, ReserveInv, HeldInv, Accounted, Free, Requester
<1> QED
  BY <1>4, <1>5, <1>6 DEF IInv

\* Every step of the service keeps the invariant.
LEMMA StepHolds == IInv /\ [Next]_vars => IInv'
<1> SUFFICES ASSUME IInv, [Next]_vars
             PROVE  IInv'
  OBVIOUS
<1>1. ASSUME NEW t \in Threads, Worker(t) \/ WorkerWaitFails(t)
      PROVE  IInv'
  BY <1>1, WorkerMoves, WorkerPulses DEF Worker
<1>2. ASSUME NEW k \in Modes, Apply(k)
      PROVE  IInv'
  BY <1>2, Begins DEF Apply, Admitted
<1>3. CASE Reset
  BY <1>3, Begins DEF Reset, Admitted, Runtimes
<1>4. CASE Install
  BY <1>4, Begins DEF Install, Admitted, Runtimes
<1>5. CASE InstallFails
  BY <1>5, Begins DEF InstallFails, Runtimes
<1>6. CASE Lockout
  BY <1>6, Begins DEF Lockout, Runtimes
<1>7. CASE Telemetry
  BY <1>7, Begins DEF Telemetry, Runtimes
<1>8. CASE JobStep
  BY <1>8, Joins, Starts, AppliesFan, AppliesRest, Quits, Installs, Polls, EndsAndWatches
     DEF JobStep
<1>9. CASE JoinTimesOut
  BY <1>9, Joins
<1>10. CASE Watchdog \/ IdleTelemetry
  BY <1>10, EndsAndWatches
<1>11. CASE UNCHANGED vars
  <2>1. /\ UNCHANGED <<mutex, worker, handle, stopEvent, runtime, mode, failures, applied,
                       fan, reserved, handedBack, job, told, requests, mishaps>>
    BY <1>11 DEF vars, threadVars, runtimeVars, updateVars
  <2>2. Aims' = Aims
    BY <2>1 DEF Aims
  <2> QED
    BY <2>1, <2>2
       DEF IInv, FanTypeOK, ThreadInv, Alive, JobInv, ReserveInv, HeldInv, Accounted
<1> QED
  BY <1>1, <1>2, <1>3, <1>4, <1>5, <1>6, <1>7, <1>8, <1>9, <1>10, <1>11 DEF Next

\* The invariant holds throughout.
LEMMA InvariantHolds == Spec => []IInv
BY InitHolds, StepHolds, PTL DEF Spec

-----------------------------------------------------------------------------
(* What it is for.                                                         *)

\* For every failure limit and every history of requests and mishaps the state is well
\* formed, and the count of consecutive failures never stays at the limit: the failure
\* that reaches it escalates (note_fan_runtime_failure_locked).
THEOREM FanTypeCorrect == Spec => []FanTypeOK
<1>1. IInv => FanTypeOK
  BY DEF IInv
<1> QED
  BY <1>1, InvariantHolds, PTL

\* Two fan workers never live at once, whatever joins time out, waits and creations
\* fail: a successor is created only when the handle's thread has ended, and no other
\* thread can be alive (service_fan_ensure_runtime_thread).
THEOREM OneWorker == Spec => []AtMostOneWorker
<1>1. IInv => AtMostOneWorker
  <2> SUFFICES ASSUME IInv
               PROVE  AtMostOneWorker
    OBVIOUS
  <2> DEFINE L == {t \in Threads : Alive(t)}
  <2>1. L \subseteq {handle}
    BY DEF IInv, ThreadInv
  <2>2. IsFiniteSet({handle}) /\ Cardinality({handle}) = 1
    BY FS_Singleton
  <2>3. Cardinality(L) <= Cardinality({handle})
    BY <2>1, <2>2, FS_Subset
  <2> QED
    BY <2>2, <2>3 DEF AtMostOneWorker
<1> QED
  BY <1>1, InvariantHolds, PTL

\* While an install is reserved, and nobody owns the mutex, there is no runtime: the
\* pulses that are suspended had nothing to drive.
THEOREM ReservationFindsNoRuntime == Spec => []InstallFindsNoRuntime
<1>1. IInv => InstallFindsNoRuntime
  BY DEF IInv, ReserveInv, InstallFindsNoRuntime
<1> QED
  BY <1>1, InvariantHolds, PTL

\* Between requests, a fan that is neither with the driver nor lost to a failed read is
\* driven by a runtime, or a path that may have left it behind has said so: no
\* interleaving of Applies, Resets, installs, lockouts and failing ticks forgets it.
THEOREM HeldFanIsNeverForgotten == Spec => []HeldFanIsAccountedFor
<1>1. IInv => HeldFanIsAccountedFor
  <2> SUFFICES ASSUME IInv, mutex = Free, fan.hw # "auto", ~fan.slipped
               PROVE  runtime # "off" \/ told
    BY DEF HeldFanIsAccountedFor
  <2>1. Aims = {"none"}
    BY NoRequest DEF Free, Requester
  <2> QED
    BY <2>1 DEF IInv, HeldInv, Accounted, Released
<1> QED
  BY <1>1, InvariantHolds, PTL
=============================================================================
