---------------------------- MODULE LinuxDaemon ----------------------------
(***************************************************************************)
(* The Linux root daemon (linux_daemon.cpp and the headers it includes):   *)
(* explicit Apply and Reset, the automatic restores at start and after     *)
(* standby, the crash-loop guard, the fan ownership marker and the durable *)
(* state record, with a crash possible between any two effects that        *)
(* outlive the process.                                                    *)
(*                                                                         *)
(* The daemon holds g_lock for a whole request and start-up runs before    *)
(* any other thread exists, so steps of two requests never interleave.     *)
(* What does interleave with every step is the death of the process: a     *)
(* handler is therefore one action per durable effect (a file replaced or  *)
(* removed, a hardware transaction), and "pc" names the next one.  Changes *)
(* of memory only are folded into the effect they accompany.               *)
(***************************************************************************)
EXTENDS Naturals

CONSTANTS
    Gpus,             \* the adapters
    NoGpu,            \* no adapter with a resolved write identity
    Profiles,         \* overclocking settings, fan excluded
    Requests,         \* the settings clients ask for
    StartupPolicies,  \* the startup policies clients store
    MaxStartAttempts, \* LINUX_AUTO_RESTORE_MAX_START_ATTEMPTS
    MaxHandbacks,     \* OWNERSHIP_HANDBACK_MAX_ATTEMPTS
    MaxBoots,         \* bound: boots of the machine
    MaxOps,           \* bound: explicit operations, standby cycles, policy changes
    MaxCrashes,       \* bound: deaths of the daemon other than by reboot
    StoreFaults,      \* a durable write or removal may fail
    DirSyncFaults,    \* ... after the new name is already in the directory
    ReadFaults,       \* a record may be unreadable at start
    BackendFaults,    \* the backend may be unavailable, a GPU unresolved or unreadable
    HardwareFaults    \* a hardware write may fail

FanModes == {"none", "auto", "manual"}
Wants    == [oc : Profiles \cup {"stock"}, fan : FanModes]
Modes    == {"restoreLast", "none", "profile"}

ASSUME GpuAssumption    == NoGpu \notin Gpus
ASSUME ProfileAssumption == Profiles \cap {"stock", "unknown"} = {}
ASSUME RequestAssumption == Requests \subseteq Wants
ASSUME PolicyAssumption ==
    StartupPolicies \subseteq [mode : Modes, gpu : Gpus \cup {NoGpu}, want : Wants]
ASSUME ProfileTargetAssumption ==
    \A p \in StartupPolicies : p.mode = "profile" => p.gpu \in Gpus
ASSUME BoundAssumption ==
    /\ MaxStartAttempts \in Nat \ {0}
    /\ MaxHandbacks \in Nat \ {0}
    /\ MaxBoots \in Nat \ {0}
    /\ MaxOps \in Nat
    /\ MaxCrashes \in Nat
ASSUME FaultAssumption ==
    /\ StoreFaults \in BOOLEAN
    /\ DirSyncFaults \in BOOLEAN
    /\ ReadFaults \in BOOLEAN
    /\ BackendFaults \in BOOLEAN
    /\ HardwareFaults \in BOOLEAN

VARIABLES
    \* The machine.
    boot,      \* the running boot's id
    hw,        \* what each GPU holds: clocks and who drives the fan
    \* /var/lib/greencurve.
    dRec,      \* active.bin: PREPARED, ACTIVE or UNCERTAIN settings, or absent
    dGuard,    \* the automatic-restore guard
    dMarker,   \* the fan ownership marker; boot 0 means absent
    dPolicy,   \* the startup policy
    \* The daemon's memory.
    pc,        \* the next durable effect of the running handler
    op,        \* its locals
    ready,     \* g_gpuReady
    sel,       \* g_gpu.selectedGpu, NoGpu while writeIdentityResolved is false
    active,    \* g_hasActiveDesired, g_activeTarget, g_activeDesired
    uncertain, \* g_stateUncertain
    guard,     \* g_autoRestoreGuard
    mk,        \* g_fanOwnershipMarkerCommitted, HandbackPending, Record
    deferred,  \* g_fanOwnershipHandbackDeferred
    policy,    \* g_startupPolicy
    \* History, read by the properties only.
    startWrites, \* start-time hardware writes since boot, explicit success or clean stop
    deaths,      \* deaths during a fan handback write since the marker was made
    ops, crashes \* counters for the bounds

machine == <<boot, hw>>
disk    == <<dRec, dGuard, dMarker, dPolicy>>
memory  == <<ready, sel, active, uncertain, guard, mk, deferred, policy>>
history == <<startWrites, deaths, ops, crashes>>
vars    == <<machine, disk, pc, op, memory, history>>

-----------------------------------------------------------------------------
(* Values.                                                                 *)

NoWant   == [oc |-> "stock", fan |-> "none"]
NoRecord == [st |-> "absent", gpu |-> NoGpu, want |-> NoWant]
NoMarker == [boot |-> 0, gpu |-> NoGpu, attempts |-> 0]
NoOwner  == [on |-> FALSE, pending |-> FALSE, gpu |-> NoGpu, attempts |-> 0]
NoIntent == [on |-> FALSE, gpu |-> NoGpu, want |-> NoWant]
NoGuard  == [boot |-> 0, locked |-> FALSE, attempts |-> 0]
NoPolicy == [mode |-> "restoreLast", gpu |-> NoGpu, want |-> NoWant]
StockHw  == [oc |-> "stock", fan |-> "auto"]

Record(st, gpu, want) == [st |-> st, gpu |-> gpu, want |-> want]

\* An operation's locals: what was requested, what will be committed, the record
\* captured before PREPARED replaces it, the hardware snapshot, whether the
\* rollback succeeded, and where a fan handback returns to.
Idle == [trig |-> "none", gpu |-> NoGpu, req |-> NoWant, want |-> NoWant,
         cap |-> NoRecord, before |-> StockHw, rolledBack |-> TRUE,
         mutated |-> FALSE, ret |-> "serve"]

ExplicitTriggers  == {"apply", "reset"}
StartTriggers     == {"restoreLast", "profile"}
AutomaticTriggers == StartTriggers \cup {"resume"}

\* linux_auto_restore_trigger_is_start
TriggerIsStart(t) == t \in StartTriggers

-----------------------------------------------------------------------------
(* Durable files.  A store is temp file, fsync, rename, directory fsync: a *)
(* failure leaves the old file, or the new one when only the last step     *)
(* failed.                                                                 *)

StoreOutcomes == IF StoreFaults THEN BOOLEAN ELSE {TRUE}

Replace(old, new, ok) ==
    IF ok THEN {new} ELSE IF DirSyncFaults THEN {old, new} ELSE {old}

ReadOutcomes == IF ReadFaults THEN BOOLEAN ELSE {TRUE}

-----------------------------------------------------------------------------
(* Hardware.  The backend's transactions are seen from outside: they       *)
(* succeed, fail having undone everything, or leave unknown clocks.        *)

HwOutcomes      == IF HardwareFaults THEN BOOLEAN ELSE {TRUE}
BackendOutcomes == IF BackendFaults THEN BOOLEAN ELSE {TRUE}

\* A curve may start in the driver's zero-RPM range, so taking the fan does not
\* always make it manual at once.
FanAfter(fan, want) ==
    CASE want.fan = "manual" -> {"manual", "auto"}
      [] want.fan = "auto"   -> {"auto"}
      [] OTHER               -> {fan}

\* linux_backend_apply
Applied(h, want)  == {[oc |-> want.oc, fan |-> f] : f \in FanAfter(h.fan, want)}
Disturbed(h, want) == {[oc |-> "unknown", fan |-> f] : f \in FanAfter(h.fan, want) \cup {h.fan}}

\* Mutation: manual control ends but the driver's automatic mode is not enabled.
FanLeftToNobody(h) == [h EXCEPT !.fan = "none"]

\* linux_backend_set_fan_auto, then 100% when the driver refuses
FanReturned(h)    == [h EXCEPT !.fan = "auto"]
FanNotReturned(h) == {h, [h EXCEPT !.fan = "max"]}

TakesManualFan(want) == want.fan = "manual"

\* service_merge_desired_after_mutation: a request without a fan keeps the fan
Merge(prev, d) ==
    IF prev.on /\ d.fan = "none" THEN [d EXCEPT !.fan = prev.want.fan] ELSE d

-----------------------------------------------------------------------------
(* Fan ownership (linux_fan_ownership.h).                                  *)

\* daemon_fan_ownership_allows_selected_write
AllowsSelectedWrite(s) == mk.on => mk.gpu = s

FreshMarker(g) == [boot |-> boot, gpu |-> g, attempts |-> 0]

\* Mutation: a marker that could not be stored does not stop the write.
EnsureFailsOpen(g, want, next, abort) ==
    /\ next
    /\ IF ~TakesManualFan(want) \/ (mk.on /\ ~mk.pending)
       THEN UNCHANGED <<dMarker, mk, deaths>>
       ELSE \E ok \in StoreOutcomes :
              /\ dMarker' \in Replace(dMarker, FreshMarker(g), ok)
              /\ mk' = [on |-> TRUE, pending |-> FALSE, gpu |-> g, attempts |-> 0]
              /\ deaths' = IF ok THEN 0 ELSE deaths

\* daemon_fan_ownership_ensure_before_write, on the way to "next"
EnsureBeforeWrite(g, want, next, abort) ==
    IF ~TakesManualFan(want) \/ (mk.on /\ ~mk.pending)
    THEN /\ next
         /\ UNCHANGED <<dMarker, mk, deaths>>
    ELSE \E ok \in StoreOutcomes :
            /\ dMarker' \in Replace(dMarker, FreshMarker(g), ok)
            /\ mk' = IF ok THEN [on |-> TRUE, pending |-> FALSE, gpu |-> g, attempts |-> 0]
                           ELSE mk
            /\ deaths' = IF ok THEN 0 ELSE deaths
            /\ IF ok THEN next ELSE abort

\* daemon_fan_ownership_retire
Retire(s) ==
    IF ~AllowsSelectedWrite(s)
    THEN UNCHANGED <<dMarker, mk>>
    ELSE \E ok \in StoreOutcomes :
            /\ dMarker' \in Replace(dMarker, NoMarker, ok)
            /\ mk' = IF ok THEN NoOwner ELSE mk

\* daemon_enter_uncertain_state: the flag, then the fan back to the driver
EnterUncertain(after) ==
    /\ uncertain' = TRUE
    /\ pc' = IF mk.on /\ ready /\ AllowsSelectedWrite(sel) THEN "release" ELSE after

-----------------------------------------------------------------------------
(* The crash-loop guard (linux_auto_restore_policy.h, _runtime.h).         *)

Locked(g) == [g EXCEPT !.locked = TRUE]

\* Mutation: a reboot clears the lockout with the attempts.
AdoptBootUnlocks(g) == IF g.boot = boot THEN g ELSE [NoGuard EXCEPT !.boot = boot]

\* linux_auto_restore_guard_adopt_boot
AdoptBoot(g) == IF g.boot = boot THEN g ELSE [g EXCEPT !.boot = boot, !.attempts = 0]

\* Mutation: one attempt too many.
DecideLate(trig) ==
    IF guard.locked THEN "lockedOut"
    ELSE IF uncertain THEN "stateUncertain"
    ELSE IF TriggerIsStart(trig) /\ guard.attempts > MaxStartAttempts THEN "exhausted"
    ELSE "allow"

\* linux_auto_restore_decide, without the resume rate limit
Decide(trig) ==
    IF guard.locked THEN "lockedOut"
    ELSE IF uncertain THEN "stateUncertain"
    ELSE IF TriggerIsStart(trig) /\ guard.attempts >= MaxStartAttempts THEN "exhausted"
    ELSE "allow"

\* linux_auto_restore_may_write_after_prepare
MayWriteAfterPrepare(s) ==
    ~guard.locked /\ ~uncertain /\ ~mk.pending /\ AllowsSelectedWrite(s)

\* Mutation: the guard is updated in memory only.
KeepGuardInMemory(g, ok) == UNCHANGED dGuard

\* persist_auto_restore_guard of g, with the outcome
PersistGuard(g, ok) == dGuard' \in Replace(dGuard, g, ok)

\* Where the automatic path continues: a startup profile is followed by the
\* load of the state record, everything else by serving.
AfterAutomatic == IF op.trig = "profile" THEN "loadState" ELSE "serve"

Finish == pc' = "serve" /\ op' = Idle

EndAutomatic == pc' = AfterAutomatic /\ op' = Idle
-----------------------------------------------------------------------------
(* Start-up: linux_daemon_run up to the listener.                          *)

Start ==
    /\ pc = "down"
    /\ pc' = "init"
    /\ UNCHANGED <<machine, disk, op, memory, history>>

\* linux_backend_init and load_auto_restore_guard_at_boot
BootInit ==
    /\ pc = "init"
    /\ \E up \in BackendOutcomes, s \in Gpus \cup {NoGpu} :
          /\ ~up => s = NoGpu
          /\ ready' = up
          /\ sel' = s
    /\ \E readable \in ReadOutcomes :
          guard' = AdoptBoot(IF readable THEN dGuard ELSE Locked(NoGuard))
    /\ pc' = "handback"
    /\ UNCHANGED <<machine, disk, op, active, uncertain, mk, deferred, policy, history>>

\* Mutation: one more death is tolerated.
HandbackVerdictLate ==
    IF dMarker.boot = 0 THEN "noMarker"
    ELSE IF dMarker.boot # boot THEN "discardOtherBoot"
    ELSE IF dMarker.attempts > MaxHandbacks THEN "giveUp"
    ELSE "run"

\* ownership_handback_plan for a marker file that is absent or well formed
HandbackVerdict ==
    IF dMarker.boot = 0 THEN "noMarker"
    ELSE IF dMarker.boot # boot THEN "discardOtherBoot"
    ELSE IF dMarker.attempts >= MaxHandbacks THEN "giveUp"
    ELSE "run"

\* Mutation: inherited ownership is taken for this daemon's own.
OutstandingAsOwned ==
    [on |-> TRUE, pending |-> FALSE, gpu |-> dMarker.gpu, attempts |-> dMarker.attempts]

Outstanding == [on |-> TRUE, pending |-> TRUE, gpu |-> dMarker.gpu, attempts |-> dMarker.attempts]

\* daemon_fan_ownership_handback_at_start
HandbackAtStart ==
    /\ pc = "handback"
    /\ \/ /\ HandbackVerdict = "noMarker"
          /\ pc' = "policy"
          /\ UNCHANGED <<dMarker, dGuard, guard, mk, deferred, op>>
       \/ /\ HandbackVerdict = "discardOtherBoot"
          /\ Retire(sel)
          /\ pc' = "policy"
          /\ UNCHANGED <<dGuard, guard, deferred, op>>
       \/ /\ HandbackVerdict = "giveUp"
          /\ mk' = Outstanding
          /\ guard' = Locked(guard)
          /\ \E ok \in StoreOutcomes : PersistGuard(guard', ok)
          /\ pc' = "policy"
          /\ UNCHANGED <<dMarker, deferred, op>>
       \/ /\ HandbackVerdict = "run"
          /\ mk' = Outstanding
          /\ deferred' = ~ready
          /\ IF ready THEN pc' = "hbRun" /\ op' = [Idle EXCEPT !.ret = "policy"]
                      ELSE pc' = "policy" /\ UNCHANGED op
          /\ UNCHANGED <<dMarker, dGuard, guard>>
    /\ UNCHANGED <<machine, dRec, dPolicy, ready, sel, active, uncertain, policy, history>>

\* daemon_fan_ownership_run_handback, up to the in-flight record
HandbackResolve ==
    /\ pc = "hbRun"
    /\ \/ \* the recorded adapter is unavailable or ambiguous
          /\ BackendFaults
          /\ guard' = Locked(guard)
          /\ \E ok \in StoreOutcomes : PersistGuard(guard', ok)
          /\ pc' = op.ret
          /\ UNCHANGED <<dMarker, mk, sel>>
       \/ /\ sel' = mk.gpu
          /\ \E ok \in StoreOutcomes :
               LET inFlight == [boot |-> boot, gpu |-> mk.gpu, attempts |-> mk.attempts + 1]
               IN  /\ dMarker' \in Replace(dMarker, inFlight, ok)
                   /\ mk' = IF ok THEN [mk EXCEPT !.attempts = @ + 1] ELSE mk
                   /\ pc' = IF ok THEN "hbWrite" ELSE op.ret
          /\ UNCHANGED <<dGuard, guard>>
    /\ UNCHANGED <<machine, dRec, dPolicy, op, ready, active, uncertain, deferred, policy, history>>

\* ... the fan to the driver, or 100% when it refuses
HandbackWrite ==
    /\ pc = "hbWrite"
    /\ \E ok \in HwOutcomes :
         IF ok THEN /\ hw' = [hw EXCEPT ![sel] = FanReturned(@)]
                    /\ pc' = "hbRetire"
               ELSE /\ \E h \in FanNotReturned(hw[sel]) : hw' = [hw EXCEPT ![sel] = h]
                    /\ pc' = "hbRefused"
    /\ UNCHANGED <<boot, disk, op, memory, history>>

HandbackRetire ==
    /\ pc = "hbRetire"
    /\ Retire(sel)
    /\ pc' = op.ret
    /\ UNCHANGED <<machine, dRec, dGuard, dPolicy, op, ready, sel, active, uncertain,
                   guard, deferred, policy, history>>

\* ... a completed refusal no longer counts as a death
HandbackRefused ==
    /\ pc = "hbRefused"
    /\ \E ok \in StoreOutcomes :
         /\ dMarker' \in Replace(dMarker, FreshMarker(mk.gpu), ok)
         /\ deaths' = IF ok THEN 0 ELSE deaths
    /\ pc' = "hbLatch"
    /\ UNCHANGED <<machine, dRec, dGuard, dPolicy, op, memory, startWrites, ops, crashes>>

\* daemon_fan_ownership_latch_incomplete
HandbackLatch ==
    /\ pc = "hbLatch"
    /\ guard' = Locked(guard)
    /\ \E ok \in StoreOutcomes : PersistGuard(guard', ok)
    /\ pc' = op.ret
    /\ UNCHANGED <<machine, dRec, dMarker, dPolicy, op, ready, sel, active, uncertain,
                   mk, deferred, policy, history>>

\* load_startup_policy_at_boot; an unreadable policy applies nothing
LoadStartupPolicy ==
    /\ pc = "policy"
    /\ \E readable \in ReadOutcomes :
         policy' = IF readable THEN dPolicy ELSE [NoPolicy EXCEPT !.mode = "none"]
    /\ IF policy'.mode = "profile"
       THEN /\ pc' = "authorize"
            /\ op' = [Idle EXCEPT !.trig = "profile", !.gpu = policy'.gpu,
                                  !.req = policy'.want, !.want = policy'.want]
       ELSE pc' = "loadState" /\ op' = Idle
    /\ UNCHANGED <<machine, disk, ready, sel, active, uncertain, guard, mk, deferred, history>>

\* The state record decides whether the last intent is replayed
LoadStateRecord ==
    /\ pc = "loadState"
    /\ \E readable \in ReadOutcomes :
         LET replayed == readable /\ dRec.st # "absent" /\ policy.mode = "restoreLast" IN
         /\ uncertain' = (uncertain \/ ~readable \/ (replayed /\ dRec.st # "ACTIVE"))
         /\ IF replayed /\ dRec.st = "ACTIVE"
            THEN /\ pc' = "authorize"
                 /\ op' = [Idle EXCEPT !.trig = "restoreLast", !.gpu = dRec.gpu,
                                       !.req = dRec.want, !.want = dRec.want]
            ELSE Finish
    /\ UNCHANGED <<machine, disk, ready, sel, active, guard, mk, deferred, policy, history>>

-----------------------------------------------------------------------------
(* The one unattended write path: daemon_automatic_restore_write.          *)

\* auto_restore_authorize: a start attempt is on disk before the write
Authorize ==
    /\ pc = "authorize"
    /\ LET verdict == Decide(op.trig) IN
       \/ /\ verdict \in {"lockedOut", "stateUncertain"}
          /\ EndAutomatic
          /\ UNCHANGED <<guard, dGuard>>
       \/ /\ verdict = "exhausted"
          /\ guard' = Locked(guard)
          /\ \E ok \in StoreOutcomes : PersistGuard(guard', ok)
          /\ EndAutomatic
       \/ /\ verdict = "allow" /\ ~TriggerIsStart(op.trig)
          /\ \/ pc' = "prepare" /\ UNCHANGED op
             \/ EndAutomatic    \* linux_auto_restore_resume_budget_spent
          /\ UNCHANGED <<guard, dGuard>>
       \/ /\ verdict = "allow" /\ TriggerIsStart(op.trig)
          /\ \E ok \in StoreOutcomes :
               LET counted == [guard EXCEPT !.attempts = @ + 1] IN
               /\ PersistGuard(counted, ok)
               /\ guard' = IF ok THEN counted ELSE guard
               /\ IF ok THEN pc' = "prepare" /\ UNCHANGED op ELSE EndAutomatic
    /\ UNCHANGED <<machine, dRec, dMarker, dPolicy, ready, sel, active, uncertain, mk,
                   deferred, policy, history>>

\* auto_restore_prepare_backend, the re-initialisation and deferred handback
PrepareBackend ==
    /\ pc = "prepare"
    /\ \/ /\ ready
          /\ pc' = "select"
          /\ UNCHANGED <<op, ready, sel, deferred>>
       \/ /\ ~ready
          /\ EndAutomatic
          /\ UNCHANGED <<ready, sel, deferred>>
       \/ /\ ~ready
          /\ ready' = TRUE
          /\ sel' \in Gpus \cup {NoGpu}
          /\ deferred' = FALSE
          /\ IF deferred /\ mk.on /\ mk.pending
             THEN pc' = "hbRun" /\ op' = [op EXCEPT !.ret = "select"]
             ELSE pc' = "select" /\ UNCHANGED op
    /\ UNCHANGED <<machine, disk, active, uncertain, guard, mk, policy, history>>

\* ... selection, the second authority check, the snapshot and the marker
SelectAndOwn ==
    /\ pc = "select"
    /\ \/ \* the target does not resolve
          /\ BackendFaults
          /\ EndAutomatic
          /\ UNCHANGED <<sel, dMarker, mk, deaths>>
       \/ \* not allowed any more, or the snapshot fails
          /\ BackendFaults \/ ~MayWriteAfterPrepare(op.gpu)
          /\ sel' = op.gpu
          /\ EndAutomatic
          /\ UNCHANGED <<dMarker, mk, deaths>>
       \/ /\ sel' = op.gpu
          /\ MayWriteAfterPrepare(op.gpu)
          /\ EnsureBeforeWrite(op.gpu, op.want,
                               pc' = "autoWrite" /\ op' = [op EXCEPT !.before = hw[op.gpu]],
                               EndAutomatic)
    /\ UNCHANGED <<machine, dRec, dGuard, dPolicy, ready, active, uncertain, guard,
                   deferred, policy, startWrites, ops, crashes>>

\* ... linux_backend_apply
AutoWrite ==
    /\ pc = "autoWrite"
    /\ startWrites' = IF TriggerIsStart(op.trig) THEN startWrites + 1 ELSE startWrites
    /\ \/ /\ \E h \in Applied(hw[sel], op.req) : hw' = [hw EXCEPT ![sel] = h]
          /\ pc' = "autoCommit"
       \/ /\ HardwareFaults
          /\ \E h \in Disturbed(hw[sel], op.req) \cup {hw[sel]} : hw' = [hw EXCEPT ![sel] = h]
          /\ pc' = "autoUncertain"
    /\ UNCHANGED <<boot, disk, op, memory, deaths, ops, crashes>>

\* ... the ACTIVE record, and only then the intent in memory
AutoCommit ==
    /\ pc = "autoCommit"
    /\ \E ok \in StoreOutcomes :
         /\ dRec' \in Replace(dRec, Record("ACTIVE", sel, op.want), ok)
         /\ IF ok
            THEN /\ active' = [on |-> TRUE, gpu |-> sel, want |-> op.want]
                 /\ uncertain' = FALSE
                 /\ IF op.want.fan = "auto" THEN pc' = "autoRetire" /\ UNCHANGED op
                                            ELSE EndAutomatic
            ELSE /\ pc' = "autoRollback"
                 /\ UNCHANGED <<active, uncertain, op>>
    /\ UNCHANGED <<machine, dGuard, dMarker, dPolicy, ready, sel, guard, mk, deferred,
                   policy, history>>

AutoRetire ==
    /\ pc = "autoRetire"
    /\ Retire(sel)
    /\ EndAutomatic
    /\ UNCHANGED <<machine, dRec, dGuard, dPolicy, ready, sel, active, uncertain, guard,
                   deferred, policy, history>>

\* linux_backend_restore_snapshot: what was there before, or unknown clocks
Rollback(next) ==
    \E ok \in HwOutcomes :
        /\ IF ok THEN hw' = [hw EXCEPT ![sel] = op.before]
                 ELSE \E f \in {hw[sel].fan, op.before.fan} :
                         hw' = [hw EXCEPT ![sel] = [oc |-> "unknown", fan |-> f]]
        /\ op' = [op EXCEPT !.rolledBack = ok]
        /\ pc' = next

AutoRollback ==
    /\ pc = "autoRollback"
    /\ Rollback("autoUncertain")
    /\ UNCHANGED <<boot, disk, memory, history>>

\* ... the UNCERTAIN record and the uncertain state, stored or not
AutoUncertain ==
    /\ pc = "autoUncertain"
    /\ \E ok \in StoreOutcomes : dRec' \in Replace(dRec, Record("UNCERTAIN", sel, op.want), ok)
    /\ EnterUncertain("noteFailure")
    /\ UNCHANGED <<machine, dGuard, dMarker, dPolicy, op, ready, sel, active, guard, mk,
                   deferred, policy, history>>

\* auto_restore_note_automatic_failure
NoteAutomaticFailure ==
    /\ pc = "noteFailure"
    /\ IF guard.locked
       THEN UNCHANGED <<guard, dGuard>>
       ELSE /\ guard' = Locked(guard)
            /\ \E ok \in StoreOutcomes : PersistGuard(guard', ok)
    /\ EndAutomatic
    /\ UNCHANGED <<machine, dRec, dMarker, dPolicy, ready, sel, active, uncertain, mk,
                   deferred, policy, history>>
-----------------------------------------------------------------------------
(* Explicit Apply and Reset (handle_request).                              *)

\* select_request_gpu: one GPU at a time has an active intent
MaySelect(g) == active.on => active.gpu = g

Aborted == pc' = "serve" /\ op' = Idle

\* capture_uncertain_record: nothing to capture unless the state is uncertain
Captured == IF uncertain THEN dRec ELSE NoRecord

\* The checks and the marker, all before the first hardware write
ApplyBegin(g, d) ==
    /\ pc = "serve" /\ ready /\ ops < MaxOps
    /\ MaySelect(g)
    /\ sel' = g
    /\ ops' = ops + 1
    /\ \/ \* the record or the hardware cannot be read, or the marker is another GPU's
          /\ BackendFaults \/ ReadFaults \/ ~AllowsSelectedWrite(g)
          /\ Aborted
          /\ UNCHANGED <<dMarker, mk, deaths>>
       \/ /\ AllowsSelectedWrite(g)
          /\ EnsureBeforeWrite(g, Merge(active, d),
               /\ pc' = "prepared"
               /\ op' = [Idle EXCEPT !.trig = "apply", !.gpu = g, !.req = d,
                                     !.want = Merge(active, d), !.cap = Captured,
                                     !.before = hw[g]],
               Aborted)
    /\ UNCHANGED <<machine, dRec, dGuard, dPolicy, ready, active, uncertain, guard,
                   deferred, policy, startWrites, crashes>>

ResetBegin(g) ==
    /\ pc = "serve" /\ ready /\ ops < MaxOps
    /\ MaySelect(g)
    /\ sel' = g
    /\ ops' = ops + 1
    /\ \/ /\ BackendFaults \/ ReadFaults \/ ~AllowsSelectedWrite(g)
          /\ Aborted
       \/ /\ AllowsSelectedWrite(g)
          /\ pc' = "prepared"
          /\ op' = [Idle EXCEPT !.trig = "reset", !.gpu = g, !.cap = Captured,
                                !.before = hw[g]]
    /\ UNCHANGED <<machine, disk, ready, active, uncertain, guard, mk, deferred, policy,
                   startWrites, deaths, crashes>>

\* The PREPARED record says a write may be under way
StorePrepared ==
    /\ pc = "prepared"
    /\ \E ok \in StoreOutcomes :
         /\ dRec' \in Replace(dRec, Record("PREPARED", op.gpu, op.want), ok)
         /\ IF ok THEN pc' = "mutate" /\ UNCHANGED op ELSE Aborted
    /\ UNCHANGED <<machine, dGuard, dMarker, dPolicy, memory, history>>

\* linux_backend_apply, linux_backend_reset
Mutate ==
    /\ pc = "mutate"
    /\ LET after == IF op.trig = "apply" THEN Applied(hw[sel], op.req) ELSE {StockHw}
           goal  == IF op.trig = "apply" THEN op.req ELSE [NoWant EXCEPT !.fan = "auto"] IN
       \/ /\ \E h \in after : hw' = [hw EXCEPT ![sel] = h]
          /\ pc' = "commit"
          /\ op' = [op EXCEPT !.mutated = TRUE]
       \/ \* nothing written, or everything undone
          /\ HardwareFaults
          /\ pc' = "restoreRecord"
          /\ UNCHANGED <<hw, op>>
       \/ \* the rollback failed too
          /\ HardwareFaults
          /\ \E h \in Disturbed(hw[sel], goal) : hw' = [hw EXCEPT ![sel] = h]
          /\ pc' = "storeUncertain"
          /\ UNCHANGED op
    /\ UNCHANGED <<boot, disk, memory, history>>

\* Apply commits by storing ACTIVE, Reset by removing the record
Commit ==
    /\ pc = "commit"
    /\ \E ok \in StoreOutcomes :
         LET rec == IF op.trig = "apply" THEN Record("ACTIVE", sel, op.want) ELSE NoRecord IN
         /\ dRec' \in Replace(dRec, rec, ok)
         /\ IF ok
            THEN /\ active' = IF op.trig = "apply"
                               THEN [on |-> TRUE, gpu |-> sel, want |-> op.want]
                               ELSE NoIntent
                 /\ uncertain' = FALSE
                 /\ pc' = IF op.trig = "reset" \/ (mk.on /\ op.req.fan = "auto")
                          THEN "retire" ELSE "noteSuccess"
            ELSE /\ pc' = "rollback"
                 /\ UNCHANGED <<active, uncertain>>
    /\ UNCHANGED <<machine, dGuard, dMarker, dPolicy, op, ready, sel, guard, mk, deferred,
                   policy, history>>

RetireMarker ==
    /\ pc = "retire"
    /\ Retire(sel)
    /\ pc' = "noteSuccess"
    /\ UNCHANGED <<machine, dRec, dGuard, dPolicy, op, ready, sel, active, uncertain,
                   guard, deferred, policy, history>>

\* auto_restore_note_explicit_success: the guard is cleared only durably, and
\* not while a fan handback is outstanding
NoteExplicitSuccess ==
    /\ pc = "noteSuccess"
    /\ startWrites' = 0
    /\ IF mk.pending \/ (~guard.locked /\ guard.attempts = 0)
       THEN UNCHANGED <<guard, dGuard>>
       ELSE \E ok \in StoreOutcomes :
              LET cleared == [guard EXCEPT !.locked = FALSE, !.attempts = 0] IN
              /\ PersistGuard(cleared, ok)
              /\ guard' = IF ok THEN cleared ELSE guard
    /\ Finish
    /\ UNCHANGED <<machine, dRec, dMarker, dPolicy, ready, sel, active, uncertain, mk,
                   deferred, policy, deaths, ops, crashes>>

RollbackMutation ==
    /\ pc = "rollback"
    /\ Rollback("restoreRecord")
    /\ UNCHANGED <<boot, disk, memory, history>>

\* Mutation: the failed request is put back as the committed one.
PreviousRecordIsTheRequest ==
    IF uncertain /\ op.cap.st # "absent" THEN [op.cap EXCEPT !.st = "UNCERTAIN"]
    ELSE IF uncertain THEN Record("UNCERTAIN", sel, active.want)
    ELSE IF active.on THEN Record("ACTIVE", active.gpu, op.want)
    ELSE NoRecord

\* Mutation: the last intent is rewritten as ACTIVE whatever is known of the GPU.
PreviousRecordAlwaysActive ==
    IF active.on THEN Record("ACTIVE", active.gpu, active.want) ELSE NoRecord

\* linux_failed_operation_record and restore_committed_record
PreviousRecord ==
    IF uncertain /\ op.cap.st # "absent" THEN [op.cap EXCEPT !.st = "UNCERTAIN"]
    ELSE IF uncertain THEN Record("UNCERTAIN", IF active.on THEN active.gpu ELSE sel, active.want)
    ELSE IF active.on THEN Record("ACTIVE", active.gpu, active.want)
    ELSE NoRecord

\* Mutation: the rollback's result is not looked at.
LeavesUncertainIfUnrecorded(recordOk) == uncertain \/ ~recordOk

\* linux_failed_operation_leaves_uncertain
LeavesUncertain(recordOk) == uncertain \/ ~op.rolledBack \/ ~recordOk

\* After a failed mutation an uncertain state is entered when the record could
\* not be put back; after a failed commit also when the rollback failed or the
\* state was uncertain before, with a last UNCERTAIN store on the Apply path.
RestoreRecord ==
    /\ pc = "restoreRecord"
    /\ \E ok \in StoreOutcomes :
         /\ dRec' \in Replace(dRec, PreviousRecord, ok)
         /\ IF \/ ~op.mutated /\ ~ok
               \/ op.mutated /\ op.trig = "apply" /\ ~(op.rolledBack /\ ok)
            THEN pc' = "storeUncertain" /\ UNCHANGED <<uncertain, op>>
            ELSE IF op.mutated /\ LeavesUncertain(ok)
            THEN EnterUncertain("serve") /\ op' = Idle
            ELSE Finish /\ UNCHANGED uncertain
    /\ UNCHANGED <<machine, dGuard, dMarker, dPolicy, ready, sel, active, guard, mk,
                   deferred, policy, history>>

StoreUncertain ==
    /\ pc = "storeUncertain"
    /\ \E ok \in StoreOutcomes : dRec' \in Replace(dRec, Record("UNCERTAIN", sel, op.want), ok)
    /\ EnterUncertain("serve")
    /\ op' = Idle
    /\ UNCHANGED <<machine, dGuard, dMarker, dPolicy, ready, sel, active, guard, mk,
                   deferred, policy, history>>

-----------------------------------------------------------------------------
(* Returning the fan on the way into the uncertain state:                  *)
(* daemon_fan_ownership_release_for_uncertain.                             *)

AfterRelease == IF op.trig \in AutomaticTriggers THEN "noteFailure" ELSE "serve"

ReleaseFan ==
    /\ pc = "release"
    /\ \E ok \in HwOutcomes :
         IF ok THEN /\ hw' = [hw EXCEPT ![sel] = FanReturned(@)]
                    /\ pc' = "releaseRetire"
               ELSE /\ \E h \in FanNotReturned(hw[sel]) : hw' = [hw EXCEPT ![sel] = h]
                    /\ pc' = AfterRelease
    /\ UNCHANGED <<boot, disk, op, memory, history>>

ReleaseRetire ==
    /\ pc = "releaseRetire"
    /\ Retire(sel)
    /\ pc' = AfterRelease
    /\ UNCHANGED <<machine, dRec, dGuard, dPolicy, op, ready, sel, active, uncertain,
                   guard, deferred, policy, history>>
-----------------------------------------------------------------------------
(* Everything else the serving daemon does.                                *)

\* daemon_handle_resume_restore: without an active intent there is nothing to do
ResumeRestore ==
    /\ pc = "serve" /\ active.on /\ ops < MaxOps
    /\ ops' = ops + 1
    /\ pc' = "authorize"
    /\ op' = [Idle EXCEPT !.trig = "resume", !.gpu = active.gpu,
                          !.req = active.want, !.want = active.want]
    /\ UNCHANGED <<machine, disk, memory, startWrites, deaths, crashes>>

\* daemon_handle_set_startup_policy: memory follows the file
SetStartupPolicy(p) ==
    /\ pc = "serve" /\ ops < MaxOps
    /\ ops' = ops + 1
    /\ \E ok \in StoreOutcomes :
         /\ dPolicy' \in Replace(dPolicy, p, ok)
         /\ policy' = IF ok THEN p ELSE policy
    /\ UNCHANGED <<machine, dRec, dGuard, dMarker, pc, op, ready, sel, active, uncertain,
                   guard, mk, deferred, startWrites, deaths, crashes>>

\* A read that names a GPU selects it; one that names none may find the backend
\* (daemon_retry_backend_for_read).  Neither writes.
TargetedRead(g) ==
    /\ pc = "serve"
    /\ MaySelect(g)
    /\ <<ready, sel>> # <<TRUE, g>>
    /\ ready' = TRUE
    /\ sel' = g
    /\ UNCHANGED <<machine, disk, pc, op, active, uncertain, guard, mk, deferred, policy,
                   history>>

UntargetedRead ==
    /\ pc = "serve" /\ ~ready
    /\ ready' = TRUE
    /\ sel' \in Gpus \cup {NoGpu}
    /\ UNCHANGED <<machine, disk, pc, op, active, uncertain, guard, mk, deferred, policy,
                   history>>

\* The fan worker's first duty: daemon_fan_ownership_resume_deferred_handback
ResumeDeferredHandback ==
    /\ pc = "serve" /\ deferred /\ ready
    /\ deferred' = FALSE
    /\ IF mk.on /\ mk.pending THEN pc' = "hbRun" /\ op' = [Idle EXCEPT !.ret = "serve"]
                              ELSE UNCHANGED <<pc, op>>
    /\ UNCHANGED <<machine, disk, ready, sel, active, uncertain, guard, mk, policy, history>>

\* The condition under which fan_reassert_thread maintains the fan
FanWorkerActive ==
    ready /\ active.on /\ ~uncertain /\ active.gpu = sel /\ TakesManualFan(active.want)

\* A curve point written, or the driver's zero-RPM range entered
FanMaintain ==
    /\ pc = "serve" /\ FanWorkerActive
    /\ \E f \in {"manual", "auto"} \ {hw[sel].fan} : hw' = [hw EXCEPT ![sel].fan = f]
    /\ UNCHANGED <<boot, disk, pc, op, memory, history>>

\* Three failures in a row: the driver, then UNCERTAIN, then 100%, then the marker
FanLockout ==
    /\ pc = "serve" /\ FanWorkerActive /\ HardwareFaults
    /\ \/ /\ hw' = [hw EXCEPT ![sel] = FanReturned(@)]
          /\ pc' = "fanReturned"
       \/ /\ UNCHANGED hw
          /\ pc' = "fanRefused"
    /\ UNCHANGED <<boot, disk, op, memory, history>>

FanLockoutRecord ==
    /\ pc \in {"fanReturned", "fanRefused"}
    /\ \E ok \in StoreOutcomes :
         dRec' \in Replace(dRec, Record("UNCERTAIN", active.gpu, active.want), ok)
    /\ uncertain' = TRUE
    /\ IF pc = "fanReturned"
       THEN /\ pc' = IF mk.on THEN "releaseRetire" ELSE "serve"
            /\ UNCHANGED hw
       ELSE /\ pc' = "serve"
            /\ \E h \in FanNotReturned(hw[sel]) : hw' = [hw EXCEPT ![sel] = h]
    /\ UNCHANGED <<boot, dGuard, dMarker, dPolicy, op, ready, sel, active, guard, mk,
                   deferred, policy, history>>

-----------------------------------------------------------------------------
(* The daemon stops, dies, or the machine does.                            *)

ResetMemory ==
    /\ pc' = "down" /\ op' = Idle
    /\ ready' = FALSE /\ sel' = NoGpu
    /\ active' = NoIntent /\ uncertain' = FALSE
    /\ guard' = NoGuard /\ mk' = NoOwner /\ deferred' = FALSE
    /\ policy' = NoPolicy

\* An orderly stop: clear_auto_restore_attempts_on_clean_stop when the exit
\* status is 0, then the fan
Stop(clean) ==
    /\ pc = "serve" /\ crashes < MaxCrashes
    /\ crashes' = crashes + 1
    /\ IF clean /\ guard.attempts > 0
       THEN /\ guard' = [guard EXCEPT !.attempts = 0]
            /\ \E ok \in StoreOutcomes : PersistGuard(guard', ok)
            /\ startWrites' = 0
       ELSE /\ startWrites' = IF clean THEN 0 ELSE startWrites
            /\ UNCHANGED <<guard, dGuard>>
    /\ pc' = "stopping"
    /\ UNCHANGED <<machine, dRec, dMarker, dPolicy, op, ready, sel, active, uncertain, mk,
                   deferred, policy, deaths, ops>>

\* daemon_release_fan_to_driver
ReleaseAtStop ==
    /\ pc = "stopping"
    /\ IF /\ ready
          /\ (active.on /\ TakesManualFan(active.want)) \/ (mk.on /\ ~mk.pending)
          /\ AllowsSelectedWrite(sel)
          /\ sel # NoGpu
       THEN \E ok \in HwOutcomes :
              IF ok THEN /\ hw' = [hw EXCEPT ![sel] = FanReturned(@)]
                         /\ pc' = "stopRetire"
                    ELSE /\ \E h \in FanNotReturned(hw[sel]) : hw' = [hw EXCEPT ![sel] = h]
                         /\ pc' = "stopped"
       ELSE pc' = "stopped" /\ UNCHANGED hw
    /\ UNCHANGED <<boot, disk, op, memory, history>>

RetireAtStop ==
    /\ pc = "stopRetire"
    /\ Retire(sel)
    /\ pc' = "stopped"
    /\ UNCHANGED <<machine, dRec, dGuard, dPolicy, op, ready, sel, active, uncertain, guard,
                   deferred, policy, history>>

Exit ==
    /\ pc = "stopped"
    /\ ResetMemory
    /\ UNCHANGED <<machine, disk, history>>

\* A crash, SIGKILL or OOM kill, between any two effects
Crash ==
    /\ pc # "down" /\ crashes < MaxCrashes
    /\ crashes' = crashes + 1
    /\ deaths' = IF pc = "hbWrite" THEN deaths + 1 ELSE deaths
    /\ ResetMemory
    /\ UNCHANGED <<machine, disk, startWrites, ops>>

\* The driver starts from its defaults
Reboot ==
    /\ boot < MaxBoots
    /\ boot' = boot + 1
    /\ hw' = [g \in Gpus |-> StockHw]
    /\ startWrites' = 0
    /\ deaths' = 0
    /\ ResetMemory
    /\ UNCHANGED <<disk, ops, crashes>>

\* Standby may lose what the GPU held
Standby ==
    /\ pc = "serve" /\ ops < MaxOps
    /\ ops' = ops + 1
    /\ hw' = [g \in Gpus |-> StockHw]
    /\ UNCHANGED <<boot, disk, pc, op, memory, startWrites, deaths, crashes>>

-----------------------------------------------------------------------------
Init ==
    /\ boot = 1
    /\ hw = [g \in Gpus |-> StockHw]
    /\ dRec = NoRecord
    /\ dGuard = NoGuard
    /\ dMarker = NoMarker
    /\ dPolicy = NoPolicy
    /\ pc = "down"
    /\ op = Idle
    /\ ready = FALSE
    /\ sel = NoGpu
    /\ active = NoIntent
    /\ uncertain = FALSE
    /\ guard = NoGuard
    /\ mk = NoOwner
    /\ deferred = FALSE
    /\ policy = NoPolicy
    /\ startWrites = 0
    /\ deaths = 0
    /\ ops = 0
    /\ crashes = 0

StartUp == Start \/ BootInit \/ HandbackAtStart \/ LoadStartupPolicy \/ LoadStateRecord

Handback == HandbackResolve \/ HandbackWrite \/ HandbackRetire \/ HandbackRefused \/ HandbackLatch

AutomaticRestore ==
    \/ Authorize \/ PrepareBackend \/ SelectAndOwn \/ AutoWrite \/ AutoCommit
    \/ AutoRetire \/ AutoRollback \/ AutoUncertain \/ NoteAutomaticFailure

ExplicitOperation ==
    \/ StorePrepared \/ Mutate \/ Commit \/ RetireMarker \/ NoteExplicitSuccess
    \/ RollbackMutation \/ RestoreRecord \/ StoreUncertain

ReleaseForUncertain == ReleaseFan \/ ReleaseRetire

Requested ==
    \/ \E g \in Gpus : (\E d \in Requests : ApplyBegin(g, d)) \/ ResetBegin(g) \/ TargetedRead(g)
    \/ \E p \in StartupPolicies : SetStartupPolicy(p)
    \/ ResumeRestore \/ UntargetedRead

FanWorker == ResumeDeferredHandback \/ FanMaintain \/ FanLockout \/ FanLockoutRecord

Stopping == (\E clean \in BOOLEAN : Stop(clean)) \/ ReleaseAtStop \/ RetireAtStop \/ Exit

Environment == Crash \/ Reboot \/ Standby

Next ==
    \/ StartUp \/ Handback \/ AutomaticRestore \/ ExplicitOperation
    \/ ReleaseForUncertain \/ Requested \/ FanWorker \/ Stopping \/ Environment

Spec == Init /\ [][Next]_vars

\* A handler that has begun runs to its end unless the process dies, and the fan
\* worker, woken when the backend becomes ready, gets the lock.
HandlerStep ==
    \/ BootInit \/ HandbackAtStart \/ LoadStartupPolicy \/ LoadStateRecord
    \/ Handback \/ AutomaticRestore \/ ExplicitOperation \/ ReleaseForUncertain
    \/ FanLockoutRecord \/ ReleaseAtStop \/ RetireAtStop \/ Exit

Fairness == WF_vars(HandlerStep) /\ WF_vars(ResumeDeferredHandback)

FairSpec == Spec /\ Fairness

-----------------------------------------------------------------------------
(* Properties.                                                             *)

Pcs == {"down", "init", "handback", "hbRun", "hbWrite", "hbRetire", "hbRefused", "hbLatch",
        "policy", "loadState", "authorize", "prepare", "select", "autoWrite", "autoCommit",
        "autoRetire", "autoRollback", "autoUncertain", "noteFailure", "serve", "prepared",
        "mutate", "commit", "retire", "noteSuccess", "rollback", "restoreRecord",
        "storeUncertain", "release", "releaseRetire", "fanReturned", "fanRefused",
        "stopping", "stopRetire", "stopped"}
Hardware == [oc : Profiles \cup {"stock", "unknown"}, fan : {"auto", "manual", "max"}]
Records  == [st : {"absent", "PREPARED", "ACTIVE", "UNCERTAIN"}, gpu : Gpus \cup {NoGpu}, want : Wants]
Guards   == [boot : Nat, locked : BOOLEAN, attempts : Nat]
Markers  == [boot : Nat, gpu : Gpus \cup {NoGpu}, attempts : Nat]
Owners   == [on : BOOLEAN, pending : BOOLEAN, gpu : Gpus \cup {NoGpu}, attempts : Nat]
Intents  == [on : BOOLEAN, gpu : Gpus \cup {NoGpu}, want : Wants]
Policies == [mode : Modes, gpu : Gpus \cup {NoGpu}, want : Wants]
Locals   == [trig : ExplicitTriggers \cup AutomaticTriggers \cup {"none"},
             gpu : Gpus \cup {NoGpu}, req : Wants, want : Wants, cap : Records,
             before : Hardware, rolledBack : BOOLEAN, mutated : BOOLEAN,
             ret : {"serve", "policy", "select"}]

\* The values every variable ranges over.
TypeOK ==
    /\ boot \in Nat \ {0}
    /\ hw \in [Gpus -> Hardware]
    /\ dRec \in Records
    /\ dGuard \in Guards
    /\ dMarker \in Markers
    /\ dPolicy \in Policies
    /\ pc \in Pcs
    /\ op \in Locals
    /\ ready \in BOOLEAN
    /\ sel \in Gpus \cup {NoGpu}
    /\ active \in Intents
    /\ uncertain \in BOOLEAN
    /\ guard \in Guards
    /\ mk \in Owners
    /\ deferred \in BOOLEAN
    /\ policy \in Policies
    /\ startWrites \in Nat
    /\ deaths \in Nat
    /\ ops \in Nat
    /\ crashes \in Nat

\* A fan that Green Curve holds at a fixed duty is named by a marker of the
\* running boot, so that whichever step the daemon dies at, the next start finds
\* it (daemon_fan_ownership_ensure_before_write, _retire).
ManualFanIsRecorded ==
    \A g \in Gpus : hw[g].fan = "manual" => dMarker.boot = boot /\ dMarker.gpu = g

\* However often the daemon dies and is restarted, a boot sees at most
\* MaxStartAttempts start-time writes until a user operation succeeds or the
\* daemon stops in order (auto_restore_authorize counts before it writes).
StartWritesBounded == startWrites <= MaxStartAttempts

\* At most MaxHandbacks deaths in the middle of a fan handback write, then the
\* daemon gives up (ownership_handback_plan and the in-flight marker).
HandbackDeathsBounded == deaths <= MaxHandbacks

\* When an unattended write reaches the hardware, the guard on disk, which is
\* what a restart will read, is not locked and already counts the attempt.
AutomaticWriteIsDurablyAuthorized ==
    pc = "autoWrite" =>
        /\ ~dGuard.locked
        /\ TriggerIsStart(op.trig) => dGuard.attempts > startWrites

\* An intent the daemon publishes as settled is on the GPU, or standby took it:
\* no failed rollback, commit or fan lockout is ever forgotten
\* (linux_failed_operation_leaves_uncertain and its callers).
SettledIntentIsOnHardware ==
    pc = "serve" /\ active.on /\ ~uncertain => hw[active.gpu].oc \in {active.want.oc, "stock"}

\* A restart never replays settings other than the ones last committed: while the
\* daemon serves an intent, an ACTIVE record on disk is that intent.
ReplayedIntentIsTheCommittedOne ==
    pc = "serve" /\ active.on /\ dRec.st = "ACTIVE" => dRec = Record("ACTIVE", active.gpu, active.want)

\* Once an uncertain outcome has been reported, a restart does not write over it:
\* the record on disk is not ACTIVE, or the guard on disk is locked.
UncertaintyIsDurable ==
    pc = "serve" /\ uncertain => dRec.st # "ACTIVE" \/ dGuard.locked

\* Only a successful Apply or Reset unlocks the guard on disk, across restarts
\* and reboots (auto_restore_note_explicit_success).
LockoutNeedsUser == [][dGuard.locked /\ ~dGuard'.locked => pc = "noteSuccess"]_vars

\* A failed Apply or Reset that ends in the uncertain state leaves no ACTIVE
\* record behind for the next start to replay.
FailedOperationIsNotReplayable ==
    [][(pc \in {"restoreRecord", "storeUncertain"} /\ uncertain') => dRec'.st # "ACTIVE"]_vars

\* A start-time write never runs over a record that says a write or a rollback
\* did not settle.
StartWriteSeesSettledRecord ==
    pc = "autoWrite" /\ TriggerIsStart(op.trig) => dRec.st \notin {"PREPARED", "UNCERTAIN"}

\* A manual fan does not stay without anybody tracking the temperature: a running
\* daemon with a backend returns it, drives it, or has latched the lockout that
\* tells the user to Reset.
StrandedFanIsResolved ==
    \A g \in Gpus :
        (pc # "down" /\ ready /\ hw[g].fan = "manual")
            ~> (\/ pc = "down" \/ hw[g].fan # "manual" \/ guard.locked
                \/ FanWorkerActive /\ active.gpu = g)

=============================================================================
