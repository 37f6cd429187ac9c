------------------------- MODULE LinuxDaemonProofs -------------------------
(***************************************************************************)
(* Theorems about LinuxDaemon for every set of adapters and every bound:   *)
(* its type invariant; what the crash-loop guard promises, namely that     *)
(* start-time writes are bounded, that every unattended write was          *)
(* authorised on disk before it, and that only the user unlocks the guard; *)
(* and that the state record, the intent in memory and the GPU agree.  Two *)
(* of the theorems exclude faults of the stores; the others hold for every *)
(* combination of faults.                                                  *)
(*                                                                         *)
(* The type invariant needs Targeted (an automatic handler knows its       *)
(* adapter), because a write to sel = NoGpu would leave the function hw.   *)
(* The guard's theorems need GuardInv, which relates the three places a    *)
(* start attempt is counted: the guard in memory, the guard on disk, and   *)
(* the writes that really happened.  The last three need what holds in the *)
(* middle of a handler: ActiveIsCommitted of the record, UncertainIsStored *)
(* of the outcome, IntentHeld of the clocks.                               *)
(***************************************************************************)
EXTENDS LinuxDaemon, TLAPS

-----------------------------------------------------------------------------
(* What the helpers preserve.                                              *)

\* The values Init and the resets of memory use are of their types: a daemon that
\* starts, finishes a request or loses its memory is in a well-typed state.
LEMMA InitialValues ==
    /\ NoWant \in Wants /\ NoRecord \in Records /\ NoMarker \in Markers
    /\ NoOwner \in Owners /\ NoIntent \in Intents /\ NoGuard \in Guards
    /\ NoPolicy \in Policies /\ StockHw \in Hardware /\ Idle \in Locals
BY DEF NoWant, NoRecord, NoMarker, NoOwner, NoIntent, NoGuard, NoPolicy, StockHw, Idle,
       Wants, FanModes, Records, Markers, Owners, Intents, Guards, Policies, Modes,
       Hardware, Locals

\* Every record a handler builds for active.bin is a well-formed state record.
LEMMA RecordType ==
    ASSUME NEW st \in {"PREPARED", "ACTIVE", "UNCERTAIN"}, NEW g \in Gpus \cup {NoGpu},
           NEW w \in Wants
    PROVE  Record(st, g, w) \in Records
BY DEF Record, Records

\* A durable replacement that fails at any point leaves the old file or the new
\* one, so whatever both are, the file still is.
LEMMA ReplaceType ==
    ASSUME NEW S, NEW old \in S, NEW new \in S, NEW ok, NEW x \in Replace(old, new, ok)
    PROVE  x \in S
BY DEF Replace

\* A handler's updates of its own locals (the snapshot, the rollback's result,
\* the mutation flag, where a handback returns to) keep them well typed.
LEMMA LocalsUpdate ==
    ASSUME NEW o \in Locals
    PROVE  /\ \A h \in Hardware : [o EXCEPT !.before = h] \in Locals
           /\ \A b \in BOOLEAN : [o EXCEPT !.rolledBack = b] \in Locals
           /\ \A r \in {"serve", "policy", "select"} : [o EXCEPT !.ret = r] \in Locals
           /\ [o EXCEPT !.mutated = TRUE] \in Locals
           /\ o.gpu \in Gpus \cup {NoGpu} /\ o.req \in Wants /\ o.want \in Wants
           /\ o.cap \in Records /\ o.before \in Hardware /\ o.ret \in Pcs
BY DEF Locals, Pcs

\* The locals an automatic restore starts from, for any trigger, adapter and
\* settings.
LEMMA RestoreLocals ==
    ASSUME NEW t \in AutomaticTriggers, NEW g \in Gpus \cup {NoGpu}, NEW w \in Wants
    PROVE  [Idle EXCEPT !.trig = t, !.gpu = g, !.req = w, !.want = w] \in Locals
BY InitialValues DEF Idle, Locals

\* daemon_fan_ownership_retire leaves a well-formed marker, or none, on disk and
\* in memory.
LEMMA RetireType ==
    ASSUME TypeOK, NEW s, Retire(s)
    PROVE  dMarker' \in Markers /\ mk' \in Owners
BY InitialValues, ReplaceType DEF TypeOK, Retire

\* Every change the daemon makes to the crash-loop guard (lock, count, clear,
\* adopt the running boot) gives a well-formed guard.
LEMMA GuardUpdate ==
    ASSUME NEW g \in Guards, boot \in Nat
    PROVE  /\ Locked(g) \in Guards
           /\ [g EXCEPT !.attempts = @ + 1] \in Guards
           /\ [g EXCEPT !.attempts = 0] \in Guards
           /\ [g EXCEPT !.locked = FALSE, !.attempts = 0] \in Guards
           /\ AdoptBoot(g) \in Guards
<1>1. Locked(g) \in Guards
  BY DEF Locked, Guards
<1>2. AdoptBoot(g) \in Guards
  BY DEF AdoptBoot, Guards
<1>3. [g EXCEPT !.attempts = @ + 1] \in Guards /\ [g EXCEPT !.attempts = 0] \in Guards
  BY DEF Guards
<1>4. [g EXCEPT !.locked = FALSE, !.attempts = 0] \in Guards
  BY DEF Guards
<1> QED
  BY <1>1, <1>2, <1>3, <1>4

\* daemon_fan_ownership_ensure_before_write leaves a well-formed marker, whether
\* the store succeeds or not.
LEMMA EnsureType ==
    ASSUME TypeOK, NEW g \in Gpus \cup {NoGpu}, NEW w,
           EnsureBeforeWrite(g, w, TRUE, TRUE)
    PROVE  dMarker' \in Markers /\ mk' \in Owners /\ deaths' \in Nat
<1>1. FreshMarker(g) \in Markers
  BY DEF FreshMarker, TypeOK, Markers
<1>2. dMarker' \in Markers
  BY <1>1, ReplaceType DEF TypeOK, EnsureBeforeWrite
<1>3. [on |-> TRUE, pending |-> FALSE, gpu |-> g, attempts |-> 0] \in Owners
  BY DEF Owners
<1>4. mk' \in Owners
  BY <1>3 DEF TypeOK, EnsureBeforeWrite
<1>5. deaths' \in Nat
  BY DEF TypeOK, EnsureBeforeWrite
<1> QED
  BY <1>2, <1>4, <1>5

\* persist_auto_restore_guard leaves a well-formed guard on disk.
LEMMA PersistType ==
    ASSUME TypeOK, NEW g \in Guards, NEW ok, PersistGuard(g, ok)
    PROVE  dGuard' \in Guards
BY ReplaceType DEF TypeOK, PersistGuard

\* What a hardware transaction can leave behind, successful or not, is a state
\* of the GPU the model knows.
LEMMA FanTypes ==
    ASSUME NEW h \in Hardware
    PROVE  /\ FanReturned(h) \in Hardware
           /\ FanNotReturned(h) \subseteq Hardware
           /\ \A w \in Wants : /\ Applied(h, w) \subseteq Hardware
                             /\ Disturbed(h, w) \subseteq Hardware
BY DEF FanReturned, FanNotReturned, Applied, Disturbed, FanAfter, Hardware, Wants, FanModes

\* A write to one adapter leaves every adapter with a known kind of state; a
\* write to no adapter changes none.
LEMMA HwUpdate ==
    ASSUME hw \in [Gpus -> Hardware], NEW s, NEW h, s \in Gpus => h \in Hardware
    PROVE  [hw EXCEPT ![s] = h] \in [Gpus -> Hardware]
OBVIOUS

\* linux_backend_restore_snapshot, complete or not, leaves a known kind of state
\* and continues at the step the caller names.
LEMMA RollbackType ==
    ASSUME TypeOK, NEW next, Rollback(next)
    PROVE  hw' \in [Gpus -> Hardware] /\ op' \in Locals /\ pc' = next
<1>1. op.before \in Hardware
  BY LocalsUpdate DEF TypeOK
<1>2. sel \in Gpus =>
        \A f \in {hw[sel].fan, op.before.fan} : [oc |-> "unknown", fan |-> f] \in Hardware
  BY <1>1 DEF TypeOK, Hardware
<1>3. hw' \in [Gpus -> Hardware]
  BY <1>1, <1>2, HwUpdate DEF TypeOK, Rollback
<1>4. op' \in Locals
  BY LocalsUpdate DEF TypeOK, Rollback, HwOutcomes
<1> QED
  BY <1>3, <1>4 DEF Rollback

-----------------------------------------------------------------------------
(* Type correctness.                                                       *)

\* Every intent that may be replayed names an adapter, and a write is only
\* under way on the adapter of its own operation.
Targeted ==
    /\ dRec.st = "ACTIVE" => dRec.gpu \in Gpus
    /\ active.on => active.gpu \in Gpus
    /\ dPolicy.mode = "profile" => dPolicy.gpu \in Gpus
    /\ op.trig # "none" => op.gpu \in Gpus
    /\ op.ret = "select" \/ pc \in {"authorize", "prepare", "select", "autoWrite", "autoCommit"} =>
          op.trig \in AutomaticTriggers
    /\ pc \in {"autoWrite", "autoCommit", "prepared", "mutate", "commit"} =>
          op.trig # "none" /\ sel = op.gpu

\* Every step of every handler, and every crash or reboot, keeps the variables
\* within their types.
LEMMA TypeStep == TypeOK /\ Targeted /\ [Next]_vars => TypeOK'
<1> SUFFICES ASSUME TypeOK, Targeted, [Next]_vars PROVE TypeOK'
  OBVIOUS
<1> USE DEF machine, disk, memory, history
<1>1. CASE Start
  BY <1>1 DEF TypeOK, Start, Pcs
<1>2. CASE BootInit
  <2>1. guard' \in Guards
    BY <1>2, GuardUpdate, InitialValues DEF BootInit, TypeOK
  <2>2. ready' \in BOOLEAN
    BY <1>2 DEF BootInit, BackendOutcomes
  <2> QED
    BY <1>2, <2>1, <2>2 DEF BootInit, TypeOK, Pcs
<1>3. CASE HandbackAtStart
  <2>1. Outstanding \in Owners
    BY DEF Outstanding, TypeOK, Markers, Owners
  <2>2. dMarker' \in Markers /\ mk' \in Owners
    BY <1>3, <2>1, RetireType DEF HandbackAtStart, TypeOK
  <2>3. guard' \in Guards /\ dGuard' \in Guards
    BY <1>3, GuardUpdate, PersistType DEF HandbackAtStart, TypeOK
  <2>4. pc' \in Pcs /\ op' \in Locals /\ deferred' \in BOOLEAN
    BY <1>3, InitialValues, LocalsUpdate DEF HandbackAtStart, TypeOK, Pcs
  <2> QED
    BY <1>3, <2>2, <2>3, <2>4 DEF HandbackAtStart, TypeOK
<1>4. CASE LoadStartupPolicy
  <2>1. policy' \in Policies
    BY <1>4, InitialValues DEF LoadStartupPolicy, TypeOK, Policies, Modes
  <2>2. policy'.gpu \in Gpus \cup {NoGpu} /\ policy'.want \in Wants
    BY <2>1 DEF Policies
  <2>3. [Idle EXCEPT !.trig = "profile", !.gpu = policy'.gpu,
                     !.req = policy'.want, !.want = policy'.want] \in Locals
    BY <2>2, RestoreLocals DEF AutomaticTriggers, StartTriggers
  <2>4. pc' \in Pcs /\ op' \in Locals
    BY <1>4, <2>3, InitialValues DEF LoadStartupPolicy, Pcs
  <2> QED
    BY <1>4, <2>1, <2>4 DEF LoadStartupPolicy, TypeOK
<1>5. CASE LoadStateRecord
  <2>1. dRec.gpu \in Gpus \cup {NoGpu} /\ dRec.want \in Wants
    BY DEF TypeOK, Records
  <2>2. [Idle EXCEPT !.trig = "restoreLast", !.gpu = dRec.gpu,
                     !.req = dRec.want, !.want = dRec.want] \in Locals
    BY <2>1, RestoreLocals DEF AutomaticTriggers, StartTriggers
  <2>3. pc' \in Pcs /\ op' \in Locals /\ uncertain' \in BOOLEAN
    BY <1>5, <2>2, InitialValues DEF LoadStateRecord, Finish, Pcs
  <2> QED
    BY <1>5, <2>3 DEF LoadStateRecord, TypeOK
<1>6. CASE HandbackResolve
  <2>1. guard' \in Guards /\ dGuard' \in Guards
    BY <1>6, GuardUpdate, PersistType DEF HandbackResolve, TypeOK
  <2>2. sel' \in Gpus \cup {NoGpu} /\ mk' \in Owners
    BY <1>6 DEF HandbackResolve, TypeOK, Owners
  <2>3. [boot |-> boot, gpu |-> mk.gpu, attempts |-> mk.attempts + 1] \in Markers
    BY DEF TypeOK, Owners, Markers
  <2>4. dMarker' \in Markers
    BY <1>6, <2>3, ReplaceType DEF HandbackResolve, TypeOK
  <2>5. pc' \in Pcs
    BY <1>6, LocalsUpdate DEF HandbackResolve, TypeOK, Pcs
  <2> QED
    BY <1>6, <2>1, <2>2, <2>4, <2>5 DEF HandbackResolve, TypeOK
<1>7. CASE HandbackWrite
  <2>1. hw' \in [Gpus -> Hardware]
    BY <1>7, HwUpdate, FanTypes DEF HandbackWrite, TypeOK
  <2> QED
    BY <1>7, <2>1 DEF HandbackWrite, TypeOK, Pcs
<1>8. CASE HandbackRetire
  BY <1>8, RetireType, LocalsUpdate DEF HandbackRetire, TypeOK
<1>9. CASE HandbackRefused
  <2>1. FreshMarker(mk.gpu) \in Markers
    BY DEF FreshMarker, TypeOK, Owners, Markers
  <2>2. dMarker' \in Markers /\ deaths' \in Nat
    BY <1>9, <2>1, ReplaceType DEF HandbackRefused, TypeOK
  <2> QED
    BY <1>9, <2>2 DEF HandbackRefused, TypeOK, Pcs
<1>10. CASE HandbackLatch
  BY <1>10, GuardUpdate, PersistType, LocalsUpdate DEF HandbackLatch, TypeOK
<1>11. CASE Authorize
  <2>1. guard' \in Guards /\ dGuard' \in Guards
    BY <1>11, GuardUpdate, PersistType DEF Authorize, TypeOK
  <2>2. pc' \in Pcs /\ op' \in Locals
    BY <1>11, InitialValues DEF Authorize, EndAutomatic, AfterAutomatic, TypeOK, Pcs
  <2> QED
    BY <1>11, <2>1, <2>2 DEF Authorize, TypeOK
<1>12. CASE PrepareBackend
  <2>1. pc' \in Pcs /\ op' \in Locals
    BY <1>12, InitialValues, LocalsUpdate
       DEF PrepareBackend, EndAutomatic, AfterAutomatic, TypeOK, Pcs
  <2> QED
    BY <1>12, <2>1 DEF PrepareBackend, TypeOK
<1>13. CASE SelectAndOwn
  <2>1. sel' \in Gpus \cup {NoGpu}
    BY <1>13, LocalsUpdate DEF SelectAndOwn, TypeOK
  <2>2. dMarker' \in Markers /\ mk' \in Owners /\ deaths' \in Nat
    <3>1. CASE EnsureBeforeWrite(op.gpu, op.want, TRUE, TRUE)
      BY <3>1, EnsureType, LocalsUpdate DEF TypeOK
    <3>2. CASE UNCHANGED <<dMarker, mk, deaths>>
      BY <3>2 DEF TypeOK
    <3> QED
      BY <1>13, <3>1, <3>2 DEF SelectAndOwn, EnsureBeforeWrite
  <2>3. pc' \in Pcs /\ op' \in Locals
    <3>1. hw[op.gpu] \in Hardware
      BY <1>13 DEF SelectAndOwn, TypeOK, Targeted, AutomaticTriggers, StartTriggers
    <3>2. [op EXCEPT !.before = hw[op.gpu]] \in Locals
      BY <3>1, LocalsUpdate DEF TypeOK
    <3> QED
      BY <1>13, <3>2, InitialValues
         DEF SelectAndOwn, EnsureBeforeWrite, EndAutomatic, AfterAutomatic, Pcs
  <2> QED
    BY <1>13, <2>1, <2>2, <2>3 DEF SelectAndOwn, TypeOK
<1>14. CASE AutoWrite
  <2>1. hw' \in [Gpus -> Hardware]
    <3>1. sel \in Gpus => Applied(hw[sel], op.req) \cup Disturbed(hw[sel], op.req)
                             \cup {hw[sel]} \subseteq Hardware
      BY FanTypes, LocalsUpdate DEF TypeOK
    <3> QED
      BY <1>14, <3>1, HwUpdate DEF AutoWrite, TypeOK
  <2> QED
    BY <1>14, <2>1 DEF AutoWrite, TypeOK, Pcs
<1>15. CASE AutoCommit
  <2>1. [on |-> TRUE, gpu |-> sel, want |-> op.want] \in Intents
    BY LocalsUpdate DEF TypeOK, Intents
  <2>2. dRec' \in Records
    BY <1>15, RecordType, ReplaceType, LocalsUpdate DEF AutoCommit, TypeOK
  <2>3. pc' \in Pcs /\ op' \in Locals
    BY <1>15, InitialValues DEF AutoCommit, EndAutomatic, AfterAutomatic, TypeOK, Pcs
  <2> QED
    BY <1>15, <2>1, <2>2, <2>3 DEF AutoCommit, TypeOK
<1>16. CASE AutoRetire
  BY <1>16, RetireType, InitialValues DEF AutoRetire, EndAutomatic, AfterAutomatic, TypeOK, Pcs
<1>17. CASE AutoRollback
  BY <1>17, RollbackType DEF AutoRollback, TypeOK, Pcs
<1>18. CASE AutoUncertain
  <2>1. dRec' \in Records
    BY <1>18, RecordType, ReplaceType, LocalsUpdate DEF AutoUncertain, TypeOK
  <2> QED
    BY <1>18, <2>1 DEF AutoUncertain, EnterUncertain, TypeOK, Pcs
<1>19. CASE NoteAutomaticFailure
  <2>1. guard' \in Guards /\ dGuard' \in Guards
    BY <1>19, GuardUpdate, PersistType DEF NoteAutomaticFailure, TypeOK
  <2> QED
    BY <1>19, <2>1, InitialValues
       DEF NoteAutomaticFailure, EndAutomatic, AfterAutomatic, TypeOK, Pcs
<1>20. ASSUME NEW g \in Gpus, NEW d \in Requests, ApplyBegin(g, d) PROVE TypeOK'
  <2>1. Merge(active, d) \in Wants
    BY RequestAssumption DEF Merge, TypeOK, Intents, Wants
  <2>2. [Idle EXCEPT !.trig = "apply", !.gpu = g, !.req = d, !.want = Merge(active, d),
                     !.cap = Captured, !.before = hw[g]] \in Locals
    BY <2>1, InitialValues, RequestAssumption
       DEF Idle, Locals, TypeOK, Captured, ExplicitTriggers
  <2>3. dMarker' \in Markers /\ mk' \in Owners /\ deaths' \in Nat
    <3>1. CASE EnsureBeforeWrite(g, Merge(active, d), TRUE, TRUE)
      BY <3>1, EnsureType DEF TypeOK
    <3>2. CASE UNCHANGED <<dMarker, mk, deaths>>
      BY <3>2 DEF TypeOK
    <3> QED
      BY <1>20, <3>1, <3>2 DEF ApplyBegin, EnsureBeforeWrite
  <2>4. pc' \in Pcs /\ op' \in Locals
    BY <1>20, <2>2, InitialValues DEF ApplyBegin, EnsureBeforeWrite, Aborted, Pcs
  <2> QED
    BY <1>20, <2>3, <2>4 DEF ApplyBegin, TypeOK
<1>21. ASSUME NEW g \in Gpus, ResetBegin(g) PROVE TypeOK'
  <2>1. [Idle EXCEPT !.trig = "reset", !.gpu = g, !.cap = Captured, !.before = hw[g]] \in Locals
    BY InitialValues DEF Idle, Locals, TypeOK, Captured, ExplicitTriggers
  <2> QED
    BY <1>21, <2>1, InitialValues DEF ResetBegin, Aborted, TypeOK, Pcs
<1>22. CASE StorePrepared
  <2>1. dRec' \in Records
    BY <1>22, RecordType, ReplaceType, LocalsUpdate DEF StorePrepared, TypeOK
  <2> QED
    BY <1>22, <2>1, InitialValues DEF StorePrepared, Aborted, TypeOK, Pcs
<1>23. CASE Mutate
  <2>1. sel \in Gpus => /\ Applied(hw[sel], op.req) \subseteq Hardware
                        /\ \A w \in Wants : Disturbed(hw[sel], w) \subseteq Hardware
    BY FanTypes, LocalsUpdate DEF TypeOK
  <2>2. op.req \in Wants /\ [NoWant EXCEPT !.fan = "auto"] \in Wants
    BY LocalsUpdate, InitialValues DEF TypeOK, Wants, FanModes
  <2>3. hw' \in [Gpus -> Hardware]
    BY <1>23, <2>1, <2>2, HwUpdate, InitialValues DEF Mutate, TypeOK
  <2>4. pc' \in Pcs /\ op' \in Locals
    BY <1>23, LocalsUpdate DEF Mutate, TypeOK, Pcs
  <2> QED
    BY <1>23, <2>3, <2>4 DEF Mutate, TypeOK
<1>24. CASE Commit
  <2>1. [on |-> TRUE, gpu |-> sel, want |-> op.want] \in Intents
    BY LocalsUpdate DEF TypeOK, Intents
  <2>2. Record("ACTIVE", sel, op.want) \in Records
    BY RecordType, LocalsUpdate DEF TypeOK
  <2>3. dRec' \in Records
    BY <1>24, <2>2, ReplaceType, InitialValues DEF Commit, TypeOK
  <2> QED
    BY <1>24, <2>1, <2>3, InitialValues DEF Commit, TypeOK, Pcs
<1>25. CASE RetireMarker
  BY <1>25, RetireType DEF RetireMarker, TypeOK, Pcs
<1>26. CASE NoteExplicitSuccess
  <2>1. guard' \in Guards /\ dGuard' \in Guards
    BY <1>26, GuardUpdate, PersistType DEF NoteExplicitSuccess, TypeOK
  <2> QED
    BY <1>26, <2>1, InitialValues DEF NoteExplicitSuccess, Finish, TypeOK, Pcs
<1>27. CASE RollbackMutation
  BY <1>27, RollbackType DEF RollbackMutation, TypeOK, Pcs
<1>28. CASE RestoreRecord
  <2>1. op.cap \in Records /\ active.gpu \in Gpus \cup {NoGpu} /\ active.want \in Wants
    BY LocalsUpdate DEF TypeOK, Intents
  <2>2. [op.cap EXCEPT !.st = "UNCERTAIN"] \in Records
    BY <2>1 DEF Records
  <2>3. PreviousRecord \in Records
    BY <2>1, <2>2, RecordType, InitialValues DEF PreviousRecord, TypeOK
  <2>4. dRec' \in Records
    BY <1>28, <2>3, ReplaceType DEF RestoreRecord, TypeOK
  <2>5. pc' \in Pcs /\ op' \in Locals /\ uncertain' \in BOOLEAN
    BY <1>28, InitialValues DEF RestoreRecord, EnterUncertain, Finish, TypeOK, Pcs
  <2> QED
    BY <1>28, <2>4, <2>5 DEF RestoreRecord, TypeOK
<1>29. CASE StoreUncertain
  <2>1. dRec' \in Records
    BY <1>29, RecordType, ReplaceType, LocalsUpdate DEF StoreUncertain, TypeOK
  <2> QED
    BY <1>29, <2>1, InitialValues DEF StoreUncertain, EnterUncertain, TypeOK, Pcs
<1>30. CASE ReleaseFan
  <2>1. hw' \in [Gpus -> Hardware]
    BY <1>30, HwUpdate, FanTypes DEF ReleaseFan, TypeOK
  <2> QED
    BY <1>30, <2>1 DEF ReleaseFan, AfterRelease, TypeOK, Pcs
<1>31. CASE ReleaseRetire
  BY <1>31, RetireType DEF ReleaseRetire, AfterRelease, TypeOK, Pcs
<1>32. CASE ResumeRestore
  <2>1. active.gpu \in Gpus \cup {NoGpu} /\ active.want \in Wants
    BY DEF TypeOK, Intents
  <2>2. op' \in Locals
    BY <1>32, <2>1, RestoreLocals DEF ResumeRestore, AutomaticTriggers
  <2> QED
    BY <1>32, <2>2 DEF ResumeRestore, TypeOK, Pcs
<1>33. ASSUME NEW p \in StartupPolicies, SetStartupPolicy(p) PROVE TypeOK'
  <2>1. p \in Policies
    BY PolicyAssumption DEF Policies
  <2>2. dPolicy' \in Policies
    BY <1>33, <2>1, ReplaceType DEF SetStartupPolicy, TypeOK
  <2> QED
    BY <1>33, <2>1, <2>2 DEF SetStartupPolicy, TypeOK
<1>34. ASSUME NEW g \in Gpus, TargetedRead(g) PROVE TypeOK'
  BY <1>34 DEF TargetedRead, TypeOK
<1>35. CASE UntargetedRead
  BY <1>35 DEF UntargetedRead, TypeOK
<1>36. CASE ResumeDeferredHandback
  <2>1. op' \in Locals
    BY <1>36, InitialValues, LocalsUpdate DEF ResumeDeferredHandback, TypeOK
  <2> QED
    BY <1>36, <2>1 DEF ResumeDeferredHandback, TypeOK, Pcs
<1>37. CASE FanMaintain
  <2>1. hw' \in [Gpus -> Hardware]
    BY <1>37 DEF FanMaintain, TypeOK, Hardware
  <2> QED
    BY <1>37, <2>1 DEF FanMaintain, TypeOK
<1>38. CASE FanLockout
  <2>1. hw' \in [Gpus -> Hardware]
    BY <1>38, HwUpdate, FanTypes DEF FanLockout, TypeOK
  <2> QED
    BY <1>38, <2>1 DEF FanLockout, TypeOK, Pcs
<1>39. CASE FanLockoutRecord
  <2>1. hw' \in [Gpus -> Hardware]
    BY <1>39, HwUpdate, FanTypes DEF FanLockoutRecord, TypeOK
  <2>2. Record("UNCERTAIN", active.gpu, active.want) \in Records
    BY RecordType DEF TypeOK, Intents
  <2>3. dRec' \in Records
    BY <1>39, <2>2, ReplaceType DEF FanLockoutRecord, TypeOK
  <2> QED
    BY <1>39, <2>1, <2>3 DEF FanLockoutRecord, TypeOK, Pcs
<1>40. ASSUME NEW clean \in BOOLEAN, Stop(clean) PROVE TypeOK'
  <2>1. guard' \in Guards /\ dGuard' \in Guards
    BY <1>40, GuardUpdate, PersistType DEF Stop, TypeOK
  <2> QED
    BY <1>40, <2>1 DEF Stop, TypeOK, Pcs
<1>41. CASE ReleaseAtStop
  <2>1. hw' \in [Gpus -> Hardware]
    BY <1>41, HwUpdate, FanTypes DEF ReleaseAtStop, TypeOK
  <2> QED
    BY <1>41, <2>1 DEF ReleaseAtStop, TypeOK, Pcs
<1>42. CASE RetireAtStop
  BY <1>42, RetireType DEF RetireAtStop, TypeOK, Pcs
<1>43. CASE Exit
  BY <1>43, InitialValues DEF Exit, ResetMemory, TypeOK, Pcs
<1>44. CASE Crash
  <2>1. deaths' \in Nat /\ crashes' \in Nat
    BY <1>44 DEF Crash, TypeOK
  <2> QED
    BY <1>44, <2>1, InitialValues DEF Crash, ResetMemory, TypeOK, Pcs
<1>45. CASE Reboot
  <2>1. boot' \in Nat \ {0} /\ hw' \in [Gpus -> Hardware]
    BY <1>45, InitialValues DEF Reboot, TypeOK
  <2> QED
    BY <1>45, <2>1, InitialValues DEF Reboot, ResetMemory, TypeOK, Pcs
<1>46. CASE Standby
  BY <1>46, InitialValues DEF Standby, TypeOK
<1>47. CASE UNCHANGED vars
  BY <1>47 DEF vars, TypeOK
<1> QED
  BY <1>1, <1>2, <1>3, <1>4, <1>5, <1>6, <1>7, <1>8, <1>9, <1>10, <1>11, <1>12, <1>13,
     <1>14, <1>15, <1>16, <1>17, <1>18, <1>19, <1>20, <1>21, <1>22, <1>23, <1>24, <1>25,
     <1>26, <1>27, <1>28, <1>29, <1>30, <1>31, <1>32, <1>33, <1>34, <1>35, <1>36, <1>37,
     <1>38, <1>39, <1>40, <1>41, <1>42, <1>43, <1>44, <1>45, <1>46, <1>47
     DEF Next, StartUp, Handback, AutomaticRestore, ExplicitOperation, ReleaseForUncertain,
         Requested, FanWorker, Stopping, Environment

\* Every step keeps Targeted: a record, a policy or an intent that names no
\* adapter never starts a write (daemon_automatic_restore_write, handle_request).
LEMMA TargetStep == TypeOK /\ Targeted /\ [Next]_vars => Targeted'
<1> SUFFICES ASSUME TypeOK, Targeted, [Next]_vars PROVE Targeted'
  OBVIOUS
<1> USE DEF machine, disk, memory, history
<1>1. CASE Start
  BY <1>1 DEF Start, Targeted
<1>2. CASE BootInit
  BY <1>2 DEF BootInit, Targeted
<1>3. CASE HandbackAtStart
  BY <1>3 DEF HandbackAtStart, Targeted, Idle
<1>4. CASE LoadStartupPolicy
  <2>1. policy'.mode = "profile" => policy'.gpu \in Gpus
    BY <1>4 DEF LoadStartupPolicy, Targeted, NoPolicy
  <2>2. CASE policy'.mode = "profile"
    <3>1. /\ pc' = "authorize"
          /\ op' = [Idle EXCEPT !.trig = "profile", !.gpu = policy'.gpu,
                                !.req = policy'.want, !.want = policy'.want]
      BY <1>4, <2>2 DEF LoadStartupPolicy
    <3>2. op'.trig = "profile" /\ op'.gpu = policy'.gpu /\ op'.ret = "serve"
      BY <3>1 DEF Idle
    <3> QED
      BY <1>4, <2>1, <2>2, <3>1, <3>2 DEF LoadStartupPolicy, Targeted, AutomaticTriggers, StartTriggers
  <2>3. CASE policy'.mode # "profile"
    BY <1>4, <2>3 DEF LoadStartupPolicy, Targeted, Idle
  <2> QED
    BY <2>2, <2>3
<1>5. CASE LoadStateRecord
  <2>1. CASE Finish
    BY <1>5, <2>1 DEF LoadStateRecord, Targeted, Finish, Idle
  <2>2. CASE /\ dRec.st = "ACTIVE" /\ pc' = "authorize"
             /\ op' = [Idle EXCEPT !.trig = "restoreLast", !.gpu = dRec.gpu,
                                   !.req = dRec.want, !.want = dRec.want]
    <3>1. op'.trig = "restoreLast" /\ op'.gpu = dRec.gpu /\ op'.ret = "serve"
      BY <2>2 DEF Idle
    <3> QED
      BY <1>5, <2>2, <3>1 DEF LoadStateRecord, Targeted, AutomaticTriggers, StartTriggers
  <2> QED
    BY <1>5, <2>1, <2>2 DEF LoadStateRecord
<1>6. CASE HandbackResolve
  BY <1>6 DEF HandbackResolve, Targeted, TypeOK, Locals
<1>7. CASE HandbackWrite
  BY <1>7 DEF HandbackWrite, Targeted
<1>8. CASE HandbackRetire
  BY <1>8 DEF HandbackRetire, Targeted, TypeOK, Locals
<1>9. CASE HandbackRefused
  BY <1>9 DEF HandbackRefused, Targeted
<1>10. CASE HandbackLatch
  BY <1>10 DEF HandbackLatch, Targeted, TypeOK, Locals
<1>11. CASE Authorize
  BY <1>11 DEF Authorize, Targeted, EndAutomatic, AfterAutomatic, Idle
<1>12. CASE PrepareBackend
  BY <1>12 DEF PrepareBackend, Targeted, TypeOK, Locals, Idle, AfterAutomatic,
     EndAutomatic
<1>13. CASE SelectAndOwn
  <2>1. op.trig # "none" /\ op.gpu \in Gpus
    BY <1>13 DEF SelectAndOwn, Targeted, AutomaticTriggers, StartTriggers
  <2>2. \/ pc' = "autoWrite" /\ sel' = op.gpu /\ op' = [op EXCEPT !.before = hw[op.gpu]]
        \/ pc' \in {"loadState", "serve"} /\ op' = Idle
    BY <1>13 DEF SelectAndOwn, EnsureBeforeWrite, EndAutomatic, AfterAutomatic
  <2> QED
    BY <1>13, <2>1, <2>2 DEF SelectAndOwn, Targeted, TypeOK, Locals, Idle
<1>14. CASE AutoWrite
  BY <1>14 DEF AutoWrite, Targeted
<1>15. CASE AutoCommit
  BY <1>15 DEF AutoCommit, Targeted, Idle, AfterAutomatic, EndAutomatic, Record, Replace
<1>16. CASE AutoRetire
  BY <1>16 DEF AutoRetire, Targeted, Idle, AfterAutomatic, EndAutomatic
<1>17. CASE AutoRollback
  BY <1>17 DEF AutoRollback, Targeted, Rollback
<1>18. CASE AutoUncertain
  BY <1>18 DEF AutoUncertain, Targeted, EnterUncertain, Record, Replace
<1>19. CASE NoteAutomaticFailure
  BY <1>19 DEF NoteAutomaticFailure, Targeted, Idle, AfterAutomatic, EndAutomatic
<1>20. ASSUME NEW g \in Gpus, NEW d \in Requests, ApplyBegin(g, d) PROVE Targeted'
  <2>1. CASE pc' = "prepared"
    <3>1. op' = [Idle EXCEPT !.trig = "apply", !.gpu = g, !.req = d,
                             !.want = Merge(active, d), !.cap = Captured, !.before = hw[g]]
      BY <1>20, <2>1 DEF ApplyBegin, EnsureBeforeWrite, Aborted
    <3>2. op'.trig = "apply" /\ op'.gpu = g /\ op'.ret = "serve"
      BY <3>1 DEF Idle
    <3> QED
      BY <1>20, <2>1, <3>2 DEF ApplyBegin, Targeted
  <2>2. CASE pc' = "serve" /\ op' = Idle
    BY <1>20, <2>2 DEF ApplyBegin, Targeted, Idle
  <2> QED
    BY <1>20, <2>1, <2>2 DEF ApplyBegin, EnsureBeforeWrite, Aborted
<1>21. ASSUME NEW g \in Gpus, ResetBegin(g) PROVE Targeted'
  <2>1. CASE pc' = "prepared"
    <3>1. op' = [Idle EXCEPT !.trig = "reset", !.gpu = g, !.cap = Captured, !.before = hw[g]]
      BY <1>21, <2>1 DEF ResetBegin, Aborted
    <3>2. op'.trig = "reset" /\ op'.gpu = g /\ op'.ret = "serve"
      BY <3>1 DEF Idle
    <3> QED
      BY <1>21, <2>1, <3>2 DEF ResetBegin, Targeted
  <2>2. CASE pc' = "serve" /\ op' = Idle
    BY <1>21, <2>2 DEF ResetBegin, Targeted, Idle
  <2> QED
    BY <1>21, <2>1, <2>2 DEF ResetBegin, Aborted
<1>22. CASE StorePrepared
  BY <1>22 DEF StorePrepared, Targeted, Idle, Aborted, Record, Replace
<1>23. CASE Mutate
  BY <1>23 DEF Mutate, Targeted, TypeOK, Locals
<1>24. CASE Commit
  BY <1>24 DEF Commit, Targeted, NoIntent, NoRecord, Record, Replace
<1>25. CASE RetireMarker
  BY <1>25 DEF RetireMarker, Targeted
<1>26. CASE NoteExplicitSuccess
  BY <1>26 DEF NoteExplicitSuccess, Targeted, Idle, Finish
<1>27. CASE RollbackMutation
  BY <1>27 DEF RollbackMutation, Targeted, Rollback
<1>28. CASE RestoreRecord
  <2>1. PreviousRecord.st = "ACTIVE" => PreviousRecord.gpu \in Gpus
    <3>1. [op.cap EXCEPT !.st = "UNCERTAIN"].st # "ACTIVE"
      BY LocalsUpdate DEF TypeOK, Records
    <3> QED
      BY <3>1 DEF PreviousRecord, Record, NoRecord, Targeted
  <2>2. dRec' \in {dRec, PreviousRecord}
    BY <1>28 DEF RestoreRecord, Replace
  <2>3. /\ pc' \in {"storeUncertain", "release", "serve"}
        /\ op' \in {op, Idle}
    BY <1>28 DEF RestoreRecord, EnterUncertain, Finish
  <2> QED
    BY <1>28, <2>1, <2>2, <2>3 DEF RestoreRecord, Targeted, Idle
<1>29. CASE StoreUncertain
  BY <1>29 DEF StoreUncertain, Targeted, Idle, EnterUncertain, Record, Replace
<1>30. CASE ReleaseFan
  BY <1>30 DEF ReleaseFan, Targeted, AfterRelease
<1>31. CASE ReleaseRetire
  BY <1>31 DEF ReleaseRetire, Targeted, AfterRelease
<1>32. CASE ResumeRestore
  BY <1>32 DEF ResumeRestore, Targeted, AutomaticTriggers
<1>33. ASSUME NEW p \in StartupPolicies, SetStartupPolicy(p) PROVE Targeted'
  BY <1>33, ProfileTargetAssumption DEF SetStartupPolicy, Targeted, Replace
<1>34. ASSUME NEW g \in Gpus, TargetedRead(g) PROVE Targeted'
  BY <1>34 DEF TargetedRead, Targeted
<1>35. CASE UntargetedRead
  BY <1>35 DEF UntargetedRead, Targeted
<1>36. CASE ResumeDeferredHandback
  BY <1>36 DEF ResumeDeferredHandback, Targeted, Idle
<1>37. CASE FanMaintain
  BY <1>37 DEF FanMaintain, Targeted
<1>38. CASE FanLockout
  BY <1>38 DEF FanLockout, Targeted
<1>39. CASE FanLockoutRecord
  BY <1>39 DEF FanLockoutRecord, Targeted, Record, Replace
<1>40. ASSUME NEW clean \in BOOLEAN, Stop(clean) PROVE Targeted'
  BY <1>40 DEF Stop, Targeted
<1>41. CASE ReleaseAtStop
  BY <1>41 DEF ReleaseAtStop, Targeted
<1>42. CASE RetireAtStop
  BY <1>42 DEF RetireAtStop, Targeted
<1>43. CASE Exit
  BY <1>43 DEF Exit, Targeted, Idle, NoIntent, ResetMemory
<1>44. CASE Crash
  BY <1>44 DEF Crash, Targeted, Idle, NoIntent, ResetMemory
<1>45. CASE Reboot
  BY <1>45 DEF Reboot, Targeted, Idle, NoIntent, ResetMemory
<1>46. CASE Standby
  BY <1>46 DEF Standby, Targeted
<1>47. CASE UNCHANGED vars
  BY <1>47 DEF vars, Targeted
<1> QED
  BY <1>1, <1>2, <1>3, <1>4, <1>5, <1>6, <1>7, <1>8, <1>9, <1>10, <1>11, <1>12, <1>13,
     <1>14, <1>15, <1>16, <1>17, <1>18, <1>19, <1>20, <1>21, <1>22, <1>23, <1>24, <1>25,
     <1>26, <1>27, <1>28, <1>29, <1>30, <1>31, <1>32, <1>33, <1>34, <1>35, <1>36, <1>37,
     <1>38, <1>39, <1>40, <1>41, <1>42, <1>43, <1>44, <1>45, <1>46, <1>47 DEF Next,
     StartUp, Handback, AutomaticRestore, ExplicitOperation, ReleaseForUncertain,
     Requested, FanWorker, Stopping, Environment

\* The daemon starts well typed and with nothing to replay.
LEMMA TypeInit == Init => TypeOK /\ Targeted
<1> SUFFICES ASSUME Init PROVE TypeOK /\ Targeted
  OBVIOUS
<1>1. TypeOK
  <2>1. hw \in [Gpus -> Hardware]
    BY InitialValues DEF Init
  <2>2. pc \in Pcs
    BY DEF Init, Pcs
  <2>3. boot \in Nat \ {0} /\ sel \in Gpus \cup {NoGpu}
    BY DEF Init
  <2> QED
    BY <2>1, <2>2, <2>3, InitialValues DEF Init, TypeOK
<1>2. Targeted
  BY DEF Init, Targeted, NoRecord, NoIntent, NoPolicy, Idle
<1> QED
  BY <1>1, <1>2

\* Type correctness: in every reachable state of the daemon every variable has
\* a value of its type, and every operation under way knows its adapter.
THEOREM TypeCorrect == Spec => [](TypeOK /\ Targeted)
<1>1. TypeOK /\ Targeted /\ [Next]_vars => (TypeOK /\ Targeted)'
  BY TypeStep, TargetStep
<1> QED
  BY <1>1, TypeInit, PTL DEF Spec

-----------------------------------------------------------------------------
(* The crash-loop guard.                                                   *)

\* load_auto_restore_guard_at_boot has run.
Loaded == pc \notin {"down", "init"}

\* A start attempt that is counted and has not written yet.
Counting ==
    /\ pc \in {"prepare", "select", "autoWrite",
               "hbRun", "hbWrite", "hbRetire", "hbRefused", "hbLatch"}
    /\ TriggerIsStart(op.trig)

\* The guard in memory is the running boot's and at least as strict as the one
\* on disk; either is locked or counts every start-time write there was, and one
\* more between the authorisation and the write it authorises.
GuardInv ==
    /\ guard.attempts <= MaxStartAttempts
    /\ dGuard.attempts <= MaxStartAttempts
    /\ startWrites <= MaxStartAttempts
    /\ Loaded => /\ guard.boot = boot
                 /\ dGuard.locked => guard.locked
                 /\ guard.locked \/ startWrites <= guard.attempts
    /\ startWrites # 0 => /\ dGuard.boot = boot
                          /\ dGuard.locked \/ startWrites <= dGuard.attempts
    /\ Counting => /\ dGuard.boot = boot
                   /\ dGuard.locked \/ startWrites < dGuard.attempts
                   /\ guard.locked \/ startWrites < guard.attempts
    /\ pc = "autoWrite" => ~guard.locked

\* Every step keeps GuardInv: an attempt is counted on disk before the write it
\* is for (auto_restore_authorize), whatever store fails and wherever the daemon
\* dies, and the guard is loosened only together with the writes it counts.
LEMMA GuardStep == TypeOK /\ GuardInv /\ [Next]_vars => GuardInv'
<1> SUFFICES ASSUME TypeOK, GuardInv, [Next]_vars PROVE GuardInv'
  OBVIOUS
<1> USE DEF machine, disk, memory, history
<1>1. CASE Start
  BY <1>1 DEF Start, GuardInv, Counting, Loaded
<1>2. CASE BootInit
  <2>1. guard'.boot = boot /\ guard'.attempts <= MaxStartAttempts /\ guard'.attempts \in Nat
    BY <1>2, BoundAssumption DEF BootInit, GuardInv, AdoptBoot, Locked, NoGuard, TypeOK, Guards
  <2>2. dGuard.locked => guard'.locked
    BY <1>2 DEF BootInit, AdoptBoot, Locked, NoGuard, TypeOK, Guards
  <2>3. guard'.locked \/ startWrites <= guard'.attempts
    BY <1>2 DEF BootInit, GuardInv, AdoptBoot, Locked, NoGuard, TypeOK, Guards
  <2> QED
    BY <1>2, <2>1, <2>2, <2>3 DEF BootInit, GuardInv, Counting, Loaded
<1>3. CASE HandbackAtStart
  <2>1. UNCHANGED <<guard, dGuard>> \/ (guard' = Locked(guard) /\ dGuard' \in {dGuard, guard'})
    BY <1>3 DEF HandbackAtStart, PersistGuard, Replace
  <2>2. ~Counting'
    BY <1>3 DEF HandbackAtStart, Counting, TriggerIsStart, StartTriggers, Idle
  <2>3. pc' # "autoWrite" /\ Loaded /\ UNCHANGED <<boot, startWrites>>
    BY <1>3 DEF HandbackAtStart, Loaded
  <2> QED
    BY <2>1, <2>2, <2>3 DEF GuardInv, Locked, TypeOK, Guards, Loaded
<1>4. CASE LoadStartupPolicy
  BY <1>4 DEF LoadStartupPolicy, GuardInv, Counting, Loaded
<1>5. CASE LoadStateRecord
  BY <1>5 DEF LoadStateRecord, GuardInv, Counting, Loaded, Finish
<1>6. CASE HandbackResolve
  <2>1. UNCHANGED <<guard, dGuard>> \/ (guard' = Locked(guard) /\ dGuard' \in {dGuard, guard'})
    BY <1>6 DEF HandbackResolve, PersistGuard, Replace
  <2>2. Counting' => Counting
    BY <1>6 DEF HandbackResolve, Counting
  <2>3. pc' # "autoWrite" /\ Loaded /\ UNCHANGED <<boot, startWrites>>
    BY <1>6 DEF HandbackResolve, Loaded, TypeOK, Locals
  <2> QED
    BY <2>1, <2>2, <2>3 DEF GuardInv, Locked, TypeOK, Guards, Loaded
<1>7. CASE HandbackWrite
  BY <1>7 DEF HandbackWrite, GuardInv, Counting, Loaded
<1>8. CASE HandbackRetire
  BY <1>8 DEF HandbackRetire, GuardInv, Counting, Loaded, TypeOK, Locals
<1>9. CASE HandbackRefused
  BY <1>9 DEF HandbackRefused, GuardInv, Counting, Loaded
<1>10. CASE HandbackLatch
  BY <1>10 DEF HandbackLatch, GuardInv, Counting, Loaded, TypeOK, Locals, Guards,
     Locked, PersistGuard, Replace
<1>11. CASE Authorize
  <2>1. \/ UNCHANGED <<guard, dGuard>> /\ (Counting' => ~TriggerIsStart(op.trig))
        \/ guard' = Locked(guard) /\ dGuard' \in {dGuard, guard'} /\ ~Counting'
        \/ /\ ~guard.locked /\ guard.attempts < MaxStartAttempts
           /\ guard' = [guard EXCEPT !.attempts = @ + 1] /\ dGuard' = guard'
        \/ /\ ~guard.locked /\ guard.attempts < MaxStartAttempts
           /\ guard' = guard /\ ~Counting'
           /\ dGuard' \in {dGuard, [guard EXCEPT !.attempts = @ + 1]}
    BY <1>11, BoundAssumption DEF Authorize, Decide, PersistGuard, Replace, EndAutomatic,
       AfterAutomatic, Counting, TypeOK, Guards
  <2>2. pc' # "autoWrite" /\ Loaded /\ UNCHANGED <<boot, startWrites>>
    BY <1>11 DEF Authorize, Loaded, EndAutomatic, AfterAutomatic
  <2>3. Counting' => TriggerIsStart(op.trig)
    BY <1>11 DEF Authorize, Counting, EndAutomatic, AfterAutomatic
  <2> QED
    BY <2>1, <2>2, <2>3, BoundAssumption DEF GuardInv, Locked, TypeOK, Guards, Loaded
<1>12. CASE PrepareBackend
  BY <1>12 DEF PrepareBackend, GuardInv, Counting, Loaded, TypeOK, Locals,
     AfterAutomatic, EndAutomatic
<1>13. CASE SelectAndOwn
  <2>1. Counting' => Counting
    BY <1>13 DEF SelectAndOwn, EnsureBeforeWrite, EndAutomatic, AfterAutomatic, Counting,
       TypeOK, Locals
  <2>2. pc' = "autoWrite" => ~guard.locked
    BY <1>13 DEF SelectAndOwn, EnsureBeforeWrite, EndAutomatic, AfterAutomatic,
       MayWriteAfterPrepare
  <2> QED
    BY <1>13, <2>1, <2>2 DEF SelectAndOwn, GuardInv, Loaded
<1>14. CASE AutoWrite
  BY <1>14, BoundAssumption DEF AutoWrite, GuardInv, Counting, Loaded, TypeOK, Guards
<1>15. CASE AutoCommit
  BY <1>15 DEF AutoCommit, GuardInv, Counting, Loaded, AfterAutomatic, EndAutomatic
<1>16. CASE AutoRetire
  BY <1>16 DEF AutoRetire, GuardInv, Counting, Loaded, AfterAutomatic, EndAutomatic
<1>17. CASE AutoRollback
  BY <1>17 DEF AutoRollback, GuardInv, Counting, Loaded, Rollback
<1>18. CASE AutoUncertain
  BY <1>18 DEF AutoUncertain, GuardInv, Counting, Loaded, EnterUncertain
<1>19. CASE NoteAutomaticFailure
  <2>1. UNCHANGED <<guard, dGuard>> \/ (guard' = Locked(guard) /\ dGuard' \in {dGuard, guard'})
    BY <1>19 DEF NoteAutomaticFailure, PersistGuard, Replace
  <2>2. ~Counting' /\ pc' # "autoWrite" /\ Loaded /\ UNCHANGED <<boot, startWrites>>
    BY <1>19 DEF NoteAutomaticFailure, EndAutomatic, AfterAutomatic, Counting, Loaded
  <2> QED
    BY <2>1, <2>2 DEF GuardInv, Locked, TypeOK, Guards, Loaded
<1>20. ASSUME NEW g \in Gpus, NEW d \in Requests, ApplyBegin(g, d) PROVE GuardInv'
  <2>1. pc' \in {"prepared", "serve"}
    BY <1>20 DEF ApplyBegin, EnsureBeforeWrite, Aborted
  <2> QED
    BY <1>20, <2>1 DEF ApplyBegin, GuardInv, Counting, Loaded
<1>21. ASSUME NEW g \in Gpus, ResetBegin(g) PROVE GuardInv'
  BY <1>21 DEF ResetBegin, GuardInv, Counting, Loaded, Aborted
<1>22. CASE StorePrepared
  BY <1>22 DEF StorePrepared, GuardInv, Counting, Loaded, Aborted
<1>23. CASE Mutate
  BY <1>23 DEF Mutate, GuardInv, Counting, Loaded
<1>24. CASE Commit
  BY <1>24 DEF Commit, GuardInv, Counting, Loaded
<1>25. CASE RetireMarker
  BY <1>25 DEF RetireMarker, GuardInv, Counting, Loaded
<1>26. CASE NoteExplicitSuccess
  <2>1. \/ UNCHANGED <<guard, dGuard>>
        \/ guard' = [guard EXCEPT !.locked = FALSE, !.attempts = 0] /\ dGuard' = guard'
        \/ /\ guard' = guard
           /\ dGuard' \in {dGuard, [guard EXCEPT !.locked = FALSE, !.attempts = 0]}
    BY <1>26 DEF NoteExplicitSuccess, PersistGuard, Replace
  <2>2. pc' = "serve" /\ Loaded /\ startWrites' = 0 /\ boot' = boot
    BY <1>26 DEF NoteExplicitSuccess, Finish, Loaded
  <2>3. guard'.boot = boot /\ guard'.attempts \in {0, guard.attempts}
    BY <2>1, <2>2 DEF GuardInv, TypeOK, Guards
  <2>4. dGuard'.attempts \in {0, dGuard.attempts}
    BY <2>1 DEF TypeOK, Guards
  <2>5. dGuard'.locked => guard'.locked
    BY <2>1, <2>2 DEF GuardInv, TypeOK, Guards
  <2> QED
    BY <2>2, <2>3, <2>4, <2>5, BoundAssumption DEF GuardInv, Counting, Loaded, TypeOK, Guards
<1>27. CASE RollbackMutation
  BY <1>27 DEF RollbackMutation, GuardInv, Counting, Loaded, Rollback
<1>28. CASE RestoreRecord
  BY <1>28 DEF RestoreRecord, GuardInv, Counting, Loaded, EnterUncertain, Finish
<1>29. CASE StoreUncertain
  BY <1>29 DEF StoreUncertain, GuardInv, Counting, Loaded, EnterUncertain
<1>30. CASE ReleaseFan
  BY <1>30 DEF ReleaseFan, GuardInv, Counting, Loaded, AfterRelease
<1>31. CASE ReleaseRetire
  BY <1>31 DEF ReleaseRetire, GuardInv, Counting, Loaded, AfterRelease
<1>32. CASE ResumeRestore
  BY <1>32 DEF ResumeRestore, GuardInv, Counting, Loaded
<1>33. ASSUME NEW p \in StartupPolicies, SetStartupPolicy(p) PROVE GuardInv'
  BY <1>33 DEF SetStartupPolicy, GuardInv, Counting, Loaded
<1>34. ASSUME NEW g \in Gpus, TargetedRead(g) PROVE GuardInv'
  BY <1>34 DEF TargetedRead, GuardInv, Counting, Loaded
<1>35. CASE UntargetedRead
  BY <1>35 DEF UntargetedRead, GuardInv, Counting, Loaded
<1>36. CASE ResumeDeferredHandback
  BY <1>36 DEF ResumeDeferredHandback, GuardInv, Counting, Loaded, StartTriggers,
     TriggerIsStart, Idle
<1>37. CASE FanMaintain
  BY <1>37 DEF FanMaintain, GuardInv, Counting, Loaded
<1>38. CASE FanLockout
  BY <1>38 DEF FanLockout, GuardInv, Counting, Loaded
<1>39. CASE FanLockoutRecord
  BY <1>39 DEF FanLockoutRecord, GuardInv, Counting, Loaded
<1>40. ASSUME NEW clean \in BOOLEAN, Stop(clean) PROVE GuardInv'
  <2>1. \/ UNCHANGED <<guard, dGuard>>
        \/ /\ guard' = [guard EXCEPT !.attempts = 0] /\ dGuard' \in {dGuard, guard'}
           /\ startWrites' = 0
    BY <1>40 DEF Stop, PersistGuard, Replace
  <2>2. startWrites' \in {0, startWrites} /\ pc' = "stopping" /\ Loaded /\ boot' = boot
    BY <1>40 DEF Stop, Loaded
  <2> QED
    BY <2>1, <2>2, BoundAssumption DEF GuardInv, Counting, Loaded, TypeOK, Guards
<1>41. CASE ReleaseAtStop
  BY <1>41 DEF ReleaseAtStop, GuardInv, Counting, Loaded
<1>42. CASE RetireAtStop
  BY <1>42 DEF RetireAtStop, GuardInv, Counting, Loaded
<1>43. CASE Exit
  BY <1>43, BoundAssumption DEF Exit, ResetMemory, NoGuard, GuardInv, Counting, Loaded
<1>44. CASE Crash
  BY <1>44, BoundAssumption DEF Crash, ResetMemory, NoGuard, GuardInv, Counting, Loaded
<1>45. CASE Reboot
  BY <1>45, BoundAssumption DEF Reboot, ResetMemory, NoGuard, GuardInv, Counting, Loaded
<1>46. CASE Standby
  BY <1>46 DEF Standby, GuardInv, Counting, Loaded
<1>47. CASE UNCHANGED vars
  BY <1>47 DEF vars, GuardInv, Counting, Loaded
<1> QED
  BY <1>1, <1>2, <1>3, <1>4, <1>5, <1>6, <1>7, <1>8, <1>9, <1>10, <1>11, <1>12, <1>13,
     <1>14, <1>15, <1>16, <1>17, <1>18, <1>19, <1>20, <1>21, <1>22, <1>23, <1>24, <1>25,
     <1>26, <1>27, <1>28, <1>29, <1>30, <1>31, <1>32, <1>33, <1>34, <1>35, <1>36, <1>37,
     <1>38, <1>39, <1>40, <1>41, <1>42, <1>43, <1>44, <1>45, <1>46, <1>47 DEF Next,
     StartUp, Handback, AutomaticRestore, ExplicitOperation, ReleaseForUncertain,
     Requested, FanWorker, Stopping, Environment

\* GuardInv holds of every reachable state: no order of restarts, failed stores
\* and operations makes the guard count less than was written.
THEOREM GuardIsSound == Spec => []GuardInv
<1>1. Init => GuardInv
  BY BoundAssumption DEF Init, GuardInv, Counting, Loaded, NoGuard
<1>2. TypeOK /\ Targeted /\ GuardInv /\ [Next]_vars => GuardInv'
  BY GuardStep
<1> QED
  BY <1>1, <1>2, TypeCorrect, PTL DEF Spec

\* However often the daemon dies and is restarted, at most MaxStartAttempts
\* start-time writes reach the hardware in one boot without a user's success or
\* an orderly stop in between (auto_restore_authorize).
THEOREM StartWritesAreBounded == Spec => []StartWritesBounded
<1>1. GuardInv => StartWritesBounded
  BY DEF GuardInv, StartWritesBounded
<1> QED
  BY <1>1, GuardIsSound, PTL

\* Whenever an unattended write is about to reach the hardware, the guard a
\* restart would read is unlocked and already counts it (auto_restore_authorize,
\* linux_auto_restore_may_write_after_prepare).
THEOREM WritesAreAuthorized == Spec => []AutomaticWriteIsDurablyAuthorized
<1>1. TypeOK /\ GuardInv => AutomaticWriteIsDurablyAuthorized
  BY DEF TypeOK, Guards, GuardInv, Counting, Loaded, AutomaticWriteIsDurablyAuthorized
<1> QED
  BY <1>1, TypeCorrect, GuardIsSound, PTL

\* A locked guard on disk stays locked through restarts, reboots and failed
\* stores until a user's Apply or Reset succeeds (auto_restore_note_explicit_success
\* is the only place that clears it).
THEOREM LockoutIsTheUsers == Spec => LockoutNeedsUser
<1> DEFINE Unlocks == dGuard.locked /\ ~dGuard'.locked
<1>1. TypeOK /\ GuardInv /\ [Next]_vars => [Unlocks => pc = "noteSuccess"]_vars
  <2> SUFFICES ASSUME TypeOK, GuardInv, Next, Unlocks, pc # "noteSuccess" PROVE FALSE
    BY DEF vars
  <2> USE DEF machine, disk, memory, history
  <2>1. Loaded => guard.locked
    BY DEF GuardInv
  <2>2. \/ dGuard' = dGuard
        \/ Loaded /\ dGuard' \in {guard, Locked(guard), [guard EXCEPT !.attempts = 0]}
    <3>1. CASE HandbackAtStart
      BY <3>1 DEF HandbackAtStart, PersistGuard, Replace, Loaded
    <3>2. CASE HandbackResolve
      BY <3>2 DEF HandbackResolve, PersistGuard, Replace, Loaded
    <3>3. CASE HandbackLatch
      BY <3>3 DEF HandbackLatch, PersistGuard, Replace, Loaded
    <3>4. CASE NoteAutomaticFailure
      BY <3>4 DEF NoteAutomaticFailure, PersistGuard, Replace, Loaded
    <3>5. CASE Authorize
      <4>1. guard.locked
        BY <2>1, <3>5 DEF Authorize, Loaded
      <4>2. Decide(op.trig) = "lockedOut"
        BY <4>1 DEF Decide
      <4> QED
        BY <3>5, <4>2 DEF Authorize
    <3>6. ASSUME NEW clean \in BOOLEAN, Stop(clean)
          PROVE  \/ dGuard' = dGuard
                 \/ dGuard' = [guard EXCEPT !.attempts = 0] /\ Loaded
      BY <3>6 DEF Stop, PersistGuard, Replace, Loaded
    <3> QED
      BY <3>1, <3>2, <3>3, <3>4, <3>5, <3>6 DEF Next, StartUp, Handback,
         AutomaticRestore, ExplicitOperation, ReleaseForUncertain, Requested, FanWorker,
         Stopping, Environment, NoteExplicitSuccess, Start, BootInit, LoadStartupPolicy,
         LoadStateRecord, HandbackWrite, HandbackRetire, HandbackRefused,
         PrepareBackend, SelectAndOwn, AutoWrite, AutoCommit, AutoRetire, AutoRollback,
         AutoUncertain, ApplyBegin, ResetBegin, StorePrepared, Mutate, Commit,
         RetireMarker, RollbackMutation, RestoreRecord, StoreUncertain, ReleaseFan,
         ReleaseRetire, ResumeRestore, SetStartupPolicy, TargetedRead, UntargetedRead,
         ResumeDeferredHandback, FanMaintain, FanLockout, FanLockoutRecord,
         ReleaseAtStop, RetireAtStop, Exit, Crash, Reboot, Standby
  <2> QED
    BY <2>1, <2>2 DEF TypeOK, Guards, Locked
<1> QED
  BY <1>1, TypeCorrect, GuardIsSound, PTL DEF Spec, LockoutNeedsUser

-----------------------------------------------------------------------------
(* The record, the intent in memory and the hardware.                      *)

\* An ACTIVE record is the intent the daemon serves, at any point of any handler.
ActiveIsCommitted ==
    active.on /\ dRec.st = "ACTIVE" => dRec = Record("ACTIVE", active.gpu, active.want)

\* Which steps concern the record and the intent in memory: the daemon's death and
\* its start leave none in memory, every other step without a store leaves both.
LEMMA RecordMoves ==
    ASSUME Next
    PROVE  \/ UNCHANGED <<dRec, active>>
           \/ UNCHANGED dRec /\ active' = NoIntent
           \/ AutoCommit \/ AutoUncertain \/ StorePrepared \/ Commit \/ RestoreRecord
           \/ StoreUncertain \/ FanLockoutRecord
<1> USE DEF machine, disk, memory, history
<1>1. CASE StartUp \/ Handback
  BY <1>1 DEF StartUp, Handback, Start, BootInit, HandbackAtStart, LoadStartupPolicy,
     LoadStateRecord, HandbackResolve, HandbackWrite, HandbackRetire, HandbackRefused,
     HandbackLatch
<1>2. CASE AutomaticRestore
  BY <1>2 DEF AutomaticRestore, Authorize, PrepareBackend, SelectAndOwn, AutoWrite,
     AutoRetire, AutoRollback, NoteAutomaticFailure
<1>3. CASE ExplicitOperation \/ ReleaseForUncertain
  BY <1>3 DEF ExplicitOperation, ReleaseForUncertain, Mutate, RetireMarker,
     NoteExplicitSuccess, RollbackMutation, ReleaseFan, ReleaseRetire
<1>4. CASE Requested
  BY <1>4 DEF Requested, ApplyBegin, ResetBegin, TargetedRead, SetStartupPolicy,
     ResumeRestore, UntargetedRead
<1>5. CASE FanWorker
  BY <1>5 DEF FanWorker, ResumeDeferredHandback, FanMaintain, FanLockout
<1>6. CASE Stopping \/ Environment
  BY <1>6 DEF Stopping, Environment, Stop, ReleaseAtStop, RetireAtStop, Exit, Crash,
     Reboot, Standby, ResetMemory
<1> QED
  BY <1>1, <1>2, <1>3, <1>4, <1>5, <1>6 DEF Next

\* A commit stores the intent before it publishes it, a failed operation puts the
\* intent in memory back, and everything else that is stored is not ACTIVE.
LEMMA RecordStep ==
    ASSUME ~DirSyncFaults
    PROVE  TypeOK /\ ActiveIsCommitted /\ [Next]_vars => ActiveIsCommitted'
<1> SUFFICES ASSUME TypeOK, ActiveIsCommitted, [Next]_vars PROVE ActiveIsCommitted'
  OBVIOUS
<1>1. CASE AutoCommit
  BY <1>1 DEF AutoCommit, Replace, Record, ActiveIsCommitted
<1>2. CASE AutoUncertain
  BY <1>2 DEF AutoUncertain, Replace, Record, ActiveIsCommitted
<1>3. CASE StorePrepared
  BY <1>3 DEF StorePrepared, Replace, Record, ActiveIsCommitted, memory
<1>4. CASE Commit
  BY <1>4 DEF Commit, Replace, Record, NoRecord, NoIntent, ActiveIsCommitted
<1>5. CASE RestoreRecord
  <2>1. [op.cap EXCEPT !.st = "UNCERTAIN"].st # "ACTIVE"
    BY LocalsUpdate DEF TypeOK, Records
  <2>2. PreviousRecord.st = "ACTIVE" => PreviousRecord = Record("ACTIVE", active.gpu, active.want)
    BY <2>1 DEF PreviousRecord, Record, NoRecord
  <2>3. dRec' \in {dRec, PreviousRecord} /\ UNCHANGED active
    BY <1>5 DEF RestoreRecord, Replace
  <2> QED
    BY <2>2, <2>3 DEF ActiveIsCommitted, Record
<1>6. CASE StoreUncertain
  BY <1>6 DEF StoreUncertain, Replace, Record, ActiveIsCommitted
<1>7. CASE FanLockoutRecord
  BY <1>7 DEF FanLockoutRecord, Replace, Record, ActiveIsCommitted
<1>8. CASE UNCHANGED <<dRec, active>>
  BY <1>8 DEF ActiveIsCommitted, Record
<1>9. CASE active' = NoIntent
  BY <1>9 DEF ActiveIsCommitted, NoIntent
<1>10. CASE UNCHANGED vars
  BY <1>8, <1>10 DEF vars, disk, memory
<1> QED
  BY <1>1, <1>2, <1>3, <1>4, <1>5, <1>6, <1>7, <1>8, <1>9, <1>10, RecordMoves

\* While the daemon serves an intent, a restart would replay that intent or none,
\* whichever stores failed on the way; a directory fsync that fails after the rename
\* is excluded, since the record of a failed commit may then be the one on disk
\* (restore_committed_record).
THEOREM ReplayIsTheCommittedIntent ==
    ASSUME ~DirSyncFaults
    PROVE  Spec => []ReplayedIntentIsTheCommittedOne
<1>1. Init => ActiveIsCommitted
  BY DEF Init, ActiveIsCommitted, NoIntent
<1>2. TypeOK /\ ActiveIsCommitted /\ [Next]_vars => ActiveIsCommitted'
  BY RecordStep
<1>3. ActiveIsCommitted => ReplayedIntentIsTheCommittedOne
  BY DEF ActiveIsCommitted, ReplayedIntentIsTheCommittedOne
<1> QED
  BY <1>1, <1>2, <1>3, TypeCorrect, PTL DEF Spec

\* An uncertain outcome is on disk as well as in memory, and an operation whose
\* commit can be stored is never rolled back after it.
UncertainIsStored ==
    /\ uncertain => dRec.st # "ACTIVE"
    /\ pc \in {"prepared", "mutate", "restoreRecord"} => ~op.mutated
    /\ pc # "rollback"

\* With stores and reads that work, every handler that ends uncertain has stored
\* UNCERTAIN first or finds no ACTIVE record, and no commit fails (load_state_at_boot,
\* enter_uncertain_state).
LEMMA UncertainStep ==
    ASSUME ~StoreFaults, ~ReadFaults
    PROVE  TypeOK /\ UncertainIsStored /\ [Next]_vars => UncertainIsStored'
<1> SUFFICES ASSUME TypeOK, UncertainIsStored, [Next]_vars PROVE UncertainIsStored'
  OBVIOUS
<1> USE DEF machine, disk, memory, history
<1>1. StoreOutcomes = {TRUE} /\ ReadOutcomes = {TRUE}
  BY DEF StoreOutcomes, ReadOutcomes
<1>2. \A old, new : Replace(old, new, TRUE) = {new}
  BY DEF Replace
<1>3. ~Idle.mutated
  BY DEF Idle
<1>4. CASE StartUp
  <2>1. CASE LoadStateRecord
    <3>1. pc' \in {"authorize", "serve"} /\ UNCHANGED dRec
      BY <2>1 DEF LoadStateRecord, Finish
    <3>2. uncertain' => uncertain \/ dRec.st # "ACTIVE"
      BY <1>1, <2>1 DEF LoadStateRecord
    <3> QED
      BY <3>1, <3>2 DEF UncertainIsStored
  <2>2. CASE Start \/ BootInit \/ HandbackAtStart \/ LoadStartupPolicy
    <3>1. pc' \in {"init", "handback", "policy", "hbRun", "authorize", "loadState"}
      BY <2>2 DEF Start, BootInit, HandbackAtStart, LoadStartupPolicy
    <3>2. UNCHANGED <<dRec, uncertain>>
      BY <2>2 DEF Start, BootInit, HandbackAtStart, LoadStartupPolicy
    <3> QED
      BY <3>1, <3>2 DEF UncertainIsStored
  <2> QED
    BY <1>4, <2>1, <2>2 DEF StartUp
<1>5. CASE Handback
  <2>1. op.ret \in {"serve", "policy", "select"}
    BY DEF TypeOK, Locals
  <2> QED
    BY <1>5, <2>1 DEF Handback, HandbackResolve, HandbackWrite, HandbackRetire,
       HandbackRefused, HandbackLatch, UncertainIsStored
<1>6. CASE AutomaticRestore
  <2>1. CASE AutoCommit
    BY <1>1, <1>2, <2>1 DEF AutoCommit, EndAutomatic, AfterAutomatic, UncertainIsStored
  <2>2. CASE AutoUncertain
    <3>1. dRec'.st = "UNCERTAIN"
      <4>1. dRec' = Record("UNCERTAIN", sel, op.want)
        BY <1>1, <2>2 DEF AutoUncertain, Replace
      <4> QED
        BY <4>1 DEF Record
    <3>2. pc' \in {"release", "noteFailure"}
      BY <2>2 DEF AutoUncertain, EnterUncertain
    <3> QED
      BY <3>1, <3>2 DEF UncertainIsStored
  <2>3. CASE \/ Authorize \/ PrepareBackend \/ SelectAndOwn \/ AutoWrite \/ AutoRetire
             \/ AutoRollback \/ NoteAutomaticFailure
    BY <2>3 DEF Authorize, PrepareBackend, SelectAndOwn, EnsureBeforeWrite, AutoWrite,
       AutoRetire, AutoRollback, Rollback, NoteAutomaticFailure, EndAutomatic,
       AfterAutomatic, UncertainIsStored
  <2> QED
    BY <1>6, <2>1, <2>2, <2>3 DEF AutomaticRestore
<1>7. CASE ExplicitOperation
  <2>1. CASE StorePrepared
    <3>1. dRec'.st = "PREPARED" /\ pc' = "mutate" /\ UNCHANGED <<op, uncertain>>
      <4>1. /\ dRec' = Record("PREPARED", op.gpu, op.want)
            /\ pc' = "mutate" /\ UNCHANGED <<op, uncertain>>
        BY <1>1, <2>1 DEF StorePrepared, Replace
      <4> QED
        BY <4>1 DEF Record
    <3>2. ~op.mutated
      BY <2>1 DEF StorePrepared, UncertainIsStored
    <3> QED
      BY <3>1, <3>2 DEF UncertainIsStored
  <2>2. CASE Mutate
    BY <2>2 DEF Mutate, UncertainIsStored
  <2>3. CASE Commit
    BY <1>1, <1>2, <2>3 DEF Commit, UncertainIsStored
  <2>4. CASE RestoreRecord
    <3>1. [op.cap EXCEPT !.st = "UNCERTAIN"].st # "ACTIVE"
      BY LocalsUpdate DEF TypeOK, Records
    <3>2. uncertain => PreviousRecord.st # "ACTIVE"
      BY <3>1 DEF PreviousRecord, Record
    <3>3. dRec' = PreviousRecord /\ pc' = "serve" /\ UNCHANGED uncertain
      BY <1>1, <1>2, <2>4 DEF RestoreRecord, Finish, UncertainIsStored
    <3> QED
      BY <3>2, <3>3 DEF UncertainIsStored
  <2>5. CASE StoreUncertain
    <3>1. dRec'.st = "UNCERTAIN"
      <4>1. dRec' = Record("UNCERTAIN", sel, op.want)
        BY <1>1, <2>5 DEF StoreUncertain, Replace
      <4> QED
        BY <4>1 DEF Record
    <3>2. pc' \in {"release", "serve"}
      BY <2>5 DEF StoreUncertain, EnterUncertain
    <3> QED
      BY <3>1, <3>2 DEF UncertainIsStored
  <2>6. CASE RetireMarker \/ NoteExplicitSuccess \/ RollbackMutation
    BY <2>6 DEF RetireMarker, NoteExplicitSuccess, RollbackMutation, Finish, UncertainIsStored
  <2> QED
    BY <1>7, <2>1, <2>2, <2>3, <2>4, <2>5, <2>6 DEF ExplicitOperation
<1>8. CASE ReleaseForUncertain
  BY <1>8 DEF ReleaseForUncertain, ReleaseFan, ReleaseRetire, AfterRelease, UncertainIsStored
<1>9. CASE Requested
  <2>1. ASSUME NEW g \in Gpus, NEW d \in Requests, ApplyBegin(g, d) PROVE UncertainIsStored'
    <3>1. pc' \in {"serve", "prepared"} /\ UNCHANGED <<dRec, uncertain>> /\ ~op'.mutated
      BY <2>1, <1>3 DEF ApplyBegin, EnsureBeforeWrite, Aborted, Idle
    <3> QED
      BY <3>1 DEF UncertainIsStored
  <2>2. ASSUME NEW g \in Gpus, ResetBegin(g) PROVE UncertainIsStored'
    <3>1. pc' \in {"serve", "prepared"} /\ UNCHANGED <<dRec, uncertain>> /\ ~op'.mutated
      BY <2>2, <1>3 DEF ResetBegin, Aborted, Idle
    <3> QED
      BY <3>1 DEF UncertainIsStored
  <2>3. ASSUME NEW g \in Gpus, TargetedRead(g) PROVE UncertainIsStored'
    BY <2>3 DEF TargetedRead, UncertainIsStored
  <2>4. ASSUME NEW p \in StartupPolicies, SetStartupPolicy(p) PROVE UncertainIsStored'
    BY <2>4 DEF SetStartupPolicy, UncertainIsStored
  <2>5. CASE ResumeRestore \/ UntargetedRead
    BY <2>5 DEF ResumeRestore, UntargetedRead, UncertainIsStored
  <2> QED
    BY <1>9, <2>1, <2>2, <2>3, <2>4, <2>5 DEF Requested
<1>10. CASE FanWorker
  <2>1. CASE FanLockoutRecord
    <3>1. dRec'.st = "UNCERTAIN"
      <4>1. dRec' = Record("UNCERTAIN", active.gpu, active.want)
        BY <1>1, <2>1 DEF FanLockoutRecord, Replace
      <4> QED
        BY <4>1 DEF Record
    <3>2. pc' \in {"serve", "releaseRetire"}
      BY <2>1 DEF FanLockoutRecord
    <3> QED
      BY <3>1, <3>2 DEF UncertainIsStored
  <2>2. CASE ResumeDeferredHandback \/ FanMaintain \/ FanLockout
    BY <2>2 DEF ResumeDeferredHandback, FanMaintain, FanLockout, UncertainIsStored
  <2> QED
    BY <1>10, <2>1, <2>2 DEF FanWorker
<1>11. CASE Stopping
  BY <1>11 DEF Stopping, Stop, ReleaseAtStop, RetireAtStop, Exit, ResetMemory, UncertainIsStored
<1>12. CASE Environment
  BY <1>12 DEF Environment, Crash, Reboot, Standby, ResetMemory, UncertainIsStored
<1>13. CASE UNCHANGED vars
  BY <1>13 DEF vars, UncertainIsStored
<1> QED
  BY <1>4, <1>5, <1>6, <1>7, <1>8, <1>9, <1>10, <1>11, <1>12, <1>13 DEF Next

\* Where records can be stored and read, an uncertain outcome that was reported is
\* not written over by a restart: no ACTIVE record stays behind, for any faults of
\* the hardware and the backend (linux_failed_operation_record, AutoUncertain).
THEOREM UncertaintyIsOnDisk ==
    ASSUME ~StoreFaults, ~ReadFaults
    PROVE  Spec => []UncertaintyIsDurable
<1>1. Init => UncertainIsStored
  BY DEF Init, UncertainIsStored
<1>2. TypeOK /\ UncertainIsStored /\ [Next]_vars => UncertainIsStored'
  BY UncertainStep
<1>3. UncertainIsStored => UncertaintyIsDurable
  BY DEF UncertainIsStored, UncertaintyIsDurable
<1> QED
  BY <1>1, <1>2, <1>3, TypeCorrect, PTL DEF Spec

\* Where the clocks and the intent may differ: between a write and its outcome.
Unsettled == {"commit", "rollback", "restoreRecord", "storeUncertain",
              "autoCommit", "autoRollback", "autoUncertain"}

\* An explicit operation after its checks.
Underway == {"prepared", "mutate", "commit", "rollback", "restoreRecord", "storeUncertain"}

\* Clocks that agree with the intent in memory, or with what standby leaves.
Agreeing == {active.want.oc, "stock"}

\* The intent is on the GPU wherever nothing is in flight, what is in flight is on
\* the intent's adapter, and the snapshot a rollback goes back to agrees too.
IntentHeld ==
    /\ active.on /\ ~uncertain /\ pc \notin Unsettled => hw[active.gpu].oc \in Agreeing
    /\ active.on /\ pc \in Underway => active.gpu = sel
    /\ op.req.oc = op.want.oc
    /\ pc \in {"commit", "rollback"} => op.mutated
    /\ pc = "autoCommit" \/ (pc = "commit" /\ op.trig = "apply") => hw[sel].oc = op.want.oc
    /\ active.on /\ ~uncertain =>
          /\ pc \in {"prepared", "mutate", "commit", "rollback"} => op.before.oc \in Agreeing
          /\ pc = "restoreRecord" /\ (op.mutated => op.rolledBack) => hw[active.gpu].oc \in Agreeing

\* Giving a fan back or driving it leaves the clocks alone.
LEMMA FanOnly ==
    ASSUME TypeOK, NEW s,
           \/ hw' = hw
           \/ hw' = [hw EXCEPT ![s] = FanReturned(@)]
           \/ \E h \in FanNotReturned(hw[s]) : hw' = [hw EXCEPT ![s] = h]
           \/ \E f : hw' = [hw EXCEPT ![s].fan = f]
    PROVE  \A g \in Gpus : hw'[g].oc = hw[g].oc
BY DEF TypeOK, Hardware, FanReturned, FanNotReturned

\* A step that leaves intent, locals and clocks alone, and starts or ends no write,
\* leaves what is held.
LEMMA StillHeld ==
    ASSUME TypeOK, Targeted, IntentHeld, UNCHANGED <<active, op>>,
           \A g \in Gpus : hw'[g].oc = hw[g].oc,
           uncertain => uncertain',
           pc \notin Unsettled \cup Underway, pc' \notin Unsettled \cup Underway
    PROVE  IntentHeld'
BY DEF IntentHeld, Targeted, Unsettled, Underway, Agreeing

\* The same for a step that begins or ends a handler with no write under way.
LEMMA NothingHeldChanges ==
    ASSUME TypeOK, Targeted, IntentHeld, UNCHANGED <<active, hw>>,
           op' = Idle \/ op'.req.oc = op'.want.oc,
           uncertain => uncertain',
           pc \notin Unsettled \cup Underway, pc' \notin Unsettled \cup Underway
    PROVE  IntentHeld'
<1>1. op'.req.oc = op'.want.oc
  BY DEF Idle
<1> QED
  BY <1>1 DEF IntentHeld, Targeted, Unsettled, Underway, Agreeing

\* Without an intent in memory there is nothing to hold.
LEMMA NothingHeld ==
    ASSUME active' = NoIntent, op' = Idle, pc' = "down"
    PROVE  IntentHeld'
BY DEF IntentHeld, NoIntent, Idle

\* Nor is there once the daemon knows that it does not know.
LEMMA NotHeldIfUncertain ==
    ASSUME uncertain', op'.req.oc = op'.want.oc, pc' \notin Underway \cup {"autoCommit"}
    PROVE  IntentHeld'
BY DEF IntentHeld, Underway

\* Every step keeps IntentHeld: a commit publishes what it wrote, a rollback returns
\* to a snapshot that agreed, and everything that may leave other clocks ends
\* uncertain.
LEMMA HeldStep == TypeOK /\ Targeted /\ IntentHeld /\ [Next]_vars => IntentHeld'
<1> SUFFICES ASSUME TypeOK, Targeted, IntentHeld, [Next]_vars PROVE IntentHeld'
  OBVIOUS
<1> USE DEF machine, disk, memory, history
<1>1. CASE StartUp
  <2>1. UNCHANGED <<active, hw>> /\ (uncertain => uncertain')
    <3>1. CASE LoadStateRecord
      BY <3>1 DEF LoadStateRecord
    <3>2. CASE Start \/ BootInit \/ HandbackAtStart \/ LoadStartupPolicy
      BY <3>2 DEF Start, BootInit, HandbackAtStart, LoadStartupPolicy
    <3> QED
      BY <1>1, <3>1, <3>2 DEF StartUp
  <2>2. /\ pc \in {"down", "init", "handback", "policy", "loadState"}
        /\ pc' \in {"init", "handback", "policy", "hbRun", "authorize", "loadState", "serve"}
    BY <1>1 DEF StartUp, Start, BootInit, HandbackAtStart, LoadStartupPolicy,
       LoadStateRecord, Finish
  <2>3. op'.req.oc = op'.want.oc
    <3>1. op.req.oc = op.want.oc
      BY DEF IntentHeld
    <3>2. CASE LoadStartupPolicy
      <4>1. CASE op' = Idle
        BY <4>1 DEF Idle
      <4>2. CASE op' = [Idle EXCEPT !.trig = "profile", !.gpu = policy'.gpu,
                                    !.req = policy'.want, !.want = policy'.want]
        <5>1. op'.req = policy'.want /\ op'.want = policy'.want
          BY <4>2 DEF Idle
        <5> QED
          BY <5>1
      <4> QED
        BY <3>2, <4>1, <4>2 DEF LoadStartupPolicy
    <3>3. CASE LoadStateRecord
      <4>1. CASE op' = Idle
        BY <4>1 DEF Idle
      <4>2. CASE op' = [Idle EXCEPT !.trig = "restoreLast", !.gpu = dRec.gpu,
                                    !.req = dRec.want, !.want = dRec.want]
        <5>1. op'.req = dRec.want /\ op'.want = dRec.want
          BY <4>2 DEF Idle
        <5> QED
          BY <5>1
      <4> QED
        BY <3>3, <4>1, <4>2 DEF LoadStateRecord, Finish
    <3>4. CASE HandbackAtStart
      BY <3>1, <3>4 DEF HandbackAtStart, Idle
    <3> QED
      BY <1>1, <3>1, <3>2, <3>3, <3>4 DEF StartUp, Start, BootInit
  <2> QED
    BY <2>1, <2>2, <2>3, NothingHeldChanges DEF Unsettled, Underway
<1>2. CASE Handback
  <2>1. op.ret \in {"serve", "policy", "select"}
    BY DEF TypeOK, Locals
  <2>2. UNCHANGED <<active, op, uncertain>>
    BY <1>2 DEF Handback, HandbackResolve, HandbackWrite, HandbackRetire, HandbackRefused,
       HandbackLatch
  <2>3. \A g \in Gpus : hw'[g].oc = hw[g].oc
    BY <1>2, FanOnly DEF Handback, HandbackResolve, HandbackWrite, HandbackRetire,
       HandbackRefused, HandbackLatch
  <2>4. /\ pc \in {"hbRun", "hbWrite", "hbRetire", "hbRefused", "hbLatch"}
        /\ pc' \in {"hbWrite", "hbRetire", "hbRefused", "hbLatch", "serve", "policy", "select"}
    BY <1>2, <2>1 DEF Handback, HandbackResolve, HandbackWrite, HandbackRetire,
       HandbackRefused, HandbackLatch
  <2> QED
    BY <2>2, <2>3, <2>4, StillHeld DEF Unsettled, Underway
<1>3. CASE Authorize \/ PrepareBackend \/ SelectAndOwn
  <2>1. UNCHANGED <<active, hw, uncertain>>
    BY <1>3 DEF Authorize, PrepareBackend, SelectAndOwn
  <2>2. /\ pc \in {"authorize", "prepare", "select"}
        /\ pc' \in {"prepare", "select", "hbRun", "autoWrite", "loadState", "serve"}
    BY <1>3 DEF Authorize, PrepareBackend, SelectAndOwn, EnsureBeforeWrite, EndAutomatic,
       AfterAutomatic
  <2>3. op' = Idle \/ op'.req.oc = op'.want.oc
    <3>1. op \in Locals /\ op.req.oc = op.want.oc
      BY DEF IntentHeld, TypeOK
    <3>2. \/ op' = op \/ op' = Idle \/ op' = [op EXCEPT !.ret = "select"]
          \/ op' = [op EXCEPT !.before = hw[op.gpu]]
      BY <1>3 DEF Authorize, PrepareBackend, SelectAndOwn, EnsureBeforeWrite, EndAutomatic
    <3> QED
      BY <3>1, <3>2 DEF Locals
  <2> QED
    BY <2>1, <2>2, <2>3, NothingHeldChanges DEF Unsettled, Underway
<1>4. CASE AutoWrite
  <2>1. UNCHANGED <<active, op, uncertain, sel>> /\ sel \in Gpus /\ op.req.oc = op.want.oc
    BY <1>4 DEF AutoWrite, IntentHeld, Targeted
  <2>2. CASE pc' = "autoCommit"
    <3>1. \E h \in Applied(hw[sel], op.req) : hw' = [hw EXCEPT ![sel] = h]
      BY <1>4, <2>2 DEF AutoWrite
    <3>2. hw'[sel].oc = op.want.oc
      BY <2>1, <3>1 DEF Applied, TypeOK
    <3> QED
      BY <2>1, <2>2, <3>2 DEF IntentHeld, Unsettled, Underway
  <2>3. CASE pc' = "autoUncertain"
    BY <2>1, <2>3 DEF IntentHeld, Unsettled, Underway
  <2> QED
    BY <1>4, <2>2, <2>3 DEF AutoWrite
<1>5. CASE AutoCommit
  <2>1. UNCHANGED <<hw, sel>> /\ hw[sel].oc = op.want.oc /\ op.req.oc = op.want.oc
    BY <1>5 DEF AutoCommit, IntentHeld
  <2>2. CASE pc' = "autoRollback"
    <3>1. UNCHANGED <<active, uncertain, op>>
      BY <1>5, <2>2 DEF AutoCommit, EndAutomatic, AfterAutomatic
    <3> QED
      BY <2>1, <2>2, <3>1 DEF IntentHeld, Unsettled, Underway
  <2>3. CASE pc' # "autoRollback"
    <3>1. /\ active' = [on |-> TRUE, gpu |-> sel, want |-> op.want]
          /\ pc' \in {"autoRetire", "loadState", "serve"} /\ op' \in {op, Idle}
      BY <1>5, <2>3 DEF AutoCommit, EndAutomatic, AfterAutomatic
    <3>2. op'.req.oc = op'.want.oc
      BY <2>1, <3>1 DEF Idle
    <3> QED
      BY <2>1, <3>1, <3>2 DEF IntentHeld, Unsettled, Underway, Agreeing
  <2> QED
    BY <2>2, <2>3
<1>6. CASE AutoRetire
  BY <1>6, NothingHeldChanges DEF AutoRetire, EndAutomatic, AfterAutomatic, Unsettled, Underway
<1>7. CASE AutoRollback
  <2>1. /\ UNCHANGED <<active, uncertain>> /\ pc' = "autoUncertain"
        /\ \E ok \in BOOLEAN : op' = [op EXCEPT !.rolledBack = ok]
    BY <1>7 DEF AutoRollback, Rollback, HwOutcomes
  <2>2. op'.req.oc = op'.want.oc
    BY <2>1 DEF IntentHeld, TypeOK, Locals
  <2> QED
    BY <2>1, <2>2 DEF IntentHeld, Unsettled, Underway
<1>8. CASE AutoUncertain
  <2>1. uncertain' /\ op' = op /\ pc' \in {"release", "noteFailure"}
    BY <1>8 DEF AutoUncertain, EnterUncertain
  <2>2. op.req.oc = op.want.oc
    BY DEF IntentHeld
  <2> QED
    BY <2>1, <2>2, NotHeldIfUncertain DEF Underway
<1>9. CASE NoteAutomaticFailure
  BY <1>9, NothingHeldChanges
     DEF NoteAutomaticFailure, EndAutomatic, AfterAutomatic, Unsettled, Underway
<1>10. ASSUME NEW g \in Gpus, NEW d \in Requests, ApplyBegin(g, d) PROVE IntentHeld'
  <2>1. /\ pc = "serve" /\ sel' = g /\ (active.on => active.gpu = g)
        /\ UNCHANGED <<hw, active, uncertain>>
    BY <1>10 DEF ApplyBegin, MaySelect
  <2>2. CASE pc' = "serve" /\ op' = Idle
    BY <2>1, <2>2, NothingHeldChanges DEF Unsettled, Underway
  <2>3. CASE /\ pc' = "prepared"
             /\ op' = [Idle EXCEPT !.trig = "apply", !.gpu = g, !.req = d,
                                   !.want = Merge(active, d), !.cap = Captured,
                                   !.before = hw[g]]
    <3>1. op'.req = d /\ op'.want = Merge(active, d) /\ op'.before = hw[g]
      BY <2>3 DEF Idle
    <3>2. d \in Wants
      BY RequestAssumption
    <3>3. Merge(active, d).oc = d.oc
      BY <3>2 DEF Merge, Wants
    <3> QED
      BY <2>1, <2>3, <3>1, <3>3 DEF IntentHeld, Unsettled, Underway, Agreeing
  <2> QED
    BY <1>10, <2>2, <2>3 DEF ApplyBegin, EnsureBeforeWrite, Aborted
<1>11. ASSUME NEW g \in Gpus, ResetBegin(g) PROVE IntentHeld'
  <2>1. /\ pc = "serve" /\ sel' = g /\ (active.on => active.gpu = g)
        /\ UNCHANGED <<hw, active, uncertain>>
    BY <1>11 DEF ResetBegin, MaySelect
  <2>2. CASE pc' = "serve" /\ op' = Idle
    BY <2>1, <2>2, NothingHeldChanges DEF Unsettled, Underway
  <2>3. CASE /\ pc' = "prepared"
             /\ op' = [Idle EXCEPT !.trig = "reset", !.gpu = g, !.cap = Captured,
                                   !.before = hw[g]]
    <3>1. op'.req = op'.want /\ op'.before = hw[g]
      BY <2>3 DEF Idle
    <3> QED
      BY <2>1, <2>3, <3>1 DEF IntentHeld, Unsettled, Underway, Agreeing
  <2> QED
    BY <1>11, <2>2, <2>3 DEF ResetBegin, Aborted
<1>12. CASE StorePrepared
  <2>1. UNCHANGED <<hw, active, uncertain, sel>> /\ pc = "prepared"
    BY <1>12 DEF StorePrepared
  <2>2. CASE pc' = "mutate" /\ op' = op
    BY <2>1, <2>2 DEF IntentHeld, Unsettled, Underway, Agreeing
  <2>3. CASE pc' = "serve" /\ op' = Idle
    BY <2>1, <2>3 DEF IntentHeld, Unsettled, Underway, Agreeing, Idle
  <2> QED
    BY <1>12, <2>2, <2>3 DEF StorePrepared, Aborted
<1>13. CASE Mutate
  <2>1. /\ UNCHANGED <<active, uncertain, sel>> /\ pc = "mutate" /\ sel \in Gpus
        /\ op.req.oc = op.want.oc
    BY <1>13 DEF Mutate, Targeted, IntentHeld
  <2>2. op \in Locals
    BY DEF TypeOK
  <2>3. CASE pc' = "commit"
    <3>1. /\ op' = [op EXCEPT !.mutated = TRUE]
          /\ \E h \in (IF op.trig = "apply" THEN Applied(hw[sel], op.req) ELSE {StockHw}) :
                hw' = [hw EXCEPT ![sel] = h]
      BY <1>13, <2>3 DEF Mutate
    <3>2. op'.req = op.req /\ op'.want = op.want /\ op'.before = op.before /\ op'.trig = op.trig
      BY <2>2, <3>1 DEF Locals
    <3>3. op.trig = "apply" => hw'[sel].oc = op.want.oc
      BY <2>1, <3>1 DEF Applied, TypeOK
    <3>4. active.on => active.gpu = sel
      BY <2>1 DEF IntentHeld, Underway
    <3>5. active.on /\ ~uncertain => op.before.oc \in Agreeing
      BY <2>1 DEF IntentHeld
    <3>6. op'.mutated
      BY <2>2, <3>1 DEF Locals
    <3> QED
      BY <2>1, <2>3, <3>2, <3>3, <3>4, <3>5, <3>6 DEF IntentHeld, Unsettled, Underway, Agreeing
  <2>4. CASE pc' = "restoreRecord"
    <3>1. UNCHANGED <<hw, op>>
      BY <1>13, <2>4 DEF Mutate
    <3> QED
      BY <2>1, <2>4, <3>1 DEF IntentHeld, Unsettled, Underway, Agreeing
  <2>5. CASE pc' = "storeUncertain"
    <3>1. UNCHANGED op
      BY <1>13, <2>5 DEF Mutate
    <3> QED
      BY <2>1, <2>5, <3>1 DEF IntentHeld, Unsettled, Underway, Agreeing
  <2> QED
    BY <1>13, <2>3, <2>4, <2>5 DEF Mutate
<1>14. CASE Commit
  <2>1. UNCHANGED <<hw, op, sel>> /\ pc = "commit"
    BY <1>14 DEF Commit
  <2>2. CASE pc' = "rollback"
    <3>1. UNCHANGED <<active, uncertain>>
      BY <1>14, <2>2 DEF Commit
    <3> QED
      BY <2>1, <2>2, <3>1 DEF IntentHeld, Unsettled, Underway, Agreeing
  <2>3. CASE pc' # "rollback"
    <3>1. /\ active' = IF op.trig = "apply" THEN [on |-> TRUE, gpu |-> sel, want |-> op.want]
                                            ELSE NoIntent
          /\ pc' \in {"retire", "noteSuccess"}
      BY <1>14, <2>3 DEF Commit
    <3> QED
      BY <2>1, <3>1 DEF IntentHeld, Unsettled, Underway, Agreeing, NoIntent
  <2> QED
    BY <2>2, <2>3
<1>15. CASE RetireMarker
  BY <1>15, StillHeld DEF RetireMarker, Unsettled, Underway
<1>16. CASE NoteExplicitSuccess
  BY <1>16, NothingHeldChanges DEF NoteExplicitSuccess, Finish, Unsettled, Underway
<1>17. CASE RollbackMutation
  <2>1. UNCHANGED <<active, uncertain, sel>> /\ pc = "rollback" /\ pc' = "restoreRecord"
    BY <1>17 DEF RollbackMutation, Rollback
  <2>2. PICK ok \in HwOutcomes :
          /\ ok => hw' = [hw EXCEPT ![sel] = op.before]
          /\ op' = [op EXCEPT !.rolledBack = ok]
    BY <1>17 DEF RollbackMutation, Rollback
  <2>3. /\ op'.req = op.req /\ op'.want = op.want /\ op'.mutated = op.mutated
        /\ op'.rolledBack = ok
    BY <2>2 DEF TypeOK, Locals
  <2>4. active.on => active.gpu = sel /\ active.gpu \in Gpus
    BY <2>1 DEF IntentHeld, Underway, Targeted
  <2>5. op.mutated
    BY <2>1 DEF IntentHeld
  <2>6. active.on /\ ~uncertain /\ ok => hw'[active.gpu].oc \in Agreeing
    BY <2>1, <2>2, <2>4 DEF IntentHeld, TypeOK, Agreeing
  <2> QED
    BY <2>1, <2>3, <2>4, <2>5, <2>6 DEF IntentHeld, Unsettled, Underway, Agreeing
<1>18. CASE RestoreRecord
  <2>1. UNCHANGED <<hw, active, sel>> /\ pc = "restoreRecord"
    BY <1>18 DEF RestoreRecord
  <2>2. CASE pc' = "storeUncertain" /\ UNCHANGED <<uncertain, op>>
    BY <2>1, <2>2 DEF IntentHeld, Unsettled, Underway, Agreeing
  <2>3. CASE uncertain' /\ pc' \in {"release", "serve"} /\ op' = Idle
    BY <2>3, NotHeldIfUncertain DEF Underway, Idle
  <2>4. CASE Finish /\ UNCHANGED uncertain /\ (op.mutated => op.rolledBack)
    BY <2>1, <2>4 DEF Finish, IntentHeld, Unsettled, Underway, Agreeing, Idle
  <2> QED
    BY <1>18, <2>2, <2>3, <2>4 DEF RestoreRecord, EnterUncertain, LeavesUncertain
<1>19. CASE StoreUncertain
  <2>1. uncertain' /\ op' = Idle /\ pc' \in {"release", "serve"}
    BY <1>19 DEF StoreUncertain, EnterUncertain
  <2> QED
    BY <2>1, NotHeldIfUncertain DEF Underway, Idle
<1>20. CASE ReleaseForUncertain
  <2>1. \A g \in Gpus : hw'[g].oc = hw[g].oc
    BY <1>20, FanOnly DEF ReleaseForUncertain, ReleaseFan, ReleaseRetire
  <2> QED
    BY <1>20, <2>1, StillHeld DEF ReleaseForUncertain, ReleaseFan, ReleaseRetire,
       AfterRelease, Unsettled, Underway
<1>21. ASSUME NEW g \in Gpus, TargetedRead(g) PROVE IntentHeld'
  BY <1>21, StillHeld DEF TargetedRead, Unsettled, Underway
<1>22. ASSUME NEW p \in StartupPolicies, SetStartupPolicy(p) PROVE IntentHeld'
  BY <1>22, StillHeld DEF SetStartupPolicy, Unsettled, Underway
<1>23. CASE ResumeRestore \/ UntargetedRead \/ ResumeDeferredHandback
  <2>1. /\ UNCHANGED <<hw, active, uncertain>> /\ pc = "serve"
        /\ pc' \in {"serve", "authorize", "hbRun"}
    BY <1>23 DEF ResumeRestore, UntargetedRead, ResumeDeferredHandback
  <2>2. op'.req.oc = op'.want.oc
    BY <1>23 DEF ResumeRestore, UntargetedRead, ResumeDeferredHandback, Idle, IntentHeld
  <2> QED
    BY <2>1, <2>2, NothingHeldChanges DEF Unsettled, Underway
<1>24. CASE FanMaintain \/ FanLockout \/ FanLockoutRecord
  <2>1. \A g \in Gpus : hw'[g].oc = hw[g].oc
    BY <1>24, FanOnly DEF FanMaintain, FanLockout, FanLockoutRecord
  <2>2. /\ UNCHANGED <<active, op>> /\ (uncertain => uncertain')
        /\ pc \in {"serve", "fanReturned", "fanRefused"}
        /\ pc' \in {"serve", "fanReturned", "fanRefused", "releaseRetire"}
    BY <1>24 DEF FanMaintain, FanLockout, FanLockoutRecord
  <2> QED
    BY <2>1, <2>2, StillHeld DEF Unsettled, Underway
<1>25. CASE (\E clean \in BOOLEAN : Stop(clean)) \/ ReleaseAtStop \/ RetireAtStop
  <2>1. \A g \in Gpus : hw'[g].oc = hw[g].oc
    BY <1>25, FanOnly DEF Stop, ReleaseAtStop, RetireAtStop
  <2>2. /\ UNCHANGED <<active, op, uncertain>>
        /\ pc \in {"serve", "stopping", "stopRetire"}
        /\ pc' \in {"stopping", "stopRetire", "stopped"}
    BY <1>25 DEF Stop, ReleaseAtStop, RetireAtStop
  <2> QED
    BY <2>1, <2>2, StillHeld DEF Unsettled, Underway
<1>26. CASE Exit \/ Crash \/ Reboot
  BY <1>26, NothingHeld DEF Exit, Crash, Reboot, ResetMemory
<1>27. CASE Standby
  BY <1>27 DEF Standby, IntentHeld, Targeted, Unsettled, Underway, Agreeing, StockHw
<1>28. CASE UNCHANGED vars
  BY <1>28 DEF vars, IntentHeld, Unsettled, Underway, Agreeing
<1> QED
  BY <1>1, <1>2, <1>3, <1>4, <1>5, <1>6, <1>7, <1>8, <1>9, <1>10, <1>11, <1>12, <1>13,
     <1>14, <1>15, <1>16, <1>17, <1>18, <1>19, <1>20, <1>21, <1>22, <1>23, <1>24, <1>25,
     <1>26, <1>27, <1>28
     DEF Next, AutomaticRestore, ExplicitOperation, Requested, FanWorker, Stopping, Environment

\* An intent the daemon publishes as settled is on the GPU, or standby took it, for
\* any requests, adapters and faults: a failed rollback, commit or fan lockout
\* always ends in the uncertain state (linux_failed_operation_leaves_uncertain).
THEOREM SettledIntentIsHeld == Spec => []SettledIntentIsOnHardware
<1>1. Init => IntentHeld
  BY DEF Init, IntentHeld, NoIntent, Idle
<1>2. TypeOK /\ Targeted /\ IntentHeld /\ [Next]_vars => IntentHeld'
  BY HeldStep
<1>3. IntentHeld => SettledIntentIsOnHardware
  BY DEF IntentHeld, SettledIntentIsOnHardware, Unsettled, Agreeing
<1> QED
  BY <1>1, <1>2, <1>3, TypeCorrect, PTL DEF Spec
=============================================================================
