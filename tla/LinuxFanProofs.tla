-------------------------- MODULE LinuxFanProofs --------------------------
(***************************************************************************)
(* The fan ownership theorems about LinuxDaemon: a fan at a fixed duty is  *)
(* always named by a marker of the running boot, and a boot sees a bounded *)
(* number of deaths in handbacks.  The directory fsync of a durable store  *)
(* is assumed not to fail after the rename (~DirSyncFaults): otherwise a   *)
(* marker file that reports failure may be the new one, which the daemon's *)
(* memory then disagrees with.                                             *)
(*                                                                         *)
(* FanInv follows the marker through every handler: what the disk says     *)
(* against what memory says, which writes may make a fan manual, and that  *)
(* a marker is removed only once the fan is back with the driver.          *)
(* DeathsCounted follows the attempts the marker records, from the         *)
(* decision to hand back to the write, however long that is deferred.      *)
(***************************************************************************)
EXTENDS LinuxDaemonProofs

\* The daemon owns adapter g's fan and nobody has to hand it back.
Owns(g) == mk.on /\ ~mk.pending /\ mk.gpu = g

\* The marker in memory and the one on disk, from the end of the handback
\* decision on.
MarkerAgrees ==
    /\ mk.on => dMarker.boot = boot /\ dMarker.gpu = mk.gpu
    /\ pc \notin {"down", "init", "handback"} /\ dMarker.boot = boot => mk.on

\* A handback is about a marker an earlier process left.
HandbackIsInherited ==
    pc \in {"hbRun", "hbWrite", "hbRetire", "hbRefused", "hbLatch"} => mk.on /\ mk.pending

\* Until the handback is decided nothing is being driven.
NothingBeforeHandback == pc \in {"down", "init", "handback"} => ~active.on

\* The fan worker drives only a fan that is owned.
IntentIsOwned ==
    active.on /\ TakesManualFan(active.want) /\ ~uncertain /\ pc # "stopped" => Owns(active.gpu)

\* A write in flight, or its rollback, makes a fan manual only where it is owned.
WriteIsOwned ==
    pc \in {"prepared", "mutate", "commit", "rollback",
            "autoWrite", "autoCommit", "autoRollback"} =>
        /\ TakesManualFan(op.want) => Owns(sel)
        /\ TakesManualFan(op.req) => TakesManualFan(op.want)
        /\ op.before.fan = "manual" => dMarker.boot = boot /\ dMarker.gpu = sel

\* The marker goes only after the fan went.
FanIsBack ==
    /\ pc \in {"hbRetire", "autoRetire", "retire", "releaseRetire", "fanReturned", "stopRetire"}
           /\ sel \in Gpus => hw[sel].fan # "manual"
    /\ pc = "autoCommit" /\ op.want.fan = "auto" => hw[sel].fan # "manual"
    /\ pc = "commit" /\ (op.trig = "reset" \/ op.req.fan = "auto") => hw[sel].fan # "manual"
    /\ pc = "autoRetire" => ~TakesManualFan(active.want)
    /\ pc = "retire" => ~(active.on /\ TakesManualFan(active.want))
    /\ op.trig \in AutomaticTriggers => op.req = op.want
    /\ pc \in {"prepared", "mutate", "commit"} /\ op.trig # "reset" /\ op.req.fan = "auto" =>
          op.want.fan = "auto"
    /\ pc \in {"release", "releaseRetire"} => uncertain

\* The inductive invariant: all of it together.
FanInv ==
    /\ ManualFanIsRecorded /\ MarkerAgrees /\ HandbackIsInherited
    /\ NothingBeforeHandback /\ IntentIsOwned /\ WriteIsOwned /\ FanIsBack

\* Every step keeps FanInv: the marker is on disk before a write may take the
\* fan (daemon_fan_ownership_ensure_before_write), and leaves it only after the
\* fan went back (daemon_fan_ownership_retire), with a crash between any two.
LEMMA FanStep ==
    ASSUME ~DirSyncFaults
    PROVE  TypeOK /\ Targeted /\ FanInv /\ [Next]_vars => FanInv'
<1> SUFFICES ASSUME TypeOK, Targeted, FanInv, [Next]_vars PROVE FanInv'
  OBVIOUS
<1> USE DEF machine, disk, memory, history, FanInv, ManualFanIsRecorded, MarkerAgrees,
            HandbackIsInherited, NothingBeforeHandback, IntentIsOwned, WriteIsOwned, FanIsBack
<1>1. CASE Start
  BY <1>1 DEF Start
<1>2. CASE BootInit
  BY <1>2 DEF BootInit
<1>3. CASE HandbackAtStart
  BY <1>3 DEF HandbackAtStart, HandbackVerdict, Retire, Outstanding, Idle, Replace,
     NoMarker, NoOwner, StockHw, TypeOK
<1>4. CASE LoadStartupPolicy
  <2>1. op'.req = op'.want
    <3>1. CASE policy'.mode = "profile"
      <4>1. op' = [Idle EXCEPT !.trig = "profile", !.gpu = policy'.gpu,
                               !.req = policy'.want, !.want = policy'.want]
        BY <1>4, <3>1 DEF LoadStartupPolicy
      <4> QED
        BY <4>1 DEF Idle
    <3>2. CASE policy'.mode # "profile"
      BY <1>4, <3>2 DEF LoadStartupPolicy, Idle
    <3> QED
      BY <3>1, <3>2
  <2>2. pc' \in {"authorize", "loadState"}
    BY <1>4 DEF LoadStartupPolicy
  <2> QED
    BY <1>4, <2>1, <2>2 DEF LoadStartupPolicy, Owns
<1>5. CASE LoadStateRecord
  <2>1. op'.req = op'.want
    <3>1. CASE op' = Idle
      BY <3>1 DEF Idle
    <3>2. CASE op' = [Idle EXCEPT !.trig = "restoreLast", !.gpu = dRec.gpu,
                                  !.req = dRec.want, !.want = dRec.want]
      BY <3>2 DEF Idle
    <3> QED
      BY <1>5, <3>1, <3>2 DEF LoadStateRecord, Finish
  <2>2. pc' \in {"authorize", "serve"} /\ (uncertain => uncertain')
    BY <1>5 DEF LoadStateRecord, Finish
  <2> QED
    BY <1>5, <2>1, <2>2 DEF LoadStateRecord, Owns
<1>6. CASE HandbackResolve
  BY <1>6 DEF HandbackResolve, Replace, Owns, TypeOK, Locals, Owners
<1>7. CASE HandbackWrite
  BY <1>7 DEF HandbackWrite, FanReturned, FanNotReturned, Owns, TypeOK, Hardware
<1>8. CASE HandbackRetire
  BY <1>8 DEF HandbackRetire, Retire, AllowsSelectedWrite, Replace, NoMarker, NoOwner,
     Owns, TypeOK, Locals
<1>9. CASE HandbackRefused
  BY <1>9 DEF HandbackRefused, Replace, FreshMarker, Owns
<1>10. CASE HandbackLatch
  BY <1>10 DEF HandbackLatch, Owns, TypeOK, Locals
<1>11. CASE Authorize
  BY <1>11 DEF Authorize, EndAutomatic, AfterAutomatic, Idle, Owns
<1>12. CASE PrepareBackend
  BY <1>12 DEF PrepareBackend, EndAutomatic, AfterAutomatic, Idle, Owns, TypeOK, Locals
<1>13. CASE SelectAndOwn
  BY <1>13 DEF SelectAndOwn, EndAutomatic, MayWriteAfterPrepare, EnsureBeforeWrite,
     AfterAutomatic, Idle, AllowsSelectedWrite, Replace, FreshMarker, Owns,
     AutomaticTriggers, StartTriggers, TypeOK, Targeted, Locals
<1>14. CASE AutoWrite
  BY <1>14 DEF AutoWrite, Applied, Disturbed, FanAfter, Owns, TakesManualFan, TypeOK,
     Targeted
<1>15. CASE AutoCommit
  BY <1>15 DEF AutoCommit, EndAutomatic, AfterAutomatic, Idle, Owns, TakesManualFan
<1>16. CASE AutoRetire
  BY <1>16 DEF AutoRetire, Retire, EndAutomatic, AllowsSelectedWrite, Replace, NoMarker,
     NoOwner, AfterAutomatic, Idle, TypeOK
<1>17. CASE AutoRollback
  BY <1>17 DEF AutoRollback, Rollback, Owns, TypeOK
<1>18. CASE AutoUncertain
  BY <1>18 DEF AutoUncertain, EnterUncertain
<1>19. CASE NoteAutomaticFailure
  BY <1>19 DEF NoteAutomaticFailure, EndAutomatic, AfterAutomatic, Idle, Owns
<1>20. ASSUME NEW g \in Gpus, NEW d \in Requests, ApplyBegin(g, d) PROVE FanInv'
  <2>1. CASE pc' = "serve" /\ op' = Idle
    <3>1. /\ sel' = g /\ UNCHANGED <<boot, hw, active, uncertain>>
          /\ UNCHANGED <<dMarker, mk>>
      BY <1>20, <2>1 DEF ApplyBegin, EnsureBeforeWrite, Replace
    <3> QED
      BY <1>20, <2>1, <3>1 DEF ApplyBegin, Owns, Idle, AutomaticTriggers, StartTriggers
  <2>2. CASE pc' = "prepared"
    <3>1. /\ AllowsSelectedWrite(g)
          /\ EnsureBeforeWrite(g, Merge(active, d), TRUE, FALSE)
          /\ op' = [Idle EXCEPT !.trig = "apply", !.gpu = g, !.req = d,
                                !.want = Merge(active, d), !.cap = Captured, !.before = hw[g]]
      BY <1>20, <2>2 DEF ApplyBegin, EnsureBeforeWrite, Aborted
    <3>2. /\ op'.trig = "apply" /\ op'.req = d /\ op'.want = Merge(active, d)
          /\ op'.before = hw[g]
      BY <3>1 DEF Idle
    <3>3. /\ TakesManualFan(d) => TakesManualFan(Merge(active, d))
          /\ d.fan = "auto" => Merge(active, d).fan = "auto"
      BY RequestAssumption DEF TakesManualFan, Merge, Wants
    <3>4. TakesManualFan(Merge(active, d)) => Owns(g)'
      BY <3>1 DEF EnsureBeforeWrite, Owns, AllowsSelectedWrite
    <3>5. /\ mk.on => mk'.on /\ mk'.gpu = mk.gpu /\ (mk'.pending => mk.pending)
          /\ dMarker' = dMarker \/ (dMarker'.boot = boot /\ dMarker'.gpu = g /\ mk'.on)
          /\ mk' = mk \/ (mk'.gpu = g /\ dMarker'.boot = boot /\ dMarker'.gpu = g)
      BY <3>1 DEF EnsureBeforeWrite, Replace, FreshMarker, AllowsSelectedWrite
    <3>6. dMarker.boot = boot => mk.on /\ mk.gpu = g /\ dMarker.gpu = g
      BY <1>20, <3>1 DEF ApplyBegin, AllowsSelectedWrite
    <3>7. sel' = g /\ UNCHANGED <<boot, hw, active, uncertain>> /\ pc = "serve"
      BY <1>20 DEF ApplyBegin
    <3>8. ManualFanIsRecorded' /\ MarkerAgrees'
      BY <2>2, <3>5, <3>6, <3>7
    <3>9. IntentIsOwned'
      BY <2>2, <3>5, <3>7 DEF Owns
    <3>10. WriteIsOwned'
      BY <3>2, <3>3, <3>4, <3>7, <3>8
    <3>11. HandbackIsInherited' /\ NothingBeforeHandback' /\ FanIsBack'
      BY <2>2, <3>2, <3>3 DEF AutomaticTriggers, StartTriggers
    <3> QED
      BY <3>8, <3>9, <3>10, <3>11
  <2> QED
    BY <1>20, <2>1, <2>2 DEF ApplyBegin, EnsureBeforeWrite, Aborted
<1>21. ASSUME NEW g \in Gpus, ResetBegin(g) PROVE FanInv'
  <2>1. CASE pc' = "serve" /\ op' = Idle
    BY <1>21, <2>1 DEF ResetBegin, Owns, Idle, AutomaticTriggers, StartTriggers
  <2>2. CASE pc' = "prepared"
    <3>1. op' = [Idle EXCEPT !.trig = "reset", !.gpu = g, !.cap = Captured, !.before = hw[g]]
      BY <1>21, <2>2 DEF ResetBegin, Aborted
    <3>2. op'.trig = "reset" /\ op'.req = NoWant /\ op'.want = NoWant /\ op'.before = hw[g]
      BY <3>1 DEF Idle
    <3> QED
      BY <1>21, <2>2, <3>2 DEF ResetBegin, Owns, NoWant, TakesManualFan,
         AutomaticTriggers, StartTriggers
  <2> QED
    BY <1>21, <2>1, <2>2 DEF ResetBegin, Aborted
<1>22. CASE StorePrepared
  BY <1>22 DEF StorePrepared, Aborted, Idle, Owns
<1>23. CASE Mutate
  BY <1>23 DEF Mutate, Applied, StockHw, Disturbed, FanAfter, Owns, TakesManualFan,
     TypeOK, Targeted, Locals
<1>24. CASE Commit
  BY <1>24 DEF Commit, NoIntent, Owns, TakesManualFan
<1>25. CASE RetireMarker
  BY <1>25 DEF RetireMarker, Retire, AllowsSelectedWrite, Replace, NoMarker, NoOwner,
     TypeOK
<1>26. CASE NoteExplicitSuccess
  BY <1>26 DEF NoteExplicitSuccess, Finish, Idle, Owns
<1>27. CASE RollbackMutation
  BY <1>27 DEF RollbackMutation, Rollback, Owns, TypeOK
<1>28. CASE RestoreRecord
  BY <1>28 DEF RestoreRecord, EnterUncertain, Idle, Finish, Owns
<1>29. CASE StoreUncertain
  BY <1>29 DEF StoreUncertain, EnterUncertain, Idle
<1>30. CASE ReleaseFan
  BY <1>30 DEF ReleaseFan, FanReturned, FanNotReturned, AfterRelease, TypeOK, Hardware
<1>31. CASE ReleaseRetire
  BY <1>31 DEF ReleaseRetire, Retire, AfterRelease, AllowsSelectedWrite, Replace,
     NoMarker, NoOwner, TypeOK
<1>32. CASE ResumeRestore
  BY <1>32 DEF ResumeRestore, Owns
<1>33. ASSUME NEW p \in StartupPolicies, SetStartupPolicy(p) PROVE FanInv'
  BY <1>33 DEF SetStartupPolicy, Owns
<1>34. ASSUME NEW g \in Gpus, TargetedRead(g) PROVE FanInv'
  BY <1>34 DEF TargetedRead, Owns
<1>35. CASE UntargetedRead
  BY <1>35 DEF UntargetedRead, Owns
<1>36. CASE ResumeDeferredHandback
  BY <1>36 DEF ResumeDeferredHandback, Idle, Owns
<1>37. CASE FanMaintain
  BY <1>37 DEF FanMaintain, FanWorkerActive, Owns
<1>38. CASE FanLockout
  BY <1>38 DEF FanLockout, FanReturned, Owns, TypeOK, Hardware
<1>39. CASE FanLockoutRecord
  BY <1>39 DEF FanLockoutRecord, FanNotReturned, TypeOK, Hardware
<1>40. ASSUME NEW clean \in BOOLEAN, Stop(clean) PROVE FanInv'
  BY <1>40 DEF Stop, Owns
<1>41. CASE ReleaseAtStop
  BY <1>41 DEF ReleaseAtStop, FanReturned, FanNotReturned, Owns, TypeOK, Hardware
<1>42. CASE RetireAtStop
  BY <1>42 DEF RetireAtStop, Retire, AllowsSelectedWrite, Replace, NoMarker, NoOwner,
     TypeOK
<1>43. CASE Exit
  BY <1>43 DEF Exit, ResetMemory, Idle, NoIntent, NoOwner
<1>44. CASE Crash
  BY <1>44 DEF Crash, ResetMemory, Idle, NoIntent, NoOwner
<1>45. CASE Reboot
  BY <1>45 DEF Reboot, StockHw, ResetMemory, Idle, NoIntent, NoOwner
<1>46. CASE Standby
  BY <1>46 DEF Standby, StockHw, Owns
<1>47. CASE UNCHANGED vars
  BY <1>47 DEF vars, Owns, TakesManualFan
<1> QED
  BY <1>1, <1>2, <1>3, <1>4, <1>5, <1>6, <1>7, <1>8, <1>9, <1>10, <1>11, <1>12, <1>13,
     <1>14, <1>15, <1>16, <1>17, <1>18, <1>19, <1>20, <1>21, <1>22, <1>23, <1>24, <1>25,
     <1>26, <1>27, <1>28, <1>29, <1>30, <1>31, <1>32, <1>33, <1>34, <1>35, <1>36, <1>37,
     <1>38, <1>39, <1>40, <1>41, <1>42, <1>43, <1>44, <1>45, <1>46, <1>47 DEF Next,
     StartUp, Handback, AutomaticRestore, ExplicitOperation, ReleaseForUncertain,
     Requested, FanWorker, Stopping, Environment

\* A fan that Green Curve holds at a fixed duty is named by a marker of the
\* running boot in every reachable state, for any number of adapters: whichever
\* step the daemon dies at, the next start finds the fan it left behind.
THEOREM ManualFanIsAlwaysRecorded ==
    ASSUME ~DirSyncFaults
    PROVE  Spec => []ManualFanIsRecorded
<1>1. Init => FanInv
  BY DEF Init, FanInv, ManualFanIsRecorded, MarkerAgrees, HandbackIsInherited,
     NothingBeforeHandback, IntentIsOwned, WriteIsOwned, FanIsBack, StockHw, NoOwner,
     NoIntent, NoMarker, Idle, AutomaticTriggers, StartTriggers
<1>2. TypeOK /\ Targeted /\ FanInv /\ [Next]_vars => FanInv'
  BY FanStep
<1>3. FanInv => ManualFanIsRecorded
  BY DEF FanInv
<1> QED
  BY <1>1, <1>2, <1>3, TypeCorrect, PTL DEF Spec

-----------------------------------------------------------------------------
(* Deaths in the middle of a handback.                                     *)

\* The places where no handback is waiting for the backend
NotDeferred == {"down", "init", "handback", "hbRun", "hbWrite", "hbRetire", "hbRefused", "hbLatch"}

\* A handback has been decided and has not begun
HandbackDue == pc = "hbRun" \/ (deferred /\ mk.on /\ mk.pending)

\* The marker on disk counts every death, and the attempt under way before it is
\* made; the attempt begins only below the limit, however long it was deferred.
DeathsCounted ==
    /\ HandbackDeathsBounded
    /\ dMarker.boot = boot => deaths <= dMarker.attempts
    /\ pc = "hbWrite" => /\ dMarker.boot = boot /\ deaths < dMarker.attempts
                         /\ dMarker.attempts <= MaxHandbacks
    /\ HandbackDue => /\ dMarker.boot = boot /\ dMarker.attempts = mk.attempts
                      /\ mk.attempts < MaxHandbacks
    /\ pc \in NotDeferred => ~deferred

\* A step that touches neither the marker nor the count, and begins no handback
\* that was not due, keeps the count.
LEMMA CountKept ==
    ASSUME DeathsCounted, UNCHANGED <<boot, dMarker, mk, deaths>>,
           deferred' => deferred, pc' = "hbRun" => HandbackDue, pc' # "hbWrite",
           pc' \in NotDeferred => ~deferred'
    PROVE  DeathsCounted'
BY DEF DeathsCounted, HandbackDeathsBounded, HandbackDue, NotDeferred

\* Removing the marker, or failing to, loses no death that is still counted.
LEMMA CountRetired ==
    ASSUME ~DirSyncFaults, TypeOK, DeathsCounted, NEW s, Retire(s),
           UNCHANGED <<boot, deaths, deferred>>, pc' \notin {"hbRun", "hbWrite"},
           pc' \in NotDeferred => pc \in NotDeferred
    PROVE  DeathsCounted'
<1>1. dMarker' = NoMarker \/ dMarker' = dMarker
  BY DEF Retire, Replace
<1>2. mk' = NoOwner \/ (mk' = mk /\ dMarker' = dMarker)
  BY DEF Retire, Replace
<1> QED
  BY <1>1, <1>2 DEF DeathsCounted, HandbackDeathsBounded, HandbackDue, NotDeferred, NoMarker,
     NoOwner, TypeOK

\* A new marker starts the count again, a failed one leaves it.
LEMMA CountRestarts ==
    ASSUME ~DirSyncFaults, TypeOK, DeathsCounted, NEW g,
           \/ UNCHANGED <<dMarker, mk, deaths>>
           \/ /\ dMarker' = FreshMarker(g) /\ deaths' = 0
              /\ mk' = [on |-> TRUE, pending |-> FALSE, gpu |-> g, attempts |-> 0],
           UNCHANGED <<boot, deferred>>, pc' \notin NotDeferred
    PROVE  DeathsCounted'
<1>1. MaxHandbacks \in Nat
  BY BoundAssumption
<1> QED
  BY <1>1 DEF DeathsCounted, HandbackDeathsBounded, HandbackDue, NotDeferred, FreshMarker

\* What ensuring the marker before a write does to it.
LEMMA Ensured ==
    ASSUME ~DirSyncFaults, NEW g, NEW w, EnsureBeforeWrite(g, w, TRUE, TRUE)
    PROVE  \/ UNCHANGED <<dMarker, mk, deaths>>
           \/ /\ dMarker' = FreshMarker(g) /\ deaths' = 0
              /\ mk' = [on |-> TRUE, pending |-> FALSE, gpu |-> g, attempts |-> 0]
BY DEF EnsureBeforeWrite, Replace

\* Every step keeps the count: the in-flight record is stored before the write that
\* may kill the daemon, and a handback that waits for the backend begins once.
LEMMA DeathsStep ==
    ASSUME ~DirSyncFaults
    PROVE  TypeOK /\ DeathsCounted /\ [Next]_vars => DeathsCounted'
<1> SUFFICES ASSUME TypeOK, DeathsCounted, [Next]_vars PROVE DeathsCounted'
  OBVIOUS
<1> USE DEF machine, disk, memory, history
<1>0. /\ MaxHandbacks \in Nat \ {0} /\ boot \in Nat \ {0} /\ deaths \in Nat
      /\ dMarker.attempts \in Nat /\ mk.attempts \in Nat
  BY BoundAssumption DEF TypeOK, Markers, Owners
<1>1. CASE Start \/ BootInit \/ LoadStartupPolicy \/ LoadStateRecord
  BY <1>1, CountKept DEF Start, BootInit, LoadStartupPolicy, LoadStateRecord, Finish,
     DeathsCounted, NotDeferred
<1>2. CASE HandbackAtStart
  <2>1. pc = "handback" /\ ~deferred /\ UNCHANGED <<boot, deaths>>
    BY <1>2 DEF HandbackAtStart, DeathsCounted, NotDeferred
  <2>2. CASE HandbackVerdict = "noMarker"
    BY <1>2, <2>1, <2>2, CountKept DEF HandbackAtStart, NotDeferred
  <2>3. CASE HandbackVerdict = "discardOtherBoot"
    BY <1>2, <2>1, <2>3, CountRetired DEF HandbackAtStart, NotDeferred
  <2>4. CASE HandbackVerdict = "giveUp"
    <3>1. UNCHANGED <<dMarker, deferred>> /\ pc' = "policy"
      BY <1>2, <2>4 DEF HandbackAtStart
    <3> QED
      BY <2>1, <3>1 DEF DeathsCounted, HandbackDeathsBounded, HandbackDue, NotDeferred
  <2>5. CASE HandbackVerdict = "run"
    <3>1. dMarker.boot = boot /\ dMarker.attempts < MaxHandbacks
      BY <1>0, <2>5 DEF HandbackVerdict
    <3>2. /\ UNCHANGED dMarker /\ mk'.attempts = dMarker.attempts
          /\ pc' = "policy" \/ (pc' = "hbRun" /\ ~deferred')
      <4>1. /\ UNCHANGED dMarker /\ mk' = Outstanding /\ deferred' = ~ready
            /\ IF ready THEN pc' = "hbRun" ELSE pc' = "policy"
        BY <1>2, <2>5 DEF HandbackAtStart
      <4> QED
        BY <4>1 DEF Outstanding
    <3> QED
      BY <2>1, <3>1, <3>2 DEF DeathsCounted, HandbackDeathsBounded, HandbackDue, NotDeferred
  <2> QED
    BY <1>2, <2>2, <2>3, <2>4, <2>5 DEF HandbackAtStart
<1>3. CASE HandbackResolve
  <2>1. /\ pc = "hbRun" /\ ~deferred /\ UNCHANGED <<boot, deaths, deferred>>
        /\ op.ret \in {"serve", "policy", "select"}
        /\ dMarker.boot = boot /\ dMarker.attempts = mk.attempts /\ mk.attempts < MaxHandbacks
        /\ deaths <= dMarker.attempts
    BY <1>3 DEF HandbackResolve, DeathsCounted, HandbackDue, NotDeferred, TypeOK, Locals
  <2>2. CASE pc' = "hbWrite"
    <3>1. dMarker' = [boot |-> boot, gpu |-> mk.gpu, attempts |-> mk.attempts + 1]
      BY <1>3, <2>1, <2>2 DEF HandbackResolve, Replace
    <3>2. dMarker'.boot = boot /\ dMarker'.attempts = mk.attempts + 1
      BY <3>1
    <3>3. deaths < mk.attempts + 1 /\ mk.attempts + 1 <= MaxHandbacks
      BY <1>0, <2>1
    <3>4. deaths <= MaxHandbacks /\ deaths <= mk.attempts + 1
      BY <1>0, <2>1
    <3> QED
      BY <2>1, <2>2, <3>2, <3>3, <3>4 DEF DeathsCounted, HandbackDeathsBounded, HandbackDue
  <2>3. CASE pc' # "hbWrite"
    <3>1. UNCHANGED <<dMarker, mk>> /\ pc' = op.ret
      BY <1>3, <2>3 DEF HandbackResolve, Replace
    <3> QED
      BY <2>1, <3>1, CountKept DEF NotDeferred
  <2> QED
    BY <2>2, <2>3
<1>4. CASE HandbackWrite
  BY <1>4, CountKept DEF HandbackWrite, DeathsCounted, NotDeferred
<1>5. CASE HandbackRetire
  BY <1>5, CountRetired DEF HandbackRetire, NotDeferred, TypeOK, Locals
<1>6. CASE HandbackRefused
  <2>1. pc = "hbRefused" /\ pc' = "hbLatch" /\ ~deferred /\ UNCHANGED <<boot, mk, deferred>>
    BY <1>6 DEF HandbackRefused, DeathsCounted, NotDeferred
  <2>2. \/ (dMarker' = FreshMarker(mk.gpu) /\ deaths' = 0)
        \/ (dMarker' = dMarker /\ deaths' = deaths)
    BY <1>6 DEF HandbackRefused, Replace
  <2> QED
    BY <1>0, <2>1, <2>2 DEF DeathsCounted, HandbackDeathsBounded, HandbackDue, NotDeferred,
       FreshMarker
<1>7. CASE HandbackLatch
  BY <1>7, CountKept DEF HandbackLatch, DeathsCounted, NotDeferred, TypeOK, Locals
<1>8. CASE PrepareBackend
  BY <1>8, CountKept DEF PrepareBackend, EndAutomatic, AfterAutomatic, HandbackDue, NotDeferred
<1>9. CASE SelectAndOwn
  <2>1. pc' \in {"autoWrite", "loadState", "serve"} /\ UNCHANGED <<boot, deferred>>
    BY <1>9 DEF SelectAndOwn, EnsureBeforeWrite, EndAutomatic, AfterAutomatic
  <2>2. UNCHANGED <<dMarker, mk, deaths>> \/ EnsureBeforeWrite(op.gpu, op.want, TRUE, TRUE)
    BY <1>9 DEF SelectAndOwn, EnsureBeforeWrite
  <2> QED
    BY <2>1, <2>2, Ensured, CountRestarts DEF NotDeferred
<1>10. CASE AutoRetire
  BY <1>10, CountRetired DEF AutoRetire, EndAutomatic, AfterAutomatic, NotDeferred
<1>11. CASE \/ Authorize \/ AutoWrite \/ AutoCommit \/ AutoRollback \/ AutoUncertain
            \/ NoteAutomaticFailure
  BY <1>11, CountKept DEF Authorize, AutoWrite, AutoCommit, AutoRollback, Rollback,
     AutoUncertain, EnterUncertain, NoteAutomaticFailure, EndAutomatic, AfterAutomatic,
     NotDeferred
<1>12. ASSUME NEW g \in Gpus, NEW d \in Requests, ApplyBegin(g, d) PROVE DeathsCounted'
  <2>1. pc' \in {"serve", "prepared"} /\ UNCHANGED <<boot, deferred>>
    BY <1>12 DEF ApplyBegin, EnsureBeforeWrite, Aborted
  <2>2. UNCHANGED <<dMarker, mk, deaths>> \/ EnsureBeforeWrite(g, Merge(active, d), TRUE, TRUE)
    BY <1>12 DEF ApplyBegin, EnsureBeforeWrite
  <2> QED
    BY <2>1, <2>2, Ensured, CountRestarts DEF NotDeferred
<1>13. ASSUME NEW g \in Gpus, ResetBegin(g) \/ TargetedRead(g) PROVE DeathsCounted'
  <2>1. UNCHANGED <<boot, dMarker, mk, deaths, deferred>> /\ pc' \in {"serve", "prepared"}
    BY <1>13 DEF ResetBegin, TargetedRead, Aborted
  <2> QED
    BY <2>1, CountKept DEF NotDeferred
<1>14. ASSUME NEW p \in StartupPolicies, SetStartupPolicy(p) PROVE DeathsCounted'
  BY <1>14, CountKept DEF SetStartupPolicy, NotDeferred
<1>15. CASE RetireMarker
  BY <1>15, CountRetired DEF RetireMarker, NotDeferred
<1>16. CASE \/ StorePrepared \/ Mutate \/ Commit \/ NoteExplicitSuccess
            \/ RollbackMutation \/ RestoreRecord \/ StoreUncertain
  BY <1>16, CountKept DEF StorePrepared, Mutate, Commit, NoteExplicitSuccess,
     RollbackMutation, Rollback, RestoreRecord, StoreUncertain, EnterUncertain, Aborted,
     Finish, NotDeferred
<1>17. CASE ReleaseFan
  BY <1>17, CountKept DEF ReleaseFan, AfterRelease, NotDeferred
<1>18. CASE ReleaseRetire
  BY <1>18, CountRetired DEF ReleaseRetire, AfterRelease, NotDeferred
<1>19. CASE ResumeRestore \/ UntargetedRead \/ FanMaintain \/ FanLockout \/ FanLockoutRecord
  BY <1>19, CountKept DEF ResumeRestore, UntargetedRead, FanMaintain, FanLockout,
     FanLockoutRecord, NotDeferred
<1>20. CASE ResumeDeferredHandback
  BY <1>20, CountKept DEF ResumeDeferredHandback, HandbackDue, NotDeferred
<1>21. CASE (\E clean \in BOOLEAN : Stop(clean)) \/ ReleaseAtStop
  BY <1>21, CountKept DEF Stop, ReleaseAtStop, NotDeferred
<1>22. CASE RetireAtStop
  BY <1>22, CountRetired DEF RetireAtStop, NotDeferred
<1>23. CASE Exit
  BY <1>23 DEF Exit, ResetMemory, NoOwner, DeathsCounted, HandbackDeathsBounded, HandbackDue
<1>24. CASE Crash
  <2>1. /\ pc' = "down" /\ mk' = NoOwner /\ ~deferred' /\ UNCHANGED <<boot, dMarker>>
        /\ deaths' = IF pc = "hbWrite" THEN deaths + 1 ELSE deaths
    BY <1>24 DEF Crash, ResetMemory
  <2>2. deaths' <= MaxHandbacks /\ (dMarker.boot = boot => deaths' <= dMarker.attempts)
    BY <1>0, <2>1 DEF DeathsCounted, HandbackDeathsBounded
  <2> QED
    BY <2>1, <2>2 DEF DeathsCounted, HandbackDeathsBounded, HandbackDue
<1>25. CASE Reboot
  <2>1. pc' = "down" /\ ~deferred' /\ deaths' = 0 /\ UNCHANGED dMarker
    BY <1>25 DEF Reboot, ResetMemory
  <2> QED
    BY <1>0, <2>1 DEF DeathsCounted, HandbackDeathsBounded, HandbackDue
<1>26. CASE Standby
  BY <1>26, CountKept DEF Standby, NotDeferred
<1>27. CASE UNCHANGED vars
  BY <1>27 DEF vars, DeathsCounted, HandbackDeathsBounded, HandbackDue
<1> QED
  BY <1>1, <1>2, <1>3, <1>4, <1>5, <1>6, <1>7, <1>8, <1>9, <1>10, <1>11, <1>12, <1>13,
     <1>14, <1>15, <1>16, <1>17, <1>18, <1>19, <1>20, <1>21, <1>22, <1>23, <1>24, <1>25,
     <1>26, <1>27 DEF Next, StartUp, Handback, AutomaticRestore, ExplicitOperation,
     ReleaseForUncertain, Requested, FanWorker, Stopping, Environment

\* However often the daemon dies while it gives a fan back, the boot sees at most
\* MaxHandbacks such deaths until a new marker is made: each attempt is on disk
\* before its write (ownership_handback_plan, daemon_fan_ownership_run_handback).
THEOREM HandbackDeathsAreBounded ==
    ASSUME ~DirSyncFaults
    PROVE  Spec => []HandbackDeathsBounded
<1>1. Init => DeathsCounted
  BY BoundAssumption DEF Init, DeathsCounted, HandbackDeathsBounded, HandbackDue, NoMarker
<1>2. TypeOK /\ DeathsCounted /\ [Next]_vars => DeathsCounted'
  BY DeathsStep
<1>3. DeathsCounted => HandbackDeathsBounded
  BY DEF DeathsCounted
<1> QED
  BY <1>1, <1>2, <1>3, TypeCorrect, PTL DEF Spec
=============================================================================
