-------------------------- MODULE DriverRecovery --------------------------
(***************************************************************************)
(* The Windows service across driver faults, GPU removals, standby, logon, *)
(* explicit requests, crashes and stops.  Settings that were applied are   *)
(* restored after the driver restarted, by a controlled restart of the     *)
(* service: the old process leaves a snapshot and a nonce-bound            *)
(* authorization on disk, a helper process starts the service again, and   *)
(* the fresh process writes the snapshot once, if the settings proved      *)
(* stable.  Whatever goes wrong latches a lockout that only a successful   *)
(* explicit Apply clears.                                                  *)
(*                                                                         *)
(* Settings are values: 0 is none, n the n-th explicit Apply, LogonValue   *)
(* the profile configured for logon.  `write' is the hardware write in     *)
(* flight; its holder owns the runtime lock from the checks before the     *)
(* write to the end of the write, so a step that takes the lock needs      *)
(* Free.  Abstracted: the recovery ledger's window (all of a run lies in   *)
(* one window), failures to write the ledger, update installs.             *)
(***************************************************************************)
EXTENDS Naturals, Sequences, FiniteSets, LifecycleReducer

CONSTANTS
    MaxApplies,  \* explicit Applies and Resets asked for, a bound
    MaxEvents,   \* events of the environment, a bound
    Threshold    \* SERVICE_RESTART_LOOP_THRESHOLD, recoveries before a lockout

ASSUME DriverRecoveryAssumption ==
    MaxApplies \in Nat /\ MaxEvents \in Nat /\ Threshold \in Nat \ {0}

LogonValue == MaxApplies + 1
Values == 0..LogonValue

VARIABLES
    disk,      \* what survives the process
    mem,       \* the service process's globals
    life,      \* the lifecycle reducer's state
    helper,    \* helper processes, by nonce
    box,       \* the lifecycle inbox, its wake event and the worker's locals
    pc,        \* where the main thread, the worker and a client stand
    write,     \* the hardware write in flight
    proc,      \* the service process as the SCM sees it
    present,   \* the selected GPU is there
    good,      \* history: the value whose write succeeded last and still stands
    restores,  \* history: driver restores since the last acknowledged Apply
    asked,     \* explicit requests so far
    spent      \* events so far

vars == <<disk, mem, life, helper, box, pc, write, proc, present, good,
          restores, asked, spent>>

Automatic == {"logon", "standby", "driver"}

Fresh == [intent |-> 0, validated |-> FALSE, reapply |-> FALSE, key |-> FALSE,
          restart |-> FALSE, external |-> FALSE, ready |-> TRUE, published |-> FALSE,
          fault |-> FALSE, gone |-> FALSE, stop |-> FALSE,
          failed |-> FALSE]

NoWrite == [by |-> "none", kept |-> FALSE]

Idle == [main |-> "watch", worker |-> "wait", client |-> "idle"]

EmptyBox == [in |-> {}, cur |-> {}, wake |-> FALSE, ok |-> FALSE]

Init ==
    /\ disk = [snap |-> 0, auth |-> 0, bound |-> FALSE, lockout |-> FALSE,
               ledger |-> 0, proof |-> "none"]
    /\ mem = Fresh
    /\ life = Quiet
    /\ helper = <<>>
    /\ box = EmptyBox
    /\ pc = Idle
    /\ write = NoWrite
    /\ proc = "running"
    /\ present = TRUE
    /\ good = 0 /\ restores = 0 /\ asked = 0 /\ spent = 0

-----------------------------------------------------------------------------
(* The part of the state most operations transform, as one record.         *)

World == [disk |-> disk, mem |-> mem, life |-> life, helper |-> helper]

Become(w) == disk' = w.disk /\ mem' = w.mem /\ life' = w.life /\ helper' = w.helper

Free == proc = "running" /\ write.by = "none"

Spend == spent < MaxEvents /\ spent' = spent + 1

\* A snapshot written or deleted is no longer the one an authorization names.
Snapshot(d, v) == [d EXCEPT !.snap = v, !.bound = FALSE]

ClearFiles(d) == [Snapshot(d, 0) EXCEPT !.auth = 0]

\* Latch the lockout and retire everything that could be replayed.
Disable(w) ==
    [w EXCEPT !.disk = [Snapshot(@, 0) EXCEPT !.lockout = TRUE, !.proof = "none"],
              !.mem.intent = 0, !.mem.reapply = FALSE]

Locked(w) == [w EXCEPT !.life = LockoutEvent(@)]

\* The first observation of a recovery creates its evidence key, and later
\* ones of the same recovery are not counted again.
Record(w) ==
    [w EXCEPT !.mem.key = TRUE,
              !.disk.ledger = IF w.mem.key \/ @ = Threshold THEN @ ELSE @ + 1]

Waiting(w) == w.disk.auth # 0 /\ w.helper[w.disk.auth] = "waiting"

\* The helper of an aborted restart is stopped and joined first.
Abort(w) ==
    [w EXCEPT !.mem.restart = FALSE, !.mem.key = FALSE,
              !.helper = IF Waiting(w) THEN [@ EXCEPT ![w.disk.auth] = "dead"] ELSE @,
              !.disk = ClearFiles(@)]
\* Mutation: the authorization names the helper after the one that was started.
AuthorizeForNextHelper(w) ==
    LET r == Record(w)
    IN  [r EXCEPT !.disk.auth = Len(w.helper) + 2, !.disk.bound = TRUE,
                  !.helper = Append(@, "waiting"), !.mem.restart = TRUE]

\* Bind the snapshot to a new nonce and start its helper.
Authorize(w) ==
    LET r == Record(w)
    IN  [r EXCEPT !.disk.auth = Len(w.helper) + 1, !.disk.bound = TRUE,
                  !.helper = Append(@, "waiting"), !.mem.restart = TRUE]

FailClosed(w) ==
    LET a == Locked(Disable(Abort(w)))
    IN  [a EXCEPT !.mem.validated = FALSE]
\* Mutation: a restart that cannot be prepared is left for the next cue.
RequestRestartOrRetry(w, late, ok) ==
    IF w.mem.external \/ w.mem.restart THEN w
    ELSE IF late \/ w.mem.intent = 0 THEN [w EXCEPT !.mem.key = FALSE]
    ELSE IF ok /\ w.disk.snap # 0 THEN [Authorize(w) EXCEPT !.mem.stop = TRUE]
    ELSE w

\* request_service_restart, under the runtime lock.  late: an explicit
\* request came between the reading of the epoch and the lock.  ok: the
\* authorization and the helper could be created.
RequestRestart(w, late, ok) ==
    IF w.mem.external THEN w
    ELSE IF late \/ w.mem.intent = 0 THEN [w EXCEPT !.mem.key = FALSE]
    ELSE IF w.mem.restart THEN w
    ELSE IF ok /\ w.disk.snap # 0 THEN [Authorize(w) EXCEPT !.mem.stop = TRUE]
    ELSE FailClosed(IF w.disk.snap # 0 THEN Record(w) ELSE w)

\* The settings proved stable, or the driver was updated since the Apply.
ProofAllows(d, updated) ==
    ~d.lockout /\ (d.proof = "mature" \/ (d.proof = "young" /\ updated))

\* What an explicit request does to everything automatic, before its write.
Supersede(w) ==
    LET a == IF w.mem.restart THEN Abort(w) ELSE w
        b == IF a.mem.validated
             THEN [a EXCEPT !.mem.validated = FALSE, !.mem.intent = 0,
                            !.disk = ClearFiles(@)]
             ELSE a
    IN  [b EXCEPT !.life = SupersedeEvent(@), !.mem.gone = FALSE, !.mem.fault = FALSE,
                  !.mem.reapply = FALSE, !.mem.key = FALSE]

\* A request refused before its write may rewrite the snapshot, and the
\* proof is invalidated, or cannot be, before the last of the refusals.
Refused(w) ==
    LET s == Snapshot(w.disk, w.mem.intent)
    IN  {[w EXCEPT !.disk = d] :
           d \in {w.disk, s, [s EXCEPT !.proof = "none"],
                  [s EXCEPT !.proof = "none", !.lockout = TRUE]}}
\* Mutation: the old proof stands until the new one replaces it.
BeginKeepingProof(w, by, kept) ==
    /\ Become(w)
    /\ write' = [by |-> by, kept |-> kept]
    /\ good' = 0

\* Every hardware write invalidates the old proof first.
Begin(w, by, kept) ==
    /\ Become([w EXCEPT !.disk.proof = "none"])
    /\ write' = [by |-> by, kept |-> kept]
    /\ good' = 0

\* A failed hardware write is terminal.
Latched(w) == Disable(Locked(w))

\* The new intent and its snapshot, whose file may fail to be written.
Adopt(w, v, saved) ==
    [w EXCEPT !.mem.intent = v, !.mem.reapply = FALSE,
              !.disk = Snapshot(@, IF saved THEN v ELSE 0)]

\* The proof stamp: committed, or else the lockout is latched.
Stamp(w, kept, ok) ==
    [w EXCEPT !.disk.proof = IF ~ok THEN "none" ELSE IF kept THEN "mature" ELSE "young",
              !.disk.lockout = @ \/ ~ok]

-----------------------------------------------------------------------------
(* Explicit requests of a client, the pipe server's Apply and Reset.       *)

\* The preconditions are checked before the lock is taken, and again after.
ClientAsk(kind) ==
    /\ proc = "running" /\ mem.ready /\ mem.published
    /\ pc.client = "idle" /\ asked < MaxApplies
    /\ asked' = asked + 1
    /\ pc' = [pc EXCEPT !.client = kind]
    /\ UNCHANGED <<disk, mem, life, helper, box, write, proc, present, good, restores, spent>>

\* recent: the driver fault is recent enough to count as a transition.
ClientRun ==
    /\ Free /\ pc.client # "idle"
    /\ UNCHANGED <<proc, present, restores, asked, spent>>
    /\ \/ /\ ~mem.published
          /\ pc' = [pc EXCEPT !.client = "idle"]
          /\ UNCHANGED <<disk, mem, life, helper, box, write, good>>
       \/ /\ mem.published
          /\ box' = [box EXCEPT !.in = {}, !.wake = TRUE]
          /\ LET w == Supersede(World)
                 main == IF pc.main = "request" THEN "late" ELSE pc.main
             IN  \/ /\ mem.gone \/ mem.fault
                    /\ Become(w)
                    /\ pc' = [pc EXCEPT !.client = "idle", !.main = main]
                    /\ UNCHANGED <<write, good>>
                 \/ /\ ~mem.gone
                    /\ \E x \in Refused(w) : Become(x)
                    /\ pc' = [pc EXCEPT !.client = "idle", !.main = main]
                    /\ UNCHANGED <<write, good>>
                 \/ /\ ~mem.gone /\ present
                    /\ Begin(w, pc.client, FALSE)
                    /\ pc' = [pc EXCEPT !.main = main]

\* Only a successful explicit Apply with a durable fresh proof clears the
\* lockout and the ledger; with a proof and no clearing the lockout is latched.
Acknowledge(w, stamped, armed) ==
    [w EXCEPT !.disk.lockout = IF armed THEN FALSE ELSE @ \/ stamped,
              !.disk.ledger = IF armed THEN 0 ELSE @,
              !.mem.key = @ /\ ~stamped,
              !.life.locked = @ /\ ~armed]

ApplyEnd ==
    /\ proc = "running" /\ write.by = "apply"
    /\ write' = NoWrite
    /\ pc' = [pc EXCEPT !.client = "idle"]
    /\ UNCHANGED <<box, proc, present, asked, spent>>
    /\ \/ \E saved, stamped, cleared \in BOOLEAN :
            LET w == Stamp(Adopt(World, asked, saved), FALSE, stamped)
                armed == stamped /\ cleared
            IN  /\ good' = asked
                /\ restores' = IF armed THEN 0 ELSE restores
                /\ Become(Acknowledge(w, stamped, armed))
       \/ Become(Latched(World)) /\ UNCHANGED <<good, restores>>

ResetEnd ==
    /\ proc = "running" /\ write.by = "reset"
    /\ write' = NoWrite
    /\ pc' = [pc EXCEPT !.client = "idle"]
    /\ UNCHANGED <<box, proc, present, good, restores, asked, spent>>
    /\ \/ Become([World EXCEPT !.mem.intent = 0, !.mem.reapply = FALSE,
                               !.disk = Snapshot(@, 0)])
       \/ Become(Latched(World))

\* A full read of the hardware publishes READY, unless a recovery is under way.
Publish ==
    /\ Free
    /\ \E ok \in BOOLEAN :
         mem' = [mem EXCEPT !.published = /\ ok /\ present /\ ~mem.gone
                                          /\ ~mem.reapply /\ ~mem.validated /\ ~mem.restart]
    /\ UNCHANGED <<disk, life, helper, box, pc, write, proc, present, good, restores, asked, spent>>

\* The applied settings outlive the stabilization window.
Mature ==
    /\ disk.proof = "young"
    /\ disk' = [disk EXCEPT !.proof = "mature"]
    /\ UNCHANGED <<mem, life, helper, box, pc, write, proc, present, good, restores, asked, spent>>

-----------------------------------------------------------------------------
(* Notifications: the callbacks only post to the inbox and wake the worker. *)

Post(cue) ==
    box' = [box EXCEPT !.in = IF life.stopped THEN @ ELSE @ \cup {cue}, !.wake = TRUE]

Logon ==
    /\ Spend /\ proc = "running"
    /\ Post("logon")
    /\ UNCHANGED <<disk, mem, life, helper, pc, write, proc, present, good, restores, asked>>

\* A suspend and its resume.  The process sees nothing in between.
Standby ==
    /\ Spend /\ proc = "running"
    /\ life' = ResumeEvent(SuspendEvent(life))
    /\ box' = [box EXCEPT !.wake = TRUE]
    /\ UNCHANGED <<disk, mem, helper, pc, write, proc, present, good, restores, asked>>

Remove ==
    /\ Spend /\ present
    /\ present' = FALSE
    /\ IF proc = "running"
       THEN Post("removal") /\ mem' = [mem EXCEPT !.published = FALSE]
       ELSE UNCHANGED <<box, mem>>
    /\ UNCHANGED <<disk, life, helper, pc, write, proc, good, restores, asked>>

\* An arrival without a removal is a driver that was stopped and started.
Arrive ==
    /\ Spend
    /\ present' = TRUE
    /\ IF proc = "running"
       THEN Post("arrival") /\ mem' = [mem EXCEPT !.published = FALSE]
       ELSE UNCHANGED <<box, mem>>
    /\ UNCHANGED <<disk, life, helper, pc, write, proc, good, restores, asked>>

\* A readiness signal: a device, adapter or configuration change.
Nudge ==
    /\ proc = "running" /\ ~box.wake
    /\ box' = [box EXCEPT !.wake = TRUE]
    /\ UNCHANGED <<disk, mem, life, helper, pc, write, proc, present, good, restores, asked, spent>>

\* The vectored handler counts a fault of a thread that is not in the lock.
Fault ==
    /\ Spend /\ proc = "running" /\ ~mem.fault
    /\ mem' = [mem EXCEPT !.fault = TRUE]
    /\ UNCHANGED <<disk, life, helper, box, pc, write, proc, present, good, restores, asked>>

ExternalStop ==
    /\ Spend /\ proc = "running" /\ ~mem.external
    /\ mem' = [mem EXCEPT !.external = TRUE, !.stop = TRUE]
    /\ UNCHANGED <<disk, life, helper, box, pc, write, proc, present, good, restores, asked>>

-----------------------------------------------------------------------------
(* The lifecycle worker.                                                   *)

Worker(next) == pc' = [pc EXCEPT !.worker = next]

WorkerStop ==
    /\ proc = "running" /\ pc.worker = "wait" /\ mem.stop
    /\ life' = StopEvent(life)
    /\ Worker("dead")
    /\ UNCHANGED <<disk, mem, helper, box, write, proc, present, good, restores, asked, spent>>

\* Take the inbox; a logon is queued in the reducer at once.
WorkerDrain ==
    /\ proc = "running" /\ pc.worker = "wait" /\ ~mem.stop /\ box.wake
    /\ box' = [EmptyBox EXCEPT !.cur = box.in \ {"logon"}]
    /\ life' = IF "logon" \in box.in THEN LogonEvent(life) ELSE life
    /\ Worker("cues")
    /\ UNCHANGED <<disk, mem, helper, write, proc, present, good, restores, asked, spent>>

WorkerRemoval ==
    /\ Free /\ pc.worker = "cues" /\ "removal" \in box.cur
    /\ box' = [box EXCEPT !.cur = @ \ {"removal"}]
    /\ LET a == IF mem.intent # 0 THEN [World EXCEPT !.life = DriverEvent(@)] ELSE World
       IN  Become(IF mem.gone THEN a ELSE [Record(a) EXCEPT !.mem.gone = TRUE])
    /\ UNCHANGED <<pc, write, proc, present, good, restores, asked, spent>>

WorkerArrival ==
    /\ Free /\ pc.worker = "cues" /\ "removal" \notin box.cur /\ "arrival" \in box.cur
    /\ box' = [box EXCEPT !.cur = {}]
    /\ LET a == [World EXCEPT !.mem.gone = FALSE]
       IN  \/ /\ mem.intent # 0 /\ (mem.gone \/ ~mem.reapply)
              /\ \E ok \in BOOLEAN : Become(RequestRestart(a, FALSE, ok))
           \/ /\ mem.intent = 0 /\ mem.gone
              /\ Become([a EXCEPT !.mem.key = FALSE])
           \/ /\ IF mem.gone THEN FALSE ELSE mem.intent = 0 \/ mem.reapply
              /\ Become(a)
    /\ UNCHANGED <<pc, write, proc, present, good, restores, asked, spent>>

\* Nothing automatic starts once a restart or a stop is committed.
WorkerGate ==
    /\ proc = "running" /\ pc.worker = "cues" /\ box.cur = {}
    /\ Worker(IF mem.restart \/ mem.external THEN "wait" ELSE "logon")
    /\ UNCHANGED <<disk, mem, life, helper, box, write, proc, present, good, restores, asked, spent>>

\* Each attempt looks at its work and the lockout before it takes the lock.
Look(at, pending, locked, late, next) ==
    /\ proc = "running" /\ pc.worker = at
    /\ Worker(IF ~pending THEN next ELSE IF disk.lockout THEN late ELSE locked)
    /\ UNCHANGED <<disk, mem, life, helper, box, write, proc, present, good, restores, asked, spent>>

LookLogon == Look("logon", LogonMayWrite(life) /\ ~life.driver,
                  "logonLocked", "lateLogon", "standby")
LookStandby == Look("standby", StandbyMayWrite(life), "standbyLocked", "lateStandby", "driver")
LookDriver == Look("driver", DriverMayWrite(life), "driverLocked", "driverLocked", "wait")

\* The lockout is reduced after the lock it was read under is gone.
LateLockout(at, next) ==
    /\ proc = "running" /\ pc.worker = at
    /\ life' = LockoutEvent(life)
    /\ Worker(next)
    /\ UNCHANGED <<disk, mem, helper, box, write, proc, present, good, restores, asked, spent>>

Ready == present /\ ~mem.gone /\ "removal" \notin box.in

LogonAttempt ==
    /\ Free /\ pc.worker = "logonLocked"
    /\ UNCHANGED <<box, proc, present, restores, asked, spent>>
    /\ \/ disk.lockout /\ Worker("lateLogon") /\ UNCHANGED <<disk, mem, life, helper, write, good>>
       \/ /\ ~disk.lockout
          /\ UNCHANGED <<write, good>>
          /\ Worker("standby")
          /\ \/ Become([World EXCEPT !.life.logon = @ /\ life.logonIssued])
             \/ LogonMayWrite(life) /\ \E x \in Refused(World) : Become(x)
             \/ UNCHANGED <<disk, mem, life, helper>>
       \/ /\ ~disk.lockout /\ LogonMayWrite(life) /\ Ready
          /\ Begin([World EXCEPT !.life.logonIssued = TRUE], "logon", FALSE)
          /\ UNCHANGED pc
\* Mutation: the lockout read before the lock is not read again after.
StandbyAttemptUnchecked ==
    /\ Free /\ pc.worker = "standbyLocked"
    /\ UNCHANGED <<box, proc, present, restores, asked, spent>>
    /\ \/ /\ mem.intent = 0
          /\ Become([World EXCEPT !.life.standby = FALSE])
          /\ Worker("driver") /\ UNCHANGED <<write, good>>
       \/ /\ mem.intent # 0 /\ StandbyMayWrite(life) /\ Ready
          /\ Begin([World EXCEPT !.life.standbyIssued = TRUE], "standby", disk.proof = "mature")
          /\ UNCHANGED pc

StandbyAttempt ==
    /\ Free /\ pc.worker = "standbyLocked"
    /\ UNCHANGED <<box, proc, present, restores, asked, spent>>
    /\ \/ disk.lockout /\ Worker("lateStandby") /\ UNCHANGED <<disk, mem, life, helper, write, good>>
       \/ /\ ~disk.lockout /\ mem.intent = 0
          /\ Become([World EXCEPT !.life.standby = FALSE])
          /\ Worker("driver") /\ UNCHANGED <<write, good>>
       \/ /\ ~disk.lockout /\ mem.intent # 0
          /\ \/ StandbyMayWrite(life) /\ \E x \in Refused(World) : Become(x)
             \/ UNCHANGED <<disk, mem, life, helper>>
          /\ Worker("driver") /\ UNCHANGED <<write, good>>
       \/ /\ ~disk.lockout /\ mem.intent # 0 /\ StandbyMayWrite(life) /\ Ready
          /\ Begin([World EXCEPT !.life.standbyIssued = TRUE], "standby", disk.proof = "mature")
          /\ UNCHANGED pc

\* updated: the driver on disk is not the one the settings were applied under.
DriverAttempt ==
    /\ Free /\ pc.worker = "driverLocked"
    /\ UNCHANGED <<box, proc, present, asked, spent>>
    /\ \E updated \in BOOLEAN :
         \/ /\ Worker("wait") /\ UNCHANGED <<write, good, restores>>
            /\ \/ ~mem.validated /\ Become(World)
               \/ mem.validated /\ ~ProofAllows(disk, updated) /\ Become(Locked(Disable(World)))
               \/ /\ mem.validated /\ ProofAllows(disk, updated)
                  /\ Become(IF mem.intent = 0 THEN Disable(World) ELSE World)
               \/ /\ mem.validated /\ ProofAllows(disk, updated) /\ DriverMayWrite(life)
                  /\ \E x \in Refused(World) : Become(x)
         \/ /\ mem.validated /\ ProofAllows(disk, updated) /\ mem.intent # 0
            /\ present /\ ~mem.gone /\ DriverMayWrite(life)
            /\ Begin([World EXCEPT !.life.driverIssued = TRUE], "driver", disk.proof = "mature")
            /\ restores' = restores + 1
            /\ UNCHANGED pc

\* Still under the lock; the reducer learns of the end after it is released.
AutomaticEnd ==
    /\ proc = "running" /\ write.by \in Automatic
    /\ write' = NoWrite
    /\ Worker([logon |-> "finishLogon", standby |-> "finishStandby",
               driver |-> "finishDriver"][write.by])
    /\ UNCHANGED <<proc, present, restores, asked, spent>>
    /\ \/ /\ Become(Latched(World))
          /\ UNCHANGED <<good, box>>
       \/ \E saved, stamped \in BOOLEAN :
            LET v == IF write.by = "logon" THEN LogonValue ELSE mem.intent
                w == Stamp(Adopt(World, v, saved), write.kept, stamped)
            IN  /\ box' = [box EXCEPT !.ok = TRUE]
                /\ good' = v
                /\ Become([w EXCEPT !.mem.validated = @ /\ write.by # "driver"])

WorkerFinish ==
    /\ proc = "running"
    /\ \/ /\ pc.worker = "finishLogon"
          /\ life' = LogonFinished(life, box.ok)
          /\ box' = [box EXCEPT !.ok = FALSE]
          /\ Worker("standby")
       \/ /\ pc.worker = "finishStandby"
          /\ life' = StandbyFinished(life)
          /\ box' = [box EXCEPT !.ok = FALSE]
          /\ Worker("driver")
       \/ /\ pc.worker = "finishDriver"
          /\ life' = DriverFinished(life)
          /\ box' = [box EXCEPT !.ok = FALSE, !.wake = @ \/ box.ok]
          /\ Worker("wait")
    /\ UNCHANGED <<disk, mem, helper, write, proc, present, good, restores, asked, spent>>

\* A fault may end the worker's thread where it does not hold the lock.
WorkerDies ==
    /\ Spend /\ proc = "running" /\ pc.worker # "dead" /\ write.by \notin Automatic
    /\ Worker("dead")
    /\ UNCHANGED <<disk, mem, life, helper, box, write, proc, present, good, restores, asked>>

-----------------------------------------------------------------------------
(* The end of a process and the start of the next one.                     *)

\* Windows closes the process; helpers that wait for it see how it ended.
Exit(w, how, controlled) ==
    /\ disk' = w.disk
    /\ helper' = [n \in DOMAIN w.helper |->
                    IF w.helper[n] # "waiting" THEN w.helper[n]
                    ELSE IF controlled THEN "committed" ELSE "orphaned"]
    /\ mem' = Fresh /\ life' = Quiet /\ box' = EmptyBox /\ pc' = Idle /\ write' = NoWrite
    /\ proc' = how

\* The service process is killed or crashes.
Kill ==
    /\ Spend /\ proc = "running"
    /\ Exit(World, "down", FALSE)
    /\ UNCHANGED <<present, good, restores, asked>>

\* The runtime lock was abandoned by a thread that died in the driver, or its
\* holder hangs there.  owned: a write was made and never proven returned.
Emergency(corroborated, owned, ok) ==
    /\ Spend /\ proc = "running"
    /\ UNCHANGED <<present, good, restores, asked>>
    /\ LET latched == [disk EXCEPT !.auth = 0, !.snap = 0, !.bound = FALSE,
                                   !.proof = "none", !.lockout = TRUE]
           controlled == corroborated /\ disk.snap # 0
       IN  IF controlled /\ ok /\ ~mem.external
           THEN Exit(Authorize(World), "down", TRUE)
           ELSE IF ~corroborated \/ controlled \/ mem.intent # 0 \/ owned \/ write.by # "none"
           THEN Exit([World EXCEPT !.disk = [latched EXCEPT !.ledger =
                        IF controlled THEN Record(World).disk.ledger ELSE @]], "down", FALSE)
           ELSE Exit([World EXCEPT !.disk = [ClearFiles(disk) EXCEPT !.proof = "none"]],
                     "down", FALSE)

Poisoned == \E corroborated, owned, ok \in BOOLEAN : Emergency(corroborated, owned, ok)

Start(w) ==
    /\ Become(w)
    /\ proc' = "running"
    /\ pc' = Idle /\ write' = NoWrite
    /\ UNCHANGED <<present, good, restores, asked>>

\* Any start that does not carry a valid nonce replays nothing.
OrdinaryStart == Start([World EXCEPT !.disk = ClearFiles(@)]) /\ box' = EmptyBox
\* Mutation: an authorization on disk is taken for a living helper.
YieldsToAuthorization == disk.auth # 0

\* The failure action of the SCM yields to a helper that is still alive.
Yields == disk.auth # 0 /\ helper[disk.auth] # "dead"

FailureStart == proc = "down" /\ ~Yields /\ OrdinaryStart /\ UNCHANGED spent

DemandStart == Spend /\ proc # "running" /\ OrdinaryStart
\* Mutation: the threshold itself is still allowed.
ArmPastThreshold(w, v, updated) ==
    LET a == [w EXCEPT !.mem.intent = v, !.mem.reapply = TRUE, !.mem.validated = TRUE]
        queued == ProofAllows(w.disk, updated) /\ w.disk.ledger <= Threshold
    IN  IF queued THEN [a EXCEPT !.life = DriverEvent(@)]
        ELSE [Locked(Disable(a)) EXCEPT !.mem.validated = FALSE]

\* Mutation: a refused recovery leaves the provisional intent behind.
ArmKeepingIntent(w, v, updated) ==
    LET a == [w EXCEPT !.mem.intent = v, !.mem.reapply = TRUE, !.mem.validated = TRUE]
        queued == ProofAllows(w.disk, updated) /\ w.disk.ledger < Threshold
    IN  IF queued THEN [a EXCEPT !.life = DriverEvent(@)]
        ELSE [Locked(a) EXCEPT !.mem.validated = FALSE, !.disk.lockout = TRUE]

\* A recovery that cannot be queued leaves no intent behind.
Arm(w, v, updated) ==
    LET a == [w EXCEPT !.mem.intent = v, !.mem.reapply = TRUE, !.mem.validated = TRUE]
        queued == ProofAllows(w.disk, updated) /\ w.disk.ledger < Threshold
    IN  IF queued THEN [a EXCEPT !.life = DriverEvent(@)]
        ELSE [Locked(Disable(a)) EXCEPT !.mem.validated = FALSE]

AuthorizationValid(n) == disk.auth = n /\ disk.bound /\ disk.snap # 0

\* The fresh process consumes the files before it arms the recovery.
HelperStart(n) ==
    /\ helper[n] = "committed" /\ proc = "down" /\ AuthorizationValid(n)
    /\ \E updated \in BOOLEAN :
         LET w == [World EXCEPT !.disk = ClearFiles(@), !.helper[n] = "dead"]
         IN  Start(Arm(w, disk.snap, updated))
    /\ box' = [EmptyBox EXCEPT !.wake = TRUE]
    /\ UNCHANGED spent

\* A helper that gives up removes the files of its own generation only.
Cleaned(n) ==
    IF disk.auth # n THEN disk
    ELSE [disk EXCEPT !.auth = 0, !.snap = IF disk.bound THEN 0 ELSE @, !.bound = FALSE]

HelperGivesUp(n) ==
    /\ helper[n] \in {"committed", "orphaned"}
    /\ helper' = [helper EXCEPT ![n] = "dead"]
    /\ disk' = Cleaned(n)
    /\ UNCHANGED <<mem, life, box, pc, write, proc, present, good, restores, asked, spent>>

\* The helper times out while its parent runs on, or is killed.
HelperLost(n) ==
    /\ Spend /\ helper[n] # "dead"
    /\ helper' = [helper EXCEPT ![n] = "dead"]
    /\ disk' \in {disk, Cleaned(n)}
    /\ UNCHANGED <<mem, life, box, pc, write, proc, present, good, restores, asked>>

-----------------------------------------------------------------------------
(* The main thread: the watchdog loop and the end of the service.          *)

Main(next) == pc' = [pc EXCEPT !.main = next]

Watching == proc = "running" /\ pc.main = "watch" /\ ~mem.stop

MainWorkerDead ==
    /\ Watching /\ pc.worker = "dead" /\ Free
    /\ Become([Disable(World) EXCEPT !.mem.failed = TRUE, !.mem.stop = TRUE])
    /\ UNCHANGED <<box, pc, write, proc, present, good, restores, asked, spent>>

MainCue ==
    /\ Watching /\ pc.worker # "dead" /\ mem.fault /\ ~mem.gone
    /\ Main("cue")
    /\ UNCHANGED <<disk, mem, life, helper, box, write, proc, present, good, restores, asked, spent>>

\* The supersession epoch is read before the lock is taken.
MainEpoch ==
    /\ proc = "running" /\ pc.main = "cue"
    /\ Main("request")
    /\ UNCHANGED <<disk, mem, life, helper, box, write, proc, present, good, restores, asked, spent>>

MainRequest ==
    /\ Free /\ pc.main \in {"request", "late"}
    /\ \E ok \in BOOLEAN : Become(RequestRestart(World, pc.main = "late", ok))
    /\ Main("watch")
    /\ UNCHANGED <<box, write, proc, present, good, restores, asked, spent>>
\* Mutation: the loop resumes whenever no restart is committed any more.
MainWakeForRestartOnly ==
    /\ proc = "running" /\ pc.main = "watch" /\ mem.stop
    /\ IF ~mem.failed /\ ~mem.restart
       THEN mem' = [mem EXCEPT !.stop = FALSE] /\ UNCHANGED pc
       ELSE mem' = [mem EXCEPT !.ready = FALSE] /\ Main("claim")
    /\ UNCHANGED <<disk, life, helper, box, write, proc, present, good, restores, asked, spent>>

\* A restart that was superseded after its wake resumes the loop.
MainWake ==
    /\ proc = "running" /\ pc.main = "watch" /\ mem.stop
    /\ IF ~mem.failed /\ ~mem.external /\ ~mem.restart
       THEN mem' = [mem EXCEPT !.stop = FALSE] /\ UNCHANGED pc
       ELSE mem' = [mem EXCEPT !.ready = FALSE] /\ Main("claim")
    /\ UNCHANGED <<disk, life, helper, box, write, proc, present, good, restores, asked, spent>>

MainClaim ==
    /\ Free /\ pc.main = "claim"
    /\ UNCHANGED <<present, good, restores, asked, spent>>
    /\ IF mem.restart /\ ~mem.external
       THEN IF Waiting(World) THEN Exit(World, "down", TRUE)
            ELSE Exit(Abort(World), "stopped", FALSE)
       ELSE /\ Become(IF mem.restart THEN Abort(World) ELSE World)
            /\ Main("join")
            /\ UNCHANGED <<box, write, proc>>

\* The graceful stop returns settings this process wrote to the defaults.
MainJoin ==
    /\ Free /\ pc.main = "join" /\ pc.worker = "dead" /\ pc.client = "idle"
    /\ UNCHANGED <<present, restores, asked, spent>>
    /\ LET how == IF mem.failed THEN "down" ELSE "stopped"
       IN  \/ mem.intent = 0 /\ Exit(World, how, FALSE) /\ UNCHANGED good
           \/ /\ \E d \in {Snapshot(disk, 0), [disk EXCEPT !.lockout = TRUE]} :
                   Exit([World EXCEPT !.disk = [d EXCEPT !.proof = "none"]], how, FALSE)
              /\ good' = 0
           \/ \E x \in Refused(World) : Exit([World EXCEPT !.disk.proof = x.disk.proof,
                                              !.disk.lockout = x.disk.lockout], how, FALSE)
              /\ UNCHANGED good

-----------------------------------------------------------------------------
WorkerStep ==
    \/ WorkerStop \/ WorkerDrain \/ WorkerRemoval \/ WorkerArrival \/ WorkerGate
    \/ LookLogon \/ LookStandby \/ LookDriver
    \/ LateLockout("lateLogon", "standby") \/ LateLockout("lateStandby", "driver")
    \/ LogonAttempt \/ StandbyAttempt \/ DriverAttempt \/ AutomaticEnd \/ WorkerFinish

MainStep ==
    MainWorkerDead \/ MainCue \/ MainEpoch \/ MainRequest \/ MainWake \/ MainClaim \/ MainJoin

ClientStep == ClientRun \/ ApplyEnd \/ ResetEnd

HelperStep == \E n \in DOMAIN helper : HelperStart(n) \/ HelperGivesUp(n)

Environment ==
    \/ \E kind \in {"apply", "reset"} : ClientAsk(kind)
    \/ Publish \/ Mature \/ Logon \/ Standby \/ Remove \/ Arrive \/ Nudge \/ Fault
    \/ ExternalStop \/ WorkerDies \/ Kill \/ Poisoned \/ DemandStart
    \/ \E n \in DOMAIN helper : HelperLost(n)

Next ==
    \/ WorkerStep \/ MainStep \/ ClientStep \/ FailureStart \/ HelperStep \/ Environment

Fairness ==
    /\ WF_vars(WorkerStep) /\ WF_vars(MainStep) /\ WF_vars(ClientStep)
    /\ WF_vars(FailureStart) /\ WF_vars(HelperStep)

Spec == Init /\ [][Next]_vars /\ Fairness

-----------------------------------------------------------------------------
\* The state has its types: the ledger never counts past the threshold, and
\* the authorization on disk names a helper that was started.
TypeOK ==
    /\ disk \in [snap : Values, auth : Nat, bound : BOOLEAN, lockout : BOOLEAN,
                 ledger : 0..Threshold, proof : {"none", "young", "mature"}]
    /\ disk.auth \in 0..Len(helper)
    /\ mem.intent \in Values
    /\ life \in State
    /\ helper \in Seq({"waiting", "committed", "orphaned", "dead"})
    /\ box.in \subseteq {"logon", "removal", "arrival"}
    /\ box.cur \subseteq {"removal", "arrival"}
    /\ write.by \in {"none", "apply", "reset"} \cup Automatic
    /\ proc \in {"running", "down", "stopped"}
    /\ good \in Values

\* What a standby or driver restore writes is what was written successfully
\* last: a write that failed, hung or was reset is never replayed, whatever
\* process wrote it and however that process ended.
RestoreWritesLastApplied ==
    [][write.by = "none" /\ write'.by \in {"standby", "driver"} => mem.intent = good]_vars

\* No automatic write is in flight while the lockout is latched: the lockout
\* read before the lock is read again after.
NoAutomaticWriteUnderLockout == write.by \in Automatic => ~disk.lockout

\* Driver restores, counted over all processes since the last explicit Apply
\* that was acknowledged, stay below the threshold.
RecoveriesBounded == restores < Threshold

\* A service that says it is reapplying has the reapply pending: the phase
\* REAPPLYING refuses every client, so nothing else would end it.
ReapplyingHasContinuation ==
    proc = "running" /\ mem.reapply /\ ~life.stopped =>
        mem.validated /\ life.driver /\ ~life.locked /\ mem.intent # 0

\* A service that went down for a recovery or by a crash comes back.
ServiceReturns == proc = "down" ~> proc = "running"

\* An external stop ends the process, whatever recovery is under way.
ExternalStopEnds == mem.external ~> proc # "running"

\* After a driver fault the service does not go on believing in its intent.
DriverFaultIsHandled ==
    (mem.fault /\ mem.intent # 0) ~> (~mem.fault \/ mem.intent = 0 \/ mem.gone)

\* An explicit Apply can acknowledge a lockout: once no recovery work is
\* pending, the flag that keeps the GPU phase at RECOVERING is down.
LockoutCanBeAcknowledged ==
    proc = "running" /\ disk.lockout /\ write.by = "none" /\ ~life.driver => ~mem.validated
=============================================================================
