------------------------ MODULE DriverRecoveryProofs ------------------------
(***************************************************************************)
(* Driver recovery for every number of requests, of events and of          *)
(* recoveries before a lockout: no automatic write under a lockout, driver *)
(* restores stay below the threshold, a service that says it is reapplying *)
(* is going to, and what a restore writes is what was written successfully *)
(* last.                                                                   *)
(*                                                                         *)
(* Most operations transform the disk, the globals, the reducer and the    *)
(* helpers as one world: the invariant is stated of a world, the lemmas    *)
(* say what each transformation does to it, and an action is then a        *)
(* transformation together with what it does to the rest.                  *)
(***************************************************************************)
EXTENDS DriverRecovery, TLAPS

-----------------------------------------------------------------------------
(* Worlds and what is true of them.                                        *)

Disks == [snap : Values, auth : Nat, bound : BOOLEAN, lockout : BOOLEAN,
          ledger : 0..Threshold, proof : {"none", "young", "mature"}]
Mems == [intent : Values, validated : BOOLEAN, reapply : BOOLEAN, key : BOOLEAN,
         restart : BOOLEAN, external : BOOLEAN, ready : BOOLEAN, published : BOOLEAN,
         fault : BOOLEAN, gone : BOOLEAN, stop : BOOLEAN, failed : BOOLEAN]
Phases  == {"waiting", "committed", "orphaned", "dead"}
Worlds  == [disk : Disks, mem : Mems, life : State, helper : Seq(Phases)]

\* A validated recovery whose write has not been issued, and a recovery that is recorded
\* and not yet carried out by a fresh process
Pending(w) ==
    IF w.mem.validated /\ ~w.life.stopped /\ ~w.life.locked /\ ~w.life.driverIssued THEN 1 ELSE 0
Counted(w) == IF w.mem.key \/ w.disk.auth # 0 THEN 1 ELSE 0

\* Every restore, made or still to come, is in the ledger, which stops at the threshold
Budget(w, made) ==
    /\ made + Pending(w) < Threshold
    /\ w.disk.ledger = Threshold \/ made + Pending(w) + Counted(w) <= w.disk.ledger

\* A validated recovery is queued, unless the reducer was locked or stopped
Queued(w) ==
    /\ w.mem.validated => w.life.stopped \/ w.life.locked \/ w.life.driver
    /\ w.mem.reapply => /\ w.mem.validated /\ w.mem.intent # 0
                        /\ w.life.stopped \/ (w.life.driver /\ ~w.life.locked)

\* In every state: a snapshot with a proof is of the settings that stand
Sound(w, made, last) ==
    /\ w \in Worlds /\ w.disk.auth \in 0..Len(w.helper)
    /\ Queued(w) /\ Budget(w, made)
    /\ w.disk.proof # "none" /\ w.disk.snap # 0 => w.disk.snap = last

\* While no write is in flight: the intent is of the settings that stand, unless a fresh
\* process took it from a snapshot whose proof is gone
Known(w, last) ==
    w.mem.intent # 0 /\ (~w.mem.reapply \/ w.disk.proof # "none") => w.mem.intent = last

\* In a running process: an authorization on disk is its own
Owned(w) == w.disk.auth # 0 => w.mem.restart

\* An operation that only takes automatic work away
Retires(w, x) ==
    /\ x.life.driver => w.life.driver
    /\ x.mem.reapply => w.mem.reapply
    /\ x.mem.validated => w.mem.validated
    /\ w.life.locked => x.life.locked
    /\ w.life.stopped => x.life.stopped

-----------------------------------------------------------------------------
(* The pieces.                                                             *)

\* None is a value, and the bounds are numbers.
LEMMA Parameters ==
    /\ 0 \in Values /\ LogonValue \in Values /\ \A v \in Values : v \in Nat
    /\ \A v \in 0..MaxApplies : v \in Values
    /\ MaxApplies \in Nat /\ MaxEvents \in Nat /\ Threshold \in Nat /\ Threshold > 0
BY DriverRecoveryAssumption DEF Values, LogonValue, DriverRecoveryAssumption

\* The parts of a world.
LEMMA Parts ==
    ASSUME NEW w \in Worlds
    PROVE  w.disk \in Disks /\ w.mem \in Mems /\ w.life \in State /\ w.helper \in Seq(Phases)
BY DEF Worlds

\* What the events of the reducer do to the driver's work.
LEMMA LifeEvents ==
    ASSUME NEW s \in State
    PROVE  /\ StopEvent(s) \in State /\ StopEvent(s).stopped /\ ~StopEvent(s).driver
           /\ StopEvent(s).locked = s.locked
           /\ LockoutEvent(s) \in State /\ LockoutEvent(s).stopped = s.stopped
           /\ LockoutEvent(s).stopped \/ (LockoutEvent(s).locked /\ ~LockoutEvent(s).driver)
           /\ LockoutEvent(s).driver => s.driver
           /\ s.locked => LockoutEvent(s).locked
           /\ SupersedeEvent(s) \in State /\ SupersedeEvent(s).stopped = s.stopped
           /\ SupersedeEvent(s).locked = s.locked /\ (SupersedeEvent(s).driver => s.driver)
<1>1. StopEvent(s) \in State /\ StopEvent(s).stopped /\ ~StopEvent(s).driver
      /\ StopEvent(s).locked = s.locked
  BY DEF StopEvent, Dropped, State
<1>2. /\ LockoutEvent(s) \in State /\ LockoutEvent(s).stopped = s.stopped
      /\ LockoutEvent(s).stopped \/ (LockoutEvent(s).locked /\ ~LockoutEvent(s).driver)
      /\ LockoutEvent(s).driver => s.driver
      /\ s.locked => LockoutEvent(s).locked
  BY DEF LockoutEvent, Unless, Dropped, State
<1>3. /\ SupersedeEvent(s) \in State /\ SupersedeEvent(s).stopped = s.stopped
      /\ SupersedeEvent(s).locked = s.locked /\ (SupersedeEvent(s).driver => s.driver)
  BY DEF SupersedeEvent, Unless, Dropped, State
<1> QED
  BY <1>1, <1>2, <1>3

\* A driver event queues the recovery unless the reducer is locked or stopped; what was
\* queued and issued stays issued.
LEMMA DriverEventIs ==
    ASSUME NEW s \in State
    PROVE  /\ DriverEvent(s) \in State
           /\ DriverEvent(s).stopped = s.stopped /\ DriverEvent(s).locked = s.locked
           /\ s.driver => DriverEvent(s).driver /\ DriverEvent(s).driverIssued = s.driverIssued
           /\ ~s.stopped /\ ~s.locked => DriverEvent(s).driver
BY DEF DriverEvent, Unless, State

\* The same driver's work.
SameWork(s, t) ==
    /\ t \in State /\ t.stopped = s.stopped /\ t.locked = s.locked
    /\ t.driver = s.driver /\ t.driverIssued = s.driverIssued

\* Logons, a standby and the ends of their writes leave the driver's work alone.
LEMMA OtherEvents ==
    ASSUME NEW s \in State, NEW ok \in BOOLEAN
    PROVE  /\ SameWork(s, LogonEvent(s)) /\ SameWork(s, ResumeEvent(SuspendEvent(s)))
           /\ SameWork(s, LogonFinished(s, ok)) /\ SameWork(s, StandbyFinished(s))
           /\ SameWork(s, [s EXCEPT !.logon = s.logon /\ s.logonIssued])
           /\ SameWork(s, [s EXCEPT !.logonIssued = TRUE])
           /\ SameWork(s, [s EXCEPT !.standby = FALSE])
           /\ SameWork(s, [s EXCEPT !.standbyIssued = TRUE])
<1>1. SameWork(s, LogonEvent(s))
  BY DEF SameWork, LogonEvent, Unless, State
<1>2. SuspendEvent(s) \in State /\ SameWork(s, SuspendEvent(s))
  BY DEF SameWork, SuspendEvent, Unless, State
<1>3. SameWork(SuspendEvent(s), ResumeEvent(SuspendEvent(s)))
  <2>1. ASSUME NEW t \in State PROVE SameWork(t, ResumeEvent(t))
    <3>1. t.standby \in BOOLEAN /\ t.standbyIssued \in BOOLEAN /\ t.driver \in BOOLEAN
      BY DEF State
    <3> DEFINE a == t.standby \/ ~t.driver
               b == t.standbyIssued /\ t.driver
               u == [t EXCEPT !.armed = FALSE, !.standby = a, !.standbyIssued = b]
    <3>2. a \in BOOLEAN /\ b \in BOOLEAN
      BY <3>1
    <3> HIDE DEF a, b
    <3>3. SameWork(t, u)
      <4>1. u \in State
        BY <3>2 DEF State
      <4>2. /\ u.stopped = t.stopped /\ u.locked = t.locked
            /\ u.driver = t.driver /\ u.driverIssued = t.driverIssued
        BY DEF State
      <4> QED BY <4>1, <4>2 DEF SameWork
    <3>4. SameWork(t, t)
      BY DEF SameWork
    <3>5. ResumeEvent(t) = t \/ ResumeEvent(t) = u
      BY DEF ResumeEvent, Unless, a, b
    <3> QED
      BY <3>3, <3>4, <3>5
  <2> QED
    BY <1>2, <2>1
<1>4. SameWork(s, ResumeEvent(SuspendEvent(s)))
  BY <1>2, <1>3 DEF SameWork
<1>5. SameWork(s, LogonFinished(s, ok))
  <2>1. PICK done \in BOOLEAN : done = (s.done \/ ok)
    OBVIOUS
  <2> DEFINE t == [s EXCEPT !.logon = FALSE, !.logonIssued = FALSE, !.done = done]
  <2>2. LogonFinished(s, ok) = s \/ LogonFinished(s, ok) = t
    BY <2>1 DEF LogonFinished, Unless
  <2>3. SameWork(s, s) /\ SameWork(s, t)
    BY <2>1 DEF SameWork, State
  <2> QED
    BY <2>2, <2>3
<1>6. SameWork(s, StandbyFinished(s))
  BY DEF SameWork, StandbyFinished, Unless, State
<1>7. /\ SameWork(s, [s EXCEPT !.logon = s.logon /\ s.logonIssued])
      /\ SameWork(s, [s EXCEPT !.logonIssued = TRUE])
  BY DEF SameWork, State
<1>8. /\ SameWork(s, [s EXCEPT !.standby = FALSE])
      /\ SameWork(s, [s EXCEPT !.standbyIssued = TRUE])
  BY DEF SameWork, State
<1> QED
  BY <1>1, <1>4, <1>5, <1>6, <1>7, <1>8

\* The end of a driver write takes its work away.
LEMMA DriverFinishedIs ==
    ASSUME NEW s \in State
    PROVE  /\ DriverFinished(s) \in State /\ DriverFinished(s).stopped = s.stopped
           /\ DriverFinished(s).locked = s.locked /\ (DriverFinished(s).driver => s.driver)
BY DEF DriverFinished, Unless, State

\* Less work and nothing new to count stay within the budget.
LEMMA BudgetKept ==
    ASSUME NEW w, NEW x, NEW made \in Nat, w.disk.ledger \in Nat,
           Budget(w, made), x.disk.ledger = w.disk.ledger,
           Pending(x) = 1 => Pending(w) = 1, Counted(x) = 1 => Counted(w) = 1
    PROVE  Budget(x, made)
<1>1. /\ Pending(w) \in {0, 1} /\ Counted(w) \in {0, 1}
      /\ Pending(x) \in {0, 1} /\ Counted(x) \in {0, 1}
  BY DEF Pending, Counted
<1>2. Threshold \in Nat
  BY Parameters
<1>3. PICK p \in {0, 1}, c \in {0, 1}, q \in {0, 1}, d \in {0, 1} :
        p = Pending(w) /\ c = Counted(w) /\ q = Pending(x) /\ d = Counted(x)
  BY <1>1
<1>4. q <= p /\ d <= c
  BY <1>3
<1>5. /\ made + p < Threshold
      /\ w.disk.ledger = Threshold \/ made + p + c <= w.disk.ledger
  BY <1>3 DEF Budget
<1>6. made + q < Threshold
  BY <1>2, <1>4, <1>5
<1>7. w.disk.ledger = Threshold \/ made + q + d <= w.disk.ledger
  BY <1>4, <1>5
<1> QED
  BY <1>3, <1>6, <1>7 DEF Budget

-----------------------------------------------------------------------------
(* What the operations do to a world.                                      *)

\* The lockout is latched and nothing is left to replay.
LEMMA DisableIs ==
    ASSUME NEW w \in Worlds
    PROVE  LET x == Disable(w) IN
           /\ x \in Worlds /\ x.life = w.life /\ x.helper = w.helper
           /\ x.disk.snap = 0 /\ x.disk.auth = w.disk.auth /\ x.disk.lockout
           /\ x.disk.ledger = w.disk.ledger /\ x.disk.proof = "none"
           /\ x.mem.intent = 0 /\ x.mem.validated = w.mem.validated /\ ~x.mem.reapply
           /\ x.mem.key = w.mem.key /\ x.mem.restart = w.mem.restart
<1> DEFINE d == [w.disk EXCEPT !.snap = 0, !.bound = FALSE, !.lockout = TRUE, !.proof = "none"]
           m == [w.mem EXCEPT !.intent = 0, !.reapply = FALSE]
<1>1. d \in Disks /\ d.snap = 0 /\ d.auth = w.disk.auth /\ d.lockout
      /\ d.ledger = w.disk.ledger /\ d.proof = "none"
  BY Parts, Parameters DEF Disks
<1>2. m \in Mems /\ m.intent = 0 /\ m.validated = w.mem.validated /\ ~m.reapply
      /\ m.key = w.mem.key /\ m.restart = w.mem.restart
  BY Parts, Parameters DEF Mems
<1>3. Disable(w).disk = d
  BY Parts DEF Disable, Snapshot, Worlds, Disks
<1>4. Disable(w).mem = m
  BY Parts DEF Disable, Worlds, Mems
<1>5. Disable(w).life = w.life /\ Disable(w).helper = w.helper
  BY Parts DEF Disable, Worlds
<1>6. Disable(w) \in Worlds
  <2>1. Snapshot(w.disk, 0) \in Disks
    BY Parts, Parameters DEF Snapshot, Disks
  <2>2. [Snapshot(w.disk, 0) EXCEPT !.lockout = TRUE, !.proof = "none"] \in Disks
    BY <2>1 DEF Disks
  <2> QED
    BY <1>2, <2>2, Parts DEF Disable, Worlds
<1> HIDE DEF d, m
<1> QED
  BY <1>1, <1>2, <1>3, <1>4, <1>5, <1>6

\* The reducer drops its work.
LEMMA LockedIs ==
    ASSUME NEW w \in Worlds
    PROVE  LET x == Locked(w) IN
           /\ x \in Worlds /\ x.disk = w.disk /\ x.mem = w.mem /\ x.helper = w.helper
           /\ x.life = LockoutEvent(w.life)
<1>1. LockoutEvent(w.life) \in State
  BY Parts, LifeEvents
<1> QED
  BY <1>1 DEF Locked, Worlds

\* One entry in the ledger for each recovery.
LEMMA RecordIs ==
    ASSUME NEW w \in Worlds
    PROVE  LET x == Record(w) IN
           /\ x \in Worlds /\ x.life = w.life /\ x.helper = w.helper
           /\ x.disk.snap = w.disk.snap /\ x.disk.auth = w.disk.auth
           /\ x.disk.lockout = w.disk.lockout /\ x.disk.proof = w.disk.proof
           /\ x.disk.ledger = IF w.mem.key \/ w.disk.ledger = Threshold THEN w.disk.ledger
                              ELSE w.disk.ledger + 1
           /\ x.mem = [w.mem EXCEPT !.key = TRUE] /\ x.mem \in Mems
           /\ x.mem.key /\ x.mem.intent = w.mem.intent /\ x.mem.validated = w.mem.validated
           /\ x.mem.reapply = w.mem.reapply /\ x.mem.restart = w.mem.restart
<1> DEFINE l == IF w.mem.key \/ w.disk.ledger = Threshold THEN w.disk.ledger
                ELSE w.disk.ledger + 1
           d == [w.disk EXCEPT !.ledger = l]
           m == [w.mem EXCEPT !.key = TRUE]
<1>1. l \in 0..Threshold
  <2>1. w.disk.ledger \in 0..Threshold /\ Threshold \in Nat
    BY Parts, Parameters DEF Disks
  <2> QED
    BY <2>1
<1> HIDE DEF l
<1>2. d \in Disks /\ d.snap = w.disk.snap /\ d.auth = w.disk.auth /\ d.lockout = w.disk.lockout
      /\ d.proof = w.disk.proof /\ d.ledger = l
  BY <1>1, Parts DEF Disks
<1>3. m \in Mems /\ m.key /\ m.intent = w.mem.intent /\ m.validated = w.mem.validated
      /\ m.reapply = w.mem.reapply /\ m.restart = w.mem.restart
  BY Parts DEF Mems
<1>4. Record(w).disk = d
  BY Parts DEF Record, l, Worlds, Disks
<1>5. Record(w).mem = m
  BY Parts DEF Record, Worlds, Mems
<1>6. Record(w).life = w.life /\ Record(w).helper = w.helper
  BY Parts DEF Record, Worlds
<1>7. Record(w) \in Worlds
  BY <1>2, <1>3, Parts DEF Record, l, Worlds
<1> HIDE DEF d
<1> QED
  BY <1>2, <1>3, <1>4, <1>5, <1>6, <1>7 DEF l

\* The files are gone, the restart and its evidence too.
LEMMA AbortIs ==
    ASSUME NEW w \in Worlds, w.disk.auth \in 0..Len(w.helper)
    PROVE  LET x == Abort(w) IN
           /\ x \in Worlds /\ x.life = w.life /\ Len(x.helper) = Len(w.helper)
           /\ x.disk.snap = 0 /\ x.disk.auth = 0 /\ x.disk.lockout = w.disk.lockout
           /\ x.disk.ledger = w.disk.ledger /\ x.disk.proof = w.disk.proof
           /\ ~x.mem.key /\ ~x.mem.restart /\ x.mem.intent = w.mem.intent
           /\ x.mem.validated = w.mem.validated /\ x.mem.reapply = w.mem.reapply
<1> DEFINE d == [w.disk EXCEPT !.snap = 0, !.bound = FALSE, !.auth = 0]
           m == [w.mem EXCEPT !.restart = FALSE, !.key = FALSE]
           h == IF Waiting(w) THEN [w.helper EXCEPT ![w.disk.auth] = "dead"] ELSE w.helper
<1>1. d \in Disks /\ d.snap = 0 /\ d.auth = 0 /\ d.lockout = w.disk.lockout
      /\ d.ledger = w.disk.ledger /\ d.proof = w.disk.proof
  BY Parts, Parameters DEF Disks
<1>2. m \in Mems /\ ~m.key /\ ~m.restart /\ m.intent = w.mem.intent
      /\ m.validated = w.mem.validated /\ m.reapply = w.mem.reapply
  BY Parts DEF Mems
<1>3. h \in Seq(Phases) /\ Len(h) = Len(w.helper)
  <2>1. w.helper \in Seq(Phases) /\ "dead" \in Phases
    BY Parts DEF Phases
  <2>2. Waiting(w) => w.disk.auth \in 1..Len(w.helper)
    BY Parts DEF Waiting, Disks
  <2> QED
    BY <2>1, <2>2
<1>4. Abort(w).disk = d
  BY Parts DEF Abort, ClearFiles, Snapshot, Worlds, Disks
<1>5. Abort(w).mem = m
  BY Parts DEF Abort, Worlds, Mems
<1>6. Abort(w).life = w.life /\ Abort(w).helper = h
  BY Parts DEF Abort, Worlds
<1>7. Abort(w) \in Worlds
  <2>1. ClearFiles(w.disk) \in Disks
    BY Parts, Parameters DEF ClearFiles, Snapshot, Disks
  <2> QED
    BY <1>2, <1>3, <2>1, Parts DEF Abort, Worlds
<1> HIDE DEF d, m, h
<1> QED
  BY <1>1, <1>2, <1>3, <1>4, <1>5, <1>6, <1>7

\* A recovery is recorded and the snapshot bound to a new helper.
LEMMA AuthorizeIs ==
    ASSUME NEW w \in Worlds
    PROVE  LET x == Authorize(w) IN
           /\ x \in Worlds /\ x.life = w.life
           /\ x.disk.snap = w.disk.snap /\ x.disk.auth = Len(w.helper) + 1
           /\ Len(x.helper) = Len(w.helper) + 1 /\ Len(w.helper) \in Nat
           /\ x.disk.lockout = w.disk.lockout /\ x.disk.proof = w.disk.proof
           /\ x.disk.ledger = Record(w).disk.ledger
           /\ x.mem.key /\ x.mem.restart /\ x.mem.intent = w.mem.intent
           /\ x.mem.validated = w.mem.validated /\ x.mem.reapply = w.mem.reapply
<1> DEFINE r == Record(w)
           d == [r.disk EXCEPT !.auth = Len(w.helper) + 1, !.bound = TRUE]
           m == [r.mem EXCEPT !.restart = TRUE]
           h == Append(r.helper, "waiting")
<1>1. /\ r \in Worlds /\ r.life = w.life /\ r.helper = w.helper
      /\ r.disk.snap = w.disk.snap /\ r.disk.lockout = w.disk.lockout
      /\ r.disk.proof = w.disk.proof
      /\ r.mem.key /\ r.mem.intent = w.mem.intent /\ r.mem.validated = w.mem.validated
      /\ r.mem.reapply = w.mem.reapply
  BY RecordIs
<1>2. h \in Seq(Phases) /\ Len(h) = Len(w.helper) + 1 /\ Len(w.helper) \in Nat
  <2>1. w.helper \in Seq(Phases) /\ "waiting" \in Phases
    BY Parts DEF Phases
  <2> QED
    BY <1>1, <2>1
<1>4. r.disk \in Disks /\ r.mem \in Mems
  BY <1>1, Parts
<1>7. Authorize(w) = [r EXCEPT !.disk.auth = Len(w.helper) + 1, !.disk.bound = TRUE,
                               !.helper = h, !.mem.restart = TRUE]
  BY <1>1 DEF Authorize, Worlds
<1> HIDE DEF r, h
<1>8. Authorize(w).disk = d
  BY <1>1, <1>4, <1>7 DEF Worlds, Disks
<1>9. Authorize(w).mem = m
  BY <1>1, <1>4, <1>7 DEF Worlds, Mems
<1>10. Authorize(w).life = w.life /\ Authorize(w).helper = h
  BY <1>1, <1>4, <1>7 DEF Worlds
<1>5. d \in Disks /\ d.snap = w.disk.snap /\ d.auth = Len(w.helper) + 1
      /\ d.lockout = w.disk.lockout /\ d.ledger = r.disk.ledger /\ d.proof = w.disk.proof
  <2>1. PICK n \in Nat : n = Len(w.helper) + 1
    BY <1>2
  <2>2. d = [r.disk EXCEPT !.auth = n, !.bound = TRUE]
    BY <2>1
  <2> HIDE DEF d
  <2> QED
    BY <1>1, <1>4, <2>1, <2>2 DEF Disks
<1>6. m \in Mems /\ m.key /\ m.restart /\ m.intent = w.mem.intent
      /\ m.validated = w.mem.validated /\ m.reapply = w.mem.reapply
  BY <1>1, <1>4 DEF Mems
<1>11. Authorize(w) \in Worlds
  BY <1>1, <1>2, <1>5, <1>6, <1>7 DEF Worlds
<1> HIDE DEF d, m
<1> QED
  BY <1>2, <1>5, <1>6, <1>8, <1>9, <1>10, <1>11 DEF r

-----------------------------------------------------------------------------
(* What the operations keep.                                               *)

\* What a running process without a write in flight knows of its world.
Calm(w, made, last) == Sound(w, made, last) /\ Known(w, last) /\ Owned(w)

\* The flags are Booleans and the numbers natural.
LEMMA Typed ==
    ASSUME NEW w \in Worlds
    PROVE  /\ w.mem.validated \in BOOLEAN /\ w.mem.reapply \in BOOLEAN /\ w.mem.key \in BOOLEAN
           /\ w.mem.restart \in BOOLEAN /\ w.mem.external \in BOOLEAN /\ w.mem.intent \in Values
           /\ w.life.stopped \in BOOLEAN /\ w.life.locked \in BOOLEAN
           /\ w.life.driver \in BOOLEAN /\ w.life.driverIssued \in BOOLEAN
           /\ w.disk.ledger \in Nat /\ w.disk.ledger \in 0..Threshold /\ w.disk.auth \in Nat
           /\ w.disk.snap \in Values /\ w.disk.lockout \in BOOLEAN
           /\ w.disk.proof \in {"none", "young", "mature"}
           /\ Len(w.helper) \in Nat
<1>1. w.disk \in Disks /\ w.mem \in Mems /\ w.life \in State /\ w.helper \in Seq(Phases)
  BY Parts
<1>2. Threshold \in Nat
  BY Parameters
<1>3. w.disk.ledger \in 0..Threshold /\ w.disk.ledger \in Nat
  BY <1>1, <1>2 DEF Disks
<1>4. Len(w.helper) \in Nat
  BY <1>1
<1> QED
  BY <1>1, <1>3, <1>4 DEF Disks, Mems, State

\* The lockout keeps what is sound.
LEMMA DisableKeeps ==
    ASSUME NEW made \in Nat, NEW last, NEW w, Sound(w, made, last)
    PROVE  Sound(Disable(w), made, last) /\ Known(Disable(w), last)
<1> DEFINE x == Disable(w)
<1>1. w \in Worlds /\ w.disk.ledger \in Nat /\ Queued(w) /\ Budget(w, made)
  BY Typed DEF Sound
<1>2. /\ x \in Worlds /\ x.life = w.life /\ x.helper = w.helper
      /\ x.disk.snap = 0 /\ x.disk.auth = w.disk.auth /\ x.disk.lockout
      /\ x.disk.ledger = w.disk.ledger /\ x.disk.proof = "none"
      /\ x.mem.intent = 0 /\ x.mem.validated = w.mem.validated /\ ~x.mem.reapply
      /\ x.mem.key = w.mem.key /\ x.mem.restart = w.mem.restart
  BY <1>1, DisableIs
<1> HIDE DEF x
<1>3. Budget(x, made)
  BY <1>1, <1>2, BudgetKept DEF Pending, Counted
<1>4. Queued(x) /\ Known(x, last)
  BY <1>1, <1>2 DEF Queued, Known
<1> QED
  BY <1>2, <1>3, <1>4 DEF Sound, x

\* A locked or stopped reducer has no driver's work.
LEMMA LockedKeeps ==
    ASSUME NEW made \in Nat, NEW last, NEW w, Sound(w, made, last), ~w.mem.reapply
    PROVE  Sound(Locked(w), made, last)
<1> DEFINE x == Locked(w)
<1>1. w \in Worlds /\ w.life \in State /\ w.disk.ledger \in Nat /\ Queued(w) /\ Budget(w, made)
  BY Typed, Parts DEF Sound
<1>2. /\ x \in Worlds /\ x.disk = w.disk /\ x.mem = w.mem /\ x.helper = w.helper
      /\ x.life.stopped = w.life.stopped
      /\ x.life.stopped \/ (x.life.locked /\ ~x.life.driver)
  BY <1>1, LockedIs, LifeEvents
<1> HIDE DEF x
<1>3. Pending(x) = 0
  BY <1>2 DEF Pending
<1>4. Budget(x, made)
  BY <1>1, <1>2, <1>3, BudgetKept DEF Counted
<1>5. Queued(x)
  BY <1>2 DEF Queued
<1> QED
  BY <1>2, <1>4, <1>5 DEF Sound, x

\* A failed write locks the reducer first and disables then.
LEMMA LatchedKeeps ==
    ASSUME NEW made \in Nat, NEW last, NEW w, Sound(w, made, last)
    PROVE  LET x == Latched(w) IN
           /\ Sound(x, made, last) /\ Known(x, last) /\ Retires(w, x)
           /\ x.disk.auth = w.disk.auth /\ x.mem.restart = w.mem.restart
           /\ x.mem.validated = w.mem.validated /\ ~x.mem.reapply
           /\ x.life.locked \/ x.life.stopped
           /\ x.disk.proof = "none" /\ x.disk.lockout
<1> DEFINE l == Locked(w)
           x == Latched(w)
<1>1. w \in Worlds /\ w.life \in State /\ w.disk.ledger \in Nat /\ Queued(w) /\ Budget(w, made)
  BY Typed, Parts DEF Sound
<1>2. /\ l \in Worlds /\ l.disk = w.disk /\ l.mem = w.mem /\ l.helper = w.helper
      /\ l.life.stopped = w.life.stopped
      /\ l.life.stopped \/ (l.life.locked /\ ~l.life.driver)
      /\ (w.life.locked => l.life.locked) /\ (l.life.driver => w.life.driver)
  BY <1>1, LockedIs, LifeEvents
<1>3. x = Disable(l)
  BY DEF Latched
<1> HIDE DEF l, x
<1>4. /\ x \in Worlds /\ x.life = l.life /\ x.helper = w.helper
      /\ x.disk.snap = 0 /\ x.disk.auth = w.disk.auth /\ x.disk.lockout
      /\ x.disk.ledger = w.disk.ledger /\ x.disk.proof = "none"
      /\ x.mem.intent = 0 /\ x.mem.validated = w.mem.validated /\ ~x.mem.reapply
      /\ x.mem.key = w.mem.key /\ x.mem.restart = w.mem.restart
  BY <1>2, <1>3, DisableIs
<1>5. Pending(x) = 0
  BY <1>2, <1>4 DEF Pending
<1>6. Budget(x, made)
  BY <1>1, <1>4, <1>5, BudgetKept DEF Counted
<1>7. Queued(x) /\ Known(x, last) /\ Retires(w, x)
  BY <1>2, <1>4 DEF Queued, Known, Retires
<1>8. Sound(x, made, last)
  BY <1>4, <1>6, <1>7 DEF Sound
<1> QED
  BY <1>2, <1>4, <1>7, <1>8 DEF x

\* A recovery that is recorded is counted: the budget stays, whether the ledger was full,
\* the recovery already recorded, or not.
LEMMA RecordKeeps ==
    ASSUME NEW made \in Nat, NEW last, NEW w, Sound(w, made, last)
    PROVE  /\ Sound(Record(w), made, last)
           /\ Record(w).disk.ledger = Threshold
              \/ made + Pending(w) + 1 <= Record(w).disk.ledger
<1> DEFINE x == Record(w)
<1>1. w \in Worlds /\ w.disk.ledger \in 0..Threshold /\ Queued(w) /\ Budget(w, made)
      /\ Threshold \in Nat /\ w.disk.ledger \in Nat
  BY Typed, Parameters DEF Sound
<1>2. /\ x \in Worlds /\ x.life = w.life /\ x.helper = w.helper
      /\ x.disk.snap = w.disk.snap /\ x.disk.auth = w.disk.auth
      /\ x.disk.lockout = w.disk.lockout /\ x.disk.proof = w.disk.proof
      /\ x.disk.ledger = IF w.mem.key \/ w.disk.ledger = Threshold THEN w.disk.ledger
                         ELSE w.disk.ledger + 1
      /\ x.mem.key /\ x.mem.intent = w.mem.intent /\ x.mem.validated = w.mem.validated
      /\ x.mem.reapply = w.mem.reapply /\ x.mem.restart = w.mem.restart
  BY <1>1, RecordIs
<1> HIDE DEF x
<1>3. Pending(x) = Pending(w) /\ Counted(x) = 1 /\ (w.mem.key => Counted(w) = 1)
  BY <1>2 DEF Pending, Counted
<1>4. Pending(w) \in {0, 1} /\ Counted(w) \in {0, 1}
  BY DEF Pending, Counted
<1>5. x.disk.ledger = Threshold \/ made + Pending(w) + 1 <= x.disk.ledger
  <2>1. PICK p \in {0, 1}, c \in {0, 1}, l \in Nat, m \in Nat :
          p = Pending(w) /\ c = Counted(w) /\ l = w.disk.ledger /\ m = x.disk.ledger
    BY <1>1, <1>2, <1>4
  <2>2. l = Threshold \/ made + p + c <= l
    BY <1>1, <2>1 DEF Budget
  <2>3. CASE w.mem.key
    <3>1. c = 1 /\ m = l
      BY <1>2, <1>3, <2>1, <2>3
    <3> QED
      BY <2>1, <2>2, <3>1
  <2>4. CASE l = Threshold
    BY <1>2, <2>1, <2>4
  <2>5. CASE ~w.mem.key /\ l # Threshold
    <3>1. m = l + 1
      BY <1>2, <2>1, <2>5
    <3>2. made + p + 1 <= m
      BY <2>2, <2>5, <3>1
    <3> QED
      BY <2>1, <3>2
  <2> QED
    BY <2>3, <2>4, <2>5
<1>6. Budget(x, made)
  BY <1>1, <1>3, <1>5 DEF Budget
<1>7. Queued(x)
  BY <1>1, <1>2 DEF Queued
<1>8. Sound(x, made, last)
  BY <1>2, <1>6, <1>7 DEF Sound
<1> QED
  BY <1>5, <1>8 DEF x

\* An aborted restart leaves nothing that could be replayed.
LEMMA AbortKeeps ==
    ASSUME NEW made \in Nat, NEW last, NEW w, Sound(w, made, last)
    PROVE  LET x == Abort(w) IN
           /\ Sound(x, made, last) /\ Owned(x) /\ (Known(w, last) => Known(x, last))
<1> DEFINE x == Abort(w)
<1>1. w \in Worlds /\ w.disk.ledger \in Nat /\ Queued(w) /\ Budget(w, made)
      /\ w.disk.auth \in 0..Len(w.helper)
  BY Typed DEF Sound
<1>2. /\ x \in Worlds /\ x.life = w.life /\ Len(x.helper) = Len(w.helper)
      /\ x.disk.snap = 0 /\ x.disk.auth = 0 /\ x.disk.lockout = w.disk.lockout
      /\ x.disk.ledger = w.disk.ledger /\ x.disk.proof = w.disk.proof
      /\ ~x.mem.key /\ ~x.mem.restart /\ x.mem.intent = w.mem.intent
      /\ x.mem.validated = w.mem.validated /\ x.mem.reapply = w.mem.reapply
  BY <1>1, AbortIs
<1> HIDE DEF x
<1>3. Budget(x, made)
  BY <1>1, <1>2, BudgetKept DEF Pending, Counted
<1>4. Queued(x) /\ Owned(x) /\ (Known(w, last) => Known(x, last))
  BY <1>1, <1>2 DEF Queued, Owned, Known
<1>5. x.disk.auth \in 0..Len(x.helper)
  BY <1>2, Typed
<1> QED
  BY <1>2, <1>3, <1>4, <1>5 DEF Sound, x

\* An authorization counts the recovery it is for.
LEMMA AuthorizeKeeps ==
    ASSUME NEW made \in Nat, NEW last, NEW w, Sound(w, made, last)
    PROVE  LET x == Authorize(w) IN
           /\ Sound(x, made, last) /\ Owned(x) /\ (Known(w, last) => Known(x, last))
<1> DEFINE x == Authorize(w)
<1>1. w \in Worlds /\ Queued(w) /\ Budget(w, made)
  BY DEF Sound
<1>2. /\ x \in Worlds /\ x.life = w.life
      /\ x.disk.snap = w.disk.snap /\ x.disk.auth = Len(w.helper) + 1
      /\ Len(x.helper) = Len(w.helper) + 1 /\ Len(w.helper) \in Nat
      /\ x.disk.lockout = w.disk.lockout /\ x.disk.proof = w.disk.proof
      /\ x.disk.ledger = Record(w).disk.ledger
      /\ x.mem.key /\ x.mem.restart /\ x.mem.intent = w.mem.intent
      /\ x.mem.validated = w.mem.validated /\ x.mem.reapply = w.mem.reapply
  BY <1>1, AuthorizeIs
<1> HIDE DEF x
<1>3. Pending(x) = Pending(w) /\ Counted(x) = 1
  BY <1>2 DEF Pending, Counted
<1>4. x.disk.ledger = Threshold \/ made + Pending(w) + 1 <= x.disk.ledger
  BY <1>2, RecordKeeps
<1>5. Budget(x, made)
  BY <1>1, <1>3, <1>4 DEF Budget
<1>6. Queued(x) /\ Owned(x) /\ (Known(w, last) => Known(x, last))
  BY <1>1, <1>2 DEF Queued, Owned, Known
<1>7. x.disk.auth \in 0..Len(x.helper)
  BY <1>2
<1>8. x.disk.proof # "none" /\ x.disk.snap # 0 => x.disk.snap = last
  BY <1>2 DEF Sound
<1> QED
  BY <1>2, <1>5, <1>6, <1>7, <1>8 DEF Sound, x

\* The same world but for flags that no recovery depends on; evidence may be dropped.
Alike(w, x) ==
    /\ x \in Worlds /\ x.disk = w.disk /\ x.helper = w.helper /\ SameWork(w.life, x.life)
    /\ x.mem.intent = w.mem.intent /\ x.mem.validated = w.mem.validated
    /\ x.mem.reapply = w.mem.reapply /\ x.mem.restart = w.mem.restart
    /\ x.mem.key => w.mem.key

\* Worlds that agree on what soundness reads are sound together (what publishing,
\* proofs and readiness change is not among it).
LEMMA AlikeKeeps ==
    ASSUME NEW made \in Nat, NEW last, NEW w, NEW x, Sound(w, made, last), Alike(w, x)
    PROVE  /\ Sound(x, made, last) /\ Retires(w, x)
           /\ Known(w, last) => Known(x, last)
           /\ Owned(w) => Owned(x)
<1>1. w \in Worlds /\ w.disk.ledger \in Nat /\ Queued(w) /\ Budget(w, made)
  BY Typed DEF Sound
<1>2. Budget(x, made)
  BY <1>1, BudgetKept DEF Alike, SameWork, Pending, Counted
<1>3. Queued(x)
  BY <1>1 DEF Queued, Alike, SameWork
<1>4. Sound(x, made, last)
  BY <1>2, <1>3 DEF Sound, Alike
<1>5. Retires(w, x)
  BY DEF Retires, Alike, SameWork
<1>6. (Known(w, last) => Known(x, last)) /\ (Owned(w) => Owned(x))
  BY DEF Known, Owned, Alike
<1> QED
  BY <1>4, <1>5, <1>6

\* A restart that fails leaves a locked, disabled world without files.
LEMMA FailClosedKeeps ==
    ASSUME NEW made \in Nat, NEW last, NEW w, Sound(w, made, last)
    PROVE  Calm(FailClosed(w), made, last) /\ Retires(w, FailClosed(w))
<1> DEFINE a == Abort(w)
           d == Disable(a)
           l == Locked(d)
           x == FailClosed(w)
<1>1. w \in Worlds /\ w.life \in State /\ w.disk.auth \in 0..Len(w.helper)
  BY Parts DEF Sound
<1>2. a \in Worlds /\ a.life = w.life /\ a.disk.auth = 0 /\ ~a.mem.restart
      /\ a.mem.validated = w.mem.validated
  BY <1>1, AbortIs
<1>3. Sound(a, made, last)
  BY AbortKeeps
<1> HIDE DEF a
<1>4. d \in Worlds /\ d.life = w.life /\ d.disk.auth = 0 /\ ~d.mem.restart /\ d.mem.intent = 0
      /\ ~d.mem.reapply /\ d.disk.snap = 0 /\ d.disk.proof = "none"
  BY <1>2, DisableIs
<1>5. Sound(d, made, last)
  BY <1>3, DisableKeeps
<1> HIDE DEF d
<1>6. /\ l \in Worlds /\ l.disk = d.disk /\ l.mem = d.mem
      /\ l.life = LockoutEvent(w.life)
  BY <1>4, LockedIs
<1>7. Sound(l, made, last)
  BY <1>4, <1>5, LockedKeeps
<1>8. /\ l.life.stopped = w.life.stopped /\ (w.life.locked => l.life.locked)
      /\ l.life.driver => w.life.driver
  BY <1>1, <1>6, LifeEvents
<1>9. x = [l EXCEPT !.mem.validated = FALSE]
  BY DEF FailClosed, a, d, l
<1> HIDE DEF l, x
<1>10. /\ x \in Worlds /\ x.disk = l.disk /\ x.life = l.life /\ x.helper = l.helper
       /\ x.mem = [l.mem EXCEPT !.validated = FALSE]
  <2>1. [l.mem EXCEPT !.validated = FALSE] \in Mems
    BY <1>6, Parts DEF Mems
  <2> QED
    BY <1>6, <1>9, <2>1 DEF Worlds
<1>11. /\ ~x.mem.validated /\ ~x.mem.reapply /\ ~x.mem.restart /\ x.mem.intent = 0
       /\ x.mem.key = l.mem.key
  BY <1>4, <1>6, <1>10, Parts DEF Mems
<1>12. Budget(x, made)
  <2>1. Pending(x) = 0
    BY <1>11 DEF Pending
  <2>2. Counted(x) = Counted(l) /\ Budget(l, made) /\ l.disk.ledger \in Nat
    BY <1>6, <1>7, <1>10, <1>11, Typed DEF Counted, Sound
  <2> QED
    BY <1>10, <2>1, <2>2, BudgetKept
<1>13. Queued(x) /\ Known(x, last) /\ Owned(x) /\ Retires(w, x)
  BY <1>4, <1>6, <1>8, <1>10, <1>11 DEF Queued, Known, Owned, Retires
<1>14. Sound(x, made, last)
  BY <1>7, <1>10, <1>12, <1>13 DEF Sound
<1> QED
  BY <1>13, <1>14 DEF Calm, x

\* A request for a controlled restart: superseded, authorized, or closed.
LEMMA RequestRestartKeeps ==
    ASSUME NEW made \in Nat, NEW last, NEW w, Calm(w, made, last),
           NEW late \in BOOLEAN, NEW ok \in BOOLEAN
    PROVE  LET x == RequestRestart(w, late, ok) IN
           Calm(x, made, last) /\ Retires(w, x)
<1> DEFINE x == RequestRestart(w, late, ok)
<1>1. Sound(w, made, last) /\ Known(w, last) /\ Owned(w) /\ w \in Worlds
  BY DEF Calm, Sound
<1>2. CASE x = w
  BY <1>1, <1>2 DEF Calm, Retires
<1>3. CASE x = [w EXCEPT !.mem.key = FALSE]
  <2>1. [w.mem EXCEPT !.key = FALSE] \in Mems
    BY <1>1, Parts DEF Mems
  <2>2. /\ x \in Worlds /\ x.disk = w.disk /\ x.life = w.life /\ x.helper = w.helper
        /\ x.mem = [w.mem EXCEPT !.key = FALSE]
    BY <1>1, <1>3, <2>1 DEF Worlds
  <2> HIDE DEF x
  <2>3. Alike(w, x)
    BY <1>1, <2>2, Parts DEF Alike, SameWork, Mems
  <2> QED
    BY <1>1, <2>3, AlikeKeeps DEF Calm, x
<1>4. CASE x = [Authorize(w) EXCEPT !.mem.stop = TRUE]
  <2> DEFINE a == Authorize(w)
  <2>1. Sound(a, made, last) /\ Owned(a) /\ Known(a, last) /\ a \in Worlds
    BY <1>1, AuthorizeKeeps DEF Sound
  <2>2. Retires(w, a)
    BY <1>1, AuthorizeIs DEF Retires
  <2> HIDE DEF a
  <2>3. [a.mem EXCEPT !.stop = TRUE] \in Mems
    BY <2>1, Parts DEF Mems
  <2>4. /\ x \in Worlds /\ x.disk = a.disk /\ x.life = a.life /\ x.helper = a.helper
        /\ x.mem = [a.mem EXCEPT !.stop = TRUE]
    BY <1>4, <2>1, <2>3 DEF Worlds, a
  <2> HIDE DEF x
  <2>5. Alike(a, x)
    BY <2>1, <2>4, Parts DEF Alike, SameWork, Mems
  <2>6. Sound(x, made, last) /\ Owned(x) /\ Known(x, last) /\ Retires(a, x)
    BY <2>1, <2>5, AlikeKeeps
  <2>7. Retires(w, x)
    BY <2>2, <2>6 DEF Retires
  <2> QED
    BY <2>6, <2>7 DEF Calm, x
<1>5. CASE x = FailClosed(w)
  BY <1>1, <1>5, FailClosedKeeps
<1>6. CASE x = FailClosed(Record(w))
  <2>1. Sound(Record(w), made, last) /\ Retires(w, Record(w))
    BY <1>1, RecordKeeps, RecordIs DEF Retires
  <2>2. Calm(FailClosed(Record(w)), made, last) /\ Retires(Record(w), FailClosed(Record(w)))
    BY <2>1, FailClosedKeeps
  <2> QED
    BY <1>6, <2>1, <2>2 DEF Retires
<1>7. \/ x = w \/ x = [w EXCEPT !.mem.key = FALSE]
      \/ x = [Authorize(w) EXCEPT !.mem.stop = TRUE]
      \/ x = FailClosed(w) \/ x = FailClosed(Record(w))
  BY DEF RequestRestart
<1> QED
  BY <1>2, <1>3, <1>4, <1>5, <1>6, <1>7

\* An explicit request retires everything automatic.
LEMMA SupersedeKeeps ==
    ASSUME NEW made \in Nat, NEW last, NEW w, Calm(w, made, last)
    PROVE  LET x == Supersede(w) IN
           /\ Calm(x, made, last) /\ Retires(w, x)
           /\ ~x.mem.validated /\ ~x.mem.restart /\ ~x.mem.reapply
<1> DEFINE a == IF w.mem.restart THEN Abort(w) ELSE w
           b == IF a.mem.validated
                THEN [a EXCEPT !.mem.validated = FALSE, !.mem.intent = 0, !.disk = ClearFiles(@)]
                ELSE a
           x == Supersede(w)
<1>1. Sound(w, made, last) /\ Known(w, last) /\ Owned(w) /\ w \in Worlds
  BY DEF Calm, Sound
<1>2. /\ Sound(a, made, last) /\ Known(a, last) /\ Owned(a) /\ a \in Worlds
      /\ a.life = w.life /\ ~a.mem.restart
  BY <1>1, AbortKeeps, AbortIs, Typed DEF Sound
<1>3. x = [b EXCEPT !.life = SupersedeEvent(@), !.mem.gone = FALSE, !.mem.fault = FALSE,
                    !.mem.reapply = FALSE, !.mem.key = FALSE]
  BY DEF Supersede
<1> HIDE DEF a
<1>4. a.mem \in Mems /\ a.disk \in Disks /\ a.life \in State /\ Queued(a) /\ Budget(a, made)
  BY <1>2, Parts DEF Sound
<1>5. /\ b \in Worlds /\ b.life = w.life /\ b.helper = a.helper
      /\ ~b.mem.validated /\ ~b.mem.restart
      /\ b.disk.auth \in {0, a.disk.auth} /\ b.disk.ledger = a.disk.ledger
      /\ b.mem.intent = 0 \/ (b = a /\ ~a.mem.validated)
      /\ b.disk.snap = 0 \/ b = a
  <2>1. CASE a.mem.validated
    <3>1. [a.mem EXCEPT !.validated = FALSE, !.intent = 0] \in Mems
      BY <1>4, Parameters DEF Mems
    <3>2. ClearFiles(a.disk) \in Disks /\ ClearFiles(a.disk).snap = 0
          /\ ClearFiles(a.disk).auth = 0 /\ ClearFiles(a.disk).ledger = a.disk.ledger
      BY <1>4, Parameters DEF ClearFiles, Snapshot, Disks
    <3>3. /\ b \in Worlds /\ b.life = w.life /\ b.helper = a.helper
          /\ b.disk = ClearFiles(a.disk)
          /\ b.mem = [a.mem EXCEPT !.validated = FALSE, !.intent = 0]
      BY <1>2, <2>1, <3>1, <3>2 DEF Worlds
    <3> HIDE DEF b
    <3>4. ~b.mem.validated /\ b.mem.intent = 0 /\ ~b.mem.restart
      BY <1>2, <1>4, <3>3 DEF Mems
    <3> QED
      BY <3>2, <3>3, <3>4
  <2>2. CASE ~a.mem.validated
    BY <1>2, <2>2
  <2> QED
    BY <2>1, <2>2
<1> HIDE DEF b, x
<1>6. SupersedeEvent(w.life) \in State /\ SupersedeEvent(w.life).stopped = w.life.stopped
      /\ SupersedeEvent(w.life).locked = w.life.locked
      /\ (SupersedeEvent(w.life).driver => w.life.driver)
  BY <1>1, Parts, LifeEvents
<1>7. /\ x \in Worlds /\ x.life = SupersedeEvent(w.life) /\ x.disk = b.disk
      /\ x.helper = a.helper
      /\ x.mem = [b.mem EXCEPT !.gone = FALSE, !.fault = FALSE, !.reapply = FALSE, !.key = FALSE]
  <2>1. [b.mem EXCEPT !.gone = FALSE, !.fault = FALSE, !.reapply = FALSE, !.key = FALSE] \in Mems
    BY <1>5, Parts DEF Mems
  <2> QED
    BY <1>3, <1>5, <1>6, <2>1 DEF Worlds
<1>8. /\ ~x.mem.validated /\ ~x.mem.restart /\ ~x.mem.reapply /\ ~x.mem.key
      /\ x.mem.intent = b.mem.intent
  BY <1>5, <1>7, Parts DEF Mems
<1>9. Budget(x, made)
  <2>1. Pending(x) = 0 /\ (Counted(x) = 1 => Counted(a) = 1)
    BY <1>5, <1>7, <1>8 DEF Pending, Counted
  <2> QED
    BY <1>2, <1>4, <1>5, <1>7, <2>1, BudgetKept, Typed
<1>10. Queued(x) /\ Owned(x)
  BY <1>2, <1>5, <1>7, <1>8 DEF Queued, Owned
<1>11. Known(x, last)
  <2>1. CASE b.mem.intent = 0
    BY <1>8, <2>1 DEF Known
  <2>2. CASE b = a /\ ~a.mem.validated
    <3>1. ~a.mem.reapply
      BY <1>4, <2>2 DEF Queued
    <3> QED
      BY <1>2, <1>7, <1>8, <2>2, <3>1 DEF Known
  <2> QED
    BY <1>5, <2>1, <2>2
<1>12. Sound(x, made, last)
  <2>1. x.disk.auth \in 0..Len(x.helper)
    BY <1>2, <1>5, <1>7, Typed DEF Sound
  <2>2. x.disk.proof # "none" /\ x.disk.snap # 0 => x.disk.snap = last
    BY <1>2, <1>5, <1>7 DEF Sound
  <2> QED
    BY <1>7, <1>9, <1>10, <2>1, <2>2 DEF Sound
<1>13. Retires(w, x)
  BY <1>6, <1>7, <1>8 DEF Retires
<1> QED
  BY <1>8, <1>10, <1>11, <1>12, <1>13 DEF Calm, x

\* A refused request may rewrite the snapshot with the intent, which is of the settings
\* that stand as long as there is a proof.
LEMMA RefusedKeeps ==
    ASSUME NEW made \in Nat, NEW last, NEW w, Calm(w, made, last), NEW x \in Refused(w)
    PROVE  /\ Calm(x, made, last) /\ Retires(w, x)
           /\ x.mem = w.mem /\ x.life = w.life /\ x.helper = w.helper
<1> DEFINE s == Snapshot(w.disk, w.mem.intent)
<1>1. Sound(w, made, last) /\ Known(w, last) /\ Owned(w) /\ w \in Worlds /\ w.disk \in Disks
      /\ w.mem.intent \in Values /\ Budget(w, made) /\ w.disk.ledger \in Nat
  BY Parts, Typed DEF Calm, Sound
<1>2. PICK d \in {w.disk, s, [s EXCEPT !.proof = "none"],
                  [s EXCEPT !.proof = "none", !.lockout = TRUE]} : x = [w EXCEPT !.disk = d]
  BY DEF Refused
<1>3. /\ s \in Disks /\ s.snap = w.mem.intent /\ s.auth = w.disk.auth
      /\ s.ledger = w.disk.ledger /\ s.proof = w.disk.proof
  BY <1>1 DEF Snapshot, Disks
<1> HIDE DEF s
<1>4. /\ d \in Disks /\ d.auth = w.disk.auth /\ d.ledger = w.disk.ledger
      /\ d.proof \in {w.disk.proof, "none"}
      /\ d = w.disk \/ d.snap = w.mem.intent
  BY <1>1, <1>2, <1>3 DEF Disks
<1>5. x \in Worlds /\ x.disk = d /\ x.mem = w.mem /\ x.life = w.life /\ x.helper = w.helper
  BY <1>1, <1>2, <1>4 DEF Worlds
<1>6. Budget(x, made)
  BY <1>1, <1>4, <1>5, BudgetKept DEF Pending, Counted
<1>7. Queued(x) /\ Owned(x) /\ Retires(w, x)
  BY <1>1, <1>4, <1>5 DEF Sound, Queued, Owned, Retires
<1>8. Known(x, last)
  BY <1>1, <1>4, <1>5 DEF Known
<1>9. x.disk.proof # "none" /\ x.disk.snap # 0 => x.disk.snap = last
  BY <1>1, <1>4, <1>5 DEF Known, Sound
<1>10. Sound(x, made, last)
  BY <1>1, <1>4, <1>5, <1>6, <1>7, <1>9 DEF Sound
<1> QED
  BY <1>5, <1>7, <1>8, <1>10 DEF Calm

-----------------------------------------------------------------------------
(* The inductive invariant.                                                *)

\* Where the worker may find no driver's work any more
Held == {"logonLocked", "lateLogon", "standbyLocked", "lateStandby"}

Mains   == {"watch", "cue", "request", "late", "claim", "join"}
Workers == {"wait", "cues", "logon", "standby", "driver", "driverLocked", "finishLogon",
            "finishStandby", "finishDriver", "dead"} \cup Held
Clients == {"idle", "apply", "reset"}

Boxes  == [in : SUBSET {"logon", "removal", "arrival"}, cur : SUBSET {"removal", "arrival"},
           wake : BOOLEAN, ok : BOOLEAN]
Pcs    == [main : Mains, worker : Workers, client : Clients]
Writes == [by : {"none", "apply", "reset"} \cup Automatic, kept : BOOLEAN]

\* What is not part of the world has its types
RestOK ==
    /\ box \in Boxes /\ pc \in Pcs /\ write \in Writes
    /\ proc \in {"running", "down", "stopped"} /\ present \in BOOLEAN
    /\ good \in Values /\ restores \in Nat /\ asked \in 0..MaxApplies /\ spent \in Nat

\* A process that is not running has no state
DownOK == proc # "running" => mem = Fresh /\ life = Quiet /\ write = NoWrite /\ pc = Idle

\* A write in flight has invalidated the proof; an explicit one has superseded everything
\* automatic, and an automatic one found no lockout
WriteOK ==
    /\ write.by # "none" => disk.proof = "none"
    /\ write.by \in {"apply", "reset"} => ~mem.validated /\ ~mem.restart
    /\ write.by \in Automatic => ~disk.lockout

\* The worker looks at logon and standby work only when no driver's work is queued, and
\* the end of a driver write leaves none to carry out
PlaceOK ==
    /\ pc.worker \in Held => ~life.driver
    /\ pc.worker = "finishDriver" =>
         ~mem.reapply /\ (~mem.validated \/ life.locked \/ life.stopped)

WorldOK ==
    /\ Sound(World, restores, good)
    /\ write.by = "none" => Known(World, good)
    /\ proc = "running" => Owned(World)

IInv == RestOK /\ WorldOK /\ DownOK /\ WriteOK /\ PlaceOK

\* The parts of the world are those of the state.
LEMMA WorldIs ==
    /\ World.disk = disk /\ World.mem = mem /\ World.life = life /\ World.helper = helper
    /\ World'.disk = disk' /\ World'.mem = mem' /\ World'.life = life' /\ World'.helper = helper'
BY DEF World

\* What becomes of a world.
LEMMA Becomes ==
    ASSUME NEW w \in Worlds, Become(w)
    PROVE  World' = w
<1>1. World' = [disk |-> w.disk, mem |-> w.mem, life |-> w.life, helper |-> w.helper]
  BY DEF Become, World
<1>2. w = [disk |-> w.disk, mem |-> w.mem, life |-> w.life, helper |-> w.helper]
  BY DEF Worlds
<1> QED
  BY <1>1, <1>2

\* The worker does not move to where driver's work is in the way.
Placed ==
    \/ pc'.worker = pc.worker
    \/ pc'.worker \notin Held /\ pc'.worker # "finishDriver"
    \/ pc'.worker \in Held /\ ~life.driver

\* A step that leaves the world alike, or retires work while no write is in flight.
LEMMA QuietStep ==
    ASSUME IInv, RestOK', UNCHANGED <<write, proc, good, restores>>, Placed,
           proc # "running" => UNCHANGED <<mem, life, pc>>,
           \/ Alike(World, World')
           \/ /\ write.by = "none" /\ proc = "running"
              /\ Calm(World', restores, good) /\ Retires(World, World')
    PROVE  IInv'
<1>1. /\ Sound(World, restores, good)
      /\ write.by = "none" => Known(World, good)
      /\ proc = "running" => Owned(World)
      /\ DownOK /\ WriteOK /\ PlaceOK
  BY DEF IInv, WorldOK
<1>2. /\ Sound(World', restores, good) /\ Retires(World, World')
      /\ write.by = "none" => Known(World', good)
      /\ proc = "running" => Owned(World')
  <2>1. CASE Alike(World, World')
    BY <1>1, <2>1, AlikeKeeps DEF IInv, RestOK
  <2>2. CASE write.by = "none" /\ proc = "running"
             /\ Calm(World', restores, good) /\ Retires(World, World')
    BY <2>2 DEF Calm
  <2> QED
    BY <2>1, <2>2
<1>3. WorldOK'
  BY <1>2 DEF WorldOK
<1>4. DownOK'
  BY <1>1 DEF DownOK
<1>5. WriteOK'
  <2>1. CASE write.by = "none"
    BY <2>1 DEF WriteOK, Automatic
  <2>2. CASE write.by # "none"
    <3>1. Alike(World, World')
      BY <2>2
    <3>2. disk' = disk /\ mem'.validated = mem.validated /\ mem'.restart = mem.restart
      BY <3>1, WorldIs DEF Alike
    <3> QED
      BY <1>1, <3>2 DEF WriteOK
  <2> QED
    BY <2>1, <2>2
<1>6. PlaceOK'
  <2>1. /\ life'.driver => life.driver
        /\ mem'.reapply => mem.reapply
        /\ mem'.validated => mem.validated
        /\ life.locked => life'.locked
        /\ life.stopped => life'.stopped
    BY <1>2, WorldIs DEF Retires
  <2> QED
    BY <1>1, <2>1 DEF PlaceOK, Placed, Held
<1> QED
  BY <1>3, <1>4, <1>5, <1>6 DEF IInv

-----------------------------------------------------------------------------
(* Steps that leave the world alike.                                       *)

\* The parts of the state that the invariant types.
LEMMA StateParts ==
    ASSUME IInv
    PROVE  /\ World \in Worlds /\ disk \in Disks /\ mem \in Mems /\ life \in State
           /\ helper \in Seq(Phases) /\ box \in Boxes /\ pc \in Pcs /\ write \in Writes
           /\ proc \in {"running", "down", "stopped"} /\ present \in BOOLEAN
           /\ good \in Values /\ restores \in Nat /\ asked \in 0..MaxApplies /\ spent \in Nat
           /\ disk.auth \in 0..Len(helper)
<1>1. World \in Worlds /\ World.disk.auth \in 0..Len(World.helper)
  BY DEF IInv, WorldOK, Sound
<1> QED
  BY <1>1, WorldIs, Parts DEF IInv, RestOK

\* The world is the same.
LEMMA SameWorld ==
    ASSUME IInv, UNCHANGED <<disk, mem, life, helper>>
    PROVE  Alike(World, World')
<1>1. World' = World /\ World \in Worlds
  BY StateParts DEF World
<1> QED
  BY <1>1, Parts DEF Alike, SameWork

\* Some flag of the process changes.
LEMMA MemStep ==
    ASSUME IInv, UNCHANGED <<disk, life, helper>>, mem' \in Mems,
           mem'.intent = mem.intent, mem'.validated = mem.validated,
           mem'.reapply = mem.reapply, mem'.restart = mem.restart, mem'.key = mem.key
    PROVE  Alike(World, World')
<1>1. World' \in Worlds
  BY StateParts DEF Worlds, World
<1> QED
  BY <1>1, StateParts, WorldIs DEF Alike, SameWork

\* Some other work of the reducer changes.
LEMMA LifeStep ==
    ASSUME IInv, UNCHANGED <<disk, mem, helper>>, SameWork(life, life')
    PROVE  Alike(World, World')
<1>1. World' \in Worlds
  BY StateParts DEF Worlds, World, SameWork
<1> QED
  BY <1>1, WorldIs DEF Alike

\* The worker and the main thread move on, and what they say of it.
LEMMA PcsMove ==
    ASSUME pc \in Pcs, NEW v
    PROVE  /\ v \in Workers => [pc EXCEPT !.worker = v] \in Pcs
           /\ v \in Mains => [pc EXCEPT !.main = v] \in Pcs
           /\ v \in Clients => [pc EXCEPT !.client = v] \in Pcs
           /\ [pc EXCEPT !.worker = v].worker = v
           /\ [pc EXCEPT !.main = v].worker = pc.worker
           /\ [pc EXCEPT !.client = v].worker = pc.worker
BY DEF Pcs

\* Requests, notifications, looks before the lock and the main thread's cues change nothing
\* of the world.
LEMMA Bystanders ==
    ASSUME IInv,
           \/ \E kind \in {"apply", "reset"} : ClientAsk(kind)
           \/ MainCue \/ MainEpoch \/ Nudge \/ Logon \/ WorkerGate
           \/ LookLogon \/ LookStandby \/ LookDriver \/ WorkerDies
           \/ UNCHANGED vars
    PROVE  IInv'
<1> USE StateParts
<1>1. ASSUME NEW kind \in {"apply", "reset"}, ClientAsk(kind)
      PROVE  IInv'
  <2>1. pc' \in Pcs /\ pc'.worker = pc.worker
    BY <1>1, PcsMove DEF ClientAsk, Clients
  <2>2. asked' \in 0..MaxApplies
    BY <1>1, Parameters DEF ClientAsk
  <2>3. /\ UNCHANGED <<disk, mem, life, helper, box, write, proc, present, good, restores, spent>>
        /\ proc = "running"
    BY <1>1 DEF ClientAsk
  <2>4. RestOK'
    BY <2>1, <2>2, <2>3 DEF RestOK
  <2> QED
    BY <2>1, <2>3, <2>4, SameWorld, QuietStep DEF Placed
<1>2. CASE MainCue \/ MainEpoch
  <2>1. pc' \in Pcs /\ pc'.worker = pc.worker
    <3>1. PICK v \in Mains : pc' = [pc EXCEPT !.main = v]
      BY <1>2 DEF MainCue, MainEpoch, Main, Mains
    <3> QED
      BY <3>1, PcsMove
  <2>2. /\ UNCHANGED <<disk, mem, life, helper, box, write, proc, present, good, restores, asked,
                       spent>>
        /\ proc = "running"
    BY <1>2 DEF MainCue, MainEpoch, Watching
  <2>3. RestOK'
    BY <2>1, <2>2 DEF RestOK
  <2> QED
    BY <2>1, <2>2, <2>3, SameWorld, QuietStep DEF Placed
<1>3. CASE Nudge \/ Logon
  <2>1. box' \in Boxes
    <3>1. box \in Boxes
      OBVIOUS
    <3>2. CASE Nudge
      <4>1. box' = [box EXCEPT !.wake = TRUE]
        BY <3>2 DEF Nudge
      <4> QED BY <3>1, <4>1 DEF Boxes
    <3>3. CASE Logon
      <4>1. PICK in \in {box.in, box.in \cup {"logon"}} :
              box' = [box EXCEPT !.in = in, !.wake = TRUE]
        BY <3>3 DEF Logon, Post
      <4>2. in \in SUBSET {"logon", "removal", "arrival"}
        BY <3>1, <4>1 DEF Boxes
      <4> QED BY <3>1, <4>1, <4>2 DEF Boxes
    <3> QED BY <1>3, <3>2, <3>3
  <2>2. /\ UNCHANGED <<disk, mem, life, helper, pc, write, proc, present, good, restores, asked>>
        /\ proc = "running"
    BY <1>3 DEF Nudge, Logon
  <2>3. spent' \in Nat
    BY <1>3 DEF Nudge, Logon, Spend
  <2>4. RestOK'
    BY <2>1, <2>2, <2>3 DEF RestOK
  <2> QED
    BY <2>2, <2>4, SameWorld, QuietStep DEF Placed
<1>4. CASE WorkerGate \/ LookLogon \/ LookStandby \/ LookDriver
  <2>1. PICK v \in Workers : /\ pc' = [pc EXCEPT !.worker = v]
                             /\ v # "finishDriver" /\ (v \in Held => ~life.driver)
    <3>1. CASE WorkerGate
      BY <3>1 DEF WorkerGate, Worker, Workers, Held
    <3>2. CASE LookLogon
      <4>1. CASE life.driver
        BY <3>2, <4>1 DEF LookLogon, Look, Worker, Workers, Held
      <4>2. CASE ~life.driver
        <5>1. PICK v \in {"standby", "lateLogon", "logonLocked"} : pc' = [pc EXCEPT !.worker = v]
          BY <3>2 DEF LookLogon, Look, Worker
        <5> QED
          BY <4>2, <5>1 DEF Workers, Held
      <4> QED
        BY <4>1, <4>2
    <3>3. CASE LookStandby
      <4>1. CASE life.driver
        BY <3>3, <4>1 DEF LookStandby, Look, Worker, Workers, Held, StandbyMayWrite
      <4>2. CASE ~life.driver
        <5>1. PICK v \in {"driver", "lateStandby", "standbyLocked"} : pc' = [pc EXCEPT !.worker = v]
          BY <3>3 DEF LookStandby, Look, Worker
        <5> QED
          BY <4>2, <5>1 DEF Workers, Held
      <4> QED
        BY <4>1, <4>2
    <3>4. CASE LookDriver
      BY <3>4 DEF LookDriver, Look, Worker, Workers, Held
    <3> QED
      BY <1>4, <3>1, <3>2, <3>3, <3>4
  <2>2. /\ UNCHANGED <<disk, mem, life, helper, box, write, proc, present, good, restores, asked,
                       spent>>
        /\ proc = "running"
    BY <1>4 DEF WorkerGate, LookLogon, LookStandby, LookDriver, Look
  <2>3. pc' \in Pcs /\ pc'.worker = v
    BY <2>1, PcsMove
  <2>4. RestOK'
    BY <2>2, <2>3 DEF RestOK
  <2>5. Placed
    BY <2>1, <2>3 DEF Placed
  <2> QED
    BY <2>2, <2>4, <2>5, SameWorld, QuietStep
<1>5. CASE WorkerDies
  <2>1. /\ UNCHANGED <<disk, mem, life, helper, box, write, proc, present, good, restores, asked>>
        /\ proc = "running"
    BY <1>5 DEF WorkerDies
  <2>2. pc' \in Pcs /\ pc'.worker = "dead"
    BY <1>5, PcsMove DEF WorkerDies, Worker, Workers
  <2>3. spent' \in Nat
    BY <1>5 DEF WorkerDies, Spend
  <2>4. RestOK'
    BY <2>1, <2>2, <2>3 DEF RestOK
  <2> QED
    BY <2>1, <2>2, <2>4, SameWorld, QuietStep DEF Placed, Held
<1>6. CASE UNCHANGED vars
  <2>1. UNCHANGED <<disk, mem, life, helper, box, pc, write, proc, present, good, restores, asked,
                    spent>>
    BY <1>6 DEF vars
  <2>2. RestOK'
    BY <2>1 DEF RestOK
  <2> QED
    BY <2>1, <2>2, SameWorld, QuietStep DEF Placed
<1> QED
  BY <1>1, <1>2, <1>3, <1>4, <1>5, <1>6

\* Flags of the process that no recovery depends on, and GPUs that come and go.
LEMMA Flags ==
    ASSUME IInv, Publish \/ Fault \/ ExternalStop \/ Remove \/ Arrive \/ MainWake
    PROVE  IInv'
<1> USE StateParts
<1>1. /\ mem' \in Mems /\ mem'.intent = mem.intent /\ mem'.validated = mem.validated
      /\ mem'.reapply = mem.reapply /\ mem'.restart = mem.restart /\ mem'.key = mem.key
  <2>1. CASE Publish
    <3>1. PICK b \in BOOLEAN : mem' = [mem EXCEPT !.published = b]
      BY <2>1 DEF Publish, Mems
    <3> QED
      BY <3>1 DEF Mems
  <2>2. CASE Fault
    BY <2>2 DEF Fault, Mems
  <2>3. CASE ExternalStop
    BY <2>3 DEF ExternalStop, Mems
  <2>4. CASE Remove \/ Arrive
    BY <2>4 DEF Remove, Arrive, Mems
  <2>5. CASE MainWake
    BY <2>5 DEF MainWake, Mems
  <2> QED
    BY <2>1, <2>2, <2>3, <2>4, <2>5
<1>2. /\ UNCHANGED <<disk, life, helper, write, proc, good, restores, asked>>
      /\ proc # "running" => UNCHANGED <<mem, pc>>
  BY DEF Publish, Fault, ExternalStop, Remove, Arrive, MainWake, Free
<1>3. box' \in Boxes /\ present' \in BOOLEAN /\ spent' \in Nat
  <2>1. CASE Remove \/ Arrive
    <3>1. Spend /\ (present' = FALSE \/ present' = TRUE)
      BY <2>1 DEF Remove, Arrive
    <3>2. ASSUME NEW cue \in {"removal", "arrival"}, Post(cue)
          PROVE  box' \in Boxes
      <4>1. PICK in \in {box.in, box.in \cup {cue}} : box' = [box EXCEPT !.in = in, !.wake = TRUE]
        BY <3>2 DEF Post
      <4>2. box.in \in SUBSET {"logon", "removal", "arrival"}
        BY DEF Boxes
      <4>3. in \in SUBSET {"logon", "removal", "arrival"}
        BY <4>1, <4>2
      <4> QED
        BY <4>1, <4>3 DEF Boxes
    <3>3. box' = box \/ \E cue \in {"removal", "arrival"} : Post(cue)
      BY <2>1 DEF Remove, Arrive
    <3>4. spent' \in Nat
      BY <3>1 DEF Spend
    <3> QED
      BY <3>1, <3>2, <3>3, <3>4
  <2>2. CASE Publish \/ Fault \/ ExternalStop \/ MainWake
    <3>1. box' = box /\ present' = present /\ (spent' = spent \/ spent' = spent + 1)
      BY <2>2 DEF Publish, Fault, ExternalStop, MainWake, Spend
    <3> QED
      BY <3>1
  <2> QED
    BY <2>1, <2>2
<1>4. pc' \in Pcs /\ pc'.worker = pc.worker
  <2>1. pc' = pc \/ pc' = [pc EXCEPT !.main = "claim"]
    BY DEF Publish, Fault, ExternalStop, Remove, Arrive, MainWake, Main
  <2> QED
    BY <2>1, PcsMove DEF Mains
<1>5. RestOK'
  BY <1>2, <1>3, <1>4 DEF RestOK
<1>6. Alike(World, World')
  BY <1>1, <1>2, MemStep
<1> QED
  BY <1>2, <1>4, <1>5, <1>6, QuietStep DEF Placed

\* The reducer's other work: a standby, a logon, the ends of their writes.
LEMMA OtherWork ==
    ASSUME IInv, Standby \/ WorkerDrain \/ (WorkerFinish /\ pc.worker # "finishDriver")
    PROVE  IInv'
<1> USE StateParts
<1>1. SameWork(life, life')
  <2>1. box.ok \in BOOLEAN
    BY DEF Boxes
  <2>2. SameWork(life, life)
    BY DEF SameWork
  <2> QED
    BY <2>1, <2>2, OtherEvents DEF Standby, WorkerDrain, WorkerFinish
<1>2. /\ UNCHANGED <<disk, mem, helper, write, proc, present, good, restores, asked>>
      /\ proc = "running"
  BY DEF Standby, WorkerDrain, WorkerFinish
<1>3. pc' \in Pcs /\ Placed
  <2>1. CASE Standby
    BY <2>1 DEF Standby, Placed
  <2>2. CASE WorkerDrain \/ (WorkerFinish /\ pc.worker # "finishDriver")
    <3>1. PICK v \in {"cues", "standby", "driver"} : pc' = [pc EXCEPT !.worker = v]
      BY <2>2 DEF WorkerDrain, WorkerFinish, Worker
    <3> QED
      BY <3>1, PcsMove DEF Placed, Workers, Held
  <2> QED
    BY <2>1, <2>2
<1>4. box' \in Boxes
  <2>1. CASE Standby
    BY <2>1 DEF Standby, Boxes
  <2>2. CASE WorkerDrain
    BY <2>2 DEF WorkerDrain, Boxes, EmptyBox
  <2>3. CASE WorkerFinish
    BY <2>3 DEF WorkerFinish, Boxes
  <2> QED
    BY <2>1, <2>2, <2>3
<1>5. spent' \in Nat
  BY DEF Standby, WorkerDrain, WorkerFinish, Spend
<1>6. RestOK'
  BY <1>2, <1>3, <1>4, <1>5 DEF RestOK
<1> QED
  BY <1>1, <1>2, <1>3, <1>6, LifeStep, QuietStep

-----------------------------------------------------------------------------
(* Steps of the reducer.                                                   *)

\* A step of the reducer alone.
LEMMA LifeMoves ==
    ASSUME IInv, UNCHANGED <<disk, mem, helper, write, proc, good, restores>>,
           proc = "running", Sound(World', restores, good), RestOK', PlaceOK'
    PROVE  IInv'
<1>1. /\ write.by = "none" => Known(World, good)
      /\ Owned(World) /\ DownOK /\ WriteOK
  BY DEF IInv, WorldOK
<1>2. WorldOK'
  BY <1>1, WorldIs DEF WorldOK, Known, Owned
<1>3. DownOK' /\ WriteOK'
  BY <1>1 DEF DownOK, WriteOK
<1> QED
  BY <1>2, <1>3 DEF IInv

\* A lockout that was seen before the lock, the stop, and the end of a driver write.
LEMMA LifeEnds ==
    ASSUME IInv,
           \/ LateLockout("lateLogon", "standby") \/ LateLockout("lateStandby", "driver")
           \/ WorkerStop \/ (WorkerFinish /\ pc.worker = "finishDriver")
    PROVE  IInv'
<1> USE StateParts
<1>1. /\ UNCHANGED <<disk, mem, helper, write, proc, present, good, restores, asked, spent>>
      /\ proc = "running"
  BY DEF LateLockout, WorkerStop, WorkerFinish
<1>2. PICK v \in {"standby", "driver", "dead", "wait"} : pc' = [pc EXCEPT !.worker = v]
  BY DEF LateLockout, WorkerStop, WorkerFinish, Worker
<1>3. pc' \in Pcs /\ pc'.worker = v
  BY <1>2, PcsMove DEF Workers
<1>4. box' \in Boxes
  <2>1. CASE WorkerFinish
    BY <2>1 DEF WorkerFinish, Boxes
  <2>2. CASE ~WorkerFinish
    BY <2>2 DEF LateLockout, WorkerStop
  <2> QED
    BY <2>1, <2>2
<1>5. RestOK'
  BY <1>1, <1>3, <1>4 DEF RestOK
<1>6. PlaceOK'
  BY <1>3 DEF PlaceOK, Held
<1>7. /\ Sound(World, restores, good) /\ Queued(World) /\ Budget(World, restores) /\ PlaceOK
      /\ disk.ledger \in Nat
  BY WorldIs, Typed DEF IInv, WorldOK, Sound
<1>8. /\ life' \in State => World' \in Worlds
      /\ World'.disk = World.disk /\ World'.mem = World.mem /\ World'.helper = World.helper
  BY <1>1 DEF World, Worlds
<1>9. ASSUME Queued(World'), Pending(World') = 1 => Pending(World) = 1, life' \in State
      PROVE  IInv'
  <2>1. Counted(World') = Counted(World)
    BY <1>8 DEF Counted
  <2>2. Budget(World', restores)
    BY <1>7, <1>8, <1>9, <2>1, BudgetKept, WorldIs
  <2>3. Sound(World', restores, good)
    BY <1>7, <1>8, <1>9, <2>2 DEF Sound
  <2> QED
    BY <1>1, <1>5, <1>6, <2>3, LifeMoves
<1>10. CASE LateLockout("lateLogon", "standby") \/ LateLockout("lateStandby", "driver")
  <2>1. /\ life' = LockoutEvent(life) /\ ~life.driver
    BY <1>7, <1>10 DEF LateLockout, PlaceOK, Held
  <2>2. /\ life' \in State /\ life'.stopped = life.stopped
        /\ life'.stopped \/ (life'.locked /\ ~life'.driver)
    BY <2>1, LifeEvents
  <2>3. Pending(World') = 0
    BY <2>2, WorldIs DEF Pending
  <2>4. Queued(World')
    BY <1>7, <1>8, <2>1, <2>2, WorldIs DEF Queued
  <2> QED
    BY <1>9, <2>2, <2>3, <2>4
<1>11. CASE WorkerStop
  <2>1. life' \in State /\ life'.stopped
    BY <1>11, LifeEvents DEF WorkerStop
  <2>2. Pending(World') = 0
    BY <2>1, WorldIs DEF Pending
  <2>3. Queued(World')
    BY <1>7, <1>8, <2>1, WorldIs DEF Queued
  <2> QED
    BY <1>9, <2>1, <2>2, <2>3
<1>12. CASE WorkerFinish /\ pc.worker = "finishDriver"
  <2>1. life' = DriverFinished(life)
    BY <1>12 DEF WorkerFinish
  <2>2. /\ life' \in State /\ life'.stopped = life.stopped /\ life'.locked = life.locked
    BY <2>1, DriverFinishedIs
  <2>3. ~mem.reapply /\ (~mem.validated \/ life.locked \/ life.stopped)
    BY <1>7, <1>12 DEF PlaceOK
  <2>4. Pending(World') = 0
    BY <1>8, <2>2, <2>3, WorldIs DEF Pending
  <2>5. Queued(World')
    BY <1>8, <2>2, <2>3, WorldIs DEF Queued
  <2> QED
    BY <1>9, <2>2, <2>4, <2>5
<1> QED
  BY <1>10, <1>11, <1>12

\* Settings that prove stable were not in the middle of a write.
LEMMA Matures ==
    ASSUME IInv, Mature
    PROVE  IInv'
<1> USE StateParts
<1>1. /\ disk.proof = "young" /\ disk' = [disk EXCEPT !.proof = "mature"]
      /\ UNCHANGED <<mem, life, helper, box, pc, write, proc, present, good, restores, asked,
                     spent>>
  BY DEF Mature
<1>2. /\ disk' \in Disks /\ disk'.snap = disk.snap /\ disk'.auth = disk.auth
      /\ disk'.ledger = disk.ledger /\ disk'.lockout = disk.lockout
  BY <1>1 DEF Disks
<1>3. /\ Sound(World, restores, good) /\ Queued(World) /\ Budget(World, restores)
      /\ write.by = "none" => Known(World, good)
      /\ proc = "running" => Owned(World)
      /\ DownOK /\ WriteOK /\ PlaceOK /\ disk.ledger \in Nat
  BY WorldIs, Typed DEF IInv, WorldOK, Sound
<1>4. write.by = "none"
  BY <1>1, <1>3 DEF WriteOK
<1>5. World' \in Worlds
  BY <1>1, <1>2 DEF World, Worlds
<1>6. Budget(World', restores)
  <2>1. Pending(World') = Pending(World) /\ Counted(World') = Counted(World)
    BY <1>1, <1>2, WorldIs DEF Pending, Counted
  <2>2. World'.disk.ledger = World.disk.ledger
    BY <1>2, WorldIs
  <2> QED
    BY <1>3, <2>1, <2>2 DEF Budget
<1>7. Sound(World', restores, good)
  BY <1>1, <1>2, <1>3, <1>5, <1>6, WorldIs DEF Sound, Queued
<1>8. WorldOK'
  BY <1>1, <1>2, <1>3, <1>7, WorldIs DEF WorldOK, Known, Owned
<1>9. DownOK' /\ PlaceOK' /\ RestOK'
  BY <1>1, <1>3 DEF DownOK, PlaceOK, RestOK
<1>10. WriteOK'
  BY <1>1, <1>4 DEF WriteOK, Automatic
<1> QED
  BY <1>8, <1>9, <1>10 DEF IInv

-----------------------------------------------------------------------------
(* Steps under the lock, without a write.                                  *)

\* While the lock is free the world of a running process is calm.
LEMMA CalmWorld ==
    ASSUME IInv, Free
    PROVE  /\ Calm(World, restores, good) /\ World \in Worlds /\ write.by = "none"
           /\ proc = "running" /\ restores \in Nat /\ PlaceOK
BY DEF IInv, WorldOK, Free, Calm, Sound, RestOK

\* Work that is retired under the lock.
LEMMA RetireStep ==
    ASSUME IInv, Free, RestOK', UNCHANGED <<write, proc, good, restores>>, Placed,
           NEW w \in Worlds, Become(w), Calm(w, restores, good), Retires(World, w)
    PROVE  IInv'
<1>1. World' = w
  BY Becomes
<1> QED
  BY <1>1, QuietStep, CalmWorld

\* A request of a client that does not come to its write.
LEMMA ClientRefused ==
    ASSUME IInv, ClientRun, write'.by = "none"
    PROVE  IInv'
<1> USE StateParts
<1>1. /\ Free /\ pc.client # "idle"
      /\ UNCHANGED <<proc, present, restores, asked, spent>>
  BY DEF ClientRun
<1>2. CASE /\ pc' = [pc EXCEPT !.client = "idle"]
           /\ UNCHANGED <<disk, mem, life, helper, box, write, good>>
  <2>1. pc' \in Pcs /\ pc'.worker = pc.worker
    BY <1>2, PcsMove DEF Clients
  <2>2. RestOK'
    BY <1>1, <1>2, <2>1 DEF RestOK
  <2> QED
    BY <1>1, <1>2, <2>1, <2>2, SameWorld, QuietStep DEF Placed, Free
<1>3. ASSUME NEW main \in Mains, box' = [box EXCEPT !.in = {}, !.wake = TRUE],
             pc' = [pc EXCEPT !.client = "idle", !.main = main],
             UNCHANGED <<write, good>>,
             NEW x \in Worlds, Become(x), Calm(x, restores, good), Retires(World, x)
      PROVE  IInv'
  <2>1. box' \in Boxes
    BY <1>3 DEF Boxes
  <2>2. pc' \in Pcs /\ pc'.worker = pc.worker
    BY <1>3 DEF Pcs, Clients
  <2>3. RestOK'
    BY <1>1, <1>3, <2>1, <2>2 DEF RestOK
  <2> QED
    BY <1>1, <1>3, <2>2, <2>3, RetireStep DEF Placed
<1> DEFINE w == Supersede(World)
           main == IF pc.main = "request" THEN "late" ELSE pc.main
<1>4. main \in Mains
  BY DEF Mains, Pcs
<1>5. Calm(w, restores, good) /\ Retires(World, w) /\ w \in Worlds
  <2>1. Calm(World, restores, good)
    BY <1>1, CalmWorld
  <2>2. Calm(w, restores, good) /\ Retires(World, w)
    BY <2>1, SupersedeKeeps
  <2> QED
    BY <2>2 DEF Calm, Sound
<1>6. CASE /\ box' = [box EXCEPT !.in = {}, !.wake = TRUE]
           /\ Become(w)
           /\ pc' = [pc EXCEPT !.client = "idle", !.main = main]
           /\ UNCHANGED <<write, good>>
  <2> HIDE DEF w, main
  <2> QED
    BY <1>3, <1>4, <1>5, <1>6
<1>7. CASE /\ box' = [box EXCEPT !.in = {}, !.wake = TRUE]
           /\ \E x \in Refused(w) : Become(x)
           /\ pc' = [pc EXCEPT !.client = "idle", !.main = main]
           /\ UNCHANGED <<write, good>>
  <2> HIDE DEF w, main
  <2>1. PICK x \in Refused(w) : Become(x)
    BY <1>7
  <2>2. Calm(x, restores, good) /\ Retires(w, x) /\ x \in Worlds
    BY <1>5, RefusedKeeps DEF Calm, Sound
  <2>3. Retires(World, x)
    BY <1>5, <2>2 DEF Retires
  <2> QED
    BY <1>3, <1>4, <1>7, <2>1, <2>2, <2>3
<1>8. ASSUME Begin(w, pc.client, FALSE) PROVE FALSE
  <2>1. write'.by = pc.client
    BY <1>8 DEF Begin
  <2>2. pc.client # "none"
    BY DEF Pcs, Clients
  <2> QED
    BY <2>1, <2>2
<1> QED
  BY <1>2, <1>6, <1>7, <1>8 DEF ClientRun

\* A driver event queues work and uncovers none: a validated recovery is queued already,
\* or the reducer is locked or stopped.
LEMMA DriverEventKeeps ==
    ASSUME NEW made \in Nat, NEW last, NEW w, Calm(w, made, last)
    PROVE  LET x == [w EXCEPT !.life = DriverEvent(@)] IN
           /\ Calm(x, made, last) /\ x \in Worlds
<1> DEFINE x == [w EXCEPT !.life = DriverEvent(@)]
<1>1. /\ Sound(w, made, last) /\ Known(w, last) /\ Owned(w) /\ w \in Worlds
      /\ w.life \in State /\ Queued(w) /\ Budget(w, made) /\ w.disk.ledger \in Nat
  BY Parts, Typed DEF Calm, Sound
<1> DEFINE l == DriverEvent(w.life)
<1>2. /\ l \in State /\ l.stopped = w.life.stopped /\ l.locked = w.life.locked
      /\ w.life.driver => l.driver /\ l.driverIssued = w.life.driverIssued
      /\ ~w.life.stopped /\ ~w.life.locked => l.driver
  BY <1>1, DriverEventIs
<1> HIDE DEF l
<1>3. /\ x \in Worlds /\ x.life = l /\ x.disk = w.disk /\ x.mem = w.mem /\ x.helper = w.helper
  BY <1>1, <1>2 DEF Worlds, l
<1> HIDE DEF x
<1>4. Queued(x)
  BY <1>1, <1>2, <1>3 DEF Queued
<1>5. Pending(x) = 1 => Pending(w) = 1
  BY <1>1, <1>2, <1>3 DEF Queued, Pending
<1>6. Budget(x, made)
  BY <1>1, <1>3, <1>5, BudgetKept DEF Counted
<1>7. Sound(x, made, last) /\ Known(x, last) /\ Owned(x)
  BY <1>1, <1>3, <1>4, <1>6 DEF Sound, Known, Owned
<1> QED
  BY <1>3, <1>7 DEF Calm, x

\* A flag of the process is set or cleared in a world.
LEMMA FlagKeeps ==
    ASSUME NEW made \in Nat, NEW last, NEW w, Calm(w, made, last), NEW x, NEW m \in Mems,
           x = [w EXCEPT !.mem = m],
           m.intent = w.mem.intent, m.validated = w.mem.validated,
           m.reapply = w.mem.reapply, m.restart = w.mem.restart, m.key => w.mem.key
    PROVE  Calm(x, made, last) /\ Retires(w, x) /\ x \in Worlds
<1>1. Sound(w, made, last) /\ Known(w, last) /\ Owned(w) /\ w \in Worlds
  BY DEF Calm, Sound
<1>2. x \in Worlds /\ x.mem = m /\ x.disk = w.disk /\ x.life = w.life /\ x.helper = w.helper
  BY <1>1 DEF Worlds
<1>3. Alike(w, x)
  BY <1>1, <1>2, Parts DEF Alike, SameWork
<1> QED
  BY <1>1, <1>2, <1>3, AlikeKeeps DEF Calm

\* The worker hears of a removed GPU.
LEMMA Removals ==
    ASSUME IInv, WorkerRemoval
    PROVE  IInv'
<1> USE StateParts
<1> DEFINE a == IF mem.intent # 0 THEN [World EXCEPT !.life = DriverEvent(@)] ELSE World
           x == IF mem.gone THEN a ELSE [Record(a) EXCEPT !.mem.gone = TRUE]
<1>1. /\ Free /\ pc.worker = "cues" /\ box' = [box EXCEPT !.cur = @ \ {"removal"}] /\ Become(x)
      /\ UNCHANGED <<pc, write, proc, present, good, restores, asked, spent>>
  BY DEF WorkerRemoval
<1>2. Calm(World, restores, good) /\ write.by = "none" /\ proc = "running"
  BY <1>1, CalmWorld
<1>3. Calm(a, restores, good) /\ a \in Worlds
  BY <1>2, DriverEventKeeps
<1> HIDE DEF a
<1>4. Calm(x, restores, good) /\ x \in Worlds
  <2>1. CASE mem.gone
    BY <1>3, <2>1
  <2>2. CASE ~mem.gone
    <3> DEFINE r == Record(a)
    <3>1. /\ Sound(r, restores, good) /\ r \in Worlds
          /\ r.disk.auth = a.disk.auth /\ r.disk.proof = a.disk.proof
          /\ r.mem.intent = a.mem.intent /\ r.mem.reapply = a.mem.reapply
          /\ r.mem.restart = a.mem.restart
      BY <1>3, RecordKeeps, RecordIs DEF Calm
    <3> HIDE DEF r
    <3>2. Calm(r, restores, good)
      BY <1>3, <3>1 DEF Calm, Known, Owned
    <3> DEFINE m == [r.mem EXCEPT !.gone = TRUE]
    <3>3. /\ m \in Mems /\ m.intent = r.mem.intent /\ m.validated = r.mem.validated
          /\ m.reapply = r.mem.reapply /\ m.restart = r.mem.restart /\ m.key = r.mem.key
      BY <3>1, Parts DEF Mems
    <3>4. x = [r EXCEPT !.mem = m]
      BY <2>2, <3>1 DEF r, Worlds
    <3> HIDE DEF m, x
    <3> QED
      BY <3>2, <3>3, <3>4, FlagKeeps
  <2> QED
    BY <2>1, <2>2
<1> HIDE DEF x
<1>5. World' = x
  BY <1>1, <1>4, Becomes
<1>6. box' \in Boxes
  BY <1>1 DEF Boxes
<1>7. RestOK'
  BY <1>1, <1>6 DEF RestOK
<1>8. WorldOK'
  BY <1>1, <1>4, <1>5 DEF WorldOK, Calm
<1>9. DownOK' /\ WriteOK' /\ PlaceOK'
  BY <1>1, <1>2 DEF DownOK, WriteOK, PlaceOK, Automatic, Held
<1> QED
  BY <1>7, <1>8, <1>9 DEF IInv

\* The worker hears of an arrival; the main thread of a fault, or of the worker's death.
LEMMA Restarts ==
    ASSUME IInv, WorkerArrival \/ MainRequest \/ MainWorkerDead
    PROVE  IInv'
<1> USE StateParts
<1>1. Free /\ UNCHANGED <<write, proc, present, good, restores, asked, spent>>
  BY DEF WorkerArrival, MainRequest, MainWorkerDead
<1>2. /\ Calm(World, restores, good) /\ write.by = "none" /\ proc = "running"
      /\ World.mem \in Mems /\ World.mem = mem
  BY <1>1, CalmWorld, WorldIs
<1>3. CASE WorkerArrival
  <2> DEFINE m == [World.mem EXCEPT !.gone = FALSE]
             a == [World EXCEPT !.mem.gone = FALSE]
  <2>1. a = [World EXCEPT !.mem = m]
    BY DEF Worlds
  <2>2. /\ m \in Mems /\ m.intent = World.mem.intent /\ m.validated = World.mem.validated
        /\ m.reapply = World.mem.reapply /\ m.restart = World.mem.restart
        /\ m.key = World.mem.key
    BY <1>2 DEF Mems
  <2> HIDE DEF m
  <2>3. Calm(a, restores, good) /\ Retires(World, a) /\ a \in Worlds
    BY <1>2, <2>1, <2>2, FlagKeeps
  <2>4. /\ box' = [box EXCEPT !.cur = {}] /\ pc' = pc
        /\ \/ \E ok \in BOOLEAN : Become(RequestRestart(a, FALSE, ok))
           \/ Become([a EXCEPT !.mem.key = FALSE])
           \/ Become(a)
    BY <1>3 DEF WorkerArrival
  <2> HIDE DEF a
  <2>5. PICK x \in Worlds : Become(x) /\ Calm(x, restores, good) /\ Retires(World, x)
    <3>1. ASSUME NEW ok \in BOOLEAN, Become(RequestRestart(a, FALSE, ok))
          PROVE  \E x \in Worlds : Become(x) /\ Calm(x, restores, good) /\ Retires(World, x)
      <4> DEFINE x == RequestRestart(a, FALSE, ok)
      <4>1. FALSE \in BOOLEAN /\ restores \in Nat
        OBVIOUS
      <4>2. Calm(x, restores, good) /\ Retires(a, x)
        BY <2>3, <4>1, RequestRestartKeeps
      <4> HIDE DEF x
      <4>3. x \in Worlds
        BY <4>2 DEF Calm, Sound
      <4>4. Retires(World, x)
        BY <2>3, <4>2 DEF Retires
      <4> QED
        BY <3>1, <4>2, <4>3, <4>4 DEF x
    <3>2. CASE Become([a EXCEPT !.mem.key = FALSE])
      <4> DEFINE k == [a.mem EXCEPT !.key = FALSE]
                 x == [a EXCEPT !.mem.key = FALSE]
      <4>1. /\ k \in Mems /\ k.intent = a.mem.intent /\ k.validated = a.mem.validated
            /\ k.reapply = a.mem.reapply /\ k.restart = a.mem.restart /\ ~k.key
        BY <2>3, Parts DEF Mems
      <4>2. x = [a EXCEPT !.mem = k]
        BY <2>3 DEF Worlds
      <4> HIDE DEF k, x
      <4>3. Calm(x, restores, good) /\ Retires(a, x) /\ x \in Worlds
        BY <2>3, <4>1, <4>2, FlagKeeps
      <4>4. Retires(World, x)
        BY <2>3, <4>3 DEF Retires
      <4> QED
        BY <3>2, <4>3, <4>4 DEF x
    <3>3. CASE Become(a)
      BY <2>3, <3>3
    <3> QED
      BY <2>4, <3>1, <3>2, <3>3
  <2>6. box' \in Boxes
    BY <2>4 DEF Boxes
  <2>7. RestOK'
    BY <1>1, <2>4, <2>6 DEF RestOK
  <2> QED
    BY <1>1, <2>4, <2>5, <2>7, RetireStep DEF Placed
<1>4. CASE MainRequest
  <2>1. PICK ok \in BOOLEAN : Become(RequestRestart(World, pc.main = "late", ok))
    BY <1>4 DEF MainRequest
  <2> DEFINE late == pc.main = "late"
             x == RequestRestart(World, late, ok)
  <2>2. late \in BOOLEAN
    OBVIOUS
  <2> HIDE DEF late
  <2>3. Calm(x, restores, good) /\ Retires(World, x) /\ x \in Worlds
    BY <1>2, <2>2, RequestRestartKeeps DEF Calm, Sound
  <2>4. Become(x)
    BY <2>1 DEF late
  <2>5. pc' \in Pcs /\ pc'.worker = pc.worker /\ box' = box
    BY <1>4, PcsMove DEF MainRequest, Main, Mains
  <2>6. RestOK'
    BY <1>1, <2>5 DEF RestOK
  <2> HIDE DEF x
  <2> QED
    BY <1>1, <2>3, <2>4, <2>5, <2>6, RetireStep DEF Placed
<1>5. CASE MainWorkerDead
  <2> DEFINE d == Disable(World)
             m == [d.mem EXCEPT !.failed = TRUE, !.stop = TRUE]
             x == [d EXCEPT !.mem.failed = TRUE, !.mem.stop = TRUE]
  <2>1. /\ Calm(d, restores, good) /\ Retires(World, d) /\ d \in Worlds
    <3>1. Sound(d, restores, good) /\ Known(d, good)
      BY <1>2, DisableKeeps DEF Calm
    <3>2. /\ d \in Worlds /\ d.life = World.life /\ d.disk.auth = World.disk.auth
          /\ d.mem.validated = World.mem.validated /\ ~d.mem.reapply
          /\ d.mem.restart = World.mem.restart
      BY DisableIs
    <3> HIDE DEF d
    <3> QED
      BY <1>2, <3>1, <3>2 DEF Calm, Owned, Retires
  <2> HIDE DEF d
  <2>2. /\ m \in Mems /\ m.intent = d.mem.intent /\ m.validated = d.mem.validated
        /\ m.reapply = d.mem.reapply /\ m.restart = d.mem.restart /\ m.key = d.mem.key
    BY <2>1, Parts DEF Mems
  <2>3. x = [d EXCEPT !.mem = m]
    BY <2>1 DEF Worlds
  <2>4. Become(x) /\ UNCHANGED <<box, pc>>
    BY <1>5 DEF MainWorkerDead, d
  <2> HIDE DEF m, x
  <2>5. Calm(x, restores, good) /\ Retires(d, x) /\ x \in Worlds
    BY <2>1, <2>2, <2>3, FlagKeeps
  <2>6. Retires(World, x)
    BY <2>1, <2>5 DEF Retires
  <2>7. RestOK'
    BY <1>1, <2>4 DEF RestOK
  <2> QED
    BY <1>1, <2>4, <2>5, <2>6, <2>7, RetireStep DEF Placed
<1> QED
  BY <1>3, <1>4, <1>5

-----------------------------------------------------------------------------
(* The worker's attempts.                                                  *)

\* Other work of the reducer changes under the lock.
LEMMA WorkKeeps ==
    ASSUME NEW made \in Nat, NEW last, NEW w, Calm(w, made, last), NEW s, SameWork(w.life, s)
    PROVE  LET x == [w EXCEPT !.life = s] IN
           /\ Calm(x, made, last) /\ Retires(w, x) /\ x \in Worlds
           /\ x.disk = w.disk /\ x.mem = w.mem /\ x.life = s /\ x.helper = w.helper
<1> DEFINE x == [w EXCEPT !.life = s]
<1>1. Sound(w, made, last) /\ Known(w, last) /\ Owned(w) /\ w \in Worlds
  BY DEF Calm, Sound
<1>2. /\ x \in Worlds /\ x.disk = w.disk /\ x.mem = w.mem /\ x.life = s
      /\ x.helper = w.helper
  BY <1>1 DEF Worlds, SameWork
<1> HIDE DEF x
<1>3. Alike(w, x)
  BY <1>2 DEF Alike
<1>4. Sound(x, made, last) /\ Retires(w, x) /\ Known(x, last) /\ Owned(x)
  BY <1>1, <1>3, AlikeKeeps
<1> QED
  BY <1>2, <1>4 DEF Calm, x

\* An attempt that gives up: the lockout is latched, nothing is left to do, or a check
\* before the write fails.
LEMMA AttemptRefused ==
    ASSUME IInv, LogonAttempt \/ StandbyAttempt \/ DriverAttempt, write'.by = "none"
    PROVE  IInv'
<1> USE StateParts
<1>1. Free /\ UNCHANGED <<box, proc, present, asked, spent>>
  BY DEF LogonAttempt, StandbyAttempt, DriverAttempt
<1>2. /\ Calm(World, restores, good) /\ write.by = "none" /\ proc = "running" /\ PlaceOK
      /\ World.life = life /\ World.mem = mem /\ World.disk = disk
  BY <1>1, CalmWorld, WorldIs
<1>3. ASSUME UNCHANGED <<write, good, restores>>,
             NEW v \in Workers \ {"finishDriver"}, pc' = [pc EXCEPT !.worker = v],
             v \in Held => ~life.driver,
             NEW x, Become(x), Calm(x, restores, good), Retires(World, x)
      PROVE  IInv'
  <2>1. pc' \in Pcs /\ pc'.worker = v
    BY <1>3, PcsMove
  <2>2. RestOK'
    BY <1>1, <1>3, <2>1 DEF RestOK
  <2>3. x \in Worlds
    BY <1>3 DEF Calm, Sound
  <2>4. Placed
    BY <1>3, <2>1 DEF Placed
  <2> QED
    BY <1>1, <1>3, <2>2, <2>3, <2>4, RetireStep
<1>4. ASSUME UNCHANGED <<write, good, restores>>,
             NEW v \in Workers \ {"finishDriver"}, pc' = [pc EXCEPT !.worker = v],
             v \in Held => ~life.driver,
             \/ UNCHANGED <<disk, mem, life, helper>>
             \/ \E x \in Refused(World) : Become(x)
             \/ \E s : SameWork(life, s) /\ Become([World EXCEPT !.life = s])
      PROVE  IInv'
  <2>1. CASE UNCHANGED <<disk, mem, life, helper>>
    <3>1. Become(World) /\ Retires(World, World)
      BY <2>1, WorldIs DEF Become, Retires
    <3> QED
      BY <1>2, <1>3, <1>4, <3>1
  <2>2. CASE \E x \in Refused(World) : Become(x)
    <3>1. PICK x \in Refused(World) : Become(x)
      BY <2>2
    <3>2. Calm(x, restores, good) /\ Retires(World, x)
      BY <1>2, RefusedKeeps
    <3> QED
      BY <1>3, <1>4, <3>1, <3>2
  <2>3. CASE \E s : SameWork(life, s) /\ Become([World EXCEPT !.life = s])
    <3>1. PICK s : SameWork(life, s) /\ Become([World EXCEPT !.life = s])
      BY <2>3
    <3> DEFINE x == [World EXCEPT !.life = s]
    <3>2. Calm(x, restores, good) /\ Retires(World, x)
      BY <1>2, <3>1, WorkKeeps
    <3> HIDE DEF x
    <3>3. Become(x)
      BY <3>1 DEF x
    <3> QED
      BY <1>3, <1>4, <3>2, <3>3
  <2> QED
    BY <1>4, <2>1, <2>2, <2>3
<1>5. CASE LogonAttempt
  <2>1. ~life.driver
    BY <1>2, <1>5 DEF LogonAttempt, PlaceOK, Held
  <2> DEFINE s == [life EXCEPT !.logon = life.logon /\ life.logonIssued]
  <2>2. SameWork(life, s)
    BY OtherEvents
  <2>3. [World EXCEPT !.life.logon = @ /\ life.logonIssued] = [World EXCEPT !.life = s]
    BY <1>2 DEF Worlds
  <2> HIDE DEF s
  <2>4. \A w : ~Begin(w, "logon", FALSE)
    BY DEF Begin
  <2>5. /\ restores' = restores
        /\ \/ Worker("lateLogon") /\ UNCHANGED <<disk, mem, life, helper, write, good>>
           \/ /\ UNCHANGED <<write, good>> /\ Worker("standby")
              /\ \/ Become([World EXCEPT !.life = s])
                 \/ \E x \in Refused(World) : Become(x)
                 \/ UNCHANGED <<disk, mem, life, helper>>
    BY <1>5, <2>3, <2>4 DEF LogonAttempt
  <2>6. "lateLogon" \in Workers \ {"finishDriver"} /\ "standby" \in Workers \ {"finishDriver"}
    BY DEF Workers, Held
  <2> QED
    BY <1>4, <2>1, <2>2, <2>5, <2>6 DEF Worker
<1>6. CASE StandbyAttempt
  <2>1. ~life.driver
    BY <1>2, <1>6 DEF StandbyAttempt, PlaceOK, Held
  <2> DEFINE s == [life EXCEPT !.standby = FALSE]
  <2>2. SameWork(life, s)
    BY OtherEvents
  <2>3. [World EXCEPT !.life.standby = FALSE] = [World EXCEPT !.life = s]
    BY <1>2 DEF Worlds
  <2> HIDE DEF s
  <2>4. \A w, k : ~Begin(w, "standby", k)
    BY DEF Begin
  <2>5. /\ restores' = restores
        /\ \/ Worker("lateStandby") /\ UNCHANGED <<disk, mem, life, helper, write, good>>
           \/ /\ UNCHANGED <<write, good>> /\ Worker("driver")
              /\ \/ Become([World EXCEPT !.life = s])
                 \/ \E x \in Refused(World) : Become(x)
                 \/ UNCHANGED <<disk, mem, life, helper>>
    BY <1>6, <2>3, <2>4 DEF StandbyAttempt
  <2>6. "lateStandby" \in Workers \ {"finishDriver"} /\ "driver" \in Workers \ {"finishDriver"}
    BY DEF Workers, Held
  <2> QED
    BY <1>4, <2>1, <2>2, <2>5, <2>6 DEF Worker
<1>7. CASE DriverAttempt
  <2>1. \A w, k : ~Begin(w, "driver", k)
    BY DEF Begin
  <2>2. /\ Worker("wait") /\ UNCHANGED <<write, good, restores>>
        /\ \/ Become(World) \/ Become(Locked(Disable(World))) \/ Become(Disable(World))
           \/ \E x \in Refused(World) : Become(x)
    BY <1>7, <2>1 DEF DriverAttempt
  <2> DEFINE d == Disable(World)
             l == Locked(d)
  <2>3. /\ d \in Worlds /\ d.life = life /\ d.disk.auth = disk.auth /\ ~d.mem.reapply
        /\ d.mem.restart = mem.restart /\ d.mem.validated = mem.validated
        /\ d.mem.intent = 0
    BY <1>2, DisableIs
  <2>4. Sound(d, restores, good) /\ Known(d, good)
    BY <1>2, DisableKeeps DEF Calm
  <2> HIDE DEF d
  <2>5. Calm(d, restores, good) /\ Retires(World, d)
    BY <1>2, <2>3, <2>4 DEF Calm, Owned, Retires
  <2>6. /\ l \in Worlds /\ l.disk = d.disk /\ l.mem = d.mem /\ l.life = LockoutEvent(life)
    BY <2>3, LockedIs
  <2>7. Sound(l, restores, good)
    BY <2>3, <2>4, LockedKeeps
  <2> HIDE DEF l
  <2>8. /\ LockoutEvent(life).stopped = life.stopped
        /\ LockoutEvent(life).driver => life.driver
        /\ life.locked => LockoutEvent(life).locked
    BY LifeEvents
  <2>9. Calm(l, restores, good) /\ Retires(World, l)
    BY <1>2, <2>3, <2>5, <2>6, <2>7, <2>8 DEF Calm, Known, Owned, Retires
  <2>10. "wait" \in Workers \ {"finishDriver"} /\ "wait" \notin Held
    BY DEF Workers, Held
  <2>11. CASE Become(World)
    <3>1. UNCHANGED <<disk, mem, life, helper>>
      BY <2>11, WorldIs DEF Become
    <3> QED
      BY <1>4, <2>2, <2>10, <3>1 DEF Worker
  <2>12. CASE \E x \in Refused(World) : Become(x)
    BY <1>4, <2>2, <2>10, <2>12 DEF Worker
  <2>13. CASE Become(d)
    BY <1>3, <2>2, <2>5, <2>10, <2>13 DEF Worker
  <2>14. CASE Become(l)
    BY <1>3, <2>2, <2>9, <2>10, <2>14 DEF Worker
  <2> QED
    BY <2>2, <2>11, <2>12, <2>13, <2>14 DEF d, l
<1> QED
  BY <1>5, <1>6, <1>7

-----------------------------------------------------------------------------
(* The hardware writes.                                                    *)

\* A write begins: whatever stood is uncertain, and its proof is gone.
LEMMA BeginKeeps ==
    ASSUME IInv, Free, UNCHANGED <<proc, present, asked, spent>>,
           box' \in Boxes, pc' \in Pcs, pc'.worker = pc.worker, restores' \in Nat,
           NEW w, Sound(w, restores', good), Owned(w), Retires(World, w),
           NEW by \in {"apply", "reset"} \cup Automatic, NEW kept \in BOOLEAN,
           by \in {"apply", "reset"} => ~w.mem.validated /\ ~w.mem.restart,
           by \in Automatic => ~w.disk.lockout,
           Begin(w, by, kept)
    PROVE  IInv'
<1> USE StateParts
<1> DEFINE x == [w EXCEPT !.disk.proof = "none"]
           d == [w.disk EXCEPT !.proof = "none"]
<1>1. /\ w \in Worlds /\ w.disk \in Disks /\ Budget(w, restores') /\ Queued(w)
      /\ w.disk.ledger \in Nat /\ w.disk.auth \in 0..Len(w.helper)
      /\ proc = "running" /\ PlaceOK
  BY Parts, Typed, CalmWorld DEF Sound
<1>2. /\ d \in Disks /\ d.proof = "none" /\ d.auth = w.disk.auth /\ d.ledger = w.disk.ledger
      /\ d.lockout = w.disk.lockout
  BY <1>1 DEF Disks
<1>3. x = [w EXCEPT !.disk = d]
  BY <1>1 DEF Worlds
<1>4. Become(x) /\ write' = [by |-> by, kept |-> kept] /\ good' = 0
  BY DEF Begin
<1> HIDE DEF d, x
<1>5. x \in Worlds /\ x.disk = d /\ x.mem = w.mem /\ x.life = w.life /\ x.helper = w.helper
  BY <1>1, <1>2, <1>3 DEF Worlds
<1>6. World' = x
  BY <1>4, <1>5, Becomes
<1>7. Sound(x, restores', 0)
  <2>1. Pending(x) = Pending(w) /\ Counted(x) = Counted(w)
    BY <1>2, <1>5 DEF Pending, Counted
  <2>2. Budget(x, restores')
    BY <1>1, <1>2, <1>5, <2>1, BudgetKept
  <2>3. Queued(x)
    BY <1>1, <1>5 DEF Queued
  <2> QED
    BY <1>1, <1>2, <1>5, <2>2, <2>3 DEF Sound
<1>8. write'.by = by /\ write'.by # "none" /\ write' \in Writes
  BY <1>4 DEF Writes, Automatic
<1>9. WorldOK'
  BY <1>2, <1>4, <1>5, <1>6, <1>7, <1>8 DEF WorldOK, Owned
<1>10. DownOK'
  BY <1>1 DEF DownOK
<1>11. /\ disk' = d /\ mem' = w.mem /\ life' = w.life
  BY <1>4, <1>5 DEF Become
<1>12. WriteOK'
  BY <1>2, <1>8, <1>11 DEF WriteOK
<1>13. PlaceOK'
  <2>1. /\ life'.driver => life.driver
        /\ mem'.reapply => mem.reapply
        /\ mem'.validated => mem.validated
        /\ life.locked => life'.locked
        /\ life.stopped => life'.stopped
    BY <1>11, WorldIs DEF Retires
  <2> QED
    BY <1>1, <2>1 DEF PlaceOK
<1>14. RestOK'
  BY <1>4, <1>8, Parameters DEF RestOK
<1> QED
  BY <1>9, <1>10, <1>12, <1>13, <1>14 DEF IInv

\* An explicit write supersedes, an automatic one marks its work as issued; the driver's
\* restore is the one that was pending.
LEMMA WriteBegins ==
    ASSUME IInv, ClientRun \/ LogonAttempt \/ StandbyAttempt \/ DriverAttempt,
           write'.by # "none"
    PROVE  IInv'
<1> USE StateParts
<1>1. Free /\ UNCHANGED <<proc, present, asked, spent>>
  BY DEF ClientRun, LogonAttempt, StandbyAttempt, DriverAttempt
<1>2. /\ Calm(World, restores, good) /\ write.by = "none" /\ proc = "running"
      /\ World.life = life /\ World.mem = mem /\ World.disk = disk
  BY <1>1, CalmWorld, WorldIs
<1>3. CASE ClientRun
  <2> DEFINE w == Supersede(World)
             main == IF pc.main = "request" THEN "late" ELSE pc.main
  <2>1. /\ Calm(w, restores, good) /\ Retires(World, w)
        /\ ~w.mem.validated /\ ~w.mem.restart /\ ~w.mem.reapply
    BY <1>2, SupersedeKeeps
  <2>2. /\ pc.client # "idle" /\ restores' = restores
        /\ box' = [box EXCEPT !.in = {}, !.wake = TRUE]
        /\ Begin(w, pc.client, FALSE)
        /\ pc' = [pc EXCEPT !.main = main]
    BY <1>2, <1>3 DEF ClientRun
  <2>3. main \in Mains
    BY DEF Mains, Pcs
  <2> HIDE DEF main, w
  <2>4. pc' \in Pcs /\ pc'.worker = pc.worker
    BY <2>2, <2>3, PcsMove
  <2>5. box' \in Boxes
    BY <2>2 DEF Boxes
  <2>6. pc.client \in {"apply", "reset"}
    BY <2>2 DEF Pcs, Clients
  <2>7. restores' \in Nat /\ Sound(w, restores', good) /\ Owned(w)
    BY <2>1, <2>2 DEF Calm
  <2>8. FALSE \in BOOLEAN /\ pc.client \in {"apply", "reset"} \cup Automatic
        /\ pc.client \notin Automatic
    BY <2>6 DEF Automatic
  <2> QED
    BY <1>1, <2>1, <2>2, <2>4, <2>5, <2>7, <2>8, BeginKeeps
<1>4. CASE LogonAttempt
  <2> DEFINE s == [life EXCEPT !.logonIssued = TRUE]
             w == [World EXCEPT !.life = s]
  <2>1. SameWork(life, s)
    BY OtherEvents
  <2>2. [World EXCEPT !.life.logonIssued = TRUE] = w
    BY <1>2 DEF Worlds
  <2>3. Begin(w, "logon", FALSE) /\ pc' = pc /\ ~disk.lockout /\ UNCHANGED <<box, restores>>
    BY <1>2, <1>4, <2>2 DEF LogonAttempt
  <2> HIDE DEF s
  <2>4. Calm(w, restores, good) /\ Retires(World, w) /\ w.disk = disk
    BY <1>2, <2>1, WorkKeeps
  <2> HIDE DEF w
  <2>5. "logon" \in Automatic /\ "logon" \notin {"apply", "reset"} /\ FALSE \in BOOLEAN
    BY DEF Automatic
  <2>6. Sound(w, restores', good) /\ Owned(w) /\ restores' \in Nat
    BY <2>3, <2>4 DEF Calm
  <2> QED
    BY <1>1, <2>3, <2>4, <2>5, <2>6, BeginKeeps
<1>5. CASE StandbyAttempt
  <2> DEFINE s == [life EXCEPT !.standbyIssued = TRUE]
             w == [World EXCEPT !.life = s]
             kept == disk.proof = "mature"
  <2>1. SameWork(life, s)
    BY OtherEvents
  <2>2. [World EXCEPT !.life.standbyIssued = TRUE] = w
    BY <1>2 DEF Worlds
  <2>3. Begin(w, "standby", kept) /\ pc' = pc /\ ~disk.lockout /\ UNCHANGED <<box, restores>>
    BY <1>2, <1>5, <2>2 DEF StandbyAttempt
  <2> HIDE DEF s
  <2>4. Calm(w, restores, good) /\ Retires(World, w) /\ w.disk = disk
    BY <1>2, <2>1, WorkKeeps
  <2>5. "standby" \in Automatic /\ "standby" \notin {"apply", "reset"} /\ kept \in BOOLEAN
    BY DEF Automatic
  <2> HIDE DEF w, kept
  <2>6. Sound(w, restores', good) /\ Owned(w) /\ restores' \in Nat
    BY <2>3, <2>4 DEF Calm
  <2> QED
    BY <1>1, <2>3, <2>4, <2>5, <2>6, BeginKeeps
<1>6. CASE DriverAttempt
  <2> DEFINE s == [life EXCEPT !.driverIssued = TRUE]
             w == [World EXCEPT !.life = s]
             kept == disk.proof = "mature"
  <2>1. /\ s \in State /\ s.stopped = life.stopped /\ s.locked = life.locked
        /\ s.driver = life.driver /\ s.driverIssued
    BY DEF State
  <2>2. [World EXCEPT !.life.driverIssued = TRUE] = w
    BY <1>2 DEF Worlds
  <2>3. PICK updated \in BOOLEAN :
          /\ mem.validated /\ ProofAllows(disk, updated) /\ mem.intent # 0
          /\ DriverMayWrite(life)
          /\ Begin(w, "driver", kept)
          /\ restores' = restores + 1 /\ pc' = pc /\ box' = box
    BY <1>2, <1>6, <2>2 DEF DriverAttempt
  <2>4. ~disk.lockout /\ ~life.driverIssued /\ ~life.locked /\ ~life.stopped
    BY <2>3 DEF ProofAllows, DriverMayWrite
  <2> HIDE DEF s
  <2>5. /\ w \in Worlds /\ w.disk = disk /\ w.mem = mem /\ w.life = s /\ w.helper = helper
    BY <1>2, <2>1, WorldIs DEF Worlds
  <2>6. "driver" \in Automatic /\ "driver" \notin {"apply", "reset"} /\ kept \in BOOLEAN
    BY DEF Automatic
  <2> HIDE DEF w, kept
  <2>7. Budget(w, restores')
    <3>1. Budget(World, restores) /\ Pending(World) = 1 /\ Pending(w) = 0
          /\ Counted(World) \in {0, 1} /\ Counted(w) = Counted(World)
      BY <1>2, <2>1, <2>3, <2>4, <2>5 DEF Calm, Sound, Pending, Counted
    <3>2. /\ restores + 1 < Threshold
          /\ disk.ledger = Threshold \/ restores + 1 + Counted(World) <= disk.ledger
      BY <1>2, <3>1 DEF Budget
    <3>3. PICK c \in {0, 1} : c = Counted(World)
      BY <3>1
    <3>4. disk.ledger \in Nat /\ Threshold \in Nat
      BY <1>2, Typed, Parameters
    <3>5. /\ restores' + 0 < Threshold
          /\ disk.ledger = Threshold \/ restores' + 0 + c <= disk.ledger
      BY <2>3, <3>2, <3>3, <3>4
    <3> QED
      BY <2>5, <3>1, <3>3, <3>5 DEF Budget
  <2>8. Queued(w) /\ Retires(World, w) /\ Owned(w)
    BY <1>2, <2>1, <2>5 DEF Calm, Sound, Queued, Retires, Owned
  <2>9. Sound(w, restores', good)
    BY <1>2, <2>5, <2>7, <2>8, WorldIs DEF Calm, Sound
  <2>10. restores' \in Nat
    BY <2>3
  <2> QED
    BY <1>1, <2>3, <2>4, <2>5, <2>6, <2>8, <2>9, <2>10, BeginKeeps
<1> QED
  BY <1>3, <1>4, <1>5, <1>6

\* The new intent, its snapshot and the stamp.
LEMMA StampedIs ==
    ASSUME NEW w \in Worlds, NEW v \in Values, NEW saved \in BOOLEAN, NEW kept \in BOOLEAN,
           NEW ok \in BOOLEAN
    PROVE  LET x == Stamp(Adopt(w, v, saved), kept, ok) IN
           /\ x \in Worlds /\ x.life = w.life /\ x.helper = w.helper
           /\ x.disk.snap \in {v, 0} /\ x.disk.auth = w.disk.auth
           /\ x.disk.ledger = w.disk.ledger
           /\ x.mem.intent = v /\ ~x.mem.reapply /\ x.mem.validated = w.mem.validated
           /\ x.mem.key = w.mem.key /\ x.mem.restart = w.mem.restart
<1> DEFINE a == Adopt(w, v, saved)
           x == Stamp(a, kept, ok)
           m == [w.mem EXCEPT !.intent = v, !.reapply = FALSE]
           n == IF saved THEN v ELSE 0
           d == Snapshot(w.disk, n)
           p == IF ~ok THEN "none" ELSE IF kept THEN "mature" ELSE "young"
           l == a.disk.lockout \/ ~ok
           e == [a.disk EXCEPT !.proof = p, !.lockout = l]
<1>1. w.disk \in Disks /\ w.mem \in Mems /\ n \in {v, 0} /\ n \in Values
  BY Parts, Parameters
<1>2. m \in Mems /\ m.intent = v /\ ~m.reapply /\ m.validated = w.mem.validated
      /\ m.key = w.mem.key /\ m.restart = w.mem.restart
  BY <1>1 DEF Mems
<1>3. a = [w EXCEPT !.mem = m, !.disk = d]
  BY <1>1 DEF Adopt, Worlds
<1> HIDE DEF n
<1>4. d \in Disks /\ d.snap = n /\ d.auth = w.disk.auth /\ d.ledger = w.disk.ledger
  BY <1>1 DEF Snapshot, Disks
<1> HIDE DEF a, d, m
<1>5. a \in Worlds /\ a.disk = d /\ a.mem = m /\ a.life = w.life /\ a.helper = w.helper
  BY <1>2, <1>3, <1>4 DEF Worlds
<1>6. x = [a EXCEPT !.disk = e]
  BY <1>5 DEF Stamp, Worlds
<1>7. p \in {"none", "young", "mature"} /\ l \in BOOLEAN
  BY <1>5, Typed
<1> HIDE DEF p, l, x
<1>8. e \in Disks /\ e.snap = d.snap /\ e.auth = d.auth /\ e.ledger = d.ledger
  BY <1>4, <1>5, <1>7 DEF Disks
<1> HIDE DEF e
<1>9. x \in Worlds /\ x.disk = e /\ x.mem = m /\ x.life = w.life /\ x.helper = w.helper
  BY <1>5, <1>6, <1>8 DEF Worlds
<1> QED
  BY <1>1, <1>2, <1>4, <1>8, <1>9 DEF x, a

\* A write ends: what is known again is known of what stands now.
LEMMA EndKeeps ==
    ASSUME IInv, proc = "running", write' = NoWrite, UNCHANGED <<proc, present, asked, spent>>,
           box' \in Boxes, pc' \in Pcs, restores' \in Nat, good' \in Values, PlaceOK',
           NEW x, Become(x), Sound(x, restores', good'), Known(x, good'), Owned(x)
    PROVE  IInv'
<1>1. x \in Worlds
  BY DEF Sound
<1>2. World' = x
  BY <1>1, Becomes
<1>3. write' \in Writes /\ write'.by = "none"
  BY DEF NoWrite, Writes, Automatic
<1>4. RestOK'
  BY <1>3, StateParts DEF RestOK
<1>5. WorldOK'
  BY <1>2 DEF WorldOK
<1>6. DownOK' /\ WriteOK'
  BY <1>3 DEF DownOK, WriteOK, Automatic
<1> QED
  BY <1>4, <1>5, <1>6 DEF IInv

\* What holds while a write is in flight.
LEMMA WriteWorld ==
    ASSUME IInv, proc = "running", write.by # "none"
    PROVE  /\ Sound(World, restores, good) /\ Owned(World) /\ Queued(World)
           /\ Budget(World, restores) /\ disk.proof = "none" /\ PlaceOK
           /\ World.life = life /\ World.mem = mem /\ World.disk = disk
           /\ write.by \in {"apply", "reset"} => /\ ~mem.validated /\ ~mem.restart /\ ~mem.reapply
                                                 /\ disk.auth = 0
           /\ disk.ledger \in Nat
BY StateParts, WorldIs, Typed DEF IInv, WorldOK, WriteOK, Sound, Queued, Owned

\* A write that fails latches the lockout.
LEMMA LatchedEnd ==
    ASSUME IInv, proc = "running", write.by # "none", write' = NoWrite,
           UNCHANGED <<proc, present, asked, spent, good, restores, box>>,
           pc' \in Pcs, pc'.worker \in Held => pc.worker \in Held, Become(Latched(World))
    PROVE  IInv'
<1> USE StateParts
<1> DEFINE x == Latched(World)
<1>1. /\ Sound(World, restores, good) /\ Owned(World) /\ PlaceOK
      /\ World.life = life /\ World.mem = mem /\ World.disk = disk
  BY WriteWorld
<1>2. /\ Sound(x, restores, good) /\ Known(x, good) /\ Retires(World, x)
      /\ x.disk.auth = World.disk.auth /\ x.mem.restart = World.mem.restart
      /\ ~x.mem.reapply /\ (x.life.locked \/ x.life.stopped)
  <2>1. restores \in Nat /\ Sound(World, restores, good)
    BY <1>1
  <2> QED
    BY <2>1, LatchedKeeps
<1> HIDE DEF x
<1>3. Become(x)
  BY DEF x
<1>4. Owned(x)
  BY <1>1, <1>2 DEF Owned
<1>5. PlaceOK'
  BY <1>1, <1>2, <1>3 DEF PlaceOK, Become, Retires
<1> QED
  BY <1>2, <1>3, <1>4, <1>5, EndKeeps

\* An acknowledged Apply starts the count of the recoveries anew.
LEMMA ApplyEnds ==
    ASSUME IInv, ApplyEnd
    PROVE  IInv'
<1>0. \/ \E saved, stamped, cleared \in BOOLEAN :
           /\ good' = asked /\ restores' = IF stamped /\ cleared THEN 0 ELSE restores
           /\ Become(Acknowledge(Stamp(Adopt(World, asked, saved), FALSE, stamped),
                                 stamped, stamped /\ cleared))
      \/ Become(Latched(World)) /\ UNCHANGED <<good, restores>>
  BY DEF ApplyEnd
<1> USE StateParts
<1>1. /\ proc = "running" /\ write.by = "apply" /\ write' = NoWrite
      /\ pc' = [pc EXCEPT !.client = "idle"]
      /\ UNCHANGED <<box, proc, present, asked, spent>>
  BY DEF ApplyEnd
<1>2. pc' \in Pcs /\ pc'.worker = pc.worker
  BY <1>1, PcsMove DEF Clients
<1>3. /\ Sound(World, restores, good) /\ Owned(World) /\ Budget(World, restores)
      /\ disk.proof = "none" /\ PlaceOK
      /\ World.life = life /\ World.mem = mem /\ World.disk = disk
      /\ ~mem.validated /\ ~mem.restart /\ ~mem.reapply /\ disk.auth = 0 /\ disk.ledger \in Nat
  BY <1>1, WriteWorld
<1>4. ASSUME NEW saved \in BOOLEAN, NEW stamped \in BOOLEAN, NEW armed \in BOOLEAN,
             armed => stamped,
             good' = asked, restores' = IF armed THEN 0 ELSE restores,
             Become(Acknowledge(Stamp(Adopt(World, asked, saved), FALSE, stamped),
                                stamped, armed))
      PROVE  IInv'
  <2> DEFINE w == Stamp(Adopt(World, asked, saved), FALSE, stamped)
             l == IF armed THEN FALSE ELSE w.disk.lockout \/ stamped
             n == IF armed THEN 0 ELSE w.disk.ledger
             k == w.mem.key /\ ~stamped
             c == w.life.locked /\ ~armed
             d == [w.disk EXCEPT !.lockout = l, !.ledger = n]
             m == [w.mem EXCEPT !.key = k]
             s == [w.life EXCEPT !.locked = c]
             x == [w EXCEPT !.disk = d, !.mem = m, !.life = s]
  <2>1. asked \in Values /\ FALSE \in BOOLEAN
    BY Parameters
  <2>2. /\ w \in Worlds /\ w.life = life /\ w.helper = helper
        /\ w.disk.snap \in {asked, 0} /\ w.disk.auth = 0
        /\ w.disk.ledger = disk.ledger
        /\ w.mem.intent = asked /\ ~w.mem.reapply /\ ~w.mem.validated
        /\ w.mem.key = mem.key /\ ~w.mem.restart
    <3>1. PICK kept \in BOOLEAN, u \in Values : ~kept /\ u = asked
      BY <2>1
    <3> DEFINE y == Stamp(Adopt(World, u, saved), kept, stamped)
    <3>2. /\ y \in Worlds /\ y.life = World.life /\ y.helper = World.helper
          /\ y.disk.snap \in {u, 0} /\ y.disk.auth = World.disk.auth
          /\ y.disk.ledger = World.disk.ledger
          /\ y.mem.intent = u /\ ~y.mem.reapply /\ y.mem.validated = World.mem.validated
          /\ y.mem.key = World.mem.key /\ y.mem.restart = World.mem.restart
      <4>1. World \in Worlds
        OBVIOUS
      <4> QED
        BY <4>1, StampedIs
    <3>3. y = w
      BY <3>1 DEF Stamp
    <3> HIDE DEF w, y
    <3> QED
      BY <1>3, <3>1, <3>2, <3>3, WorldIs
  <2>3. w.disk \in Disks /\ w.mem \in Mems
    BY <2>2, Parts
  <2>4. Become(Acknowledge(w, stamped, armed))
    BY <1>4
  <2> HIDE DEF w
  <2>16. Become(x)
    BY <2>2, <2>3, <2>4 DEF Acknowledge, Worlds, Disks
  <2>5. l \in BOOLEAN /\ n \in 0..Threshold /\ k \in BOOLEAN /\ c \in BOOLEAN
    <3>1. /\ w.disk.lockout \in BOOLEAN /\ w.disk.ledger \in 0..Threshold
          /\ w.mem.key \in BOOLEAN /\ w.life.locked \in BOOLEAN
      BY <2>2, Typed
    <3>2. 0 \in 0..Threshold
      BY Parameters
    <3>3. l \in BOOLEAN /\ k \in BOOLEAN /\ c \in BOOLEAN
      BY <3>1
    <3> QED
      BY <3>1, <3>2, <3>3
  <2>6. n = (IF armed THEN 0 ELSE disk.ledger) /\ k = (mem.key /\ ~stamped)
    BY <2>2
  <2> HIDE DEF l, n, k, c
  <2>7. /\ d \in Disks /\ d.snap \in {asked, 0} /\ d.auth = 0 /\ d.ledger = n
    BY <2>2, <2>3, <2>5 DEF Disks
  <2>8. /\ m \in Mems /\ m.intent = asked /\ ~m.reapply /\ ~m.validated
        /\ m.key = k /\ ~m.restart
    BY <2>2, <2>3, <2>5 DEF Mems
  <2>9. s \in State /\ s.driver = life.driver
    BY <2>2, <2>5 DEF State
  <2> HIDE DEF d, m, s
  <2>10. x \in Worlds /\ x.disk = d /\ x.mem = m /\ x.life = s /\ x.helper = helper
    BY <2>2, <2>7, <2>8, <2>9 DEF Worlds
  <2> HIDE DEF x
  <2>11. Pending(x) = 0
    BY <2>8, <2>10 DEF Pending
  <2>12. Budget(x, restores')
    <3>1. CASE armed
      <4>1. Counted(x) = 0 /\ x.disk.ledger = 0 /\ restores' = 0
        BY <1>4, <2>6, <2>7, <2>8, <2>10, <3>1 DEF Counted
      <4>2. 0 + 0 < Threshold /\ 0 + 0 + 0 <= 0
        BY Parameters
      <4> QED
        BY <2>11, <4>1, <4>2 DEF Budget
    <3>2. CASE ~armed
      <4>1. Counted(x) = 1 => Counted(World) = 1
        BY <1>3, <2>6, <2>7, <2>8, <2>10 DEF Counted
      <4>2. x.disk.ledger = World.disk.ledger /\ restores' = restores
        BY <1>3, <1>4, <2>6, <2>7, <2>10, <3>2
      <4> QED
        BY <1>3, <2>11, <4>1, <4>2, BudgetKept
    <3> QED
      BY <3>1, <3>2
  <2>13. Queued(x) /\ Known(x, good') /\ Owned(x)
    BY <1>4, <2>7, <2>8, <2>10 DEF Queued, Known, Owned
  <2>14. Sound(x, restores', good')
    <3>1. x.disk.auth \in 0..Len(x.helper)
      BY <1>3, <2>7, <2>10
    <3> QED
      BY <1>4, <2>7, <2>10, <2>12, <2>13, <3>1 DEF Sound
  <2>15. PlaceOK'
    <3>1. mem' = m /\ life' = s
      BY <2>10, <2>16 DEF Become
    <3> QED
      BY <1>2, <1>3, <2>8, <2>9, <3>1 DEF PlaceOK
  <2>17. restores' \in Nat /\ good' \in Values /\ box' \in Boxes
    BY <1>1, <1>4, <2>1
  <2> QED
    BY <1>1, <1>2, <2>13, <2>14, <2>15, <2>16, <2>17, EndKeeps
<1>5. CASE Become(Latched(World)) /\ UNCHANGED <<good, restores>>
  <2>1. write.by # "none"
    BY <1>1
  <2> QED
    BY <1>1, <1>2, <1>5, <2>1, LatchedEnd
<1>7. CASE ~(Become(Latched(World)) /\ UNCHANGED <<good, restores>>)
  <2>1. PICK saved \in BOOLEAN, stamped \in BOOLEAN, cleared \in BOOLEAN :
           /\ good' = asked /\ restores' = IF stamped /\ cleared THEN 0 ELSE restores
           /\ Become(Acknowledge(Stamp(Adopt(World, asked, saved), FALSE, stamped),
                                 stamped, stamped /\ cleared))
    BY <1>0, <1>7
  <2> DEFINE armed == stamped /\ cleared
  <2>2. armed \in BOOLEAN /\ (armed => stamped)
    OBVIOUS
  <2>3. /\ good' = asked /\ restores' = IF armed THEN 0 ELSE restores
        /\ Become(Acknowledge(Stamp(Adopt(World, asked, saved), FALSE, stamped),
                              stamped, armed))
    BY Zenon, <2>1
  <2> HIDE DEF armed
  <2> QED
    BY Zenon, <1>4, <2>2, <2>3
<1> QED
  BY <1>5, <1>7

\* A Reset leaves no intent; an automatic write leaves the one it wrote.
LEMMA OtherEnds ==
    ASSUME IInv, ResetEnd \/ AutomaticEnd
    PROVE  IInv'
<1> USE StateParts
<1>1. /\ proc = "running" /\ write.by # "none" /\ write' = NoWrite
      /\ UNCHANGED <<proc, present, restores, asked, spent>>
  BY DEF ResetEnd, AutomaticEnd, Automatic
<1>2. /\ Sound(World, restores, good) /\ Owned(World) /\ Budget(World, restores)
      /\ Queued(World) /\ disk.proof = "none" /\ PlaceOK
      /\ World.life = life /\ World.mem = mem /\ World.disk = disk /\ World.helper = helper
      /\ disk.ledger \in Nat
  BY <1>1, WriteWorld, WorldIs
<1>3. CASE ResetEnd
  <2>1. pc' = [pc EXCEPT !.client = "idle"] /\ UNCHANGED <<box, good>>
    BY <1>3 DEF ResetEnd
  <2>2. pc' \in Pcs /\ pc'.worker = pc.worker
    BY <2>1, PcsMove DEF Clients
  <2>3. CASE Become(Latched(World))
    BY <1>1, <2>1, <2>2, <2>3, LatchedEnd
  <2>4. CASE Become([World EXCEPT !.mem.intent = 0, !.mem.reapply = FALSE,
                                  !.disk = Snapshot(@, 0)])
    <3> DEFINE d == Snapshot(disk, 0)
               m == [mem EXCEPT !.intent = 0, !.reapply = FALSE]
               x == [World EXCEPT !.disk = d, !.mem = m]
    <3>1. d \in Disks /\ d.snap = 0 /\ d.auth = disk.auth /\ d.ledger = disk.ledger
      BY Parameters DEF Snapshot, Disks
    <3>2. /\ m \in Mems /\ m.intent = 0 /\ ~m.reapply /\ m.validated = mem.validated
          /\ m.key = mem.key /\ m.restart = mem.restart
      BY Parameters DEF Mems
    <3>3. Become(x)
      BY <1>2, <2>4 DEF Worlds
    <3> HIDE DEF d, m
    <3>4. x \in Worlds /\ x.disk = d /\ x.mem = m /\ x.life = life /\ x.helper = helper
      BY <1>2, <3>1, <3>2 DEF Worlds
    <3> HIDE DEF x
    <3>5. Pending(x) = Pending(World) /\ Counted(x) = Counted(World)
      BY <1>2, <3>1, <3>2, <3>4 DEF Pending, Counted
    <3>6. Budget(x, restores)
      BY <1>2, <3>1, <3>4, <3>5, BudgetKept
    <3>7. Queued(x) /\ Known(x, good) /\ Owned(x)
      BY <1>2, <3>1, <3>2, <3>4 DEF Queued, Known, Owned
    <3>8. Sound(x, restores, good)
      BY <1>2, <3>1, <3>4, <3>6, <3>7 DEF Sound
    <3>9. PlaceOK'
      <4>1. mem' = m /\ life' = life
        BY <3>3, <3>4 DEF Become
      <4> QED
        BY <1>2, <2>2, <3>2, <4>1 DEF PlaceOK
    <3> QED
      BY <1>1, <2>1, <2>2, <3>3, <3>7, <3>8, <3>9, EndKeeps
  <2> QED
    BY <1>3, <2>3, <2>4 DEF ResetEnd
<1>4. CASE AutomaticEnd
  <2>1. /\ write.by \in Automatic
        /\ pc' = [pc EXCEPT !.worker = [logon |-> "finishLogon", standby |-> "finishStandby",
                                        driver |-> "finishDriver"][write.by]]
    BY <1>4 DEF AutomaticEnd, Worker
  <2>2. PICK v \in {"finishLogon", "finishStandby", "finishDriver"} :
          /\ pc' = [pc EXCEPT !.worker = v]
          /\ v = "finishDriver" => write.by = "driver"
    BY <2>1 DEF Automatic
  <2>3. pc' \in Pcs /\ pc'.worker = v /\ v \notin Held
    BY <2>2, PcsMove DEF Workers, Held
  <2>4. CASE Become(Latched(World)) /\ UNCHANGED <<good, box>>
    BY <1>1, <2>3, <2>4, LatchedEnd
  <2>5. ASSUME NEW saved \in BOOLEAN, NEW stamped \in BOOLEAN, NEW n \in Values,
               box' = [box EXCEPT !.ok = TRUE], good' = n,
               Become([Stamp(Adopt(World, n, saved), write.kept, stamped)
                         EXCEPT !.mem.validated = @ /\ write.by # "driver"])
        PROVE  IInv'
    <3> DEFINE w == Stamp(Adopt(World, n, saved), write.kept, stamped)
               b == w.mem.validated /\ write.by # "driver"
               m == [w.mem EXCEPT !.validated = b]
               x == [w EXCEPT !.mem = m]
    <3>1. write.kept \in BOOLEAN
      BY DEF Writes
    <3>2. /\ w \in Worlds /\ w.life = life /\ w.helper = helper
          /\ w.disk.snap \in {n, 0} /\ w.disk.auth = disk.auth
          /\ w.disk.ledger = disk.ledger
          /\ w.mem.intent = n /\ ~w.mem.reapply /\ w.mem.validated = mem.validated
          /\ w.mem.key = mem.key /\ w.mem.restart = mem.restart
      <4>1. World \in Worlds
        OBVIOUS
      <4>2. /\ w \in Worlds /\ w.life = World.life /\ w.helper = World.helper
            /\ w.disk.snap \in {n, 0} /\ w.disk.auth = World.disk.auth
            /\ w.disk.ledger = World.disk.ledger
            /\ w.mem.intent = n /\ ~w.mem.reapply /\ w.mem.validated = World.mem.validated
            /\ w.mem.key = World.mem.key /\ w.mem.restart = World.mem.restart
        BY <3>1, <4>1, StampedIs
      <4> HIDE DEF w
      <4> QED
        BY <1>2, <4>2
    <3>3. w.disk \in Disks /\ w.mem \in Mems
      BY <3>2, Parts
    <3>4. Become(x)
      BY <2>5, <3>2, <3>3 DEF Worlds
    <3>5. b \in BOOLEAN /\ (b => mem.validated /\ write.by # "driver")
      BY <3>2, Typed
    <3> HIDE DEF w, b
    <3>6. /\ m \in Mems /\ m.intent = n /\ ~m.reapply /\ m.validated = b
          /\ m.key = mem.key /\ m.restart = mem.restart
      BY <3>2, <3>3, <3>5 DEF Mems
    <3> HIDE DEF m
    <3>7. x \in Worlds /\ x.disk = w.disk /\ x.mem = m /\ x.life = life /\ x.helper = helper
      BY <3>2, <3>6 DEF Worlds
    <3> HIDE DEF x
    <3>8. (Pending(x) = 1 => Pending(World) = 1) /\ Counted(x) = Counted(World)
      BY <1>2, <3>2, <3>5, <3>6, <3>7 DEF Pending, Counted
    <3>9. Budget(x, restores)
      BY <1>2, <3>2, <3>7, <3>8, BudgetKept
    <3>10. Queued(x) /\ Known(x, n) /\ Owned(x)
      BY <1>2, <3>2, <3>5, <3>6, <3>7 DEF Queued, Known, Owned
    <3>11. Sound(x, restores, n)
      BY <1>2, <3>2, <3>7, <3>9, <3>10 DEF Sound
    <3>12. PlaceOK'
      <4>1. mem' = m /\ life' = life
        BY <3>4, <3>7 DEF Become
      <4> QED
        BY <2>2, <2>3, <3>5, <3>6, <4>1 DEF PlaceOK
    <3>13. box' \in Boxes
      BY <2>5 DEF Boxes
    <3> QED
      BY <1>1, <2>3, <2>5, <3>4, <3>10, <3>11, <3>12, <3>13, EndKeeps
  <2>6. CASE ~(Become(Latched(World)) /\ UNCHANGED <<good, box>>)
    <3> DEFINE n == IF write.by = "logon" THEN LogonValue ELSE mem.intent
    <3>1. PICK saved \in BOOLEAN, stamped \in BOOLEAN :
            /\ box' = [box EXCEPT !.ok = TRUE] /\ good' = n
            /\ Become([Stamp(Adopt(World, n, saved), write.kept, stamped)
                         EXCEPT !.mem.validated = @ /\ write.by # "driver"])
      BY <1>4, <2>6 DEF AutomaticEnd
    <3>2. n \in Values
      BY Parameters DEF Mems
    <3> HIDE DEF n
    <3> QED
      BY Zenon, <2>5, <3>1, <3>2
  <2> QED
    BY <2>4, <2>6
<1> QED
  BY <1>3, <1>4

-----------------------------------------------------------------------------
(* The end of a process.                                                   *)

\* A process that has not begun has nothing to restore.
LEMMA FreshIs ==
    /\ Fresh \in Mems /\ Fresh.intent = 0 /\ ~Fresh.validated /\ ~Fresh.reapply /\ ~Fresh.key
    /\ Quiet \in State /\ ~Quiet.driver /\ ~Quiet.locked /\ ~Quiet.stopped
    /\ Idle \in Pcs /\ Idle.worker \notin Held /\ Idle.worker # "finishDriver"
    /\ EmptyBox \in Boxes /\ NoWrite \in Writes /\ NoWrite.by = "none"
<1>1. Fresh \in Mems /\ Fresh.intent = 0 /\ ~Fresh.validated /\ ~Fresh.reapply /\ ~Fresh.key
  BY Parameters DEF Fresh, Mems
<1>2. Quiet \in State /\ ~Quiet.driver /\ ~Quiet.locked /\ ~Quiet.stopped
  BY DEF Quiet, State
<1>3. Idle \in Pcs /\ Idle.worker \notin Held /\ Idle.worker # "finishDriver"
  BY DEF Idle, Pcs, Mains, Workers, Clients, Held
<1>4. EmptyBox \in Boxes
  BY DEF EmptyBox, Boxes
<1>5. NoWrite \in Writes /\ NoWrite.by = "none"
  BY DEF NoWrite, Writes
<1> QED
  BY <1>1, <1>2, <1>3, <1>4, <1>5

\* What a process leaves behind when it ends is sound without it: the ledger and the
\* authorization are those of a world within the budget.
LEMMA Exits ==
    ASSUME IInv, proc = "running", UNCHANGED <<present, restores, asked>>,
           spent' \in Nat, good' \in Values,
           NEW w, w.disk \in Disks, w.helper \in Seq(Phases), w.disk.auth \in 0..Len(w.helper),
           NEW how \in {"down", "stopped"}, NEW controlled \in BOOLEAN,
           Exit(w, how, controlled),
           w.disk.proof # "none" /\ w.disk.snap # 0 => w.disk.snap = good',
           NEW v \in Worlds, Budget(v, restores),
           w.disk.ledger = v.disk.ledger, w.disk.auth \in {0, v.disk.auth}
    PROVE  IInv'
<1> USE StateParts, FreshIs
<1>1. /\ disk' = w.disk /\ mem' = Fresh /\ life' = Quiet /\ box' = EmptyBox /\ pc' = Idle
      /\ write' = NoWrite /\ proc' = how
  BY DEF Exit
<1>2. helper' \in Seq(Phases) /\ Len(helper') = Len(w.helper)
  <2>1. PICK n \in Nat : n = Len(w.helper) /\ DOMAIN w.helper = 1..n
    OBVIOUS
  <2>2. \A i \in 1..n : w.helper[i] \in Phases
    BY <2>1
  <2>3. "committed" \in Phases /\ "orphaned" \in Phases
    BY DEF Phases
  <2>4. helper' = [i \in 1..n |-> IF w.helper[i] # "waiting" THEN w.helper[i]
                                  ELSE IF controlled THEN "committed" ELSE "orphaned"]
    BY <2>1 DEF Exit
  <2>5. helper' \in [1..n -> Phases]
    BY <2>2, <2>3, <2>4
  <2> QED
    BY <2>1, <2>5
<1>3. World' \in Worlds
  BY <1>1, <1>2 DEF World, Worlds
<1>4. Budget(World', restores)
  <2>1. Pending(World') = 0 /\ (Counted(World') = 1 => Counted(v) = 1)
    BY <1>1, WorldIs DEF Pending, Counted
  <2>2. v.disk.ledger \in Nat
    BY Typed
  <2> QED
    BY <1>1, <2>1, <2>2, WorldIs, BudgetKept
<1>5. Queued(World') /\ Known(World', good')
  BY <1>1, WorldIs DEF Queued, Known
<1>6. Sound(World', restores', good')
  BY <1>1, <1>2, <1>3, <1>4, <1>5, WorldIs DEF Sound
<1>7. WorldOK'
  BY <1>1, <1>5, <1>6 DEF WorldOK
<1>8. DownOK' /\ WriteOK' /\ PlaceOK'
  BY <1>1 DEF DownOK, WriteOK, PlaceOK, Automatic
<1>9. RestOK'
  BY <1>1 DEF RestOK
<1> QED
  BY <1>7, <1>8, <1>9 DEF IInv

\* What is sound of a world in any state.
LEMMA SoundWorld ==
    ASSUME IInv
    PROVE  /\ Sound(World, restores, good) /\ Budget(World, restores) /\ restores \in Nat
           /\ disk.proof # "none" /\ disk.snap # 0 => disk.snap = good
BY WorldIs DEF IInv, WorldOK, Sound, RestOK

\* A crash, and the emergency exit of a process whose lock is lost.
LEMMA Crashes ==
    ASSUME IInv, Kill \/ Poisoned
    PROVE  IInv'
<1> USE StateParts, SoundWorld, WorldIs
<1>1. CASE Kill
  <2>1. /\ proc = "running" /\ UNCHANGED <<present, good, restores, asked>>
        /\ Spend /\ Exit(World, "down", FALSE)
    BY <1>1 DEF Kill
  <2>2. spent' \in Nat
    BY <2>1 DEF Spend
  <2>3. /\ World.disk \in Disks /\ World.helper \in Seq(Phases)
        /\ World.disk.auth \in 0..Len(World.helper) /\ World.disk.auth \in {0, World.disk.auth}
        /\ good' \in Values /\ FALSE \in BOOLEAN /\ "down" \in {"down", "stopped"}
    BY <2>1
  <2> QED
    BY <2>1, <2>2, <2>3, Exits
<1>2. ASSUME NEW corroborated \in BOOLEAN, NEW owned \in BOOLEAN, NEW ok \in BOOLEAN,
             Emergency(corroborated, owned, ok)
      PROVE  IInv'
  <2>1. proc = "running" /\ UNCHANGED <<present, good, restores, asked>> /\ Spend
    BY <1>2 DEF Emergency
  <2>2. spent' \in Nat /\ good' \in Values
    BY <2>1 DEF Spend
  <2> DEFINE latched == [disk EXCEPT !.auth = 0, !.snap = 0, !.bound = FALSE,
                                     !.proof = "none", !.lockout = TRUE]
             l == IF corroborated /\ disk.snap # 0 THEN Record(World).disk.ledger
                  ELSE disk.ledger
             d == [latched EXCEPT !.ledger = l]
             e == [ClearFiles(disk) EXCEPT !.proof = "none"]
  <2>3. \/ Exit(Authorize(World), "down", TRUE)
        \/ Exit([World EXCEPT !.disk = d], "down", FALSE)
        \/ Exit([World EXCEPT !.disk = e], "down", FALSE)
    <3>1. latched.ledger = disk.ledger
      BY DEF Disks
    <3> QED
      BY <1>2, <3>1 DEF Emergency
  <2>4. CASE Exit(Authorize(World), "down", TRUE)
    <3> DEFINE a == Authorize(World)
    <3>1. Sound(a, restores, good)
      BY AuthorizeKeeps
    <3> HIDE DEF a
    <3>2. a \in Worlds /\ a.disk \in Disks /\ a.helper \in Seq(Phases) /\ Budget(a, restores)
          /\ a.disk.auth \in 0..Len(a.helper) /\ a.disk.auth \in {0, a.disk.auth}
          /\ (a.disk.proof # "none" /\ a.disk.snap # 0 => a.disk.snap = good)
      BY <3>1, Parts DEF Sound
    <3>3. Exit(a, "down", TRUE)
      BY <2>4 DEF a
    <3> QED
      BY <2>1, <2>2, <3>2, <3>3, Exits
  <2>5. CASE Exit([World EXCEPT !.disk = d], "down", FALSE)
    <3> DEFINE r == Record(World)
               x == [World EXCEPT !.disk = d]
    <3>1. Sound(r, restores, good)
      BY RecordKeeps
    <3> HIDE DEF r
    <3>2. PICK v \in Worlds : Budget(v, restores) /\ v.disk.ledger = l
      BY <3>1 DEF Sound, r
    <3> HIDE DEF l
    <3>3. l \in 0..Threshold
      BY <3>2, Typed
    <3>4. d \in Disks /\ d.auth = 0 /\ d.proof = "none" /\ d.ledger = l
      BY <3>3, Parameters DEF Disks
    <3> HIDE DEF d
    <3>5. /\ x.disk = d /\ x.helper = helper /\ x.disk.auth \in 0..Len(x.helper)
          /\ x.disk.auth \in {0, v.disk.auth}
      BY <3>4 DEF Worlds
    <3>6. Exit(x, "down", FALSE)
      BY <2>5
    <3> HIDE DEF x
    <3> QED
      BY <2>1, <2>2, <3>2, <3>4, <3>5, <3>6, Exits
  <2>6. CASE Exit([World EXCEPT !.disk = e], "down", FALSE)
    <3> DEFINE x == [World EXCEPT !.disk = e]
    <3>1. e \in Disks /\ e.auth = 0 /\ e.proof = "none" /\ e.ledger = disk.ledger
      BY Parameters DEF ClearFiles, Snapshot, Disks
    <3> HIDE DEF e
    <3>2. /\ x.disk = e /\ x.helper = helper /\ x.disk.auth \in 0..Len(x.helper)
          /\ x.disk.auth \in {0, World.disk.auth}
      BY <3>1 DEF Worlds
    <3>3. Exit(x, "down", FALSE)
      BY <2>6
    <3> HIDE DEF x
    <3> QED
      BY <2>1, <2>2, <3>1, <3>2, <3>3, Exits
  <2> QED
    BY <2>3, <2>4, <2>5, <2>6
<1> QED
  BY <1>1, <1>2 DEF Poisoned

\* The main thread commits to a restart or to a stop; a restart whose helper is gone, or
\* that a stop overtook, is aborted.
LEMMA Claims ==
    ASSUME IInv, MainClaim
    PROVE  IInv'
<1> USE StateParts, SoundWorld, WorldIs
<1> DEFINE a == Abort(World)
<1>1. Free /\ UNCHANGED <<present, good, restores, asked, spent>>
  BY DEF MainClaim
<1>2. /\ Calm(World, restores, good) /\ write.by = "none" /\ proc = "running"
  BY <1>1, CalmWorld
<1>3. Sound(a, restores, good) /\ Owned(a) /\ Known(a, good)
  BY <1>2, AbortKeeps DEF Calm
<1>4. Retires(World, a)
  BY <1>2, AbortIs DEF Retires
<1>5. \/ Exit(World, "down", TRUE)
      \/ Exit(a, "stopped", FALSE)
      \/ /\ Become(a) \/ Become(World)
         /\ Main("join") /\ UNCHANGED <<box, write, proc>>
  BY DEF MainClaim
<1> HIDE DEF a
<1>6. CASE Exit(World, "down", TRUE)
  <2>1. /\ World.disk \in Disks /\ World.helper \in Seq(Phases)
        /\ World.disk.auth \in 0..Len(World.helper) /\ World.disk.auth \in {0, World.disk.auth}
        /\ good' \in Values /\ spent' \in Nat
    BY <1>1
  <2> QED
    BY <1>1, <1>2, <1>6, <2>1, Exits
<1>7. CASE Exit(a, "stopped", FALSE)
  <2>1. a \in Worlds /\ a.disk \in Disks /\ a.helper \in Seq(Phases) /\ Budget(a, restores)
        /\ a.disk.auth \in 0..Len(a.helper) /\ a.disk.auth \in {0, a.disk.auth}
        /\ (a.disk.proof # "none" /\ a.disk.snap # 0 => a.disk.snap = good)
        /\ good' \in Values /\ spent' \in Nat
    BY <1>1, <1>3, Parts DEF Sound
  <2> QED
    BY <1>1, <1>2, <1>7, <2>1, Exits
<1>8. CASE /\ Become(a) \/ Become(World)
           /\ Main("join") /\ UNCHANGED <<box, write, proc>>
  <2>1. pc' \in Pcs /\ pc'.worker = pc.worker
    BY <1>8, PcsMove DEF Main, Mains
  <2>2. RestOK'
    BY <1>1, <1>8, <2>1 DEF RestOK
  <2>3. a \in Worlds /\ Calm(a, restores, good) /\ Retires(World, World)
    BY <1>3 DEF Calm, Sound, Retires
  <2> QED
    BY <1>1, <1>2, <1>4, <1>8, <2>1, <2>2, <2>3, RetireStep DEF Placed
<1> QED
  BY <1>5, <1>6, <1>7, <1>8

\* The end of the service, which may return the settings to the defaults.
LEMMA Joins ==
    ASSUME IInv, MainJoin
    PROVE  IInv'
<1> USE StateParts, SoundWorld, WorldIs
<1>1. Free /\ UNCHANGED <<present, restores, asked, spent>>
  BY DEF MainJoin
<1>2. Calm(World, restores, good) /\ proc = "running"
  BY <1>1, CalmWorld
<1> DEFINE how == IF mem.failed THEN "down" ELSE "stopped"
<1>3. how \in {"down", "stopped"} /\ FALSE \in BOOLEAN /\ spent' \in Nat
  BY <1>1
<1>4. ASSUME NEW d \in Disks, Exit([World EXCEPT !.disk = d], how, FALSE), good' \in Values,
             d.proof # "none" /\ d.snap # 0 => d.snap = good',
             d.auth = disk.auth, d.ledger = disk.ledger
      PROVE  IInv'
  <2> DEFINE x == [World EXCEPT !.disk = d]
  <2>1. /\ x.disk = d /\ x.helper = helper /\ x.disk.auth \in 0..Len(x.helper)
        /\ x.disk.auth \in {0, World.disk.auth} /\ x.disk.ledger = World.disk.ledger
    BY <1>4 DEF Worlds
  <2>2. Exit(x, how, FALSE)
    BY <1>4
  <2> HIDE DEF x, how
  <2> QED
    BY <1>1, <1>2, <1>3, <1>4, <2>1, <2>2, Exits
<1>5. \/ Exit(World, how, FALSE) /\ UNCHANGED good
      \/ /\ \E d \in {Snapshot(disk, 0), [disk EXCEPT !.lockout = TRUE]} :
              Exit([World EXCEPT !.disk = [d EXCEPT !.proof = "none"]], how, FALSE)
         /\ good' = 0
      \/ /\ \E x \in Refused(World) : Exit([World EXCEPT !.disk.proof = x.disk.proof,
                                            !.disk.lockout = x.disk.lockout], how, FALSE)
         /\ UNCHANGED good
  BY DEF MainJoin
<1> HIDE DEF how
<1>6. CASE Exit(World, how, FALSE) /\ UNCHANGED good
  <2>1. World = [World EXCEPT !.disk = disk]
    BY DEF Worlds
  <2> QED
    BY <1>4, <1>6, <2>1
<1>7. CASE /\ \E d \in {Snapshot(disk, 0), [disk EXCEPT !.lockout = TRUE]} :
                Exit([World EXCEPT !.disk = [d EXCEPT !.proof = "none"]], how, FALSE)
           /\ good' = 0
  <2>1. PICK d \in {Snapshot(disk, 0), [disk EXCEPT !.lockout = TRUE]} :
           Exit([World EXCEPT !.disk = [d EXCEPT !.proof = "none"]], how, FALSE)
    BY <1>7
  <2>2. d \in Disks /\ d.auth = disk.auth /\ d.ledger = disk.ledger
    BY <2>1, Parameters DEF Snapshot, Disks
  <2> DEFINE e == [d EXCEPT !.proof = "none"]
  <2>3. e \in Disks /\ e.proof = "none" /\ e.auth = disk.auth /\ e.ledger = disk.ledger
    BY <2>2 DEF Disks
  <2>4. Exit([World EXCEPT !.disk = e], how, FALSE)
    BY <2>1
  <2> HIDE DEF e
  <2> QED
    BY <1>4, <1>7, <2>3, <2>4, Parameters
<1>8. CASE /\ \E x \in Refused(World) : Exit([World EXCEPT !.disk.proof = x.disk.proof,
                                              !.disk.lockout = x.disk.lockout], how, FALSE)
           /\ UNCHANGED good
  <2>1. PICK x \in Refused(World) : Exit([World EXCEPT !.disk.proof = x.disk.proof,
                                              !.disk.lockout = x.disk.lockout], how, FALSE)
    BY <1>8
  <2>2. x \in Worlds
    BY <1>2, RefusedKeeps DEF Calm, Sound
  <2>3. x.disk.lockout \in BOOLEAN /\ x.disk.proof \in {disk.proof, "none"}
    <3>1. x.disk.lockout \in BOOLEAN
      BY <2>2, Typed
    <3>2. PICK d \in {disk, Snapshot(disk, mem.intent),
                      [Snapshot(disk, mem.intent) EXCEPT !.proof = "none"],
                      [Snapshot(disk, mem.intent) EXCEPT !.proof = "none", !.lockout = TRUE]} :
            x = [World EXCEPT !.disk = d]
      BY <2>1 DEF Refused
    <3>3. x.disk = d
      BY <3>2 DEF Worlds
    <3>4. d.proof \in {disk.proof, "none"}
      BY <3>2 DEF Snapshot, Disks
    <3> QED
      BY <3>1, <3>3, <3>4
  <2> DEFINE e == [disk EXCEPT !.proof = x.disk.proof, !.lockout = x.disk.lockout]
  <2>4. /\ e \in Disks /\ e.snap = disk.snap /\ e.auth = disk.auth /\ e.ledger = disk.ledger
        /\ e.proof \in {disk.proof, "none"}
    BY <2>3 DEF Disks
  <2>5. Exit([World EXCEPT !.disk = e], how, FALSE)
    BY <2>1 DEF Worlds
  <2> HIDE DEF e
  <2> QED
    BY <1>4, <1>8, <2>4, <2>5
<1> QED
  BY <1>5, <1>6, <1>7, <1>8

-----------------------------------------------------------------------------
(* The start of a process, and the helpers.                                *)

\* A process starts with a world that is calm.
LEMMA Starts ==
    ASSUME IInv, NEW w, Calm(w, restores, good), Start(w), box' \in Boxes, spent' \in Nat
    PROVE  IInv'
<1> USE StateParts, FreshIs
<1>1. /\ Become(w) /\ proc' = "running" /\ pc' = Idle /\ write' = NoWrite
      /\ UNCHANGED <<present, good, restores, asked>>
  BY DEF Start
<1>2. World' = w
  BY <1>1, Becomes DEF Calm, Sound
<1>3. WorldOK'
  BY <1>1, <1>2 DEF WorldOK, Calm
<1>4. DownOK' /\ WriteOK' /\ PlaceOK'
  BY <1>1 DEF DownOK, WriteOK, PlaceOK, Automatic
<1>5. RestOK'
  BY <1>1 DEF RestOK
<1> QED
  BY <1>3, <1>4, <1>5 DEF IInv

\* A start without a valid nonce deletes what could be replayed.
LEMMA OrdinaryStarts ==
    ASSUME IInv, FailureStart \/ DemandStart
    PROVE  IInv'
<1> USE StateParts, SoundWorld, WorldIs, FreshIs
<1>1. proc # "running" /\ OrdinaryStart /\ spent' \in Nat
  BY DEF FailureStart, DemandStart, Spend
<1>2. mem = Fresh /\ life = Quiet
  BY <1>1 DEF IInv, DownOK
<1> DEFINE d == ClearFiles(disk)
           x == [World EXCEPT !.disk = d]
<1>3. d \in Disks /\ d.auth = 0 /\ d.snap = 0 /\ d.ledger = disk.ledger
  BY Parameters DEF ClearFiles, Snapshot, Disks
<1>4. Start(x) /\ box' = EmptyBox
  BY <1>1 DEF OrdinaryStart
<1> HIDE DEF d
<1>5. x \in Worlds /\ x.disk = d /\ x.mem = Fresh /\ x.life = Quiet /\ x.helper = helper
  BY <1>2, <1>3 DEF Worlds
<1> HIDE DEF x
<1>6. Pending(x) = 0 /\ Counted(x) = 0
  BY <1>3, <1>5 DEF Pending, Counted
<1>7. Budget(x, restores)
  <2>1. World.disk.ledger \in Nat
    BY Typed
  <2> QED
    BY <1>3, <1>5, <1>6, <2>1, BudgetKept
<1>8. Queued(x) /\ Known(x, good) /\ Owned(x)
  BY <1>3, <1>5 DEF Queued, Known, Owned
<1>9. Sound(x, restores, good)
  <2>1. x.disk.auth \in 0..Len(x.helper)
    BY <1>3, <1>5
  <2> QED
    BY <1>3, <1>5, <1>7, <1>8, <2>1 DEF Sound
<1> QED
  BY <1>1, <1>4, <1>8, <1>9, Starts DEF Calm

\* A fresh process with a valid nonce carries out the recovery that was counted, or none.
LEMMA HelperStarts ==
    ASSUME IInv, NEW n \in DOMAIN helper, HelperStart(n)
    PROVE  IInv'
<1> USE StateParts, SoundWorld, WorldIs, FreshIs
<1> DEFINE c == ClearFiles(disk)
           h == [helper EXCEPT ![n] = "dead"]
           v == disk.snap
           m == [Fresh EXCEPT !.intent = v, !.reapply = TRUE, !.validated = TRUE]
           w == [World EXCEPT !.disk = c, !.helper = h]
           a == [World EXCEPT !.disk = c, !.helper = h, !.mem = m]
<1>1. PICK updated \in BOOLEAN :
        /\ proc = "down" /\ disk.auth = n /\ disk.snap # 0
        /\ Start(Arm(w, v, updated)) /\ box' = [EmptyBox EXCEPT !.wake = TRUE] /\ spent' = spent
  BY DEF HelperStart, AuthorizationValid, Worlds
<1>2. mem = Fresh /\ life = Quiet
  BY <1>1 DEF IInv, DownOK
<1>3. /\ c \in Disks /\ c.auth = 0 /\ c.snap = 0 /\ c.ledger = disk.ledger
      /\ c.proof = disk.proof /\ c.lockout = disk.lockout
  BY Parameters DEF ClearFiles, Snapshot, Disks
<1>4. h \in Seq(Phases) /\ n \in 1..Len(helper)
  <2>1. "dead" \in Phases /\ helper \in Seq(Phases)
    BY DEF Phases
  <2> QED
    BY <2>1
<1>5. m \in Mems /\ m.intent = v /\ m.reapply /\ m.validated /\ ~m.key
  BY DEF Mems, Disks
<1> HIDE DEF c, h
<1>6. w \in Worlds /\ w.disk = c /\ w.helper = h /\ w.mem = Fresh /\ w.life = Quiet
  BY <1>2, <1>3, <1>4 DEF Worlds
<1> HIDE DEF w
<1>7. a = [w EXCEPT !.mem.intent = v, !.mem.reapply = TRUE, !.mem.validated = TRUE]
  BY <1>2, <1>3, <1>4, <1>6 DEF w, Worlds
<1> HIDE DEF m
<1>8. a \in Worlds /\ a.disk = c /\ a.helper = h /\ a.mem = m /\ a.life = Quiet
  BY <1>2, <1>3, <1>4, <1>5 DEF Worlds
<1> HIDE DEF a, v
<1>9. box' \in Boxes /\ spent' \in Nat
  BY <1>1 DEF EmptyBox, Boxes
<1>10. CASE ProofAllows(c, updated) /\ c.ledger < Threshold
  <2> DEFINE x == [a EXCEPT !.life = DriverEvent(@)]
  <2>1. Start(x)
    BY <1>1, <1>6, <1>7, <1>10 DEF Arm
  <2> DEFINE s == DriverEvent(Quiet)
  <2>2. /\ s \in State /\ ~s.stopped /\ ~s.locked /\ s.driver
    BY DriverEventIs
  <2>3. ~s.driverIssued
    BY DEF DriverEvent, Unless, Quiet
  <2> HIDE DEF s
  <2>4. x \in Worlds /\ x.disk = c /\ x.helper = h /\ x.mem = m /\ x.life = s
    BY <1>8, <2>2 DEF Worlds, s
  <2> HIDE DEF x
  <2>5. Pending(x) = 1 /\ Counted(x) = 0
    BY <1>3, <1>5, <2>2, <2>3, <2>4 DEF Pending, Counted
  <2>6. Pending(World) = 0 /\ Counted(World) = 1
    <3>1. disk.auth # 0
      BY <1>1, <1>4
    <3> QED
      BY <1>2, <3>1 DEF Pending, Counted
  <2>7. Budget(x, restores)
    <3>1. disk.ledger = Threshold \/ restores + 0 + 1 <= disk.ledger
      BY <2>6 DEF Budget
    <3>2. disk.ledger < Threshold /\ disk.ledger \in Nat /\ Threshold \in Nat
      BY <1>3, <1>10, Typed, Parameters
    <3>3. restores + 1 <= disk.ledger /\ restores + 1 < Threshold /\ restores + 1 + 0 <= disk.ledger
      BY <3>1, <3>2
    <3> QED
      BY <1>3, <2>4, <2>5, <3>3 DEF Budget
  <2>8. v # 0 /\ v = good
    BY <1>1, <1>3, <1>10 DEF ProofAllows, v
  <2>9. Queued(x) /\ Known(x, good) /\ Owned(x)
    BY <1>3, <1>5, <2>2, <2>4, <2>8 DEF Queued, Known, Owned
  <2>10. Sound(x, restores, good)
    <3>1. x.disk.auth \in 0..Len(x.helper)
      BY <1>3, <2>4, Typed
    <3> QED
      BY <1>3, <2>4, <2>7, <2>9, <3>1 DEF Sound
  <2> QED
    BY <1>9, <2>1, <2>9, <2>10, Starts DEF Calm
<1>11. CASE ~(ProofAllows(c, updated) /\ c.ledger < Threshold)
  <2> DEFINE d == Disable(a)
             l == Locked(d)
             k == [l.mem EXCEPT !.validated = FALSE]
             x == [l EXCEPT !.mem = k]
  <2>1. /\ d \in Worlds /\ d.disk.snap = 0 /\ d.disk.auth = 0 /\ d.disk.ledger = disk.ledger
        /\ d.mem.intent = 0 /\ ~d.mem.reapply /\ ~d.mem.key
    BY <1>3, <1>5, <1>8, DisableIs
  <2>2. l \in Worlds /\ l.disk = d.disk /\ l.mem = d.mem /\ l.mem \in Mems
    BY <2>1, LockedIs, Parts
  <2>3. Arm(w, v, updated) = [l EXCEPT !.mem.validated = FALSE]
    BY <1>6, <1>7, <1>11 DEF Arm
  <2> HIDE DEF d, l
  <2>4. k \in Mems /\ k.intent = 0 /\ ~k.reapply /\ ~k.key /\ ~k.validated
    BY <2>1, <2>2 DEF Mems
  <2>5. Start(x)
    BY <1>1, <2>2, <2>3 DEF Worlds
  <2> HIDE DEF k
  <2>6. x \in Worlds /\ x.disk = d.disk /\ x.mem = k
    BY <2>2, <2>4 DEF Worlds
  <2> HIDE DEF x
  <2>7. Pending(x) = 0 /\ Counted(x) = 0
    BY <2>1, <2>4, <2>6 DEF Pending, Counted
  <2>8. Budget(x, restores)
    <3>1. World.disk.ledger \in Nat
      BY Typed
    <3> QED
      BY <2>1, <2>6, <2>7, <3>1, BudgetKept
  <2>9. Queued(x) /\ Known(x, good) /\ Owned(x)
    BY <2>1, <2>4, <2>6 DEF Queued, Known, Owned
  <2>10. Sound(x, restores, good)
    <3>1. x.disk.auth \in 0..Len(x.helper)
      BY <2>1, <2>6, Typed
    <3> QED
      BY <2>1, <2>6, <2>8, <2>9, <3>1 DEF Sound
  <2> QED
    BY <1>9, <2>5, <2>9, <2>10, Starts DEF Calm
<1> QED
  BY <1>10, <1>11

\* A helper that ends takes at most its own files with it.
LEMMA HelperEnds ==
    ASSUME IInv, NEW n \in DOMAIN helper, HelperGivesUp(n) \/ HelperLost(n)
    PROVE  IInv'
<1> USE StateParts, SoundWorld, WorldIs
<1>1. /\ helper' = [helper EXCEPT ![n] = "dead"] /\ disk' \in {disk, Cleaned(n)}
      /\ UNCHANGED <<mem, life, box, pc, write, proc, present, good, restores, asked>>
      /\ spent' \in Nat
  BY DEF HelperGivesUp, HelperLost, Spend
<1>2. /\ disk' \in Disks /\ disk'.auth \in {0, disk.auth} /\ disk'.snap \in {0, disk.snap}
      /\ disk'.ledger = disk.ledger /\ disk'.proof = disk.proof
      /\ disk'.lockout = disk.lockout
  <2>1. CASE disk' = disk
    BY <2>1
  <2> DEFINE s == IF disk.bound THEN 0 ELSE disk.snap
  <2>2. s \in Values /\ s \in {0, disk.snap}
    BY Parameters DEF Disks
  <2>3. disk' = disk \/ disk' = [disk EXCEPT !.auth = 0, !.snap = s, !.bound = FALSE]
    BY <1>1 DEF Cleaned, Disks
  <2> HIDE DEF s
  <2>4. CASE disk' = [disk EXCEPT !.auth = 0, !.snap = s, !.bound = FALSE]
    <3>1. disk \in Disks /\ 0 \in Nat
      OBVIOUS
    <3>2. disk' \in Disks
      BY <2>2, <2>4, <3>1 DEF Disks
    <3>3. /\ disk'.auth = 0 /\ disk'.snap = s /\ disk'.ledger = disk.ledger
          /\ disk'.proof = disk.proof /\ disk'.lockout = disk.lockout
      BY <2>4, <3>1 DEF Disks
    <3> QED
      BY <2>2, <3>2, <3>3
  <2> QED
    BY <2>1, <2>3, <2>4
<1>3. helper' \in Seq(Phases) /\ Len(helper') = Len(helper)
  <2>1. "dead" \in Phases /\ helper \in Seq(Phases)
    BY DEF Phases
  <2> QED
    BY <1>1, <2>1
<1>4. World' \in Worlds
  BY <1>1, <1>2, <1>3 DEF World, Worlds
<1>5. /\ Queued(World) /\ DownOK /\ WriteOK /\ PlaceOK
      /\ write.by = "none" => Known(World, good)
      /\ proc = "running" => Owned(World)
      /\ World.disk.ledger \in Nat
  BY Typed DEF IInv, WorldOK, Sound
<1>6. Budget(World', restores)
  <2>1. Pending(World') = Pending(World) /\ (Counted(World') = 1 => Counted(World) = 1)
    BY <1>1, <1>2 DEF Pending, Counted
  <2> QED
    BY <1>2, <1>5, <2>1, BudgetKept
<1>7. Sound(World', restores, good)
  <2>1. Queued(World')
    BY <1>1, <1>5 DEF Queued
  <2>2. World'.disk.auth \in 0..Len(World'.helper)
    BY <1>2, <1>3, Typed
  <2> QED
    BY <1>2, <1>4, <1>6, <2>1, <2>2 DEF Sound
<1>8. WorldOK'
  BY <1>1, <1>2, <1>5, <1>7 DEF WorldOK, Known, Owned
<1>9. DownOK' /\ WriteOK' /\ PlaceOK'
  BY <1>1, <1>2, <1>5 DEF DownOK, WriteOK, PlaceOK
<1>10. RestOK'
  BY <1>1 DEF RestOK
<1> QED
  BY <1>8, <1>9, <1>10 DEF IInv

-----------------------------------------------------------------------------
(* The theorems.                                                           *)

\* A service that has applied nothing has nothing to restore.
LEMMA InitHolds == ASSUME Init PROVE IInv
<1> USE FreshIs, Parameters, WorldIs
<1>1. /\ mem = Fresh /\ life = Quiet /\ helper = <<>> /\ box = EmptyBox /\ pc = Idle
      /\ write = NoWrite /\ proc = "running" /\ present = TRUE
      /\ good = 0 /\ restores = 0 /\ asked = 0 /\ spent = 0
  BY DEF Init
<1>2. /\ disk \in Disks /\ disk.snap = 0 /\ disk.auth = 0 /\ disk.ledger = 0
      /\ disk.proof = "none"
  <2>1. 0 \in 0..Threshold
    OBVIOUS
  <2> QED
    BY <2>1 DEF Init, Disks
<1>3. World \in Worlds /\ Len(helper) = 0
  BY <1>1, <1>2 DEF World, Worlds
<1>4. Pending(World) = 0 /\ Counted(World) = 0
  BY <1>1, <1>2 DEF Pending, Counted
<1>5. Budget(World, restores)
  <2>1. 0 + 0 < Threshold /\ 0 + 0 + 0 <= 0
    OBVIOUS
  <2> QED
    BY <1>1, <1>2, <1>4, <2>1 DEF Budget
<1>6. WorldOK
  BY <1>1, <1>2, <1>3, <1>5 DEF WorldOK, Sound, Queued, Known, Owned
<1>7. DownOK /\ WriteOK /\ PlaceOK
  BY <1>1, <1>2 DEF DownOK, WriteOK, PlaceOK, Automatic
<1>8. RestOK
  <2>1. 0 \in 0..MaxApplies
    OBVIOUS
  <2> QED
    BY <1>1, <2>1 DEF RestOK
<1> QED
  BY <1>6, <1>7, <1>8 DEF IInv

\* Every step keeps the invariant.
LEMMA StepHolds == ASSUME IInv, [Next]_vars PROVE IInv'
<1>1. CASE WorkerStep
  <2>1. CASE LogonAttempt \/ StandbyAttempt \/ DriverAttempt
    BY <2>1, AttemptRefused, WriteBegins
  <2>2. CASE WorkerFinish
    BY <2>2, OtherWork, LifeEnds
  <2>3. CASE ~(LogonAttempt \/ StandbyAttempt \/ DriverAttempt \/ WorkerFinish)
    BY <1>1, <2>3, LifeEnds, OtherWork, Removals, Restarts, Bystanders, OtherEnds
       DEF WorkerStep
  <2> QED
    BY <2>1, <2>2, <2>3
<1>2. CASE MainStep
  BY <1>2, Restarts, Bystanders, Flags, Claims, Joins DEF MainStep
<1>3. CASE ClientStep
  BY <1>3, ClientRefused, WriteBegins, ApplyEnds, OtherEnds DEF ClientStep
<1>4. CASE FailureStart
  BY <1>4, OrdinaryStarts
<1>5. CASE HelperStep
  BY <1>5, HelperStarts, HelperEnds DEF HelperStep
<1>6. CASE Environment
  BY <1>6, Bystanders, Flags, Matures, OtherWork, Crashes, OrdinaryStarts, HelperEnds
     DEF Environment
<1>7. CASE UNCHANGED vars
  BY <1>7, Bystanders
<1> QED
  BY <1>1, <1>2, <1>3, <1>4, <1>5, <1>6, <1>7 DEF Next

\* The invariant holds in every behaviour.
LEMMA InvariantHolds == Spec => []IInv
<1>1. Init => IInv
  BY InitHolds
<1>2. IInv /\ [Next]_vars => IInv'
  BY StepHolds
<1> QED
  BY <1>1, <1>2, PTL DEF Spec

\* The state has its types in every behaviour: the ledger stops at the threshold, and the
\* authorization on disk names a helper that was started.
THEOREM RecoveryTypeCorrect == Spec => []TypeOK
<1>1. IInv => TypeOK
  BY StateParts DEF TypeOK, Disks, Mems, Boxes, Writes, Phases
<1> QED
  BY <1>1, InvariantHolds, PTL

\* No automatic write is in flight while the lockout is latched: an attempt reads the
\* lockout under the lock, and whatever latches it later needs the lock or ends the process.
THEOREM LockoutStopsAutomaticWrites == Spec => []NoAutomaticWriteUnderLockout
<1>1. IInv => NoAutomaticWriteUnderLockout
  BY DEF IInv, WriteOK, NoAutomaticWriteUnderLockout
<1> QED
  BY <1>1, InvariantHolds, PTL

\* However often the driver faults, the service crashes and its helpers die, fewer than
\* Threshold driver restores are written between two acknowledged Applies.
THEOREM RestoresStayBelowThreshold == Spec => []RecoveriesBounded
<1>1. IInv => RecoveriesBounded
  <2> SUFFICES ASSUME IInv PROVE restores < Threshold
    BY DEF RecoveriesBounded
  <2>1. restores + Pending(World) < Threshold /\ restores \in Nat
    BY DEF IInv, WorldOK, Sound, Budget, RestOK
  <2>2. PICK p \in {0, 1} : p = Pending(World)
    BY DEF Pending
  <2>3. Threshold \in Nat
    BY Parameters
  <2> QED
    BY <2>1, <2>2, <2>3
<1> QED
  BY <1>1, InvariantHolds, PTL

\* A service that says it is reapplying has a recovery queued that is validated, not locked
\* and has an intent.
THEOREM ReapplyingContinues == Spec => []ReapplyingHasContinuation
<1>1. IInv => ReapplyingHasContinuation
  BY WorldIs DEF IInv, WorldOK, Sound, Queued, ReapplyingHasContinuation
<1> QED
  BY <1>1, InvariantHolds, PTL

\* What a standby or driver restore writes is what was written successfully last.
THEOREM RestoresWriteWhatStands == Spec => RestoreWritesLastApplied
<1> DEFINE A == write.by = "none" /\ write'.by \in {"standby", "driver"} => mem.intent = good
<1>1. ASSUME IInv, Next PROVE A
  <2> SUFFICES ASSUME write.by = "none", write'.by \in {"standby", "driver"}
               PROVE  mem.intent = good
    OBVIOUS
  <2>1. NoWrite.by \notin {"standby", "driver"} /\ write' # write
    BY DEF NoWrite
  <2>2. pc.client \notin {"standby", "driver"}
    BY <1>1, StateParts DEF Pcs, Clients
  <2>3. /\ Queued(World) /\ PlaceOK /\ Known(World, good)
    BY <1>1 DEF IInv, WorldOK, Sound
  <2>4. StandbyAttempt \/ DriverAttempt
    <3>1. ~LogonAttempt
      BY <2>1 DEF LogonAttempt, Begin
    <3>2. ~ClientRun
      BY <2>1, <2>2 DEF ClientRun, Begin
    <3>3. ~ApplyEnd /\ ~ResetEnd /\ ~AutomaticEnd
      BY <2>1 DEF ApplyEnd, ResetEnd, AutomaticEnd
    <3>4. ~FailureStart /\ ~DemandStart /\ ~ \E n \in DOMAIN helper : HelperStart(n)
      BY <2>1 DEF FailureStart, DemandStart, OrdinaryStart, HelperStart, Start
    <3>5. ~Kill /\ ~MainJoin
      BY <2>1 DEF Kill, MainJoin, Exit
    <3>6. ~Poisoned
      BY <2>1 DEF Poisoned, Emergency, Exit
    <3>7. ~MainClaim
      BY <2>1 DEF MainClaim, Exit
    <3>8. ~ \E n \in DOMAIN helper : HelperGivesUp(n) \/ HelperLost(n)
      BY <2>1 DEF HelperGivesUp, HelperLost
    <3>9. WorkerStep => StandbyAttempt \/ DriverAttempt
      BY <2>1, <3>1, <3>3 DEF WorkerStep, WorkerStop, WorkerDrain, WorkerRemoval, WorkerArrival,
         WorkerGate, LookLogon, LookStandby, LookDriver, Look, LateLockout, WorkerFinish
    <3>10. ~MainStep
      BY <2>1, <3>5, <3>7 DEF MainStep, MainWorkerDead, MainCue, MainEpoch, MainRequest, MainWake
    <3>11. ~Environment
      BY <2>1, <3>4, <3>5, <3>6, <3>8 DEF Environment, ClientAsk, Publish, Mature, Logon, Standby,
         Remove, Arrive, Nudge, Fault, ExternalStop, WorkerDies
    <3>12. ~ClientStep /\ ~HelperStep
      BY <3>2, <3>3, <3>4, <3>8 DEF ClientStep, HelperStep
    <3> QED
      BY <1>1, <3>4, <3>9, <3>10, <3>11, <3>12 DEF Next
  <2>5. CASE StandbyAttempt
    <3>1. mem.intent # 0 /\ StandbyMayWrite(life)
      BY <2>1, <2>5 DEF StandbyAttempt
    <3>2. ~mem.reapply
      BY <2>3, <3>1, WorldIs DEF Queued, StandbyMayWrite
    <3> QED
      BY <2>3, <3>1, <3>2, WorldIs DEF Known
  <2>6. CASE DriverAttempt
    <3>1. mem.intent # 0 /\ disk.proof # "none"
      BY <2>1, <2>6 DEF DriverAttempt, ProofAllows
    <3> QED
      BY <2>3, <3>1, WorldIs DEF Known
  <2> QED
    BY <2>4, <2>5, <2>6
<1>2. IInv /\ [Next]_vars => [A]_vars
  BY <1>1
<1>3. Spec => [][A]_vars
  BY <1>2, InvariantHolds, PTL DEF Spec
<1> QED
  BY <1>3 DEF RestoreWritesLastApplied

=============================================================================
