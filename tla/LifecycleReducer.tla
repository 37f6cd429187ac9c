------------------------- MODULE LifecycleReducer -------------------------
(***************************************************************************)
(* The Windows service's lifecycle reducer: which automatic work is        *)
(* pending after a logon, a resume from standby or a driver restart, and   *)
(* which of it may write.  One logon identity is enough: `done' says that  *)
(* its profile is applied (lastAppliedLogonIdentity) and the generations   *)
(* only tell identities apart.  `armed' is a suspend not yet resumed: the  *)
(* suspend generation differs from the resumed one exactly then.           *)
(***************************************************************************)
EXTENDS Naturals

State == [stopped : BOOLEAN, locked : BOOLEAN, armed : BOOLEAN, done : BOOLEAN,
          logon : BOOLEAN, logonIssued : BOOLEAN,
          standby : BOOLEAN, standbyIssued : BOOLEAN,
          driver : BOOLEAN, driverIssued : BOOLEAN]

Quiet == [stopped |-> FALSE, locked |-> FALSE, armed |-> FALSE, done |-> FALSE,
          logon |-> FALSE, logonIssued |-> FALSE,
          standby |-> FALSE, standbyIssued |-> FALSE,
          driver |-> FALSE, driverIssued |-> FALSE]

Dropped(s) == [s EXCEPT !.logon = FALSE, !.standby = FALSE, !.driver = FALSE]

\* A stopped reducer ignores every event but STOP.
Unless(s, t) == IF s.stopped THEN s ELSE t

StopEvent(s) == [Dropped(s) EXCEPT !.stopped = TRUE]

LockoutEvent(s) == Unless(s, [Dropped(s) EXCEPT !.locked = TRUE])

SupersedeEvent(s) ==
    Unless(s, [Dropped(s) EXCEPT !.logonIssued = FALSE, !.standbyIssued = FALSE,
                                 !.driverIssued = FALSE])

LogonEvent(s) ==
    Unless(s, IF s.locked \/ s.done THEN s
              ELSE [s EXCEPT !.logon = TRUE, !.logonIssued = s.logon /\ s.logonIssued])

SuspendEvent(s) == Unless(s, [s EXCEPT !.armed = TRUE])

\* A confirmed driver recovery dominates the standby restore.
ResumeEvent(s) ==
    Unless(s, IF s.locked \/ ~s.armed THEN s
              ELSE [s EXCEPT !.armed = FALSE,
                             !.standby = @ \/ ~s.driver,
                             !.standbyIssued = @ /\ s.driver])

DriverEvent(s) ==
    Unless(s, IF s.locked THEN s
              ELSE [s EXCEPT !.driver = TRUE, !.driverIssued = s.driver /\ s.driverIssued,
                             !.standby = FALSE, !.standbyIssued = FALSE])

\* Whether a write may start: the write-started event of each kind of work.
LogonMayWrite(s) == s.logon /\ ~s.logonIssued /\ ~s.locked /\ ~s.stopped
StandbyMayWrite(s) == s.standby /\ ~s.standbyIssued /\ ~s.driver /\ ~s.locked /\ ~s.stopped
DriverMayWrite(s) == s.driver /\ ~s.driverIssued /\ ~s.locked /\ ~s.stopped

\* The write-finished events.  A write that was attempted is terminal.
LogonFinished(s, success) ==
    Unless(s, IF ~(s.logon /\ s.logonIssued) THEN s
              ELSE [s EXCEPT !.logon = FALSE, !.logonIssued = FALSE, !.done = @ \/ success])
StandbyFinished(s) ==
    Unless(s, IF ~(s.standby /\ s.standbyIssued) THEN s
              ELSE [s EXCEPT !.standby = FALSE, !.standbyIssued = FALSE])
DriverFinished(s) ==
    Unless(s, IF ~(s.driver /\ s.driverIssued) THEN s
              ELSE [s EXCEPT !.driver = FALSE, !.driverIssued = FALSE])
=============================================================================
