-------------------------- MODULE MCDriverRecovery --------------------------
(* What is left alone must not stay so: the Windows service across driver   *)
(* faults, and the Linux daemon with a fan that it has stranded.  They share *)
(* no state, so a behaviour exercises one of them while the other stays as  *)
(* it was started.                                                          *)
EXTENDS DriverRecovery

VARIABLES boot, hw, dRec, dGuard, dMarker, dPolicy, daemonPc, op, ready, sel, active, uncertain,
          guard, mk, deferred, policy, startWrites, deaths, ops, crashes,
          exercised   \* the program this behaviour is about

daemonVars == <<boot, hw, dRec, dGuard, dMarker, dPolicy, daemonPc, op, ready, sel, active,
                uncertain, guard, mk, deferred, policy, startWrites, deaths, ops, crashes>>

\* One adapter; the daemon dies three times, its records and the backend may be
\* unreadable at any start; stores and writes work
Daemon == INSTANCE LinuxDaemon WITH
    Gpus <- {"gpu"}, NoGpu <- "no gpu", Profiles <- {"a"},
    Requests <- {[oc |-> "a", fan |-> "manual"], [oc |-> "a", fan |-> "auto"]},
    StartupPolicies <- {}, MaxStartAttempts <- 3, MaxHandbacks <- 2,
    MaxBoots <- 1, MaxOps <- 2, MaxCrashes <- 3,
    StoreFaults <- FALSE, DirSyncFaults <- FALSE, ReadFaults <- TRUE,
    BackendFaults <- TRUE, HardwareFaults <- FALSE,
    pc <- daemonPc

MCInit == Init /\ Daemon!Init /\ exercised \in {"service", "daemon"}

MCNext ==
    \/ exercised = "service" /\ Next /\ UNCHANGED <<daemonVars, exercised>>
    \/ exercised = "daemon" /\ Daemon!Next /\ UNCHANGED <<vars, exercised>>

\* No fair action is enabled in an initial state: the program that is not exercised owes
\* no step
MCSpec == MCInit /\ [][MCNext]_<<vars, daemonVars, exercised>> /\ Fairness /\ Daemon!Fairness

\* A manual fan does not stay without anybody tracking the temperature (LinuxDaemon)
StrandedFanIsResolved == Daemon!StrandedFanIsResolved
=============================================================================
