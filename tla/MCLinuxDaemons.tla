--------------------------- MODULE MCLinuxDaemons ---------------------------
(* Two machines for one Linux daemon: one whose second adapter is never     *)
(* found, so with one adapter in use, with the bounds and faults of the     *)
(* configuration, and one with two adapters, every startup policy and       *)
(* stores that work.  A behaviour is about one of the machines.             *)
EXTENDS MCLinuxDaemon

CONSTANT SecondGpu

ASSUME SecondGpuAssumption == SecondGpu \in Gpus

VARIABLE adapters   \* those in use on the machine this behaviour is about

TwoGpuDaemon == INSTANCE LinuxDaemon WITH
    Requests <- ThreeRequests, StartupPolicies <- AllPolicies,
    MaxCrashes <- 2, StoreFaults <- FALSE

\* With one adapter, the second is neither found nor asked for
OnThisMachine == adapters = 1 => SecondGpu \notin {sel, op.gpu}

\* Bound: with one adapter four deaths, with two two deaths, or one less and a second boot
WithinBound == crashes + boot <= IF adapters = 1 THEN 5 ELSE 3

MCInit == Init /\ adapters \in 1..2

MCNext ==
    /\ \/ adapters = 1 /\ Next
       \/ adapters = 2 /\ TwoGpuDaemon!Next
    /\ UNCHANGED adapters
    /\ OnThisMachine' /\ WithinBound'

MCSpec == MCInit /\ [][MCNext]_<<vars, adapters>>

\* On the machine whose stores work, an uncertain outcome leaves nothing a restart would
\* replay (UncertaintyIsDurable of LinuxDaemon)
UncertaintyIsDurableOnWorkingStores == adapters = 2 => UncertaintyIsDurable
=============================================================================
