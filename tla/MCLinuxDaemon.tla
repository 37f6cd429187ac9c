--------------------------- MODULE MCLinuxDaemon ---------------------------
(* Instances of LinuxDaemon for TLC.                                       *)
EXTENDS LinuxDaemon

ManualA == [oc |-> "a", fan |-> "manual"]
AutoA   == [oc |-> "a", fan |-> "auto"]
PlainB  == [oc |-> "b", fan |-> "none"]

ManualOnly    == {ManualA}
TwoRequests   == {ManualA, AutoA}
ThreeRequests == {ManualA, AutoA, PlainB}

PolicyNone       == [mode |-> "none", gpu |-> NoGpu, want |-> NoWant]
PolicyProfile(g) == [mode |-> "profile", gpu |-> g, want |-> ManualA]

NoPolicies  == {}
AllPolicies == {PolicyNone} \cup {PolicyProfile(g) : g \in Gpus}
=============================================================================
