-------------------------- MODULE MutationContract --------------------------
(***************************************************************************)
(* What a client may rely on when it asks the service for a hardware       *)
(* mutation under an operation ID: it is told of a success or of a failure *)
(* only when the service reached that verdict (or can never reach one),    *)
(* and of an unknown outcome otherwise.  Nothing here knows of messages,   *)
(* records, restarts or timeouts.                                          *)
(***************************************************************************)
CONSTANT Ops          \* operation IDs

VARIABLES
    verdicts,         \* the verdicts the service reached about each operation
    told              \* what its client reported

Verdicts == {"committed", "failed"}

TypeInvariant ==
    /\ verdicts \in [Ops -> SUBSET Verdicts]
    /\ told \in [Ops -> {"none", "success", "failure", "unknown"}]

Init ==
    /\ verdicts = [op \in Ops |-> {}]
    /\ told = [op \in Ops |-> "none"]

\* An operation reported as failed without a verdict is dead: it can never run.
Decide(op) ==
    /\ told[op] = "failure" => verdicts[op] # {}
    /\ \E v \in Verdicts : verdicts' = [verdicts EXCEPT ![op] = @ \cup {v}]
    /\ UNCHANGED told

Tell(op) ==
    /\ told[op] = "none"
    /\ \/ /\ "committed" \in verdicts[op]
          /\ told' = [told EXCEPT ![op] = "success"]
       \/ /\ verdicts[op] = {} \/ "failed" \in verdicts[op]
          /\ told' = [told EXCEPT ![op] = "failure"]
       \/ told' = [told EXCEPT ![op] = "unknown"]
    /\ UNCHANGED verdicts

Next == \E op \in Ops : Decide(op) \/ Tell(op)

Spec == Init /\ [][Next]_<<verdicts, told>>
=============================================================================
