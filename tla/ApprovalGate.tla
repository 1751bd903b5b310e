---------------------------- MODULE ApprovalGate ----------------------------
(***************************************************************************)
(* What the approval gate of executions promises, without queues, workers, *)
(* processes or network: a submitted execution is either queued at once    *)
(* (risk LOW) or waits for one decision (risk MEDIUM or HIGH), the decision *)
(* is taken once and only expires after its deadline, and the agent starts *)
(* an execution only when it was queued or approved.                        *)
(***************************************************************************)
CONSTANTS
    Executions,     \* the executions (DPedido rows of classes -301, -302, -303)
    Gated           \* those the risk gate classified MEDIUM or HIGH

VARIABLES
    gate,           \* the decision state of each execution
    late,           \* the executions whose approval deadline has passed
    started         \* the executions the agent has started at least once

vars == <<gate, late, started>>

Gates == {"none", "queued", "awaiting", "approved", "rejected", "expired"}
Clear == {"queued", "approved"}

TypeOK ==
    /\ gate \in [Executions -> Gates]
    /\ late \subseteq Executions
    /\ started \subseteq Executions

Init ==
    /\ gate = [e \in Executions |-> "none"]
    /\ late = {}
    /\ started = {}

Submit(e) ==
    /\ gate[e] = "none"
    /\ gate' = [gate EXCEPT ![e] = IF e \in Gated THEN "awaiting" ELSE "queued"]
    /\ UNCHANGED <<late, started>>

DeadlinePasses(e) ==
    /\ gate[e] = "awaiting"
    /\ late' = late \cup {e}
    /\ UNCHANGED <<gate, started>>

Decide(e) ==
    /\ gate[e] = "awaiting"
    /\ \E verdict \in {"approved", "rejected"} :
          gate' = [gate EXCEPT ![e] = verdict]
    /\ UNCHANGED <<late, started>>

\* The sweeper expires a whole batch in one statement.
Expire ==
    /\ \E S \in SUBSET {e \in late : gate[e] = "awaiting"} :
          gate' = [e \in Executions |-> IF e \in S THEN "expired" ELSE gate[e]]
    /\ UNCHANGED <<late, started>>

Start(e) ==
    /\ gate[e] \in Clear
    /\ started' = started \cup {e}
    /\ UNCHANGED <<gate, late>>

Next ==
    \/ \E e \in Executions : Submit(e) \/ DeadlinePasses(e) \/ Decide(e) \/ Start(e)
    \/ Expire

Spec == Init /\ [][Next]_vars
=============================================================================
