------------------------ MODULE MCExecutionLifecycle ------------------------
(* Instances of ExecutionLifecycle for TLC.                                *)
EXTENDS ExecutionLifecycle, TLC

CONSTANTS e1, e2, w1, w2, c1, c2, p1, p2

OneProject == [e \in Executions |-> p1]
OwnProject == [e \in Executions |-> IF e = e1 THEN p1 ELSE p2]

\* The workers are alike, and no property names one.
WorkerSymmetry == Permutations(Workers)
=============================================================================
