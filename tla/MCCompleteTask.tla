--------------------------- MODULE MCCompleteTask ---------------------------
(* CompleteTask on small instances: the flow of tasks for the cfg files.   *)
EXTENDS CompleteTask, TLC

CONSTANTS t1, t2

(* No task waits for another: parallel branches. *)
Parallel == [t \in Tasks |-> {}]

(* t2 comes after t1. *)
Sequence == [t \in Tasks |-> IF t = t2 THEN {t1} ELSE {}]

Symmetry == Permutations(Requests) \cup Permutations(Users)
=============================================================================
