----------------------------- MODULE MCTaskLock -----------------------------
(* TaskLock on a small instance: the cfg file chooses tasks and users.     *)
EXTENDS TaskLock, TLC

(* Employees are interchangeable.  RequestsEnd and the fairness name       *)
(* requests, which are not permuted: they read the same in every state     *)
(* that differs only by the names of the employees, so that a cycle of     *)
(* representatives stands for a cycle of the system.                       *)
Symmetry == Permutations(Users)
=============================================================================
