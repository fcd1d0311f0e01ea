--------------------------- MODULE MCServiceTasks ---------------------------
(* Service tasks for TLC: the cfg files give the instances.                *)
EXTENDS ServiceTasks, TLC
=============================================================================
