------------------------------ MODULE MCSessions ------------------------------
(* The sessions of one employee for TLC.  Requests are interchangeable, and *)
(* only safety is checked.                                                  *)
EXTENDS Sessions, TLC
Symmetry == Permutations(Requests)
=============================================================================
