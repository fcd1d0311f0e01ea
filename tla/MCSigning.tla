------------------------------ MODULE MCSigning ------------------------------
(* Two stages of one transaction for TLC.                                  *)
EXTENDS Signing, TLC
=============================================================================
