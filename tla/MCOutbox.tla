------------------------------- MODULE MCOutbox ------------------------------
(* The document of one transaction for TLC.                                *)
EXTENDS Outbox, TLC
=============================================================================
