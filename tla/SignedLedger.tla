---------------------------- MODULE SignedLedger -----------------------------
(***************************************************************************)
(* What the integrity chain of a transaction promises: a list of the       *)
(* signed contents of its stages that only grows at its end, in which a    *)
(* stage never appears with two contents.                                  *)
(***************************************************************************)
EXTENDS Sequences

CONSTANTS Stages, Contents

VARIABLE ledger

Entry == [stage : Stages, content : Contents]

Agrees(e) == \A i \in DOMAIN ledger : ledger[i].stage = e.stage => ledger[i] = e

Init == ledger = <<>>

Sign == \E e \in Entry : Agrees(e) /\ ledger' = Append(ledger, e)

Spec == Init /\ [][Sign]_ledger
=============================================================================
