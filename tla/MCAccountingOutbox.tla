-------------------------- MODULE MCAccountingOutbox --------------------------
(* Instances of AccountingOutbox small enough for TLC. *)
EXTENDS AccountingOutbox, TLC

DrainSymmetry == Permutations(Drains)
==============================================================================
