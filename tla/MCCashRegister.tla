---------------------------- MODULE MCCashRegister ----------------------------
(* The store's cash registers, instantiated by CashRegister.cfg. *)
EXTENDS CashRegister, TLC

Symmetry == Permutations(Asks)
===============================================================================
