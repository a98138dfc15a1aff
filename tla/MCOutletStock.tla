---------------------------- MODULE MCOutletStock ----------------------------
(* Two outlets; an order of two units takes all of the ingredient there is. *)
EXTENDS OutletStock, TLC

Symmetric == Permutations(Requests)
==============================================================================
