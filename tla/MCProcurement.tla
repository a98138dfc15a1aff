---------------------------- MODULE MCProcurement ----------------------------
(* A line of one unit, of which the tolerance of ten percent allows two. *)
EXTENDS Procurement, TLC

Symmetric == Permutations(Receipts) \cup Permutations(Returns) \cup Permutations(Requests)
==============================================================================
