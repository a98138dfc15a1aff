--------------------------- MODULE MCExpenseJournal ---------------------------
(* Instances of ExpenseJournal small enough for TLC. *)
EXTENDS ExpenseJournal, TLC

MCSymmetry == Permutations(Requests) \cup Permutations(Workers)
==============================================================================
