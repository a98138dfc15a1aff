-------------------------- MODULE MCOrderSettlement --------------------------
(* Instances of OrderSettlement small enough for TLC. *)
EXTENDS OrderSettlement, TLC

MCFulfilment == {"pending", "served"}
PositiveTotals == {3}
KitchenIdle == {"pending"}
MCTotals == {0, 3}
ZeroTotal == {0}
AllCovered == {0}
SomeShort == {0, 1}
OneMention == {1}
TwoMentions == {1, 2}

(* A cancel whose status write is lost can be asked for again without end. *)
AtMostTwoReversals == \A o \in Orders : jobs[o].reversal <= 2

RowSymmetry == Permutations(Splits) \cup Permutations(Returns) \cup Permutations(Workers)
==============================================================================
