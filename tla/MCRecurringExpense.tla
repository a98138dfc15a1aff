-------------------------- MODULE MCRecurringExpense --------------------------
(* The expense job's numbers in units of thirty seconds, rounded down.     *)
EXTENDS RecurringExpense

CONSTANT Ended   \* templates whose first due date is past their end date

MCInterval == 2     \* 60000 ms
MCTtl == 3          \* max(1.5 * 60000, 90000)
MCCronTtl == 1      \* 55000
Periods == [t \in Templates |-> IF t \in Ended THEN EndDate ELSE 1]
==============================================================================
