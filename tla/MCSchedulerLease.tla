--------------------------- MODULE MCSchedulerLease ---------------------------
(* The outbox scheduler's numbers in units of five seconds. *)
EXTENDS SchedulerLease

MCInterval == 6     \* 30000 ms
MCTtl == 9          \* max(1.5 * 30000, 45000)
MCCronTtl == 11     \* 55000
==============================================================================
