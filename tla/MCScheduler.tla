---------------------------- MODULE MCScheduler ----------------------------
(***************************************************************************)
(* Scheduler for TLC, and its refinement of TickBudget: a process is       *)
(* present while it has a block in use, and its budget is the field        *)
(* remaining of that block.                                                *)
(***************************************************************************)
EXTENDS Scheduler

Budgets == INSTANCE TickBudget WITH
  Id <- Ids, Budget <- LoadTicks,
  left <- [id \in Live(sched) |-> Process(sched, id).remaining]

(* A tick takes one tick from the process whose entry it called and from   *)
(* no other, and compaction removes the process that is spent and no other *)
(* (the whole of Scheduler implements TickBudget).                         *)
ChargesTheOneThatRan == Budgets!Spec

=============================================================================
