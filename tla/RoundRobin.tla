----------------------------- MODULE RoundRobin -----------------------------
(***************************************************************************)
(* Scheduler with a history variable, for the promise of round robin that  *)
(* is stronger than "every process ends": how long a process that could    *)
(* run is kept from running.  overtook[id][other] counts the ticks the     *)
(* scheduler gave to other since process id last ran or became runnable.   *)
(***************************************************************************)
EXTENDS Scheduler

VARIABLE overtook

RunnableIn(k, id) == id \in Live(k) /\ Runnable(Process(k, id).state)

RoundRobinInit == Init /\ overtook = [id \in Ids |-> [other \in Ids |-> 0]]

RoundRobinNext ==
  /\ Next
  /\ overtook' = [id \in Ids |-> [other \in Ids |->
       IF RunnableIn(sched, id) /\ RunnableIn(sched', id) /\ ran' # id
       THEN overtook[id][other] + (IF ran' = other THEN 1 ELSE 0)
       ELSE 0]]

RoundRobinSpec == RoundRobinInit /\ [][RoundRobinNext]_<<vars, overtook>>

(* In preemptive mode no process has more than one turn of QUANTUM ticks   *)
(* before every process that is runnable meanwhile has had its own,        *)
(* whatever waits, kills, arrivals and compactions do to the indices the   *)
(* turn goes by.  Waits of one tick are left out (WaitArgs):               *)
(* scheduler_tick counts such a wait down before it looks for a process,   *)
(* starts its search at the current index, and so "wait <current> 1" does  *)
(* not end a turn but begins it anew.                                      *)
NoSecondTurn == \A id, other \in Ids : overtook[id][other] <= QUANTUM

=============================================================================
