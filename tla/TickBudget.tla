----------------------------- MODULE TickBudget -----------------------------
(***************************************************************************)
(* What the scheduler promises, without tables, indices, states or turns:  *)
(* every process that was admitted has a budget of ticks, a tick serves at *)
(* most one process and takes exactly one tick from its budget alone, and  *)
(* a process leaves when it is served for the last time - its budget is    *)
(* spent or it exits - and never otherwise.  Condemning a process takes    *)
(* the rest of its budget; it leaves when it is served once more.          *)
(***************************************************************************)
EXTENDS Integers

CONSTANTS Id,      \* identities of processes
          Budget   \* ticks a process is admitted with

VARIABLE left      \* the processes present, with what is left of their budgets

Present == DOMAIN left

Without(id) == [p \in Present \ {id} |-> left[p]]

Init == left = [p \in {} |-> 0]

Admit(id) ==
  /\ id \notin Present
  /\ left' = [p \in Present \cup {id} |-> IF p = id THEN Budget ELSE left[p]]

Serve(id) ==
  /\ id \in Present
  /\ left[id] > 1
  /\ left' = [left EXCEPT ![id] = @ - 1]

ServeLast(id) ==
  /\ id \in Present
  /\ left' = Without(id)

Condemn(id) ==
  /\ id \in Present
  /\ left' = [left EXCEPT ![id] = 0]

Next == \E id \in Id : Admit(id) \/ Serve(id) \/ ServeLast(id) \/ Condemn(id)

Spec == Init /\ [][Next]_left

=============================================================================
