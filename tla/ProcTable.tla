----------------------------- MODULE ProcTable -----------------------------
(***************************************************************************)
(* The process table of the kernel and the operations the scheduler and    *)
(* the shell perform on it (kernel.c), as operators on one record k that   *)
(* groups the scheduling globals:                                          *)
(*                                                                         *)
(*   k.proc_table        the MAX_PROCESSES process control blocks          *)
(*   k.nr_procese        how many of them, from index 0, are in use        *)
(*   k.current           index of the scheduled process, -1 for none       *)
(*   k.slice             ticks the current process has had in its turn     *)
(*   k.preemptive_mode   round robin if TRUE, cooperative if FALSE         *)
(*                                                                         *)
(* Each operator stands for one function of kernel.c, or one stage of      *)
(* scheduler_tick.  A control block carries at least the fields id,        *)
(* remaining, state and wait_ticks; the field id is the identity of the    *)
(* process, which the code does not keep: there a process is known by its  *)
(* index, and the index changes when the table is compacted.  Modules that *)
(* extend this one may add fields; compaction moves them along.            *)
(*                                                                         *)
(* Operators with a suffix after an underscore (Reap_KeepsLast) are        *)
(* deliberate mistakes: PROJECT.json names each as the mutant of the       *)
(* operator it precedes, and TLC must then refute a property.              *)
(***************************************************************************)
EXTENDS Integers, FiniteSetsExt

CONSTANTS
  MAX_PROCESSES,  \* size of proc_table (10 in kernel.h)
  QUANTUM,        \* ticks in a turn under round robin (4 in kernel.h)
  YieldWait,      \* ticks a process waits after yield (3)
  DefaultWait,    \* ticks of a wait command that names none (10)
  BelowTable      \* the state a read of proc_table[-1] finds: the program's
                  \* image has some constant there (see StateAt)

States == {"UNUSED", "READY", "RUNNING", "WAITING", "TERMINATED"}

ASSUME TableAssumption ==
  /\ MAX_PROCESSES \in Nat \ {0}
  /\ QUANTUM \in Nat \ {0}
  /\ YieldWait \in Nat \ {0}
  /\ DefaultWait \in Nat \ {0}
  /\ BelowTable \in States

Slots == 0 .. MAX_PROCESSES - 1

Runnable(state) == state \in {"READY", "RUNNING"}

InUse(k) == 0 .. k.nr_procese - 1

(* The test "current >= 0 && current < nr_procese" the code makes before   *)
(* it uses current as an index.                                            *)
CurrentValid(k) == k.current \in InUse(k)

(* Mutant: the state of the current process is not tested.                 *)
CurrentRunning_AnyState(k) == CurrentValid(k)

CurrentRunning(k) ==
  /\ CurrentValid(k)
  /\ k.proc_table[k.current].state = "RUNNING"

----------------------------------------------------------------------------
(* C's remainder: it has the sign of the dividend.                         *)
CRem(a, n) == IF a < 0 THEN -((-a) % n) ELSE a % n

(* proc_table[idx].state for an index the code computes.  idx is -1 when   *)
(* pick_next_ready is called with from = -1 and more than one process: the *)
(* read is then outside the array and finds the constant BelowTable.       *)
StateAt(k, idx) == IF idx < 0 THEN BelowTable ELSE k.proc_table[idx].state

(* pick_next_ready: the first runnable index from "from" on, cyclically;   *)
(* -1 if the nr_procese indices it looks at hold none.                     *)
PickNextReady(k, from) ==
  LET idx(i) == CRem(from + i, k.nr_procese)
      hits   == {i \in InUse(k) : Runnable(StateAt(k, idx(i)))}
  IN  IF hits = {} THEN -1 ELSE idx(Min(hits))

(* Makes process next the current one, at the start of a turn.             *)
SwitchTo(k, next) ==
  [k EXCEPT !.current = next, !.proc_table[next].state = "RUNNING", !.slice = 0]

(* Mutant: a process whose wait has reached 0 is not woken.                *)
Awaken_TooLate(p) ==
  IF p.state = "WAITING" /\ p.wait_ticks > 0 THEN [p EXCEPT !.wait_ticks = @ - 1]
  ELSE p

(* One process of update_waiting: counts its wait down and wakes it at 0.  *)
Awaken(p) ==
  LET left == IF p.wait_ticks > 0 THEN p.wait_ticks - 1 ELSE p.wait_ticks
  IN  IF p.state = "WAITING"
      THEN [p EXCEPT !.wait_ticks = left,
                     !.state = IF left <= 0 THEN "READY" ELSE "WAITING"]
      ELSE p

UpdateWaiting(k) ==
  [k EXCEPT !.proc_table =
     [i \in Slots |-> IF i \in InUse(k) THEN Awaken(k.proc_table[i])
                                        ELSE k.proc_table[i]]]

HasReady(k) == \E i \in InUse(k) : Runnable(k.proc_table[i].state)

(* Mutant: index 0 is taken for "none".                                    *)
Dispatch_NotFirst(k) ==
  LET next == PickNextReady(k, k.current)
  IN  IF CurrentRunning(k) \/ next <= 0 THEN k ELSE SwitchTo(k, next)

(* The stage of scheduler_tick that makes sure the current process is one  *)
(* that runs, and picks another if not.  It may pick none.                 *)
Dispatch(k) ==
  LET next == PickNextReady(k, k.current)
  IN  IF CurrentRunning(k) \/ next < 0 THEN k ELSE SwitchTo(k, next)

(* The charge for one call of the current process's entry.                 *)
Charge(k) ==
  [k EXCEPT !.proc_table[k.current].remaining = @ - 1, !.slice = @ + 1]

(* Mutants of Reap: the block that falls free is not marked unused; the    *)
(* shift stops one block early; the last block is dropped without a shift. *)
Reap_KeepsLast(k) ==
  LET last == k.nr_procese - 1
  IN  [k EXCEPT !.proc_table = [i \in Slots |->
                   IF i \in k.current .. last - 1 THEN k.proc_table[i + 1]
                   ELSE k.proc_table[i]],
                !.nr_procese = last, !.slice = 0,
                !.current = IF last = 0 THEN -1 ELSE @ % last]

Reap_ShiftsTooFew(k) ==
  LET last == k.nr_procese - 1
  IN  [k EXCEPT !.proc_table = [i \in Slots |->
                   IF i = last THEN [k.proc_table[i] EXCEPT !.state = "UNUSED"]
                   ELSE IF i \in k.current .. last - 2 THEN k.proc_table[i + 1]
                   ELSE k.proc_table[i]],
                !.nr_procese = last, !.slice = 0,
                !.current = IF last = 0 THEN -1 ELSE @ % last]

Reap_DropsLast(k) ==
  LET last == k.nr_procese - 1
  IN  [k EXCEPT !.proc_table[last].state = "UNUSED",
                !.nr_procese = last, !.slice = 0,
                !.current = IF last = 0 THEN -1 ELSE @ % last]

(* A finished process leaves: the blocks above it move down by one, the    *)
(* last block in use is marked unused, and the process that took its index *)
(* continues (the first one, if it was the last of the table).             *)
Reap(k) ==
  LET last  == k.nr_procese - 1
      table == [i \in Slots |->
                  IF i = last THEN [k.proc_table[i] EXCEPT !.state = "UNUSED"]
                  ELSE IF i \in k.current .. last THEN k.proc_table[i + 1]
                  ELSE k.proc_table[i]]
      next  == k.current % last
  IN  IF last = 0
      THEN [k EXCEPT !.proc_table = table, !.nr_procese = 0, !.current = -1]
      ELSE [k EXCEPT !.proc_table =
                       [table EXCEPT ![next].state =
                          IF @ = "READY" THEN "RUNNING" ELSE @],
                     !.nr_procese = last, !.current = next, !.slice = 0]

(* Mutant: the search for the next process starts at the first index.      *)
Rotate_FromFirst(k) ==
  LET parked == [k EXCEPT !.proc_table[k.current].state = "READY"]
  IN  SwitchTo(parked, PickNextReady(parked, 0))

(* The end of a full turn under round robin.                               *)
Rotate(k) ==
  LET parked == [k EXCEPT !.proc_table[k.current].state = "READY"]
      next   == PickNextReady(parked, (k.current + 1) % k.nr_procese)
  IN  IF next >= 0 THEN SwitchTo(parked, next) ELSE [parked EXCEPT !.slice = 0]

(* Mutant: the quantum ends a tick late.                                   *)
AfterEntry_LateQuantum(k) ==
  LET charged == Charge(k)
  IN  IF charged.proc_table[charged.current].remaining <= 0 THEN Reap(charged)
      ELSE IF charged.preemptive_mode /\ charged.slice > QUANTUM
           THEN Rotate(charged)
           ELSE charged

(* What scheduler_tick does after entry() has returned.                    *)
AfterEntry(k) ==
  LET charged == Charge(k)
  IN  IF charged.proc_table[charged.current].remaining <= 0 THEN Reap(charged)
      ELSE IF charged.preemptive_mode /\ charged.slice >= QUANTUM
           THEN Rotate(charged)
           ELSE charged

----------------------------------------------------------------------------
(* yield: in cooperative mode, the current process waits YieldWait ticks.  *)
Yield(k) ==
  LET parked == IF k.proc_table[k.current].state = "RUNNING"
                THEN [k EXCEPT !.proc_table[k.current].state = "WAITING",
                               !.proc_table[k.current].wait_ticks = YieldWait]
                ELSE k
      next   == PickNextReady(parked, (k.current + 1) % k.nr_procese)
  IN  IF k.preemptive_mode \/ ~CurrentValid(k) THEN k
      ELSE IF next >= 0 THEN SwitchTo(parked, next)
      ELSE [parked EXCEPT !.slice = 0]

(* The mark kill_process leaves on a process; the scheduler reaps it when  *)
(* it has run once more.  The descriptors kill_process closes first belong *)
(* to the modules that add descriptors to the block.                       *)
Kill(k, pid) ==
  IF pid \in InUse(k) THEN [k EXCEPT !.proc_table[pid].remaining = 0] ELSE k

(* wait_process; ticks = 0 (no number on the command line) stands for      *)
(* DefaultWait.                                                            *)
Wait(k, pid, ticks) ==
  IF pid \in InUse(k) /\ k.proc_table[pid].state \notin {"TERMINATED", "UNUSED"}
  THEN [k EXCEPT !.proc_table[pid].state = "WAITING",
                 !.proc_table[pid].wait_ticks = IF ticks <= 0 THEN DefaultWait ELSE ticks]
  ELSE k

(* Mutant: the bound of the table is tested too late.                      *)
Add_PastTheEnd(k, block) ==
  IF k.nr_procese <= MAX_PROCESSES
  THEN [k EXCEPT !.proc_table[k.nr_procese] = block, !.nr_procese = @ + 1]
  ELSE k

(* The part of load_and_run between cli and sti: a new control block takes *)
(* the first free index, if there is one.                                  *)
Add(k, block) ==
  IF k.nr_procese < MAX_PROCESSES
  THEN [k EXCEPT !.proc_table[k.nr_procese] = block, !.nr_procese = @ + 1]
  ELSE k

=============================================================================
