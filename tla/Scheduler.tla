----------------------------- MODULE Scheduler -----------------------------
(***************************************************************************)
(* The process scheduler: the timer interrupt (idt.c, scheduler_tick of    *)
(* kernel.c) against the operations of kernel.c that run with interrupts   *)
(* off - load_and_run's table update, kill and wait between cli and sti,   *)
(* yield inside int 0x80 - and the one-store commands preempt and coop.    *)
(* The gates are interrupt gates, and a program's entry() is called by the *)
(* tick itself, so a tick is one step whatever the program does in it.     *)
(*                                                                         *)
(* The callers are open here: any operation may be called at any moment.   *)
(* What the shell does between operations, with interrupts on, and how     *)
(* this breaks the table, is the subject of module Shell.                  *)
(***************************************************************************)
EXTENDS ProcTable

CONSTANTS
  LoadTicks,    \* ticks load_and_run gives a program (50)
  WaitArgs,     \* numbers a user types after "wait <pid>", 0 for none
  Commands,     \* the commands a user types
  MaxCommands   \* bound: how many commands are typed in a run

ASSUME SchedulerAssumption ==
  /\ LoadTicks \in Nat \ {0}
  /\ WaitArgs \subseteq Nat
  /\ Commands \subseteq {"exec", "kill", "wait", "yield", "preempt", "coop"}
  /\ MaxCommands \in Nat

VARIABLES
  sched,   \* the scheduling globals of kernel.c (see ProcTable)
  typed,   \* commands typed so far
  ran      \* id of the process whose entry the last step called, 0 for none

vars == <<sched, typed, ran>>

Ids == 1 .. MaxCommands

(* The processes in the table.                                             *)
Live(k) == {k.proc_table[i].id : i \in InUse(k)}

(* The index of a process in the table.                                    *)
IndexOf(k, id) == CHOOSE i \in InUse(k) : k.proc_table[i].id = id

Process(k, id) == k.proc_table[IndexOf(k, id)]

(* A block of the zeroed table.                                            *)
NoProcess == [id |-> 0, remaining |-> 0, state |-> "UNUSED", wait_ticks |-> 0]

Init ==
  /\ sched = [proc_table |-> [i \in Slots |-> NoProcess], nr_procese |-> 0,
              current |-> -1, slice |-> 0, preemptive_mode |-> TRUE]
  /\ typed = 0
  /\ ran = 0

----------------------------------------------------------------------------
(* The timer interrupt.                                                    *)

TickEmpty ==
  /\ sched.nr_procese = 0
  /\ ran' = 0
  /\ UNCHANGED <<sched, typed>>

(* No process can run: all of them wait.                                   *)
TickIdle ==
  /\ sched.nr_procese > 0
  /\ ~HasReady(UpdateWaiting(sched))
  /\ sched' = UpdateWaiting(sched)
  /\ ran' = 0
  /\ UNCHANGED typed

(* Some process can run, but pick_next_ready does not find it.             *)
TickNoPick ==
  /\ sched.nr_procese > 0
  /\ HasReady(UpdateWaiting(sched))
  /\ ~CurrentRunning(Dispatch(UpdateWaiting(sched)))
  /\ sched' = UpdateWaiting(sched)
  /\ ran' = 0
  /\ UNCHANGED typed

(* entry() of the current process returns, having made no system call that *)
(* matters to the scheduler, or having called exit: kill_process(current). *)
EntryReturns(k) == k
EntryExits(k) == Kill(k, k.current)

TickRun ==
  \E k \in {Dispatch(UpdateWaiting(sched))} :
      /\ sched.nr_procese > 0
      /\ HasReady(UpdateWaiting(sched))
      /\ CurrentRunning(k)
      /\ ran' = k.proc_table[k.current].id
      /\ \E after \in {EntryReturns(k), EntryExits(k)} : sched' = AfterEntry(after)
      /\ UNCHANGED typed

Tick == TickEmpty \/ TickIdle \/ TickNoPick \/ TickRun

----------------------------------------------------------------------------
(* The operations of the shell.                                            *)

Type(cmd) ==
  /\ cmd \in Commands
  /\ typed < MaxCommands
  /\ typed' = typed + 1
  /\ ran' = 0

LoadAndRun ==
  /\ Type("exec")
  /\ sched' = Add(sched, [id |-> typed + 1, remaining |-> LoadTicks,
                          state |-> "READY", wait_ticks |-> 0])

KillProcess ==
  /\ Type("kill")
  /\ \E pid \in Slots : sched' = Kill(sched, pid)

WaitProcess ==
  /\ Type("wait")
  /\ \E pid \in Slots, ticks \in WaitArgs : sched' = Wait(sched, pid, ticks)

SysYield ==
  /\ Type("yield")
  /\ sched' = Yield(sched)

SetPreemptive ==
  /\ Type("preempt")
  /\ sched' = [sched EXCEPT !.preemptive_mode = TRUE]

SetCooperative ==
  /\ Type("coop")
  /\ sched' = [sched EXCEPT !.preemptive_mode = FALSE]

Command == \/ LoadAndRun \/ KillProcess \/ WaitProcess
           \/ SysYield \/ SetPreemptive \/ SetCooperative

Next == Tick \/ Command

Spec == Init /\ [][Next]_vars

(* The timer interrupts for ever; no one has to type anything.             *)
FairSpec == Spec /\ WF_vars(Tick)

----------------------------------------------------------------------------
Blocks == [id : Nat, remaining : Int, state : States, wait_ticks : Nat]

Tables == [proc_table : [Slots -> Blocks],
           nr_procese : 0 .. MAX_PROCESSES,
           current : -1 .. MAX_PROCESSES - 1,
           slice : Nat,
           preemptive_mode : BOOLEAN]

TypeOK ==
  /\ sched \in Tables
  /\ typed \in 0 .. MaxCommands
  /\ ran \in Nat

(* The blocks in use are exactly those below nr_procese: kernel.c decides  *)
(* by the index alone in some places and by the state in others.  No block *)
(* stays TERMINATED: the tick that sets that state also removes the block. *)
Compact(k) ==
  /\ \A i \in InUse(k) : k.proc_table[i].state \in {"READY", "RUNNING", "WAITING"}
  /\ \A i \in Slots \ InUse(k) : k.proc_table[i].state = "UNUSED"

(* At most one process is RUNNING, and current names it.                   *)
OneRunning(k) ==
  \A i \in Slots : k.proc_table[i].state = "RUNNING" => i = k.current

(* current is -1 or the index of a block in use: scheduler_tick uses it as *)
(* an index after entry() without testing it again.                        *)
CurrentInTable(k) == k.current \in -1 .. k.nr_procese - 1

(* The table is consistent between any two operations.                     *)
TableConsistent == Compact(sched) /\ OneRunning(sched) /\ CurrentInTable(sched)

(* Compaction neither loses nor duplicates a process: the processes in the *)
(* table have different identities.                                        *)
Distinct(k) ==
  \A i, j \in InUse(k) : k.proc_table[i].id = k.proc_table[j].id => i = j

NoDuplicates == Distinct(sched)

(* Under round robin no process keeps the processor past its quantum: a    *)
(* tick that ran a process leaves less than QUANTUM ticks on the turn.     *)
QuantumRespected ==
  ran # 0 /\ sched.preemptive_mode /\ sched.nr_procese > 0 => sched.slice < QUANTUM

(* A process that has more than one tick to wait does not run in this      *)
(* tick, whether wait, yield or a compaction that moved current on to it   *)
(* brought about that it waits.                                            *)
WaitersDoNotRun ==
  [][\A i \in InUse(sched) :
       (sched.proc_table[i].state = "WAITING" /\ sched.proc_table[i].wait_ticks > 1)
         => ran' # sched.proc_table[i].id]_vars

(* Every process leaves the table, for each has a budget of ticks and the  *)
(* scheduler gives every one of them its turn, in either mode.             *)
EveryProcessEnds == \A id \in Ids : id \in Live(sched) ~> id \notin Live(sched)

=============================================================================
