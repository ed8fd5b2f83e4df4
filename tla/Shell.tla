------------------------------- MODULE Shell -------------------------------
(***************************************************************************)
(* The shell (shell_loop, execute_pipeline, spawn_pipeline_process of      *)
(* kernel.c) with interrupts on, against the timer interrupt, which runs   *)
(* the processes: their programs u1 and u2, their descriptors and their    *)
(* pipes.  What the shell does between cli and sti, or in int 0x80, is one *)
(* step; the rest is cut where a tick in between makes a difference: at    *)
(* every load and store of nr_procese and at every turn of a waiting loop  *)
(* (the build is -O0: nr_procese++ is a load, an addition and a store).    *)
(*                                                                         *)
(* A block has, beside the fields of Scheduler, the program its entry      *)
(* points to, its pipeline_tag and its descriptors 0 and 1.  Descriptors   *)
(* are the numbers of kernel.h: FD_NONE, FD_UART_IN, FD_UART_OUT, or       *)
(* 2 * pipe + end.                                                         *)
(***************************************************************************)
EXTENDS ProcTable, Sequences

CONSTANTS
  MAX_PIPES, PIPE_BUF_SIZE,
  MsgLen,       \* bytes u1 writes (38)
  ReadLen,      \* bytes u2 asks for (64)
  StageTicks,   \* ticks a stage of a pipeline is given (100)
  LoadTicks,    \* ticks load_and_run gives a program (50)
  DemoTicks,    \* ticks a process of the demo is given (10000)
  Pipelines,    \* the pipelines a user types: sequences of program names
  Commands,     \* the other commands a user types
  WaitArgs,     \* numbers a user types after "wait <pid>", 0 for none
  MaxCommands   \* bound: how many commands are typed in a run

ASSUME ShellAssumption ==
  /\ {MAX_PIPES, PIPE_BUF_SIZE, MsgLen, ReadLen} \subseteq Nat \ {0}
  /\ {StageTicks, LoadTicks, DemoTicks} \subseteq Nat \ {0}
  /\ \A p \in Pipelines : Len(p) \in 2 .. 4
  /\ WaitArgs \subseteq Nat
  /\ MaxCommands \in Nat
  /\ MAX_PROCESSES >= 3    \* demo fills three blocks

(* u2 takes what u1 writes in one read, and an empty pipe has room for it: *)
(* 38 bytes, of 64 and of 4096.                                            *)
ASSUME MessageFits == MsgLen <= ReadLen /\ MsgLen <= PIPE_BUF_SIZE

VARIABLES
  k,         \* the scheduling globals (see ProcTable)
  pool,      \* the pipes (see PipeFifo)
  pc,        \* where the shell is
  stages,    \* the pipeline it executes
  stage,     \* the index of the stage it is about to spawn, or has spawned
  pipe_fds,  \* the pipes of the pipeline
  nr_loaded, \* nr_procese as loaded by nr_procese++
  scan,      \* the index of the waiting loop
  target,    \* what the waiting loop looks for: a program, or "tagged"
  typed,     \* commands typed so far
  history    \* what the properties need to know of the past (see below)

shellVars == <<pc, stages, stage, pipe_fds, nr_loaded, scan, target, typed>>
vars == <<k, pool, shellVars, history>>

(* history.born     how many processes there have been: their identities   *)
(* history.ran      the processes whose entry has been called              *)
(* history.spawned  the stages of the current pipeline that have a block   *)
(* history.output   what processes wrote to the serial line since the      *)
(*                  current pipeline began, each byte as the process that  *)
(*                  wrote it first (0 for the serial line itself)          *)
(* history.torn     where a tick has come between two steps of the shell   *)
(*                  that belong together: see Torn                         *)
(* history.aborted  a pipeline was given up while its pipes were allocated *)

FD_NONE == -1
FD_UART_IN == -2
FD_UART_OUT == -3
FD_MAKE_PIPE(id, end) == 2 * id + end

IsPipe(fd) == fd >= 0
PipeId(fd) == fd \div 2
PipeEnd(fd) == fd % 2

Programs == {"u1", "u2"}

Fifo == INSTANCE PipeFifo WITH Bytes <- Nat, MaxTransfer <- ReadLen, reply <- 0

(* A block of the zeroed table: its descriptors read as pipe 0.            *)
NoBlock == [id |-> 0, remaining |-> 0, state |-> "UNUSED", wait_ticks |-> 0,
            entry |-> "none", pipeline_tag |-> FALSE, stdin |-> 0, stdout |-> 0]

Block(id, entry, ticks, tag, stdin, stdout) ==
  [id |-> id, remaining |-> ticks, state |-> "READY", wait_ticks |-> 0,
   entry |-> entry, pipeline_tag |-> tag, stdin |-> stdin, stdout |-> stdout]

Init ==
  /\ k = [proc_table |-> [i \in Slots |-> NoBlock], nr_procese |-> 0,
          current |-> -1, slice |-> 0, preemptive_mode |-> TRUE]
  /\ pool = [id \in 0 .. MAX_PIPES - 1 |->
               [used |-> FALSE, read_open |-> FALSE, write_open |-> FALSE,
                content |-> <<>>]]
  /\ pc = "prompt"
  /\ stages = <<>> /\ stage = 0 /\ pipe_fds = <<>> /\ nr_loaded = 0
  /\ scan = 0 /\ target = "tagged" /\ typed = 0
  /\ history = [born |-> 0, ran |-> {}, spawned |-> {}, output |-> <<>>,
                torn |-> {}, aborted |-> FALSE]

----------------------------------------------------------------------------
(* What a program does to the machine when its entry is called.  A machine *)
(* is a record [k, pool, output]; the process is the current one.          *)

This(m) == m.k.proc_table[m.k.current]

(* Mutant: a close frees the pipe although its other end is still open.    *)
CloseFd_BothEnds(ps, fd) ==
  IF IsPipe(fd)
  THEN Fifo!Closed(Fifo!Closed(ps, PipeId(fd), Fifo!ReadEnd), PipeId(fd), Fifo!WriteEnd)
  ELSE ps

(* close: the other end of a pipe stays open.                              *)
CloseFd(ps, fd) == IF IsPipe(fd) THEN Fifo!Closed(ps, PipeId(fd), PipeEnd(fd)) ELSE ps

(* kill_process: closes the descriptors and marks the process.             *)
KillProcess(m, pid) ==
  LET p == m.k.proc_table[pid]
  IN  IF pid \notin InUse(m.k) THEN m
      ELSE [m EXCEPT !.pool = CloseFd(CloseFd(@, p.stdin), p.stdout),
                     !.k = [Kill(@, pid) EXCEPT !.proc_table[pid].stdin = FD_NONE,
                                                !.proc_table[pid].stdout = FD_NONE]]

(* The system calls exit and write.                                        *)
SysExit(m) == KillProcess(m, m.k.current)

SysWrite(m, data) ==
  LET fd == This(m).stdout
  IN  IF fd = FD_UART_OUT THEN [m EXCEPT !.output = @ \o data]
      ELSE IF IsPipe(fd) THEN [m EXCEPT !.pool = Fifo!Written(@, PipeId(fd), data)]
      ELSE m

(* Mutant: u1 exits before it writes.                                      *)
RunU1_ExitsFirst(m) == SysWrite(SysExit(m), [j \in 1 .. MsgLen |-> This(m).id])

(* u1 writes its message and exits.                                        *)
RunU1(m) == SysExit(SysWrite(m, [j \in 1 .. MsgLen |-> This(m).id]))

(* u2 passes on what it reads and exits at the end of the data; with       *)
(* nothing to read it returns.                                             *)
RunU2(m, typedIn) ==
  LET fd   == This(m).stdin
      data == IF IsPipe(fd) THEN Fifo!ReadData(m.pool, PipeId(fd), ReadLen)
              ELSE IF fd = FD_UART_IN THEN typedIn ELSE <<>>
      n    == IF IsPipe(fd) THEN Fifo!ReadResult(m.pool, PipeId(fd), ReadLen)
              ELSE IF fd = FD_UART_IN THEN Len(typedIn) ELSE -1
      rest == IF IsPipe(fd)
              THEN [m EXCEPT !.pool = Fifo!AfterRead(@, PipeId(fd), ReadLen)]
              ELSE m
  IN  IF n > 0 THEN SysWrite(rest, data) ELSE IF n < 0 THEN SysExit(rest) ELSE m

(* The serial line has a byte waiting, or none.                            *)
Received == {<<>>, <<0>>}

(* The machines a call of the current process's entry may leave.           *)
EntryOutcomes(m) ==
  CASE This(m).entry = "u1" -> {RunU1(m)}
    [] This(m).entry = "u2" -> {RunU2(m, typedIn) : typedIn \in Received}
    [] OTHER -> {m}

(* What a tick at this point of the shell tears: it compacts the table     *)
(* while the shell holds an index of it or a copy of nr_procese, or uses   *)
(* current and slice while demo is setting them.                           *)
Torn(compacts) ==
  CASE pc \in {"load", "store"} /\ compacts -> {"spawn"}
    [] pc = "scan" /\ scan > 0 /\ compacts -> {"scan"}
    [] pc \in {"demo_current", "demo_slice"} -> {"demo"}
    [] OTHER -> {}

Interrupt ==
  /\ pc' = IF pc = "halted" THEN "scan" ELSE pc
  /\ UNCHANGED <<stages, stage, pipe_fds, nr_loaded, scan, target, typed>>

(* The timer interrupt that runs no process.                               *)
TickIdle ==
  /\ k.nr_procese = 0 \/ ~CurrentRunning(Dispatch(UpdateWaiting(k)))
  /\ k' = UpdateWaiting(k)
  /\ Interrupt
  /\ UNCHANGED <<pool, history>>

TickRun ==
  \E d \in {Dispatch(UpdateWaiting(k))} :
    /\ k.nr_procese > 0 /\ CurrentRunning(d)
    /\ \E m \in EntryOutcomes([k |-> d, pool |-> pool, output |-> history.output]) :
         /\ k' = AfterEntry(m.k)
         /\ pool' = m.pool
         /\ history' = [history EXCEPT
              !.output = m.output,
              !.ran = @ \cup {d.proc_table[d.current].id},
              !.torn = @ \cup Torn(k'.nr_procese < k.nr_procese)]
    /\ Interrupt

Tick == TickIdle \/ TickRun

----------------------------------------------------------------------------
(* The commands that are one step.                                         *)

Type(cmd) ==
  /\ pc = "prompt"
  /\ cmd \in Commands
  /\ typed < MaxCommands
  /\ typed' = typed + 1

Parameters == <<stages, stage, pipe_fds, nr_loaded, scan, target>>

KillCommand(pid) ==
  /\ Type("kill")
  /\ \E m \in {KillProcess([k |-> k, pool |-> pool, output |-> <<>>], pid)} :
       k' = m.k /\ pool' = m.pool
  /\ UNCHANGED <<pc, Parameters, history>>

WaitCommand ==
  /\ Type("wait")
  /\ \E pid \in Slots, ticks \in WaitArgs : k' = Wait(k, pid, ticks)
  /\ UNCHANGED <<pool, pc, Parameters, history>>

YieldCommand ==
  /\ Type("yield")
  /\ k' = Yield(k)
  /\ UNCHANGED <<pool, pc, Parameters, history>>

SetMode(cmd, preemptive) ==
  /\ Type(cmd)
  /\ k' = [k EXCEPT !.preemptive_mode = preemptive]
  /\ UNCHANGED <<pool, pc, Parameters, history>>

ModeCommand == SetMode("preempt", TRUE) \/ SetMode("coop", FALSE)

(* load_and_run; exec then waits for the program to be gone, whether or    *)
(* not there was room for it.                                              *)
ExecCommand(program) ==
  /\ Type("exec")
  /\ k' = Add(k, Block(history.born + 1, program, LoadTicks, FALSE,
                       FD_UART_IN, FD_UART_OUT))
  /\ history' = [history EXCEPT !.born = @ + 1]
  /\ pc' = "scan" /\ scan' = 0 /\ target' = program
  /\ UNCHANGED <<pool, stages, stage, pipe_fds, nr_loaded>>

(* demo fills blocks 0 to 2 while nr_procese is 0 and no tick looks at     *)
(* them; it shows them to the ticks before it sets current and slice.      *)
DemoBlocks ==
  [i \in Slots |-> IF i \in 0 .. 2
                   THEN Block(history.born + i + 1, "demo", DemoTicks, FALSE,
                              FD_UART_IN, FD_UART_OUT)
                   ELSE k.proc_table[i]]

DemoCommand ==
  /\ Type("demo")
  /\ k.nr_procese = 0
  /\ k' = [k EXCEPT !.proc_table = DemoBlocks, !.nr_procese = 3]
  /\ history' = [history EXCEPT !.born = @ + 3]
  /\ pc' = "demo_current"
  /\ UNCHANGED <<pool, Parameters>>

DemoCurrent ==
  /\ pc = "demo_current"
  /\ k' = [k EXCEPT !.current = 0]
  /\ pc' = "demo_slice"
  /\ UNCHANGED <<pool, Parameters, typed, history>>

DemoSlice ==
  /\ pc = "demo_slice"
  /\ k' = [k EXCEPT !.slice = 0]
  /\ pc' = "prompt"
  /\ UNCHANGED <<pool, Parameters, typed, history>>

----------------------------------------------------------------------------
(* execute_pipeline.                                                       *)

(* The n pipes of lowest number that are free, in the order of allocation, *)
(* or all there are.                                                       *)
FirstFree(n) ==
  {id \in Fifo!Unused(pool) : Cardinality({j \in Fifo!Unused(pool) : j < id}) < n}

PipelineCommand ==
  /\ pc = "prompt" /\ typed < MaxCommands /\ typed' = typed + 1
  /\ \E p \in Pipelines :
       LET ids == FirstFree(Len(p) - 1)
           all == Cardinality(ids) = Len(p) - 1
       IN  /\ stages' = p
           /\ \E fds \in [1 .. Cardinality(ids) -> ids] :
                /\ \A i, j \in DOMAIN fds : i < j => fds[i] < fds[j]
                /\ pipe_fds' = fds
           /\ pool' = [id \in DOMAIN pool |-> IF id \in ids THEN Fifo!Emptied ELSE pool[id]]
           /\ pc' = IF all THEN "spawn" ELSE "prompt"
           /\ history' = [history EXCEPT !.spawned = {}, !.output = <<>>,
                                         !.aborted = @ \/ ~all]
  /\ stage' = 1
  /\ UNCHANGED <<k, nr_loaded, scan, target>>

(* A stage that is neither u1 nor u2 ends the command on the spot.         *)
UnsupportedStage ==
  /\ pc = "spawn"
  /\ stages[stage] \notin Programs
  /\ pc' = "prompt"
  /\ history' = [history EXCEPT !.aborted = TRUE]
  /\ UNCHANGED <<k, pool, Parameters, typed>>

(* On to the next stage, or to waiting for all of them.                    *)
NextStage ==
  /\ stage' = stage + 1
  /\ pc' = IF stage < Len(stages) THEN "spawn" ELSE "scan"
  /\ scan' = 0 /\ target' = "tagged"

(* spawn_pipeline_process returns -1, and no one looks at the result.      *)
SpawnRefused ==
  /\ pc = "spawn"
  /\ stages[stage] \in Programs
  /\ k.nr_procese >= MAX_PROCESSES
  /\ NextStage
  /\ UNCHANGED <<k, pool, stages, pipe_fds, nr_loaded, typed, history>>

(* Mutant: no test for a full table.                                       *)
SpawnFill_NoTest ==
  /\ pc = "spawn"
  /\ stages[stage] \in Programs
  /\ pc' = "load"
  /\ UNCHANGED <<k, pool, Parameters, typed, history>>

(* pid = nr_procese, and the block at that index is filled: a tick between *)
(* these does not look at it.                                              *)
SpawnFill ==
  /\ pc = "spawn"
  /\ stages[stage] \in Programs
  /\ k.nr_procese < MAX_PROCESSES
  /\ LET stdin  == IF stage = 1 THEN FD_UART_IN
                   ELSE FD_MAKE_PIPE(pipe_fds[stage - 1], Fifo!ReadEnd)
         stdout == IF stage = Len(stages) THEN FD_UART_OUT
                   ELSE FD_MAKE_PIPE(pipe_fds[stage], Fifo!WriteEnd)
         id     == history.born + 1
     IN  /\ k' = [k EXCEPT !.proc_table[k.nr_procese] =
                     Block(id, stages[stage], StageTicks, TRUE, stdin, stdout)]
         /\ history' = [history EXCEPT !.born = id, !.spawned = @ \cup {id}]
  /\ pc' = "load"
  /\ UNCHANGED <<pool, Parameters, typed>>

(* nr_procese++                                                            *)
SpawnLoad ==
  /\ pc = "load"
  /\ nr_loaded' = k.nr_procese
  /\ pc' = "store"
  /\ UNCHANGED <<k, pool, stages, stage, pipe_fds, scan, target, typed, history>>

SpawnStore ==
  /\ pc = "store"
  /\ k' = [k EXCEPT !.nr_procese = nr_loaded + 1]
  /\ NextStage
  /\ UNCHANGED <<pool, stages, pipe_fds, nr_loaded, typed, history>>

(* The waiting loops of execute_pipeline and of exec: one block per step,  *)
(* and nr_procese is read again at each.                                   *)
Awaited(p) ==
  /\ p.state \notin {"TERMINATED", "UNUSED"}
  /\ IF target = "tagged" THEN p.pipeline_tag ELSE p.entry = target

Scanning(next) ==
  /\ pc' = next
  /\ UNCHANGED <<k, pool, stages, stage, pipe_fds, nr_loaded, target, typed, history>>

ScanNext ==
  /\ pc = "scan"
  /\ scan < k.nr_procese
  /\ ~Awaited(k.proc_table[scan])
  /\ scan' = scan + 1
  /\ Scanning("scan")

(* Mutant: after the interrupt the loop goes on where it was.              *)
ScanFound_NoRestart ==
  /\ pc = "scan"
  /\ scan < k.nr_procese
  /\ Awaited(k.proc_table[scan])
  /\ scan' = scan + 1
  /\ Scanning("halted")

(* sti; hlt: nothing more before the next interrupt.                       *)
ScanFound ==
  /\ pc = "scan"
  /\ scan < k.nr_procese
  /\ Awaited(k.proc_table[scan])
  /\ scan' = 0
  /\ Scanning("halted")

ScanEnd ==
  /\ pc = "scan"
  /\ scan >= k.nr_procese
  /\ scan' = 0
  /\ Scanning(IF target = "tagged" THEN "clear" ELSE "prompt")

(* The tags are taken off, and the pipeline is said to have terminated.    *)
ClearTags ==
  /\ pc = "clear"
  /\ k' = [k EXCEPT !.proc_table =
             [i \in Slots |-> [k.proc_table[i] EXCEPT !.pipeline_tag = @ /\ i \notin InUse(k)]]]
  /\ pc' = "close"
  /\ UNCHANGED <<pool, Parameters, typed, history>>

(* Mutant: only the write ends are closed.                                 *)
ClosePipes_WriteEnds ==
  /\ pc = "close"
  /\ pool' = [id \in DOMAIN pool |->
                IF \E j \in DOMAIN pipe_fds : pipe_fds[j] = id
                THEN Fifo!Closed(pool, id, Fifo!WriteEnd)[id]
                ELSE pool[id]]
  /\ pc' = "prompt"
  /\ UNCHANGED <<k, Parameters, typed, history>>

(* Both ends of every pipe are closed, which frees it.                     *)
ClosePipes ==
  /\ pc = "close"
  /\ pool' = [id \in DOMAIN pool |->
                IF \E j \in DOMAIN pipe_fds : pipe_fds[j] = id
                THEN Fifo!Closed(Fifo!Closed(pool, id, Fifo!ReadEnd), id, Fifo!WriteEnd)[id]
                ELSE pool[id]]
  /\ pc' = "prompt"
  /\ UNCHANGED <<k, Parameters, typed, history>>

----------------------------------------------------------------------------
Command ==
  \/ WaitCommand \/ YieldCommand \/ ModeCommand \/ DemoCommand \/ PipelineCommand
  \/ \E pid \in Slots : KillCommand(pid)
  \/ \E program \in Programs : ExecCommand(program)

(* The shell goes on with what it has begun.                               *)
Continue ==
  \/ DemoCurrent \/ DemoSlice
  \/ UnsupportedStage \/ SpawnRefused \/ SpawnFill \/ SpawnLoad \/ SpawnStore
  \/ ScanNext \/ ScanFound \/ ScanEnd \/ ClearTags \/ ClosePipes

Next == Tick \/ Command \/ Continue

Spec == Init /\ [][Next]_vars

(* The timer goes on, and the shell gets to run between its interrupts;    *)
(* no one has to type anything.                                            *)
FairSpec == Spec /\ WF_vars(Tick) /\ WF_vars(Continue)

----------------------------------------------------------------------------
Untorn == history.torn = {}

Live == {k.proc_table[i].id : i \in InUse(k)}

Fds == {FD_NONE, FD_UART_IN, FD_UART_OUT} \cup 0 .. 2 * MAX_PIPES - 1

Blocks == [id : Nat, remaining : Int, state : States, wait_ticks : Nat,
           entry : Programs \cup {"demo", "none"}, pipeline_tag : BOOLEAN,
           stdin : Fds, stdout : Fds]

TypeOK ==
  /\ k.proc_table \in [Slots -> Blocks]
  /\ k.nr_procese \in 0 .. MAX_PROCESSES
  /\ k.current \in -1 .. MAX_PROCESSES - 1
  /\ k.slice \in Nat /\ k.preemptive_mode \in BOOLEAN
  /\ \A id \in DOMAIN pool : Len(pool[id].content) <= PIPE_BUF_SIZE
  /\ pc \in {"prompt", "spawn", "load", "store", "scan", "halted", "clear", "close",
             "demo_current", "demo_slice"}
  /\ scan \in 0 .. MAX_PROCESSES

(* As long as no tick has come between steps that belong together, the     *)
(* table has no holes below nr_procese and no process above it, and at     *)
(* most one process is RUNNING, the current one: shell and ticks keep it   *)
(* together although the shell writes it with interrupts on.               *)
ConsistentUnlessTorn ==
  Untorn /\ pc \notin {"load", "store", "demo_current", "demo_slice"} =>
    /\ \A i \in Slots : i \in InUse(k) <=> k.proc_table[i].state # "UNUSED"
    /\ \A i \in Slots : k.proc_table[i].state = "RUNNING" => i = k.current

(* "[Pipeline] Terminat." is printed, and the pipes are closed, when no    *)
(* stage of the pipeline is left in the table: the waiting loop has seen   *)
(* every one of them, wherever compaction moved them.                      *)
NoStageLeft == pc = "close" => Live \cap history.spawned = {}

(* It does if no tick compacts the table while the shell looks through it. *)
StagesEndFirstUnlessTorn == Untorn => NoStageLeft

(* It does if demo and the spawning of the stages were not interrupted.    *)
StagesEndFirst == history.torn \subseteq {"scan"} => NoStageLeft

(* A pipeline that got all of its blocks prints what its u1 wrote, all of  *)
(* it, once and in order, whatever ran beside it.                          *)
MessageArrives ==
  Untorn /\ pc = "close" /\ Cardinality(history.spawned) = Len(stages)
    /\ stages[1] = "u1" /\ (\A s \in 2 .. Len(stages) : stages[s] = "u2")
  => history.output = [j \in 1 .. MsgLen |-> Min(history.spawned)]

(* A process that is not yet spent never holds a descriptor of a pipe that *)
(* is closed at that end or has gone back to the pool, to be given to      *)
(* another pipeline.                                                       *)
NoStaleDescriptor ==
  Untorn =>
    \A i \in InUse(k), end \in {Fifo!ReadEnd, Fifo!WriteEnd} :
      LET p  == k.proc_table[i]
          fd == IF end = Fifo!ReadEnd THEN p.stdin ELSE p.stdout
      IN  IsPipe(fd) =>
            /\ pool[PipeId(fd)].used
            /\ IF end = Fifo!ReadEnd THEN pool[PipeId(fd)].read_open
                                     ELSE pool[PipeId(fd)].write_open

(* When the shell is back at its prompt, no pipe is left in use, unless a  *)
(* pipeline was given up half way.                                         *)
PipesReturned ==
  pc = "prompt" /\ ~history.aborted => Fifo!Unused(pool) = DOMAIN pool

(* The shell comes back to its prompt from every command.                  *)
ShellReturns ==
  pc # "prompt" ~> (pc = "prompt" \/ ~Untorn)

(* Every stage of a pipeline runs: none is lost before the pipeline is     *)
(* said to have terminated.                                                *)
EveryStageRuns == pc = "close" => history.spawned \subseteq history.ran

=============================================================================
