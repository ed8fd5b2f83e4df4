-------------------------- MODULE SchedulerProofs --------------------------
(***************************************************************************)
(* The safety theorems of Scheduler.  The argument: every operation of     *)
(* ProcTable keeps a table Good - well typed, compact below nr_procese,    *)
(* with no RUNNING process but the current one, and current in range - and *)
(* keeps the identities of its processes distinct.  What the operations do *)
(* is shown in ProcTableProofs for blocks of any kind; here the blocks are *)
(* those of Scheduler.  The inductive invariant IInv adds what the other   *)
(* properties need: that identities in the table were given out by         *)
(* commands typed before, so that an arrival is new, and that the turn of  *)
(* the process that ran is not over.  TLC checks IInv's parts on small     *)
(* tables; here MAX_PROCESSES, QUANTUM and all other constants are         *)
(* arbitrary.                                                              *)
(***************************************************************************)
EXTENDS RoundRobin, MCScheduler, ProcTableProofs

Good(k) == k \in Tables /\ Compact(k) /\ OneRunning(k) /\ CurrentInTable(k)

(* The processes of k and of m are the same, at the same indices.          *)
SameProcesses(k, m) ==
  /\ m.nr_procese = k.nr_procese
  /\ \A i \in Slots : m.proc_table[i].id = k.proc_table[i].id

----------------------------------------------------------------------------
(***************************************************************************)
(* The tables of Scheduler are tables in the sense of ProcTableProofs.     *)
(***************************************************************************)
LEMMA BlocksAreControl == ControlBlocks(Blocks) /\ Tables = TablesOf(Blocks)
<1>1. ASSUME NEW b \in Blocks
      PROVE  /\ Scheduling \subseteq DOMAIN b
             /\ b.state \in States /\ b.remaining \in Int /\ b.wait_ticks \in Nat
  BY DEF Blocks, Scheduling
<1>2. ASSUME NEW b \in Blocks, NEW s \in States, NEW r \in Int, NEW w \in Nat
      PROVE  /\ [b EXCEPT !.state = s] \in Blocks
             /\ [b EXCEPT !.remaining = r] \in Blocks
             /\ [b EXCEPT !.wait_ticks = w] \in Blocks
  BY DEF Blocks
<1>3. 0 \in Int /\ 0 \in Nat /\ "READY" \in States
  BY DEF States
<1> QED
  BY <1>1, <1>2, <1>3 DEF ControlBlocks, Tables, TablesOf

(* The blocks in use are blocks of the table.                              *)
LEMMA InUseInSlots ==
  ASSUME NEW k \in Tables
  PROVE  InUse(k) \subseteq Slots
BY BlocksAreControl, InUseAreSlots

LEMMA GoodIs ==
  ASSUME NEW k
  PROVE  Good(k) <=> /\ k \in TablesOf(Blocks) /\ Orderly(k) /\ CurrentInTable(k)
                     /\ \A i \in Slots \ InUse(k) : k.proc_table[i].state = "UNUSED"
<1>1. k \in Tables => InUse(k) \subseteq Slots
  BY InUseInSlots
<1>2. k \in Tables <=> k \in TablesOf(Blocks)
  BY BlocksAreControl
<1>3. "UNUSED" # "RUNNING"
  OBVIOUS
<1> QED
  BY <1>1, <1>2, <1>3 DEF Good, Compact, OneRunning, Orderly

(* Blocks that are like each other are of the same process.                *)
LEMMA LikeSameId ==
  ASSUME NEW b \in Blocks, NEW c, Like(c, b)
  PROVE  c.id = b.id
<1>1. "id" \in DOMAIN b \ Scheduling
  BY DEF Blocks, Scheduling
<1> QED
  BY <1>1 DEF Like

LEMMA KeepsGood ==
  ASSUME NEW k, Good(k), NEW m \in TablesOf(Blocks), KeepsBlocks(k, m),
         Orderly(k) => Orderly(m)
  PROVE  Good(m) /\ SameProcesses(k, m)
<1>1. /\ k \in TablesOf(Blocks) /\ Orderly(k) /\ CurrentInTable(k)
      /\ \A i \in Slots \ InUse(k) : k.proc_table[i].state = "UNUSED"
  BY GoodIs
<1>2. m.nr_procese = k.nr_procese /\ InUse(m) = InUse(k)
  BY DEF KeepsBlocks, InUse
<1>3. CurrentInTable(m)
  <2>1. m.current \in {k.current} \cup InUse(k) /\ k.nr_procese \in Nat
    BY <1>1 DEF KeepsBlocks, TablesOf
  <2> QED
    BY <1>1, <1>2, <2>1 DEF CurrentInTable, InUse
<1>4. SameProcesses(k, m)
  BY <1>1, <1>2, LikeSameId, InUseAreSlots DEF KeepsBlocks, SameProcesses
<1>5. \A i \in Slots \ InUse(m) : m.proc_table[i].state = "UNUSED"
  BY <1>1, <1>2 DEF KeepsBlocks
<1> QED
  BY <1>1, <1>3, <1>4, <1>5, GoodIs

(* A reap leaves the table good, with distinct processes of those that     *)
(* were in it.                                                             *)
LEMMA CompactsGood ==
  ASSUME NEW k, Good(k), Distinct(k), NEW m \in TablesOf(Blocks), Compacts(k, m),
         Orderly(k) => Orderly(m)
  PROVE  /\ Good(m) /\ Distinct(m)
         /\ \A i \in InUse(m) : m.proc_table[i].id = k.proc_table[Before(k, i)].id
<1>1. /\ k \in TablesOf(Blocks) /\ Orderly(k) /\ CurrentInTable(k)
      /\ \A i \in Slots \ InUse(k) : k.proc_table[i].state = "UNUSED"
      /\ InUse(k) \subseteq Slots /\ InUse(m) \subseteq Slots
      /\ k.current \in Int /\ k.nr_procese \in Nat
  BY GoodIs, InUseAreSlots DEF TablesOf
<1>2. \A i \in InUse(m) : /\ Before(k, i) \in InUse(k) /\ i \in Nat
                         /\ m.proc_table[i].id = k.proc_table[Before(k, i)].id
  BY <1>1, LikeSameId, InUseAreSlots DEF Compacts
<1>3. Distinct(m)
  <2> SUFFICES ASSUME NEW i \in InUse(m), NEW j \in InUse(m),
                      m.proc_table[i].id = m.proc_table[j].id
               PROVE  i = j
    BY DEF Distinct
  <2>1. Before(k, i) = Before(k, j)
    BY <1>2 DEF Distinct
  <2> QED
    BY <1>1, <1>2, <2>1 DEF Before
<1>4. \A i \in Slots \ InUse(m) : m.proc_table[i].state = "UNUSED"
  <2> TAKE i \in Slots \ InUse(m)
  <2>1. i = k.nr_procese - 1 \/ i \notin InUse(k)
    BY <1>1 DEF Compacts, InUse, Slots
  <2> QED
    BY <1>1, <2>1 DEF Compacts
<1>5. CurrentInTable(m)
  BY DEF Compacts, CurrentInTable
<1> QED
  BY <1>1, <1>2, <1>3, <1>4, <1>5, GoodIs

----------------------------------------------------------------------------
(***************************************************************************)
(* What each operation does to a good table.                               *)
(***************************************************************************)
(* Neither the waits, the choice of a process, a kill, a wait nor a yield  *)
(* moves a process.                                                        *)
LEMMA OperationsGood ==
  ASSUME NEW k, Good(k), NEW pid, NEW ticks \in Nat,
         NEW m \in {UpdateWaiting(k), Dispatch(k), Kill(k, pid),
                    Wait(k, pid, ticks), Yield(k)}
  PROVE  Good(m) /\ SameProcesses(k, m)
<1>1. k \in TablesOf(Blocks) /\ ControlBlocks(Blocks)
  BY BlocksAreControl DEF Good
<1>2. m \in TablesOf(Blocks) /\ KeepsBlocks(k, m) /\ (Orderly(k) => Orderly(m))
  BY <1>1, WaitingUpdated, Dispatched, Killed, Waited, Yielded
<1> QED
  BY <1>2, KeepsGood

(* The table a tick finds its current process in.                          *)
LEMMA DispatchedGood ==
  ASSUME NEW k, Good(k)
  PROVE  LET d == Dispatch(UpdateWaiting(k)) IN Good(d) /\ SameProcesses(k, d)
<1>1. Good(UpdateWaiting(k)) /\ SameProcesses(k, UpdateWaiting(k))
  <2>1. 0 \in Nat
    OBVIOUS
  <2> QED
    BY <2>1, OperationsGood
<1>2. LET d == Dispatch(UpdateWaiting(k)) IN Good(d) /\ SameProcesses(UpdateWaiting(k), d)
  <2>1. 0 \in Nat
    OBVIOUS
  <2> QED
    BY <1>1, <2>1, OperationsGood
<1> QED
  BY <1>1, <1>2 DEF SameProcesses

(* Whatever the tick does after entry(), the table stays good and the      *)
(* quantum is respected.                                                   *)
LEMMA AfterEntryGood ==
  ASSUME NEW k, Good(k), CurrentRunning(k), Distinct(k)
  PROVE  /\ Good(AfterEntry(k)) /\ Distinct(AfterEntry(k))
         /\ \A i \in InUse(AfterEntry(k)) : \E j \in InUse(k) :
              AfterEntry(k).proc_table[i].id = k.proc_table[j].id
         /\ AfterEntry(k).nr_procese > 0 /\ AfterEntry(k).preemptive_mode
              => AfterEntry(k).slice < QUANTUM
<1> DEFINE m == AfterEntry(k)
<1>1. k \in TablesOf(Blocks) /\ ControlBlocks(Blocks) /\ InUse(k) \subseteq Slots
  BY BlocksAreControl, InUseInSlots DEF Good
<1>2. /\ m \in TablesOf(Blocks) /\ (KeepsBlocks(k, m) \/ Compacts(k, m))
      /\ m.nr_procese > 0 /\ m.preemptive_mode => m.slice < QUANTUM
      /\ Orderly(k) => Orderly(m)
  BY <1>1, EntryDone
<1> HIDE DEF m
<1>3. CASE KeepsBlocks(k, m)
  <2>1. Good(m) /\ SameProcesses(k, m)
    BY <1>2, <1>3, KeepsGood
  <2>2. InUse(m) = InUse(k) /\ \A i \in InUse(k) : m.proc_table[i].id = k.proc_table[i].id
    BY <1>1, <2>1 DEF SameProcesses, InUse
  <2>3. Distinct(m)
    BY <2>2 DEF Distinct
  <2> QED
    BY <1>2, <2>1, <2>2, <2>3 DEF m
<1>4. CASE Compacts(k, m)
  <2>1. /\ Good(m) /\ Distinct(m)
        /\ \A i \in InUse(m) : m.proc_table[i].id = k.proc_table[Before(k, i)].id
    BY <1>2, <1>4, CompactsGood
  <2>2. \A i \in InUse(m) : Before(k, i) \in InUse(k)
    BY <1>4 DEF Compacts
  <2> QED
    BY <1>2, <2>1, <2>2 DEF m
<1> QED
  BY <1>2, <1>3, <1>4

(* An arrival takes the first free index, and leaves the table good.       *)
LEMMA AddGood ==
  ASSUME NEW k, Good(k), NEW b \in Blocks, b.state = "READY"
  PROVE  /\ Good(Add(k, b))
         /\ \A i \in InUse(Add(k, b)) :
              \/ i \in InUse(k) /\ Add(k, b).proc_table[i].id = k.proc_table[i].id
              \/ i \notin InUse(k) /\ i = k.nr_procese /\ Add(k, b).proc_table[i].id = b.id
<1> DEFINE n == k.nr_procese
           m == Add(k, b)
<1>1. /\ k \in TablesOf(Blocks) /\ ControlBlocks(Blocks) /\ Orderly(k) /\ CurrentInTable(k)
      /\ \A i \in Slots \ InUse(k) : k.proc_table[i].state = "UNUSED"
      /\ InUse(k) \subseteq Slots /\ n \in Nat
  BY BlocksAreControl, GoodIs, InUseAreSlots
<1>2. CASE ~(n < MAX_PROCESSES)
  BY <1>2 DEF Add
<1>3. CASE n < MAX_PROCESSES
  <2>1. /\ m \in TablesOf(Blocks) /\ m.nr_procese = n + 1 /\ m.current = k.current
        /\ InUse(m) = InUse(k) \cup {n} /\ n \notin InUse(k) /\ n \in Slots
        /\ m.proc_table[n] = b
        /\ \A j \in Slots \ {n} : m.proc_table[j] = k.proc_table[j]
        /\ Orderly(m)
    BY <1>1, <1>3, Added
  <2> HIDE DEF m
  <2>2. CurrentInTable(m)
    BY <1>1, <2>1 DEF CurrentInTable
  <2>3. \A i \in Slots \ InUse(m) : m.proc_table[i].state = "UNUSED"
    BY <1>1, <2>1
  <2>4. Good(m)
    BY <2>1, <2>2, <2>3, GoodIs
  <2> QED
    BY <1>1, <2>1, <2>4 DEF m
<1> QED
  BY <1>2, <1>3

----------------------------------------------------------------------------
(***************************************************************************)
(* The invariant of the scheduler.                                         *)
(***************************************************************************)
(* A process is numbered by the command that started it: no process has    *)
(* the number 0, and a new one is unlike those in the table.               *)
BornBefore(k, n) == \A i \in InUse(k) : k.proc_table[i].id \in 1 .. n

(* All that is true of the table when n commands have been typed.          *)
Sound(k, n) == Good(k) /\ Distinct(k) /\ BornBefore(k, n)

(* The inductive invariant of Scheduler.                                   *)
IInv ==
  /\ Sound(sched, typed)
  /\ typed \in 0 .. MaxCommands
  /\ ran \in Nat
  /\ QuantumRespected

(* What does not change the identities in the table keeps it sound.        *)
LEMMA SameProcessesSound ==
  ASSUME NEW k, NEW m, NEW n \in Nat, Sound(k, n), Good(m), SameProcesses(k, m)
  PROVE  Sound(m, n)
<1>1. InUse(m) = InUse(k) /\ InUse(k) \subseteq Slots
  BY InUseInSlots DEF SameProcesses, InUse, Sound, Good
<1> QED
  BY <1>1 DEF Sound, SameProcesses, Distinct, BornBefore

(* A sound table stays sound as more commands are typed.                   *)
LEMMA SoundLater ==
  ASSUME NEW k, NEW n \in Nat, Sound(k, n)
  PROVE  Sound(k, n + 1)
<1>1. \A i \in InUse(k) : k.proc_table[i].id \in Nat
  BY InUseInSlots DEF Sound, Good, Tables, Blocks
<1> QED
  BY <1>1 DEF Sound, BornBefore

(* The empty table satisfies the invariant.                                *)
LEMMA InitIInv == Init => IInv
<1> SUFFICES ASSUME Init PROVE IInv
  OBVIOUS
<1> DEFINE z == [i \in Slots |-> NoProcess]
<1>1. NoProcess \in Blocks /\ NoProcess.state = "UNUSED"
  BY DEF NoProcess, Blocks, States
<1>2. z \in [Slots -> Blocks] /\ \A i \in Slots : z[i].state = "UNUSED"
  BY <1>1
<1>3. 0 \in 0 .. MAX_PROCESSES /\ -1 \in -1 .. MAX_PROCESSES - 1
  BY TableAssumption
<1>4. /\ sched \in Tables /\ sched.nr_procese = 0 /\ sched.current = -1
      /\ sched.proc_table = z
  <2>1. sched = [proc_table |-> z, nr_procese |-> 0, current |-> -1,
                 slice |-> 0, preemptive_mode |-> TRUE]
    BY DEF Init
  <2> HIDE DEF z
  <2> QED
    BY <1>2, <1>3, <2>1 DEF Tables
<1> HIDE DEF z
<1>5. InUse(sched) = {}
  BY <1>4 DEF InUse
<1>6. Compact(sched) /\ OneRunning(sched) /\ CurrentInTable(sched)
  BY <1>2, <1>4, <1>5 DEF Compact, OneRunning, CurrentInTable
<1>7. Distinct(sched) /\ BornBefore(sched, typed)
  BY <1>5 DEF Distinct, BornBefore
<1>8. typed \in 0 .. MaxCommands /\ ran = 0
  BY SchedulerAssumption DEF Init
<1> QED
  BY <1>4, <1>6, <1>7, <1>8 DEF IInv, Sound, Good, QuantumRespected

(* The table a tick finds its current process in.                          *)
LEMMA DispatchSound ==
  ASSUME IInv
  PROVE  /\ Sound(UpdateWaiting(sched), typed)
         /\ Sound(Dispatch(UpdateWaiting(sched)), typed)
<1>1. Good(sched) /\ typed \in Nat
  BY DEF IInv, Sound
<1>2. Good(UpdateWaiting(sched)) /\ SameProcesses(sched, UpdateWaiting(sched))
  <2>1. 0 \in Nat
    OBVIOUS
  <2> QED
    BY <1>1, <2>1, OperationsGood
<1>3. LET d == Dispatch(UpdateWaiting(sched)) IN Good(d) /\ SameProcesses(sched, d)
  BY <1>1, DispatchedGood
<1> QED
  BY <1>1, <1>2, <1>3, SameProcessesSound DEF IInv

(* The timer interrupt preserves the invariant.                            *)
LEMMA TickIInv == IInv /\ Tick => IInv'
<1> SUFFICES ASSUME IInv, Tick PROVE IInv'
  OBVIOUS
<1>1. CASE TickEmpty
  BY <1>1 DEF TickEmpty, IInv, Sound, Good, Compact, OneRunning, CurrentInTable,
              Distinct, BornBefore, InUse, QuantumRespected
<1>2. CASE TickIdle \/ TickNoPick
  <2>1. Sound(sched', typed) /\ typed' = typed /\ ran' = 0
    BY <1>2, DispatchSound DEF TickIdle, TickNoPick
  <2>2. Sound(sched, typed)' /\ QuantumRespected'
    BY <2>1 DEF Sound, Good, Compact, OneRunning, CurrentInTable,
                Distinct, BornBefore, InUse, QuantumRespected
  <2> QED
    BY <2>1, <2>2 DEF IInv
<1>3. CASE TickRun
  <2> DEFINE k == Dispatch(UpdateWaiting(sched))
  <2>1. PICK e \in {EntryReturns(k), EntryExits(k)} : sched' = AfterEntry(e)
    BY <1>3 DEF TickRun
  <2>2. CurrentRunning(k) /\ Sound(k, typed) /\ typed' = typed /\ ran' = k.proc_table[k.current].id
    BY <1>3, DispatchSound DEF TickRun
  <2>3. typed \in Nat /\ typed \in 0 .. MaxCommands
    BY SchedulerAssumption DEF IInv
  <2> HIDE DEF k
  <2>4. Good(k)
    BY <2>2 DEF Sound
  <2>5. Good(e) /\ CurrentRunning(e) /\ SameProcesses(k, e)
    <3>1. CASE e = k
      BY <2>2, <2>4, <3>1 DEF SameProcesses
    <3>2. CASE e = Kill(k, k.current)
      <4>1. k \in TablesOf(Blocks) /\ ControlBlocks(Blocks) /\ 0 \in Nat
        BY <2>4, BlocksAreControl DEF Good
      <4>2. CurrentRunning(Kill(k, k.current))
        BY <2>2, <4>1, Killed
      <4>3. Good(Kill(k, k.current)) /\ SameProcesses(k, Kill(k, k.current))
        BY <2>4, <4>1, OperationsGood
      <4> QED
        BY <3>2, <4>2, <4>3
    <3> QED
      BY <2>1, <3>1, <3>2 DEF EntryReturns, EntryExits
  <2>6. Sound(e, typed)
    BY <2>2, <2>3, <2>5, SameProcessesSound
  <2>7. /\ Good(sched') /\ Distinct(sched')
        /\ \A i \in InUse(sched') : \E j \in InUse(e) :
             sched'.proc_table[i].id = e.proc_table[j].id
        /\ sched'.nr_procese > 0 /\ sched'.preemptive_mode => sched'.slice < QUANTUM
    BY <2>1, <2>5, <2>6, AfterEntryGood DEF Sound
  <2>8. BornBefore(sched', typed')
    BY <2>2, <2>6, <2>7 DEF Sound, BornBefore
  <2>9. ran' \in Nat
    <3>1. k.current \in Slots
      BY <2>2, <2>4, InUseInSlots DEF CurrentRunning, CurrentValid, Good
    <3> QED
      BY <2>2, <2>4, <3>1 DEF Good, Tables, Blocks
  <2>10. Sound(sched, typed)' /\ QuantumRespected'
    BY <2>7, <2>8 DEF Sound, Good, Compact, OneRunning, CurrentInTable,
                      Distinct, BornBefore, InUse, QuantumRespected
  <2> QED
    BY <2>2, <2>3, <2>9, <2>10 DEF IInv
<1> QED
  BY <1>1, <1>2, <1>3 DEF Tick

(* Every operation of the shell preserves the invariant.                   *)
LEMMA CommandIInv == IInv /\ Command => IInv'
<1> SUFFICES ASSUME IInv, Command PROVE IInv'
  OBVIOUS
<1>1. /\ typed' = typed + 1 /\ typed' \in 0 .. MaxCommands
      /\ ran' = 0 /\ typed \in Nat /\ 0 \in Nat
  BY SchedulerAssumption
     DEF IInv, Command, Type, LoadAndRun, KillProcess, WaitProcess, SysYield,
         SetPreemptive, SetCooperative
<1>2. Good(sched) /\ Sound(sched, typed) /\ Sound(sched, typed + 1)
  BY <1>1, SoundLater DEF IInv, Sound
<1>3. SUFFICES Sound(sched', typed + 1)
  <2>1. Sound(sched, typed)'
    BY <1>1, <1>3 DEF Sound, Good, Compact, OneRunning, CurrentInTable,
                      Distinct, BornBefore, InUse
  <2> QED
    BY <1>1, <2>1 DEF IInv, QuantumRespected
<1>4. CASE LoadAndRun
  <2> DEFINE b == [id |-> typed + 1, remaining |-> LoadTicks,
                   state |-> "READY", wait_ticks |-> 0]
             m == Add(sched, b)
  <2>1. b \in Blocks /\ b.state = "READY" /\ b.id = typed + 1
    BY <1>1, SchedulerAssumption DEF Blocks, States
  <2>2. sched' = m
    BY <1>4 DEF LoadAndRun
  <2> HIDE DEF b
  <2>3. /\ Good(m)
        /\ \A i \in InUse(m) :
             \/ i \in InUse(sched) /\ m.proc_table[i].id = sched.proc_table[i].id
             \/ i \notin InUse(sched) /\ i = sched.nr_procese /\ m.proc_table[i].id = b.id
    BY <1>2, <2>1, AddGood
  <2> HIDE DEF m
  <2>4. \A i \in InUse(sched) : sched.proc_table[i].id \in Nat /\ sched.proc_table[i].id <= typed
    BY <1>2, InUseInSlots DEF Sound, BornBefore, Good, Tables, Blocks
  <2>5. Distinct(m)
    <3> SUFFICES ASSUME NEW i \in InUse(m), NEW j \in InUse(m),
                        m.proc_table[i].id = m.proc_table[j].id
                 PROVE  i = j
      BY DEF Distinct
    <3>1. CASE i \in InUse(sched) /\ j \in InUse(sched)
      BY <1>2, <2>3, <3>1 DEF Sound, Distinct
    <3>2. CASE i \notin InUse(sched) /\ j \notin InUse(sched)
      BY <2>3, <3>2
    <3>3. CASE i \in InUse(sched) /\ j \notin InUse(sched)
      BY <1>1, <2>1, <2>3, <2>4, <3>3
    <3>4. CASE i \notin InUse(sched) /\ j \in InUse(sched)
      BY <1>1, <2>1, <2>3, <2>4, <3>4
    <3> QED
      BY <3>1, <3>2, <3>3, <3>4
  <2>6. BornBefore(m, typed + 1)
    <3>1. \A i \in InUse(sched) : sched.proc_table[i].id \in 1 .. typed + 1
      BY <1>2 DEF Sound, BornBefore
    <3>2. b.id \in 1 .. typed + 1
      BY <1>1, <2>1
    <3> QED
      BY <2>3, <3>1, <3>2 DEF BornBefore
  <2> QED
    BY <2>2, <2>3, <2>5, <2>6 DEF Sound
<1>5. CASE KillProcess
  <2>1. PICK pid \in Slots : sched' = Kill(sched, pid)
    BY <1>5 DEF KillProcess
  <2> QED
    BY <1>1, <1>2, <2>1, OperationsGood, SameProcessesSound
<1>6. CASE WaitProcess
  <2>1. PICK pid \in Slots, ticks \in WaitArgs : sched' = Wait(sched, pid, ticks)
    BY <1>6 DEF WaitProcess
  <2>2. ticks \in Nat
    BY SchedulerAssumption
  <2> QED
    BY <1>1, <1>2, <2>1, <2>2, OperationsGood, SameProcessesSound
<1>7. CASE SysYield
  BY <1>1, <1>2, <1>7, OperationsGood, SameProcessesSound DEF SysYield
<1>8. CASE SetPreemptive \/ SetCooperative
  <2>1. PICK b \in BOOLEAN : sched' = [sched EXCEPT !.preemptive_mode = b]
    BY <1>8 DEF SetPreemptive, SetCooperative
  <2>2. /\ sched' \in Tables
        /\ sched'.nr_procese = sched.nr_procese /\ sched'.current = sched.current
        /\ sched'.proc_table = sched.proc_table
    BY <1>2, <2>1 DEF Good, Tables
  <2>3. Good(sched')
    BY <1>2, <2>2 DEF Good, Compact, OneRunning, CurrentInTable, InUse
  <2> QED
    BY <1>1, <1>2, <2>2, <2>3, SameProcessesSound DEF SameProcesses
<1> QED
  BY <1>4, <1>5, <1>6, <1>7, <1>8 DEF Command

(* So does a step that changes nothing.                                    *)
LEMMA StutterIInv == IInv /\ UNCHANGED vars => IInv'
BY DEF IInv, vars, Sound, Good, Compact, OneRunning, CurrentInTable, Distinct,
       BornBefore, InUse, QuantumRespected

(* The invariant holds in every state of every behaviour.                  *)
LEMMA SpecIInv == Spec => []IInv
<1>1. IInv /\ [Next]_vars => IInv'
  BY TickIInv, CommandIInv, StutterIInv DEF Next
<1> QED
  BY InitIInv, <1>1, PTL DEF Spec

----------------------------------------------------------------------------
(* scheduler_tick and the operations of the shell keep every variable in   *)
(* its range: the table never overflows, and current never leaves it.      *)
THEOREM TypeCorrect == Spec => []TypeOK
<1>1. IInv => TypeOK
  BY DEF IInv, Sound, Good, TypeOK
<1> QED
  BY SpecIInv, <1>1, PTL

(* With interrupts off, no sequence of ticks and operations leaves a hole  *)
(* in the table, a second process RUNNING, or current astray.              *)
THEOREM TableStaysConsistent == Spec => []TableConsistent
<1>1. IInv => TableConsistent
  BY DEF IInv, Sound, Good, TableConsistent
<1> QED
  BY SpecIInv, <1>1, PTL

(* Compaction never leaves two blocks in use for one process.              *)
THEOREM ProcessesStayDistinct == Spec => []NoDuplicates
<1>1. IInv => NoDuplicates
  BY DEF IInv, Sound, NoDuplicates
<1> QED
  BY SpecIInv, <1>1, PTL

(* Round robin takes the processor back after QUANTUM ticks.               *)
THEOREM QuantumIsRespected == Spec => []QuantumRespected
<1>1. IInv => QuantumRespected
  BY DEF IInv
<1> QED
  BY SpecIInv, <1>1, PTL

----------------------------------------------------------------------------
(* A process with more than one tick to wait still waits after dispatch.   *)
LEMMA DispatchKeepsWaiters ==
  ASSUME NEW k, Good(k), NEW i \in InUse(k),
         k.proc_table[i].state = "WAITING", k.proc_table[i].wait_ticks > 1
  PROVE  Dispatch(UpdateWaiting(k)).proc_table[i].state = "WAITING"
<1> DEFINE w == UpdateWaiting(k)
<1>1. /\ k \in TablesOf(Blocks) /\ ControlBlocks(Blocks)
      /\ i \in Slots /\ k.proc_table[i] \in Blocks
  BY BlocksAreControl, InUseAreSlots DEF Good
<1>2. Awaken(k.proc_table[i]).state = "WAITING"
  BY <1>1, Awakened
<1>3. w \in TablesOf(Blocks) /\ w.proc_table[i] = Awaken(k.proc_table[i])
  BY <1>1, WaitingUpdated
<1> HIDE DEF w
<1>4. Dispatch(w).proc_table[i] = w.proc_table[i] \/ Runnable(w.proc_table[i].state)
  BY <1>1, <1>3, Dispatched
<1> QED
  BY <1>2, <1>3, <1>4 DEF Runnable, w

(* No tick calls the entry of a process that has more than one tick to     *)
(* wait.                                                                   *)
THEOREM WaitersNeverRun == Spec => WaitersDoNotRun
<1> DEFINE Step == \A i \in InUse(sched) :
                     (sched.proc_table[i].state = "WAITING"
                        /\ sched.proc_table[i].wait_ticks > 1)
                       => ran' # sched.proc_table[i].id
<1>1. IInv /\ [Next]_vars => [Step]_vars
  <2> SUFFICES ASSUME IInv, Next, NEW i \in InUse(sched),
                      sched.proc_table[i].state = "WAITING",
                      sched.proc_table[i].wait_ticks > 1,
                      ran' = sched.proc_table[i].id
               PROVE  FALSE
    OBVIOUS
  <2> DEFINE k == Dispatch(UpdateWaiting(sched))
  <2>1. Good(sched) /\ Distinct(sched) /\ BornBefore(sched, typed)
    BY DEF IInv, Sound
  <2>2. CASE ~TickRun
    <3>1. ran' = 0
      BY <2>2 DEF Next, Tick, TickEmpty, TickIdle, TickNoPick, Command, Type,
                  LoadAndRun, KillProcess, WaitProcess, SysYield,
                  SetPreemptive, SetCooperative
    <3>2. sched.proc_table[i].id # 0
      BY <2>1 DEF BornBefore
    <3> QED
      BY <3>1, <3>2
  <2>3. CASE TickRun
    <3>1. sched.nr_procese > 0 /\ CurrentRunning(k) /\ ran' = k.proc_table[k.current].id
      BY <2>3 DEF TickRun
    <3>2. k.proc_table[i].state = "WAITING"
      BY <2>1, <3>1, DispatchKeepsWaiters
    <3>3. SameProcesses(sched, k)
      BY <2>1, DispatchedGood
    <3> HIDE DEF k
    <3>4. k.current \in InUse(sched) /\ InUse(sched) \subseteq Slots
      BY <2>1, <3>1, <3>3, InUseInSlots
         DEF CurrentRunning, CurrentValid, SameProcesses, InUse, Good
    <3>5. sched.proc_table[k.current].id = sched.proc_table[i].id
      BY <3>1, <3>3, <3>4 DEF SameProcesses
    <3>6. k.current = i
      BY <2>1, <3>4, <3>5 DEF Distinct
    <3> QED
      BY <3>1, <3>2, <3>6 DEF CurrentRunning
  <2> QED
    BY <2>2, <2>3
<1> QED
  BY SpecIInv, <1>1, PTL DEF Spec, WaitersDoNotRun

----------------------------------------------------------------------------
(***************************************************************************)
(* Scheduler implements TickBudget: the proof of the refinement TLC checks *)
(* in run scheduler, for every size of the table, quantum and budget.      *)
(*                                                                         *)
(* Left(k) is the abstract state a table k stands for.  In a table without *)
(* duplicates it is known from the blocks (LeftOfBlocks), so every         *)
(* operator of ProcTable is shown to leave it alone, to take one tick from *)
(* one process, to take the rest of its budget, to remove it, or to admit  *)
(* a process.  That the table is sound when a step begins is the invariant *)
(* above.                                                                  *)
(***************************************************************************)

Left(k) == [id \in Live(k) |-> Process(k, id).remaining]

(* A table with the same processes at the same indices, and the same       *)
(* budgets.                                                                *)
SameBudgets(k, m) == SameProcesses(k, m) /\ KeepsTicks(k, m)

(* The budgets of a table without duplicates are those of its blocks.      *)
LEMMA LeftOfBlocks ==
  ASSUME NEW k, Distinct(k), NEW i \in InUse(k)
  PROVE  /\ k.proc_table[i].id \in DOMAIN Left(k)
         /\ Process(k, k.proc_table[i].id) = k.proc_table[i]
         /\ Left(k)[k.proc_table[i].id] = k.proc_table[i].remaining
<1> DEFINE p == k.proc_table[i].id
<1>1. IndexOf(k, p) \in InUse(k) /\ k.proc_table[IndexOf(k, p)].id = p
  BY DEF IndexOf
<1>2. IndexOf(k, p) = i
  BY <1>1 DEF Distinct
<1>3. p \in Live(k)
  BY DEF Live
<1> QED
  BY <1>2, <1>3 DEF Left, Process

(* A function of the processes in a table that agrees with its blocks is   *)
(* the table's Left.                                                       *)
LEMMA LeftIs ==
  ASSUME NEW k, Distinct(k), NEW f, f = [p \in DOMAIN f |-> f[p]],
         DOMAIN f = Live(k),
         \A i \in InUse(k) : f[k.proc_table[i].id] = k.proc_table[i].remaining
  PROVE  Left(k) = f
<1>1. \A p \in Live(k) : Left(k)[p] = f[p]
  <2> TAKE p \in Live(k)
  <2>1. PICK i \in InUse(k) : p = k.proc_table[i].id
    BY DEF Live
  <2> QED
    BY <2>1, LeftOfBlocks
<1>2. Left(k) = [p \in Live(k) |-> Left(k)[p]]
  BY DEF Left
<1> QED
  BY <1>1, <1>2

LEMMA SameBudgetsSameLeft ==
  ASSUME NEW k, NEW m, k \in Tables, Distinct(k), SameBudgets(k, m)
  PROVE  Left(m) = Left(k) /\ Live(m) = Live(k) /\ Distinct(m)
<1>1. InUse(m) = InUse(k) /\ InUse(k) \subseteq Slots
  BY InUseInSlots DEF SameBudgets, SameProcesses, InUse
<1>2. \A i \in InUse(k) : /\ m.proc_table[i].id = k.proc_table[i].id
                         /\ m.proc_table[i].remaining = k.proc_table[i].remaining
  BY <1>1 DEF SameBudgets, SameProcesses, KeepsTicks
<1>3. Live(m) = Live(k)
  BY <1>1, <1>2 DEF Live
<1>4. Distinct(m)
  BY <1>1, <1>2 DEF Distinct
<1>5. Left(k) = [p \in DOMAIN Left(k) |-> Left(k)[p]] /\ DOMAIN Left(k) = Live(k)
  BY DEF Left
<1>6. \A i \in InUse(m) : Left(k)[m.proc_table[i].id] = m.proc_table[i].remaining
  BY <1>1, <1>2, LeftOfBlocks
<1>7. Left(m) = Left(k)
  BY <1>3, <1>4, <1>5, <1>6, LeftIs
<1> QED
  BY <1>3, <1>4, <1>7

----------------------------------------------------------------------------
(***************************************************************************)
(* What takes no ticks: waits, turns, and the choice of the next process.  *)
(***************************************************************************)
LEMMA OperationsBudgets ==
  ASSUME NEW k, Good(k), NEW pid, NEW ticks \in Nat,
         NEW m \in {UpdateWaiting(k), Dispatch(k), Wait(k, pid, ticks), Yield(k)}
  PROVE  SameBudgets(k, m)
<1>1. k \in TablesOf(Blocks) /\ ControlBlocks(Blocks)
  BY BlocksAreControl DEF Good
<1>2. KeepsTicks(k, m)
  BY <1>1, WaitingUpdated, Dispatched, Waited, Yielded
<1>3. SameProcesses(k, m)
  BY OperationsGood
<1> QED
  BY <1>2, <1>3 DEF SameBudgets

LEMMA RotateBudgets ==
  ASSUME NEW k, Good(k), CurrentRunning(k)
  PROVE  SameBudgets(k, Rotate(k))
<1> DEFINE m == Rotate(k)
<1>1. k \in TablesOf(Blocks) /\ ControlBlocks(Blocks)
  BY BlocksAreControl DEF Good
<1>2. /\ m \in TablesOf(Blocks) /\ KeepsBlocks(k, m) /\ KeepsTicks(k, m)
      /\ Orderly(k) => Orderly(m)
  BY <1>1, Rotated
<1> HIDE DEF m
<1>3. SameProcesses(k, m)
  BY <1>2, KeepsGood
<1> QED
  BY <1>2, <1>3 DEF SameBudgets, m

----------------------------------------------------------------------------
(***************************************************************************)
(* What takes ticks, removes a process or admits one.                      *)
(***************************************************************************)
(* A block written over with the same identity and another budget changes  *)
(* the budget of its process alone.                                        *)
LEMMA ChargedLeft ==
  ASSUME NEW k \in Tables, Distinct(k), NEW i \in InUse(k), NEW m,
         SameProcesses(k, m),
         \A j \in Slots \ {i} : m.proc_table[j].remaining = k.proc_table[j].remaining
  PROVE  /\ Left(m) = [Left(k) EXCEPT ![k.proc_table[i].id] = m.proc_table[i].remaining]
         /\ Distinct(m)
<1> DEFINE p == k.proc_table[i].id
           f == [Left(k) EXCEPT ![p] = m.proc_table[i].remaining]
<1>1. InUse(m) = InUse(k) /\ InUse(k) \subseteq Slots
  BY InUseInSlots DEF SameProcesses, InUse
<1>2. \A j \in InUse(k) : m.proc_table[j].id = k.proc_table[j].id
  BY <1>1 DEF SameProcesses
<1>3. Live(m) = Live(k) /\ Distinct(m)
  BY <1>1, <1>2 DEF Live, Distinct
<1>4. p \in Live(k) /\ DOMAIN Left(k) = Live(k)
  BY DEF Live, Left
<1>5. DOMAIN f = Live(m) /\ f = [q \in DOMAIN f |-> f[q]]
  BY <1>3, <1>4
<1>6. ASSUME NEW j \in InUse(m) PROVE f[m.proc_table[j].id] = m.proc_table[j].remaining
  <2>1. CASE j = i
    BY <1>1, <1>2, <1>4, <2>1
  <2>2. CASE j # i
    <3>1. k.proc_table[j].id # p
      BY <1>1, <2>2 DEF Distinct
    <3>2. f[k.proc_table[j].id] = Left(k)[k.proc_table[j].id]
      BY <1>1, <3>1, LeftOfBlocks
    <3> QED
      BY <1>1, <1>2, <2>2, <3>2, LeftOfBlocks
  <2> QED
    BY <2>1, <2>2
<1> HIDE DEF f
<1>7. Left(m) = f
  BY <1>3, <1>5, <1>6, LeftIs
<1> QED
  BY <1>3, <1>7 DEF f

(* kill_process takes the whole budget of one process.                     *)
LEMMA KillLeft ==
  ASSUME NEW k, Good(k), Distinct(k), NEW pid \in InUse(k)
  PROVE  /\ Left(Kill(k, pid)) = [Left(k) EXCEPT ![k.proc_table[pid].id] = 0]
         /\ Kill(k, pid).proc_table[pid].remaining = 0
         /\ Distinct(Kill(k, pid))
<1> DEFINE m == Kill(k, pid)
<1>1. k \in Tables /\ k \in TablesOf(Blocks) /\ ControlBlocks(Blocks)
      /\ pid \in Slots /\ 0 \in Nat
  BY BlocksAreControl, InUseInSlots DEF Good
<1>2. /\ m.proc_table[pid].remaining = 0
      /\ \A j \in Slots \ {pid} : m.proc_table[j] = k.proc_table[j]
  BY <1>1, Killed
<1>3. SameProcesses(k, m)
  BY <1>1, OperationsGood
<1> HIDE DEF m
<1>4. /\ Left(m) = [Left(k) EXCEPT ![k.proc_table[pid].id] = m.proc_table[pid].remaining]
      /\ Distinct(m)
  BY <1>1, <1>2, <1>3, ChargedLeft
<1> QED
  BY <1>2, <1>4 DEF m

(* A tick takes one from the budget of the process that runs.              *)
LEMMA ChargeLeft ==
  ASSUME NEW k, Good(k), CurrentRunning(k), Distinct(k)
  PROVE  LET p == k.proc_table[k.current].id
             r == k.proc_table[k.current].remaining
             m == Charge(k)
         IN  /\ Left(m) = [Left(k) EXCEPT ![p] = r - 1]
             /\ m.proc_table[k.current].remaining = r - 1
             /\ m.proc_table[k.current].id = p
             /\ m.current = k.current
             /\ Distinct(m) /\ Good(m) /\ CurrentRunning(m)
<1> DEFINE c == k.current
           m == Charge(k)
<1>1. /\ k \in Tables /\ c \in InUse(k) /\ c \in Slots
      /\ k \in TablesOf(Blocks) /\ ControlBlocks(Blocks)
  BY BlocksAreControl, InUseInSlots DEF Good, CurrentRunning, CurrentValid
<1>2. /\ m \in TablesOf(Blocks) /\ KeepsBlocks(k, m) /\ m.current = c
      /\ \A j \in Slots \ {c} : m.proc_table[j] = k.proc_table[j]
      /\ m.proc_table[c].remaining = k.proc_table[c].remaining - 1
      /\ CurrentRunning(m) /\ (Orderly(k) => Orderly(m))
  BY <1>1, Charged
<1> HIDE DEF m
<1>3. Good(m) /\ SameProcesses(k, m)
  BY <1>2, KeepsGood
<1>4. /\ Left(m) = [Left(k) EXCEPT ![k.proc_table[c].id] = m.proc_table[c].remaining]
      /\ Distinct(m)
  BY <1>1, <1>2, <1>3, ChargedLeft
<1>5. m.proc_table[c].id = k.proc_table[c].id
  BY <1>1, <1>3 DEF SameProcesses
<1> QED
  BY <1>2, <1>3, <1>4, <1>5 DEF m

(* A reap removes the current process, and no other.                       *)
LEMMA ReapLeft ==
  ASSUME NEW k, Good(k), CurrentRunning(k), Distinct(k)
  PROVE  LET p == k.proc_table[k.current].id
         IN  Left(Reap(k)) = [q \in Live(k) \ {p} |-> Left(k)[q]]
<1> DEFINE c == k.current
           p == k.proc_table[c].id
           m == Reap(k)
<1>1. /\ k \in TablesOf(Blocks) /\ ControlBlocks(Blocks) /\ c \in InUse(k)
      /\ \A i \in InUse(k) : i \in Nat /\ i < k.nr_procese
      /\ k.nr_procese \in Nat
  BY BlocksAreControl, InUseAreSlots DEF Good, CurrentRunning, CurrentValid
<1>2. /\ m \in TablesOf(Blocks) /\ Compacts(k, m) /\ (Orderly(k) => Orderly(m))
      /\ \A i \in InUse(m) : m.proc_table[i].remaining = k.proc_table[Before(k, i)].remaining
  BY <1>1, Reaped DEF CurrentRunning
<1> HIDE DEF m
<1>3. /\ Distinct(m)
      /\ \A i \in InUse(m) : m.proc_table[i].id = k.proc_table[Before(k, i)].id
  BY <1>2, CompactsGood
<1>4. m.nr_procese = k.nr_procese - 1
  BY <1>2 DEF Compacts
<1>5. \A i \in InUse(m) : Before(k, i) \in InUse(k) /\ Before(k, i) # c
  BY <1>2 DEF Compacts
<1>6. \A j \in InUse(k) \ {c} : \E i \in InUse(m) : Before(k, i) = j
  <2> TAKE j \in InUse(k) \ {c}
  <2> DEFINE i == IF j < c THEN j ELSE j - 1
  <2>1. i \in InUse(m) /\ Before(k, i) = j
    BY <1>1, <1>4 DEF InUse, Before
  <2> QED
    BY <2>1
<1>7. p \in Live(k)
  BY <1>1 DEF Live
<1>8. \A j \in InUse(k) \ {c} : k.proc_table[j].id # p
  BY <1>1 DEF Distinct
<1>9. Live(m) = Live(k) \ {p}
  <2>1. ASSUME NEW q \in Live(m) PROVE q \in Live(k) \ {p}
    <3>1. PICK i \in InUse(m) : q = m.proc_table[i].id
      BY DEF Live
    <3> QED
      BY <1>3, <1>5, <1>8, <3>1 DEF Live
  <2>2. ASSUME NEW q \in Live(k) \ {p} PROVE q \in Live(m)
    <3>1. PICK j \in InUse(k) : q = k.proc_table[j].id
      BY DEF Live
    <3>2. j # c
      BY <3>1
    <3>3. PICK i \in InUse(m) : Before(k, i) = j
      BY <1>6, <3>2
    <3> QED
      BY <1>3, <1>5, <3>1, <3>3 DEF Live
  <2> QED
    BY <2>1, <2>2
<1> DEFINE f == [q \in Live(k) \ {p} |-> Left(k)[q]]
<1>10. \A i \in InUse(m) : f[m.proc_table[i].id] = m.proc_table[i].remaining
  <2> TAKE i \in InUse(m)
  <2>1. /\ Before(k, i) \in InUse(k) /\ k.proc_table[Before(k, i)].id # p
        /\ k.proc_table[Before(k, i)].id \in Live(k)
    BY <1>5, <1>8 DEF Live
  <2>2. Left(k)[k.proc_table[Before(k, i)].id] = k.proc_table[Before(k, i)].remaining
    BY <2>1, LeftOfBlocks
  <2> QED
    BY <1>2, <1>3, <2>1, <2>2
<1>11. DOMAIN f = Live(m) /\ f = [q \in DOMAIN f |-> f[q]]
  BY <1>9
<1> HIDE DEF f
<1>12. Left(m) = f
  BY <1>3, <1>10, <1>11, LeftIs
<1> QED
  BY <1>12 DEF f, m

(* An arrival, if the table has room, is admitted with the ticks of its    *)
(* block.                                                                  *)
LEMMA AddLeft ==
  ASSUME NEW k, Good(k), Distinct(k), NEW b \in Blocks, b.state = "READY",
         b.id \notin Live(k), k.nr_procese < MAX_PROCESSES
  PROVE  Left(Add(k, b)) =
           [p \in Live(k) \cup {b.id} |-> IF p = b.id THEN b.remaining ELSE Left(k)[p]]
<1> DEFINE n == k.nr_procese
           m == Add(k, b)
           f == [p \in Live(k) \cup {b.id} |-> IF p = b.id THEN b.remaining ELSE Left(k)[p]]
<1>1. k \in TablesOf(Blocks) /\ ControlBlocks(Blocks) /\ InUse(k) \subseteq Slots
  BY BlocksAreControl, InUseInSlots DEF Good
<1>2. /\ InUse(m) = InUse(k) \cup {n} /\ n \notin InUse(k)
      /\ m.proc_table[n] = b
      /\ \A j \in Slots \ {n} : m.proc_table[j] = k.proc_table[j]
  BY <1>1, Added
<1> HIDE DEF m
<1>3. m.proc_table[n] = b /\ \A i \in InUse(k) : m.proc_table[i] = k.proc_table[i]
  BY <1>1, <1>2
<1>4. \A i \in InUse(k) : k.proc_table[i].id \in Live(k) /\ k.proc_table[i].id # b.id
  BY DEF Live
<1>5. Live(m) = Live(k) \cup {b.id}
  BY <1>2, <1>3 DEF Live
<1>6. Distinct(m)
  <2> SUFFICES ASSUME NEW i \in InUse(m), NEW j \in InUse(m),
                      m.proc_table[i].id = m.proc_table[j].id
               PROVE  i = j
    BY DEF Distinct
  <2> QED
    BY <1>2, <1>3, <1>4 DEF Distinct
<1>7. \A i \in InUse(m) : f[m.proc_table[i].id] = m.proc_table[i].remaining
  BY <1>2, <1>3, <1>4, LeftOfBlocks
<1>8. DOMAIN f = Live(m) /\ f = [p \in DOMAIN f |-> f[p]]
  BY <1>5
<1> HIDE DEF f
<1>9. Left(m) = f
  BY <1>6, <1>7, <1>8, LeftIs
<1> QED
  BY <1>9 DEF f, m

(* What a tick does to the budgets after entry(): one tick is taken from   *)
(* the current process, or the current process leaves.                     *)
LEMMA AfterEntryLeft ==
  ASSUME NEW k, Good(k), CurrentRunning(k), Distinct(k)
  PROVE  LET p == k.proc_table[k.current].id
             r == k.proc_table[k.current].remaining
         IN  Left(AfterEntry(k)) =
               IF r > 1 THEN [Left(k) EXCEPT ![p] = r - 1]
               ELSE [q \in Live(k) \ {p} |-> Left(k)[q]]
<1> DEFINE c == k.current
           m == Charge(k)
           p == k.proc_table[c].id
           r == k.proc_table[c].remaining
<1>1. Good(m) /\ CurrentRunning(m) /\ m.current = c
  BY ChargeLeft
<1>2. /\ Left(m) = [Left(k) EXCEPT ![p] = r - 1]
      /\ m.proc_table[c].remaining = r - 1
      /\ m.proc_table[c].id = p
      /\ Distinct(m)
  BY ChargeLeft
<1>3. c \in InUse(k) /\ p \in Live(k) /\ r \in Int
  <2>1. c \in InUse(k) /\ c \in Slots /\ k \in Tables
    BY InUseInSlots DEF CurrentRunning, CurrentValid, Good
  <2> QED
    BY <2>1 DEF Live, Tables, Blocks
<1>4. DOMAIN Left(k) = Live(k) /\ DOMAIN Left(m) = Live(m)
  BY DEF Left
<1> HIDE DEF m
<1>5. CASE r > 1
  <2> DEFINE full == m.preemptive_mode /\ m.slice >= QUANTUM
             a    == IF full THEN Rotate(m) ELSE m
  <2>1. AfterEntry(k) = a
    BY <1>1, <1>2, <1>3, <1>5 DEF AfterEntry, m
  <2>2. SameBudgets(m, a)
    BY <1>1, RotateBudgets DEF SameBudgets, SameProcesses, KeepsTicks
  <2> HIDE DEF a
  <2>3. Left(a) = Left(m)
    BY <1>1, <1>2, <2>2, SameBudgetsSameLeft DEF Good
  <2> QED
    BY <1>2, <1>5, <2>1, <2>3
<1>6. CASE ~(r > 1)
  <2>1. AfterEntry(k) = Reap(m)
    BY <1>1, <1>2, <1>3, <1>6 DEF AfterEntry, m
  <2>2. Left(Reap(m)) = [q \in Live(m) \ {p} |-> Left(m)[q]]
    <3>1. m.proc_table[m.current].id = p
      BY <1>1, <1>2
    <3>2. Left(Reap(m)) = [q \in Live(m) \ {m.proc_table[m.current].id} |-> Left(m)[q]]
      BY <1>1, <1>2, ReapLeft
    <3> QED
      BY <3>1, <3>2
  <2>3. Live(m) = Live(k)
    BY <1>2, <1>4
  <2>4. \A q \in Live(k) \ {p} : Left(m)[q] = Left(k)[q]
    BY <1>2, <1>4
  <2>5. [q \in Live(m) \ {p} |-> Left(m)[q]] = [q \in Live(k) \ {p} |-> Left(k)[q]]
    BY <2>3, <2>4
  <2> QED
    BY <1>6, <2>1, <2>2, <2>5
<1> QED
  BY <1>5, <1>6

----------------------------------------------------------------------------
(***************************************************************************)
(* The refinement.                                                         *)
(***************************************************************************)
(* The operations of TickBudget, said of Left.                             *)
LEMMA Admits ==
  ASSUME NEW p \in Ids, p \notin Live(sched),
         Left(sched') = [q \in Live(sched) \cup {p} |->
                           IF q = p THEN LoadTicks ELSE Left(sched)[q]]
  PROVE  Budgets!Next
<1>1. Budgets!Admit(p)
  BY DEF Budgets!Admit, Budgets!Present, Left, Live, Process, IndexOf, InUse
<1> QED
  BY <1>1 DEF Budgets!Next

LEMMA Serves ==
  ASSUME NEW p \in Ids, p \in Live(sched), Left(sched)[p] > 1,
         Left(sched') = [Left(sched) EXCEPT ![p] = Left(sched)[p] - 1]
  PROVE  Budgets!Next
<1>1. Budgets!Serve(p)
  BY DEF Budgets!Serve, Budgets!Present, Left, Live, Process, IndexOf, InUse
<1> QED
  BY <1>1 DEF Budgets!Next

LEMMA ServesLast ==
  ASSUME NEW p \in Ids, p \in Live(sched),
         Left(sched') = [q \in Live(sched) \ {p} |-> Left(sched)[q]]
  PROVE  Budgets!Next
<1>1. Budgets!ServeLast(p)
  BY DEF Budgets!ServeLast, Budgets!Present, Budgets!Without, Left, Live, Process, IndexOf, InUse
<1> QED
  BY <1>1 DEF Budgets!Next

LEMMA Condemns ==
  ASSUME NEW p \in Ids, p \in Live(sched),
         Left(sched') = [Left(sched) EXCEPT ![p] = 0]
  PROVE  Budgets!Next
<1>1. Budgets!Condemn(p)
  BY DEF Budgets!Condemn, Budgets!Present, Left, Live, Process, IndexOf, InUse
<1> QED
  BY <1>1 DEF Budgets!Next

(* The identities in the table are those commands may give.                *)
LEMMA LiveInIds ==
  ASSUME IInv
  PROVE  /\ Live(sched) \subseteq Ids
         /\ \A p \in Live(sched) : p <= typed
<1>1. typed \in Nat /\ typed <= MaxCommands /\ MaxCommands \in Nat
  BY SchedulerAssumption DEF IInv
<1>2. \A i \in InUse(sched) : sched.proc_table[i].id \in 1 .. typed
  BY DEF IInv, Sound, BornBefore
<1> QED
  BY <1>1, <1>2 DEF Live, Ids

LEMMA TickBudgetStep ==
  ASSUME IInv, Tick
  PROVE  Budgets!Next \/ Left(sched') = Left(sched)
<1>1. CASE TickEmpty
  BY <1>1 DEF TickEmpty
<1> DEFINE w == UpdateWaiting(sched)
           k == Dispatch(w)
<1>2. ASSUME sched.nr_procese > 0
      PROVE  /\ Left(w) = Left(sched) /\ Left(k) = Left(sched)
             /\ Live(k) = Live(sched) /\ Sound(k, typed)
  <2>1. Good(sched) /\ Distinct(sched) /\ 0 \in Nat
    BY DEF IInv, Sound
  <2>2. SameBudgets(sched, w)
    BY <2>1, OperationsBudgets
  <2>3. Sound(w, typed) /\ Sound(k, typed)
    BY <1>2, DispatchSound
  <2> HIDE DEF w
  <2>4. SameBudgets(w, k)
    BY <2>1, <2>3, OperationsBudgets DEF Sound
  <2> HIDE DEF k
  <2>5. Left(w) = Left(sched) /\ Live(w) = Live(sched)
    BY <2>1, <2>2, SameBudgetsSameLeft DEF Good
  <2>6. Left(k) = Left(w) /\ Live(k) = Live(w)
    BY <2>3, <2>4, SameBudgetsSameLeft DEF Sound, Good
  <2> QED
    BY <2>3, <2>5, <2>6
<1>3. CASE TickIdle \/ TickNoPick
  BY <1>2, <1>3 DEF TickIdle, TickNoPick
<1>4. CASE TickRun
  <2> HIDE DEF w
  <2>1. sched.nr_procese > 0 /\ CurrentRunning(k)
    BY <1>4 DEF TickRun, w
  <2>2. PICK e \in {EntryReturns(k), EntryExits(k)} : sched' = AfterEntry(e)
    BY <1>4 DEF TickRun, w
  <2>3. Left(k) = Left(sched) /\ Live(k) = Live(sched) /\ Good(k) /\ Distinct(k)
    BY <1>2, <2>1 DEF Sound
  <2> HIDE DEF k
  <2> DEFINE c == k.current
             p == k.proc_table[c].id
             r == k.proc_table[c].remaining
  <2>4. c \in InUse(k) /\ r \in Int
    <3>1. c \in InUse(k) /\ c \in Slots /\ k \in Tables
      BY <2>1, <2>3, InUseInSlots DEF CurrentRunning, CurrentValid, Good
    <3> QED
      BY <3>1 DEF Tables, Blocks
  <2>5. p \in Live(sched) /\ p \in Ids /\ Left(sched)[p] = r
    <3>1. p \in Live(k)
      BY <2>4 DEF Live
    <3>2. Left(k)[p] = r
      BY <2>3, <2>4, LeftOfBlocks
    <3> QED
      BY <2>3, <3>1, <3>2, LiveInIds
  <2>6. CASE e = EntryReturns(k)
    <3>1. sched' = AfterEntry(k)
      BY <2>2, <2>6 DEF EntryReturns
    <3>2. Left(AfterEntry(k)) = IF r > 1 THEN [Left(k) EXCEPT ![p] = r - 1]
                                ELSE [q \in Live(k) \ {p} |-> Left(k)[q]]
      BY <2>1, <2>3, AfterEntryLeft
    <3>3. CASE r > 1
      BY <2>3, <2>5, <3>1, <3>2, <3>3, Serves
    <3>4. CASE ~(r > 1)
      BY <2>3, <2>5, <3>1, <3>2, <3>4, ServesLast
    <3> QED
      BY <3>3, <3>4
  <2>7. CASE e = EntryExits(k)
    <3>1. e = Kill(k, c)
      BY <2>7 DEF EntryExits
    <3>2. Good(e) /\ SameProcesses(k, e) /\ CurrentRunning(e) /\ e.current = c
      <4>1. k \in TablesOf(Blocks) /\ ControlBlocks(Blocks) /\ 0 \in Nat
        BY <2>3, BlocksAreControl DEF Good
      <4>2. CurrentRunning(e) /\ e.current = c
        BY <2>1, <3>1, <4>1, Killed
      <4> QED
        BY <2>3, <3>1, <4>1, <4>2, OperationsGood
    <3>3. /\ Left(e) = [Left(k) EXCEPT ![p] = 0]
          /\ e.proc_table[c].remaining = 0 /\ Distinct(e)
      BY <2>3, <2>4, <3>1, KillLeft
    <3>4. e.proc_table[c].id = p
      <4>1. c \in Slots
        BY <2>3, <2>4, InUseInSlots DEF Good
      <4> QED
        BY <3>2, <4>1 DEF SameProcesses
    <3>5. Left(AfterEntry(e)) =
            IF e.proc_table[e.current].remaining > 1
            THEN [Left(e) EXCEPT ![e.proc_table[e.current].id] =
                                    e.proc_table[e.current].remaining - 1]
            ELSE [q \in Live(e) \ {e.proc_table[e.current].id} |-> Left(e)[q]]
      BY <3>2, <3>3, AfterEntryLeft
    <3>6. Left(AfterEntry(e)) = [q \in Live(e) \ {p} |-> Left(e)[q]]
      BY <3>2, <3>3, <3>4, <3>5
    <3>7. Live(e) = Live(k) /\ \A q \in Live(k) \ {p} : Left(e)[q] = Left(k)[q]
      BY <3>3 DEF Left
    <3>8. [q \in Live(e) \ {p} |-> Left(e)[q]] = [q \in Live(k) \ {p} |-> Left(k)[q]]
      BY <3>7
    <3> QED
      BY <2>2, <2>3, <2>5, <3>6, <3>8, ServesLast
  <2> QED
    BY <2>2, <2>6, <2>7
<1> QED
  BY <1>1, <1>3, <1>4 DEF Tick

LEMMA CommandBudgetStep ==
  ASSUME IInv, Command
  PROVE  Budgets!Next \/ Left(sched') = Left(sched)
<1>1. Good(sched) /\ Distinct(sched) /\ sched \in Tables /\ typed \in Nat
  BY SchedulerAssumption DEF IInv, Sound, Good
<1>2. CASE LoadAndRun
  <2> DEFINE b == [id |-> typed + 1, remaining |-> LoadTicks,
                   state |-> "READY", wait_ticks |-> 0]
  <2>1. b \in Blocks /\ b.state = "READY" /\ b.id = typed + 1 /\ b.remaining = LoadTicks
    BY <1>1, SchedulerAssumption DEF Blocks, States
  <2>2. sched' = Add(sched, b) /\ typed < MaxCommands
    BY <1>2 DEF LoadAndRun, Type
  <2> HIDE DEF b
  <2>3. typed + 1 \in Ids /\ typed + 1 \notin Live(sched)
    BY <1>1, <2>2, LiveInIds, SchedulerAssumption DEF Ids
  <2>4. CASE sched.nr_procese < MAX_PROCESSES
    <3>1. Left(Add(sched, b)) = [q \in Live(sched) \cup {b.id} |->
                                   IF q = b.id THEN b.remaining ELSE Left(sched)[q]]
      BY <1>1, <2>1, <2>3, <2>4, AddLeft
    <3>2. Left(sched') = [q \in Live(sched) \cup {typed + 1} |->
                            IF q = typed + 1 THEN LoadTicks ELSE Left(sched)[q]]
      BY <2>1, <2>2, <3>1
    <3> QED
      BY <2>3, <3>2, Admits
  <2>5. CASE ~(sched.nr_procese < MAX_PROCESSES)
    BY <2>2, <2>5 DEF Add
  <2> QED
    BY <2>4, <2>5
<1>3. CASE KillProcess
  <2>1. PICK pid \in Slots : sched' = Kill(sched, pid)
    BY <1>3 DEF KillProcess
  <2>2. CASE pid \in InUse(sched)
    <3>1. Left(sched') = [Left(sched) EXCEPT ![sched.proc_table[pid].id] = 0]
      BY <1>1, <2>1, <2>2, KillLeft
    <3>2. sched.proc_table[pid].id \in Live(sched)
      BY <2>2 DEF Live
    <3> QED
      BY <3>1, <3>2, LiveInIds, Condemns
  <2>3. CASE pid \notin InUse(sched)
    BY <2>1, <2>3 DEF Kill
  <2> QED
    BY <2>2, <2>3
<1>4. CASE WaitProcess
  <2>1. PICK pid \in Slots, ticks \in WaitArgs : sched' = Wait(sched, pid, ticks)
    BY <1>4 DEF WaitProcess
  <2>2. ticks \in Nat
    BY SchedulerAssumption
  <2> QED
    BY <1>1, <2>1, <2>2, OperationsBudgets, SameBudgetsSameLeft
<1>5. CASE SysYield
  BY <1>1, <1>5, OperationsBudgets, SameBudgetsSameLeft DEF SysYield
<1>6. CASE SetPreemptive \/ SetCooperative
  <2>1. PICK b \in BOOLEAN : sched' = [sched EXCEPT !.preemptive_mode = b]
    BY <1>6 DEF SetPreemptive, SetCooperative
  <2>2. SameBudgets(sched, sched')
    BY <1>1, <2>1 DEF Tables, SameBudgets, SameProcesses, KeepsTicks
  <2> QED
    BY <1>1, <2>2, SameBudgetsSameLeft
<1> QED
  BY <1>2, <1>3, <1>4, <1>5, <1>6 DEF Command

(* Every tick and every command does to the budgets what TickBudget        *)
(* allows: scheduler_tick charges the process whose entry it called and no *)
(* other, and compaction removes the process that is spent and no other,   *)
(* for every size of the table, quantum and budget.                        *)
THEOREM SchedulerImplementsBudgets == Spec => ChargesTheOneThatRan
<1> DEFINE l == [id \in Live(sched) |-> Process(sched, id).remaining]
<1>1. Init => Budgets!Init
  <2> SUFFICES ASSUME Init PROVE Budgets!Init
    OBVIOUS
  <2>1. sched.nr_procese = 0
    BY DEF Init
  <2>2. Live(sched) = {}
    BY <2>1 DEF Live, InUse
  <2> QED
    BY <2>2 DEF Budgets!Init
<1>2. IInv /\ [Next]_vars => [Budgets!Next]_l
  <2> SUFFICES ASSUME IInv, [Next]_vars PROVE Budgets!Next \/ UNCHANGED l
    OBVIOUS
  <2>1. ASSUME Left(sched') = Left(sched) PROVE UNCHANGED l
    BY <2>1 DEF Left, Live, Process, IndexOf, InUse
  <2>2. CASE Tick
    BY <2>1, <2>2, TickBudgetStep
  <2>3. CASE Command
    BY <2>1, <2>3, CommandBudgetStep
  <2>4. CASE UNCHANGED vars
    BY <2>1, <2>4 DEF vars
  <2> QED
    BY <2>2, <2>3, <2>4 DEF Next
<1> QED
  BY <1>1, <1>2, SpecIInv, PTL DEF Spec, ChargesTheOneThatRan, Budgets!Spec

----------------------------------------------------------------------------
(***************************************************************************)
(* The promise of round robin, for every size of the table and quantum: no *)
(* process has more than a turn while a runnable process waits for its     *)
(* own.                                                                    *)
(*                                                                         *)
(* NoSecondTurn is not inductive: it bounds how often a process has been   *)
(* passed, and says nothing of who may pass it from here on.  TurnsSound   *)
(* adds the order of the turns.  The turns go round the table from the     *)
(* current index, and a process may have let pass only processes that come *)
(* to their turn after it, or the current one for as long as its turn      *)
(* lasts.  Searches, the end of a turn, and the compaction of the table    *)
(* keep that order: this is what the lemmas on Dist say.                   *)
(***************************************************************************)
(* How far the turns are from index i when they have come to index from:   *)
(* upwards, and round at the end of the n processes.                       *)
Dist(n, from, i) == IF i >= from THEN i - from ELSE i - from + n

Place(k, i) == Dist(k.nr_procese, k.current, i)

(* Whom the process at index i has let pass: one that the turns come to    *)
(* after it; or the current one, for as long as its turn lasts, and if it  *)
(* has been made to wait, for more than the given ticks, until the next.   *)
MayHavePassed(k, i, j, count, ticks) ==
  /\ Runnable(k.proc_table[i].state) /\ i # j
  /\ \/ j # k.current /\ Place(k, i) < Place(k, j)
     \/ /\ j = k.current
        /\ \/ k.proc_table[j].state = "RUNNING" /\ count <= k.slice
           \/ k.proc_table[j].state = "WAITING" /\ k.proc_table[j].wait_ticks > ticks

InTurn(k, passed, ticks) ==
  \A i, j \in InUse(k) :
    LET count == passed[k.proc_table[i].id][k.proc_table[j].id]
    IN  count > 0 => MayHavePassed(k, i, j, count, ticks)

Counts == [Ids -> [Ids -> 0 .. QUANTUM]]

TurnsSound ==
  /\ sched.preemptive_mode
  /\ CurrentRunning(sched) => sched.slice < QUANTUM
  /\ overtook \in Counts
  /\ \A id, other \in Ids : other > typed => overtook[id][other] = 0
  /\ InTurn(sched, overtook, 1)

----------------------------------------------------------------------------
(***************************************************************************)
(* Distances round the table.                                              *)
(***************************************************************************)
(* The turns move on to x, which is not further than i: of i and whatever  *)
(* is further than i, i still comes first.                                 *)
LEMMA DistOrder ==
  ASSUME NEW n \in Nat \ {0}, NEW c \in -1 .. n - 1, NEW x \in 0 .. n - 1,
         NEW i \in 0 .. n - 1, NEW j \in 0 .. n - 1,
         Dist(n, c, x) <= Dist(n, c, i), Dist(n, c, i) < Dist(n, c, j)
  PROVE  Dist(n, x, i) < Dist(n, x, j) /\ j # x
BY DEF Dist

(* What the turns leave behind comes last.                                 *)
LEMMA DistWrap ==
  ASSUME NEW n \in Nat \ {0}, NEW c \in 0 .. n - 1, NEW x \in 0 .. n - 1,
         NEW i \in 0 .. n - 1, Dist(n, c, x) <= Dist(n, c, i), x # c
  PROVE  Dist(n, x, i) < Dist(n, x, c)
BY DEF Dist

(* One step on, everything is one step nearer, but for what is passed.     *)
LEMMA DistNext ==
  ASSUME NEW n \in Nat \ {0}, NEW c \in 0 .. n - 1, NEW i \in 0 .. n - 1
  PROVE  LET from == (c + 1) % n
         IN  /\ from \in 0 .. n - 1
             /\ i # c => Dist(n, from, i) = Dist(n, c, i) - 1
             /\ Dist(n, from, c) = n - 1
<1> DEFINE from == (c + 1) % n
<1>1. from = IF c = n - 1 THEN 0 ELSE c + 1
  OBVIOUS
<1> HIDE DEF from
<1> QED
  BY <1>1 DEF Dist, from

LEMMA RemainderOnce ==
  ASSUME NEW n \in Nat \ {0}, NEW a \in Nat, a < n + n
  PROVE  CRem(a, n) = IF a < n THEN a ELSE a - n
<1>1. a % n = IF a < n THEN a ELSE a - n
  OBVIOUS
<1> QED
  BY <1>1 DEF CRem

(* pick_next_ready finds the first runnable process from the index it      *)
(* begins at; and if that is an index in use, it finds one if there is.    *)
LEMMA PickIsFirst ==
  ASSUME NEW B, NEW k \in TablesOf(B), NEW from \in -1 .. k.nr_procese - 1,
         k.nr_procese > 0
  PROVE  LET n    == k.nr_procese
             next == PickNextReady(k, from)
         IN  /\ next >= 0 => \A x \in InUse(k) : Runnable(k.proc_table[x].state) =>
                               Dist(n, from, next) <= Dist(n, from, x)
             /\ from >= 0 /\ next < 0 => \A x \in InUse(k) : ~Runnable(k.proc_table[x].state)
<1> DEFINE n      == k.nr_procese
           next   == PickNextReady(k, from)
           idx(i) == CRem(from + i, n)
           hits   == {i \in InUse(k) : Runnable(StateAt(k, idx(i)))}
<1>1. n \in Nat \ {0} /\ from \in -1 .. n - 1 /\ InUse(k) = 0 .. n - 1
  BY DEF TablesOf, InUse
<1>2. next = IF hits = {} THEN -1 ELSE idx(Min(hits))
  BY DEF PickNextReady
<1>3. hits # {} => Min(hits) \in hits /\ \A y \in hits : Min(hits) <= y
  <2>1. hits \subseteq Nat
    BY <1>1
  <2> HIDE DEF hits
  <2> QED
    BY <2>1, MinInSet
<1>4. CASE from >= 0
  <2>1. \A i \in InUse(k) : idx(i) = IF from + i < n THEN from + i ELSE (from + i) - n
    <3> TAKE i \in InUse(k)
    <3>1. from + i \in Nat /\ from + i < n + n
      BY <1>1, <1>4
    <3> QED
      <4> DEFINE a == from + i
      <4>1. a \in Nat /\ a < n + n
        BY <3>1
      <4> HIDE DEF a, n
      <4>2. CRem(a, n) = IF a < n THEN a ELSE a - n
        BY <1>1, <4>1, RemainderOnce
      <4> QED
        BY <4>2 DEF a
  <2>2. \A i \in InUse(k) : /\ idx(i) \in InUse(k) /\ Dist(n, from, idx(i)) = i
                            /\ StateAt(k, idx(i)) = k.proc_table[idx(i)].state
    BY <1>1, <1>4, <2>1 DEF Dist, StateAt
  <2>3. \A x \in InUse(k) : Dist(n, from, x) \in InUse(k) /\ idx(Dist(n, from, x)) = x
    BY SMTT(60), <1>1, <1>4, <2>1 DEF Dist
  <2>4. \A x \in InUse(k) : Runnable(k.proc_table[x].state) => Dist(n, from, x) \in hits
    BY <2>2, <2>3
  <2> HIDE DEF idx
  <2>5. hits # {} => next \in InUse(k) /\ Dist(n, from, next) = Min(hits)
    BY <1>2, <1>3, <2>2
  <2> HIDE DEF hits, next
  <2> QED
    BY <1>1, <1>2, <1>3, <2>4, <2>5 DEF next
<1>5. CASE from < 0
  <2>1. from = -1
    BY <1>1, <1>5
  <2>2. idx(0) \in {-1, 0} /\ (n > 1 => idx(0) = -1)
    BY <1>1, <2>1 DEF CRem
  <2>3. \A i \in InUse(k) \ {0} : idx(i) = i - 1
    BY <1>1, <2>1 DEF CRem
  <2>4. \A x \in InUse(k) : x + 1 < n /\ Runnable(k.proc_table[x].state) => x + 1 \in hits
    BY <1>1, <2>3 DEF StateAt
  <2> HIDE DEF idx, hits
  <2>5. next >= 0 => \A x \in InUse(k) : Runnable(k.proc_table[x].state) => next <= x
    <3> SUFFICES ASSUME next >= 0, NEW x \in InUse(k), Runnable(k.proc_table[x].state)
                 PROVE  next <= x
      OBVIOUS
    <3>1. hits # {} /\ next = idx(Min(hits)) /\ Min(hits) \in InUse(k)
      BY <1>2, <1>3 DEF hits
    <3>2. CASE Min(hits) = 0
      BY <1>1, <2>2, <3>1, <3>2
    <3>3. CASE Min(hits) # 0
      <4>1. next = Min(hits) - 1
        BY <2>3, <3>1, <3>3
      <4>2. CASE x + 1 < n
        BY <1>1, <1>3, <2>4, <3>1, <4>1, <4>2
      <4>3. CASE ~(x + 1 < n)
        BY <1>1, <3>1, <4>1, <4>3
      <4> QED
        BY <4>2, <4>3
    <3> QED
      BY <3>2, <3>3
  <2> HIDE DEF next
  <2>6. next >= 0 => \A x \in InUse(k) : Runnable(k.proc_table[x].state) =>
                       Dist(n, from, next) <= Dist(n, from, x)
    <3>1. next \in Int
      BY <1>1, <1>2, <1>3, <2>2, <2>3 DEF hits
    <3> QED
      BY <1>1, <2>1, <2>5, <3>1 DEF Dist
  <2> QED
    BY <1>5, <2>6 DEF next
<1> QED
  BY <1>1, <1>4, <1>5

----------------------------------------------------------------------------
(***************************************************************************)
(* Counts over a table.                                                    *)
(***************************************************************************)
(* The counts p of table m are those of o, one higher for process r, and   *)
(* only of processes that can run and did not.                             *)
Counted(m, p, o, r) ==
  \A i, j \in InUse(m) :
    LET a == m.proc_table[i].id
        b == m.proc_table[j].id
    IN  p[a][b] > 0 => /\ Runnable(m.proc_table[i].state) /\ a # r
                       /\ p[a][b] = o[a][b] + (IF b = r THEN 1 ELSE 0)

(* A good table of processes that commands have started.                   *)
Numbered(k) == Good(k) /\ Distinct(k) /\ \A i \in InUse(k) : k.proc_table[i].id \in Ids

(* What the lemmas on indices need to know of a good table.                *)
LEMMA GoodBounds ==
  ASSUME NEW k, Good(k)
  PROVE  /\ k \in TablesOf(Blocks) /\ ControlBlocks(Blocks)
         /\ k.nr_procese \in Nat /\ k.slice \in Nat
         /\ k.current \in -1 .. k.nr_procese - 1
         /\ InUse(k) = 0 .. k.nr_procese - 1 /\ InUse(k) \subseteq Slots
         /\ k.nr_procese <= MAX_PROCESSES
         /\ \A i \in Slots : k.proc_table[i] \in Blocks
BY BlocksAreControl, InUseInSlots, InUseAreSlots
   DEF Good, CurrentInTable, InUse, TablesOf

(* Nobody wakes up out of turn, and a process that is made to wait in the  *)
(* middle of its turn waits on.                                            *)
LEMMA UpdateInTurn ==
  ASSUME NEW k, Good(k), NEW o, InTurn(k, o, 1)
  PROVE  InTurn(UpdateWaiting(k), o, 0)
<1> DEFINE m == UpdateWaiting(k)
<1>1. /\ k \in TablesOf(Blocks) /\ ControlBlocks(Blocks) /\ InUse(k) \subseteq Slots
      /\ \A i \in Slots : k.proc_table[i] \in Blocks
  BY GoodBounds
<1>2. /\ m.current = k.current /\ m.slice = k.slice
      /\ \A i \in InUse(k) : m.proc_table[i] = Awaken(k.proc_table[i])
  BY <1>1, WaitingUpdated
<1>3. SameProcesses(k, m)
  <2>1. 0 \in Nat
    OBVIOUS
  <2> QED
    BY <2>1, OperationsGood
<1> HIDE DEF m
<1>4. InUse(m) = InUse(k) /\ m.nr_procese = k.nr_procese
  BY <1>3 DEF SameProcesses, InUse
<1>5. \A i \in InUse(k) :
        /\ m.proc_table[i].id = k.proc_table[i].id
        /\ Runnable(k.proc_table[i].state) => Runnable(m.proc_table[i].state)
        /\ k.proc_table[i].state = "RUNNING" => m.proc_table[i].state = "RUNNING"
        /\ k.proc_table[i].state = "WAITING" /\ k.proc_table[i].wait_ticks > 1 =>
             m.proc_table[i].state = "WAITING" /\ m.proc_table[i].wait_ticks > 0
  BY <1>1, <1>2, <1>3, Awakened DEF SameProcesses, Runnable
<1>6. ASSUME NEW i \in InUse(m), NEW j \in InUse(m), NEW count,
             MayHavePassed(k, i, j, count, 1)
      PROVE  MayHavePassed(m, i, j, count, 0)
  BY <1>2, <1>4, <1>5, <1>6 DEF MayHavePassed, Place
<1> QED
  BY <1>4, <1>5, <1>6 DEF InTurn, m

(* A process that is given its turn when it is the first that can run has  *)
(* not let anyone pass, nor has it passed anyone.                          *)
LEMMA SwitchInTurn ==
  ASSUME NEW k, Numbered(k), NEW o \in Counts, InTurn(k, o, 0),
         NEW next \in InUse(k), Runnable(k.proc_table[next].state), ~CurrentRunning(k),
         \A x \in InUse(k) : Runnable(k.proc_table[x].state) =>
           Dist(k.nr_procese, k.current, next) <= Dist(k.nr_procese, k.current, x)
  PROVE  InTurn(SwitchTo(k, next), o, 0)
<1> DEFINE m == SwitchTo(k, next)
           n == k.nr_procese
           c == k.current
<1>1. /\ k \in TablesOf(Blocks) /\ ControlBlocks(Blocks) /\ n \in Nat \ {0}
      /\ c \in -1 .. n - 1 /\ InUse(k) = 0 .. n - 1 /\ InUse(k) \subseteq Slots
      /\ \A i \in Slots : k.proc_table[i] \in Blocks
  <2>1. Good(k)
    BY DEF Numbered
  <2> QED
    BY <2>1, GoodBounds
<1>2. /\ m.current = next /\ m.nr_procese = n
      /\ m.proc_table[next].state = "RUNNING"
      /\ \A i \in Slots \ {next} : m.proc_table[i] = k.proc_table[i]
      /\ \A i \in Slots : Like(m.proc_table[i], k.proc_table[i])
  BY <1>1, Switched DEF KeepsBlocks
<1>3. \A i \in InUse(k) : m.proc_table[i].id = k.proc_table[i].id
  BY <1>1, <1>2, LikeSameId
<1> HIDE DEF m
<1>4. InUse(m) = InUse(k)
  BY <1>2 DEF InUse
<1> SUFFICES ASSUME NEW i \in InUse(k), NEW j \in InUse(k),
                    o[k.proc_table[i].id][k.proc_table[j].id] > 0
             PROVE  /\ Runnable(m.proc_table[i].state) /\ i # j
                    /\ j # next /\ Dist(n, next, i) < Dist(n, next, j)
  BY <1>2, <1>3, <1>4 DEF InTurn, MayHavePassed, Place, m
<1>5. MayHavePassed(k, i, j, o[k.proc_table[i].id][k.proc_table[j].id], 0)
  BY DEF InTurn
<1>6. Runnable(k.proc_table[i].state) /\ i # j /\ Dist(n, c, next) <= Dist(n, c, i)
  BY <1>5 DEF MayHavePassed
<1>7. Runnable(m.proc_table[i].state)
  BY <1>1, <1>2, <1>6 DEF Runnable
<1>8. CASE j # c
  <2>1. Dist(n, c, i) < Dist(n, c, j)
    BY <1>5, <1>8 DEF MayHavePassed, Place
  <2> HIDE DEF n, c
  <2> QED
    BY <1>1, <1>6, <1>7, <2>1, DistOrder
<1>9. CASE j = c
  <2>1. k.proc_table[j].state = "WAITING"
    BY <1>5, <1>9 DEF MayHavePassed, CurrentRunning, CurrentValid
  <2>2. next # c /\ c \in 0 .. n - 1
    BY <1>1, <1>9, <2>1 DEF Runnable
  <2> HIDE DEF n, c
  <2> QED
    BY <1>1, <1>6, <1>7, <1>9, <2>2, DistWrap
<1> QED
  BY <1>8, <1>9

(* The choice of a process keeps the order of the turns.                   *)
LEMMA DispatchInTurn ==
  ASSUME NEW k, Numbered(k), NEW o \in Counts, InTurn(k, o, 0), k.nr_procese > 0,
         CurrentRunning(k) => k.slice < QUANTUM, CurrentRunning(Dispatch(k))
  PROVE  InTurn(Dispatch(k), o, 0) /\ Dispatch(k).slice < QUANTUM
<1> DEFINE next == PickNextReady(k, k.current)
<1>1. CASE CurrentRunning(k) \/ next < 0
  <2>1. Dispatch(k) = k
    BY <1>1 DEF Dispatch
  <2> QED
    BY <2>1
<1>2. CASE ~(CurrentRunning(k) \/ next < 0)
  <2>1. /\ k \in TablesOf(Blocks) /\ ControlBlocks(Blocks)
        /\ k.current \in -1 .. k.nr_procese - 1 /\ k.current \in -1 .. MAX_PROCESSES - 1
    <3>1. Good(k)
      BY DEF Numbered
    <3> QED
      BY <3>1, GoodBounds DEF TablesOf
  <2>2. Dispatch(k) = SwitchTo(k, next)
    BY <1>2 DEF Dispatch
  <2>3. next \in -1 .. k.nr_procese - 1
    BY <2>1, PickIsRunnable
  <2>4. next >= 0
    BY <1>2, <2>3
  <2>5. next \in InUse(k) /\ Runnable(k.proc_table[next].state)
    BY <2>1, <2>4, PickIsRunnable
  <2>6. \A x \in InUse(k) : Runnable(k.proc_table[x].state) =>
          Dist(k.nr_procese, k.current, next) <= Dist(k.nr_procese, k.current, x)
    BY <2>1, <2>4, PickIsFirst
  <2> HIDE DEF next
  <2>7. InTurn(SwitchTo(k, next), o, 0)
    BY <1>2, <2>5, <2>6, SwitchInTurn
  <2>8. SwitchTo(k, next).slice < QUANTUM
    BY <2>1, <2>5, Switched, TableAssumption
  <2> QED
    BY <2>2, <2>7, <2>8
<1> QED
  BY <1>1, <1>2

(* With no process found, none is runnable, or none is current.            *)
LEMMA NothingPicked ==
  ASSUME NEW k, Numbered(k), k.nr_procese > 0, HasReady(k), ~CurrentRunning(Dispatch(k))
  PROVE  k.current = -1
<1> DEFINE next == PickNextReady(k, k.current)
<1>1. /\ k \in TablesOf(Blocks) /\ ControlBlocks(Blocks)
      /\ k.current \in -1 .. k.nr_procese - 1 /\ k.current \in -1 .. MAX_PROCESSES - 1
  <2>1. Good(k)
    BY DEF Numbered
  <2> QED
    BY <2>1, GoodBounds DEF TablesOf
<1>2. ~CurrentRunning(k) /\ next < 0
  <2> SUFFICES ASSUME CurrentRunning(k) \/ ~(next < 0) PROVE FALSE
    OBVIOUS
  <2>1. ~CurrentRunning(k)
    BY DEF Dispatch
  <2>2. next \in -1 .. k.nr_procese - 1 /\ (next >= 0 => next \in InUse(k))
    BY <1>1, PickIsRunnable
  <2>3. Dispatch(k) = SwitchTo(k, next)
    BY <2>1 DEF Dispatch
  <2> HIDE DEF next
  <2>4. next \in InUse(k)
    BY <2>1, <2>2
  <2> QED
    BY <1>1, <2>3, <2>4, Switched
<1>3. k.current >= 0 => \A x \in InUse(k) : ~Runnable(k.proc_table[x].state)
  BY <1>1, <1>2, PickIsFirst
<1> QED
  BY <1>1, <1>3 DEF HasReady

----------------------------------------------------------------------------
(***************************************************************************)
(* After the entry of the current process has returned.                    *)
(***************************************************************************)
(* The table when the tick is charged: whoever waits for its turn has let  *)
(* pass only processes that come after it, and the current one for less    *)
(* than the ticks it has had by now.                                       *)
Ahead(l, o) ==
  \A i, j \in InUse(l) :
    LET count == o[l.proc_table[i].id][l.proc_table[j].id]
    IN  i # l.current /\ count > 0 =>
          /\ i # j
          /\ j # l.current => Place(l, i) < Place(l, j)
          /\ j = l.current => count < l.slice

(* The same processes, numbered as before.                                 *)
LEMMA SameNumbered ==
  ASSUME NEW k, Numbered(k), NEW m, Good(m), SameProcesses(k, m)
  PROVE  Numbered(m) /\ InUse(m) = InUse(k)
<1>1. InUse(m) = InUse(k) /\ InUse(k) \subseteq Slots
  BY GoodBounds DEF SameProcesses, InUse, Numbered
<1> QED
  BY <1>1 DEF Numbered, SameProcesses, Distinct

LEMMA ChargedAhead ==
  ASSUME NEW k, Numbered(k), NEW o \in Counts, InTurn(k, o, 0), CurrentRunning(k),
         NEW e \in {EntryReturns(k), EntryExits(k)}
  PROVE  LET l == Charge(e)
         IN  /\ Numbered(l) /\ CurrentRunning(l) /\ Ahead(l, o) /\ SameProcesses(k, l)
             /\ l.current = k.current /\ l.slice = k.slice + 1
             /\ l.preemptive_mode = k.preemptive_mode
<1> DEFINE c == k.current
           l == Charge(e)
<1>1. /\ k \in TablesOf(Blocks) /\ ControlBlocks(Blocks) /\ Good(k)
      /\ c \in InUse(k) /\ k.proc_table[c].state = "RUNNING"
      /\ k.slice \in Nat /\ InUse(k) \subseteq Slots
  BY GoodBounds DEF Numbered, CurrentRunning, CurrentValid
<1>2. /\ e \in TablesOf(Blocks) /\ KeepsBlocks(k, e) /\ CurrentRunning(e)
      /\ e.current = c /\ e.slice = k.slice /\ e.preemptive_mode = k.preemptive_mode
      /\ (Orderly(k) => Orderly(e))
  <2>1. CASE e = k
    BY <1>1, <2>1, KeepsItself
  <2>2. CASE e = Kill(k, k.current)
    BY <1>1, <2>2, Killed
  <2> QED
    BY <2>1, <2>2 DEF EntryReturns, EntryExits
<1>3. /\ l \in TablesOf(Blocks) /\ KeepsBlocks(e, l) /\ CurrentRunning(l)
      /\ l.current = e.current /\ l.slice = e.slice + 1
      /\ l.preemptive_mode = e.preemptive_mode /\ (Orderly(e) => Orderly(l))
  BY <1>1, <1>2, Charged
<1> HIDE DEF l
<1>4. Good(l) /\ SameProcesses(k, l)
  <2>1. KeepsBlocks(k, l)
    BY <1>2, <1>3, KeepsChain
  <2> QED
    BY <1>1, <1>2, <1>3, <2>1, KeepsGood
<1>5. Numbered(l) /\ InUse(l) = InUse(k)
  BY <1>4, SameNumbered
<1>6. Ahead(l, o)
  <2> SUFFICES ASSUME NEW i \in InUse(k), NEW j \in InUse(k), i # c,
                      o[k.proc_table[i].id][k.proc_table[j].id] > 0
               PROVE  /\ i # j
                      /\ j # c => Place(k, i) < Place(k, j)
                      /\ j = c => o[k.proc_table[i].id][k.proc_table[j].id] < k.slice + 1
    <3>1. \A i \in InUse(k) : l.proc_table[i].id = k.proc_table[i].id
      BY <1>1, <1>4 DEF SameProcesses
    <3>2. \A i : Place(l, i) = Place(k, i)
      BY <1>2, <1>3, <1>4 DEF Place, SameProcesses
    <3> QED
      BY <1>2, <1>3, <1>5, <3>1, <3>2 DEF Ahead
  <2> DEFINE count == o[k.proc_table[i].id][k.proc_table[j].id]
  <2>1. MayHavePassed(k, i, j, count, 0)
    BY DEF InTurn
  <2>2. count \in Int
    BY TableAssumption DEF Counts, Numbered
  <2> HIDE DEF count
  <2> QED
    BY <1>1, <2>1, <2>2 DEF MayHavePassed, count
<1> QED
  BY <1>2, <1>3, <1>4, <1>5, <1>6 DEF l

(* The turn goes on.                                                       *)
LEMMA StayInTurn ==
  ASSUME NEW l, Numbered(l), CurrentRunning(l), NEW o \in Counts, Ahead(l, o),
         NEW p, Counted(l, p, o, l.proc_table[l.current].id), l.slice > 0
  PROVE  InTurn(l, p, 1)
<1> DEFINE c == l.current
           r == l.proc_table[c].id
<1>1. c \in InUse(l) /\ l.proc_table[c].state = "RUNNING" /\ l.slice \in Nat
  BY GoodBounds DEF Numbered, CurrentRunning, CurrentValid
<1> SUFFICES ASSUME NEW i \in InUse(l), NEW j \in InUse(l),
                    p[l.proc_table[i].id][l.proc_table[j].id] > 0
             PROVE  MayHavePassed(l, i, j, p[l.proc_table[i].id][l.proc_table[j].id], 1)
  BY DEF InTurn
<1> DEFINE a == l.proc_table[i].id
           b == l.proc_table[j].id
<1>2. /\ Runnable(l.proc_table[i].state) /\ a # r
      /\ p[a][b] = o[a][b] + (IF b = r THEN 1 ELSE 0)
  BY SMTT(60) DEF Counted
<1>3. i # c /\ (b = r <=> j = c) /\ o[a][b] \in Nat
  BY SMTT(60), <1>1, <1>2, TableAssumption DEF Numbered, Distinct, Counts
<1>4. CASE j = c
  <2>1. p[a][b] <= l.slice
    <3>1. o[a][b] < l.slice
      <4>1. o[a][b] > 0 => o[a][b] < l.slice
        BY <1>3, <1>4 DEF Ahead
      <4> HIDE DEF a, b
      <4> QED
        BY SMTT(60), <1>1, <1>3, <4>1
    <3> HIDE DEF a, b
    <3> QED
      BY <1>1, <1>2, <1>3, <1>4, <3>1
  <2> QED
    BY <1>1, <1>2, <1>3, <1>4, <2>1 DEF MayHavePassed
<1>5. CASE j # c
  <2>1. o[a][b] > 0
    <3>1. p[a][b] > 0
      OBVIOUS
    <3> HIDE DEF a, b
    <3> QED
      BY <1>2, <1>3, <1>5, <3>1
  <2>2. Place(l, i) < Place(l, j) /\ i # j
    BY SMTT(60), <1>3, <1>5, <2>1 DEF Ahead
  <2> QED
    BY <1>2, <1>5, <2>2 DEF MayHavePassed
<1> QED
  BY <1>4, <1>5

(* What is counted of another process than the current one was counted     *)
(* before.                                                                 *)
LEMMA CountedWithout ==
  ASSUME NEW y \in Nat, NEW x \in Int, NEW b, NEW r,
         x = y + (IF b = r THEN 1 ELSE 0), b # r, x > 0
  PROVE  y > 0
OBVIOUS

(* Whom a process lets pass at the end of a turn is counted before the     *)
(* next turn begins.                                                       *)
LEMMA CountedBefore ==
  ASSUME NEW l, Numbered(l), CurrentRunning(l), NEW o \in Counts, Ahead(l, o),
         NEW i \in InUse(l), NEW j \in InUse(l), NEW x \in Int,
         l.proc_table[i].id # l.proc_table[l.current].id, x > 0,
         x = o[l.proc_table[i].id][l.proc_table[j].id]
               + (IF l.proc_table[j].id = l.proc_table[l.current].id THEN 1 ELSE 0)
  PROVE  /\ i # l.current
         /\ j # l.current => Place(l, i) < Place(l, j)
<1> DEFINE a == l.proc_table[i].id
           b == l.proc_table[j].id
<1>1. l.current \in InUse(l)
  BY Zenon DEF CurrentRunning, CurrentValid
<1>2. i # l.current /\ (j # l.current => b # l.proc_table[l.current].id)
  BY Zenon, <1>1 DEF Numbered, Distinct
<1>3. o[a][b] \in Nat
  <2>1. a \in Ids /\ b \in Ids
    BY Zenon DEF Numbered
  <2>2. QUANTUM \in Nat
    BY Zenon, TableAssumption
  <2> HIDE DEF a, b
  <2>3. o[a] \in [Ids -> 0 .. QUANTUM]
    BY Zenon, <2>1 DEF Counts
  <2>4. o[a][b] \in 0 .. QUANTUM
    BY <2>1, <2>3
  <2> QED
    BY SMTT(60), <2>2, <2>4
<1>4. j # l.current => o[a][b] > 0
  <2> SUFFICES ASSUME j # l.current PROVE o[a][b] > 0
    OBVIOUS
  <2>1. b # l.proc_table[l.current].id
    BY <1>2, Zenon
  <2>2. x = o[a][b] + (IF b = l.proc_table[l.current].id THEN 1 ELSE 0) /\ x > 0 /\ x \in Int
    BY Zenon
  <2> HIDE DEF a, b
  <2> QED
    BY <1>3, <2>1, <2>2, CountedWithout, ZenonT(60)
<1> QED
  BY <1>2, <1>4, Zenon DEF Ahead

(* The turn ends, and the next process that can run has its own.           *)
LEMMA RotateInTurn ==
  ASSUME NEW l, Numbered(l), CurrentRunning(l), NEW o \in Counts, Ahead(l, o),
         NEW p, Counted(Rotate(l), p, o, l.proc_table[l.current].id),
         \A i, j \in InUse(l) : p[l.proc_table[i].id][l.proc_table[j].id] \in Int
  PROVE  InTurn(Rotate(l), p, 1)
<1> DEFINE c == l.current
           n == l.nr_procese
           b == [l.proc_table[c] EXCEPT !.state = "READY"]
           q == [l EXCEPT !.proc_table = [l.proc_table EXCEPT ![c] = b]]
           from == (c + 1) % n
           next == PickNextReady(q, from)
<1>1. /\ l \in TablesOf(Blocks) /\ ControlBlocks(Blocks)
      /\ c \in InUse(l) /\ c \in Slots /\ l.proc_table[c] \in Blocks
      /\ InUse(l) = 0 .. n - 1 /\ n \in Nat \ {0} /\ InUse(l) \subseteq Slots
      /\ c \in 0 .. n - 1
  <2>1. Good(l) /\ c \in InUse(l)
    BY DEF Numbered, CurrentRunning, CurrentValid
  <2>2. /\ l \in TablesOf(Blocks) /\ ControlBlocks(Blocks)
        /\ InUse(l) = 0 .. n - 1 /\ n \in Nat /\ InUse(l) \subseteq Slots
        /\ \A i \in Slots : l.proc_table[i] \in Blocks
    BY <2>1, GoodBounds
  <2> QED
    BY <2>1, <2>2
<1>2. b \in Blocks /\ Like(b, l.proc_table[c]) /\ b.state = "READY" /\ b.id = l.proc_table[c].id
  <2>1. b \in Blocks /\ Like(b, l.proc_table[c]) /\ b.state = "READY"
    <3>1. "READY" \in States
      BY DEF States
    <3> QED
      BY <1>1, <3>1, StateWritten
  <2> HIDE DEF b
  <2> QED
    BY <1>1, <2>1, LikeSameId
<1>3. Rotate(l) = IF next >= 0 THEN SwitchTo(q, next) ELSE [q EXCEPT !.slice = 0]
  BY DEF Rotate
<1> HIDE DEF b
<1>4. /\ q \in TablesOf(Blocks) /\ q.nr_procese = n /\ q.current = c
      /\ q.proc_table[c] = b
      /\ \A j \in Slots \ {c} : q.proc_table[j] = l.proc_table[j]
      /\ InUse(q) = InUse(l)
  <2>1. l \in TablesOf(Blocks) /\ c \in InUse(l) /\ b \in Blocks /\ Like(b, l.proc_table[c])
    BY <1>1, <1>2
  <2> HIDE DEF c
  <2> QED
    BY <2>1, OneWritten DEF c
<1> HIDE DEF q
<1>5. /\ from \in 0 .. n - 1 /\ Dist(n, from, c) = n - 1
      /\ \A i \in InUse(l) : i # c => Dist(n, from, i) = Dist(n, c, i) - 1
  BY ZenonT(60), <1>1, DistNext
<1>6. from \in -1 .. q.nr_procese - 1 /\ q.nr_procese > 0 /\ from \in -1 .. MAX_PROCESSES - 1
      /\ from >= 0
  <2>1. n <= MAX_PROCESSES
    BY <1>1 DEF TablesOf
  <2> HIDE DEF from
  <2> QED
    BY <1>1, <1>4, <1>5, <2>1, TableAssumption
<1> HIDE DEF from
<1>7. /\ next \in InUse(q)
      /\ \A x \in InUse(q) : Runnable(q.proc_table[x].state) =>
           Dist(n, from, next) <= Dist(n, from, x)
  <2>1. /\ next \in -1 .. q.nr_procese - 1
        /\ next >= 0 => next \in InUse(q)
    BY <1>4, <1>6, PickIsRunnable
  <2>2. /\ next >= 0 => \A x \in InUse(q) : Runnable(q.proc_table[x].state) =>
                           Dist(n, from, next) <= Dist(n, from, x)
        /\ from >= 0 /\ next < 0 => \A x \in InUse(q) : ~Runnable(q.proc_table[x].state)
    BY <1>4, <1>6, PickIsFirst
  <2>3. c \in InUse(q) /\ Runnable(q.proc_table[c].state)
    BY <1>1, <1>2, <1>4 DEF Runnable
  <2>4. ~(next < 0)
    BY <1>6, <2>2, <2>3
  <2>5. next >= 0
    <3> HIDE DEF next
    <3> QED
      BY <1>1, <1>4, <2>1, <2>4
  <2> QED
    BY <2>1, <2>2, <2>5
<1> DEFINE m == SwitchTo(q, next)
<1>8. Rotate(l) = m
  <2>1. next >= 0
    <3> HIDE DEF next
    <3> QED
      BY <1>1, <1>4, <1>7
  <2> QED
    BY <1>3, <2>1
<1> HIDE DEF next
<1>9. /\ m.current = next /\ m.nr_procese = n
      /\ \A i \in Slots \ {next} : m.proc_table[i] = q.proc_table[i]
      /\ KeepsBlocks(q, m)
  BY <1>1, <1>4, <1>7, Switched DEF KeepsBlocks
<1> HIDE DEF m
<1>10. InUse(m) = InUse(l)
  BY <1>4, <1>9 DEF InUse
<1>11. \A i \in InUse(l) :
         /\ m.proc_table[i].id = l.proc_table[i].id
         /\ Runnable(m.proc_table[i].state) /\ i # next => Runnable(q.proc_table[i].state)
  <2> TAKE i \in InUse(l)
  <2>1. i \in Slots /\ q.proc_table[i] \in Blocks /\ Like(m.proc_table[i], q.proc_table[i])
    BY <1>1, <1>4, <1>9, InUseAreSlots DEF KeepsBlocks
  <2>2. m.proc_table[i].id = q.proc_table[i].id
    BY <2>1, LikeSameId
  <2>3. q.proc_table[i].id = l.proc_table[i].id
    BY <1>2, <1>4, <2>1
  <2> QED
    BY <1>9, <2>1, <2>2, <2>3
<1> SUFFICES ASSUME NEW i \in InUse(l), NEW j \in InUse(l),
                    p[l.proc_table[i].id][l.proc_table[j].id] > 0
             PROVE  /\ Runnable(m.proc_table[i].state) /\ i # j
                    /\ j # next /\ Dist(n, next, i) < Dist(n, next, j)
  BY <1>8, <1>9, <1>10, <1>11 DEF InTurn, MayHavePassed, Place
<1>12. /\ Runnable(m.proc_table[i].state) /\ l.proc_table[i].id # l.proc_table[c].id
       /\ p[l.proc_table[i].id][l.proc_table[j].id]
            = o[l.proc_table[i].id][l.proc_table[j].id]
              + (IF l.proc_table[j].id = l.proc_table[c].id THEN 1 ELSE 0)
  BY SMTT(60), <1>8, <1>10, <1>11 DEF Counted
<1>13. i # c /\ (j # c => Dist(n, c, i) < Dist(n, c, j))
  <2> DEFINE x == p[l.proc_table[i].id][l.proc_table[j].id]
  <2>1. x \in Int /\ x > 0
    OBVIOUS
  <2> HIDE DEF x
  <2> QED
    BY <1>12, <2>1, CountedBefore DEF Place, x
<1>14. Dist(n, from, i) < Dist(n, from, j)
  <2>1. CASE j = c
    <3>1. i \in 0 .. n - 1 /\ c \in 0 .. n - 1 /\ n \in Nat
      BY <1>1
    <3>2. Dist(n, c, i) < n /\ Dist(n, c, i) \in Int
      <4> HIDE DEF n, c
      <4> QED
        BY <3>1 DEF Dist
    <3> HIDE DEF n, c
    <3> QED
      BY <1>5, <1>13, <2>1, <3>1, <3>2
  <2>2. CASE j # c
    <3>1. i \in Int /\ j \in Int /\ c \in Int /\ n \in Int
      BY <1>1
    <3>2. Dist(n, c, i) \in Int /\ Dist(n, c, j) \in Int
      <4> HIDE DEF n, c
      <4> QED
        BY <3>1 DEF Dist
    <3> QED
      BY <1>5, <1>13, <2>2, <3>2
  <2> QED
    BY <2>1, <2>2
<1>15. Dist(n, from, next) <= Dist(n, from, i)
  <2>1. CASE i = next
    BY SMTT(60), <1>1, <1>5, <2>1 DEF Dist
  <2>2. CASE i # next
    BY <1>4, <1>7, <1>11, <1>12, <2>2
  <2> QED
    BY <2>1, <2>2
<1>16. Dist(n, next, i) < Dist(n, next, j) /\ j # next
  <2>1. next \in 0 .. n - 1 /\ from \in -1 .. n - 1
    BY <1>1, <1>4, <1>5, <1>7
  <2> HIDE DEF n
  <2> QED
    BY <1>1, <1>14, <1>15, <2>1, DistOrder
<1>17. i # j
  <2>1. Dist(n, next, i) \in Int
    BY SMTT(60), <1>1, <1>4, <1>7 DEF Dist
  <2> QED
    BY <1>16, <2>1
<1> QED
  BY <1>12, <1>16, <1>17

(* The process leaves, the others close the gap, and the one that took its *)
(* index is current.                                                       *)
LEMMA ReapInTurn ==
  ASSUME NEW l, Numbered(l), CurrentRunning(l), NEW o \in Counts, Ahead(l, o),
         NEW p, Counted(Reap(l), p, o, l.proc_table[l.current].id),
         \A i, j \in InUse(l) : p[l.proc_table[i].id][l.proc_table[j].id] \in Int
  PROVE  InTurn(Reap(l), p, 1)
<1> DEFINE c == l.current
           n == l.nr_procese
           m == Reap(l)
           last == n - 1
           next == m.current
<1>1. /\ Good(l) /\ Distinct(l) /\ c \in InUse(l)
      /\ l \in TablesOf(Blocks) /\ ControlBlocks(Blocks)
      /\ InUse(l) = 0 .. n - 1 /\ n \in Nat /\ CurrentValid(l)
  BY GoodBounds DEF Numbered, CurrentRunning, CurrentValid
<1>2. /\ m \in TablesOf(Blocks) /\ Compacts(l, m) /\ (Orderly(l) => Orderly(m))
      /\ m.nr_procese > 0 => m.current = c % m.nr_procese
  BY <1>1, Reaped
<1> HIDE DEF m
<1>3. /\ m.nr_procese = last /\ InUse(m) = 0 .. last - 1
      /\ \A i \in InUse(m) : /\ Before(l, i) \in InUse(l) \ {c}
                              /\ m.proc_table[i].id = l.proc_table[Before(l, i)].id
  BY SMTT(60), <1>1, <1>2, CompactsGood DEF Compacts, InUse
<1> SUFFICES ASSUME NEW i \in InUse(m), NEW j \in InUse(m),
                    p[m.proc_table[i].id][m.proc_table[j].id] > 0
             PROVE  /\ Runnable(m.proc_table[i].state) /\ i # j
                    /\ j # next /\ Dist(last, next, i) < Dist(last, next, j)
  BY <1>2, <1>3 DEF InTurn, MayHavePassed, Place, m
<1>4. /\ n \in Nat /\ c \in 0 .. n - 1 /\ i \in 0 .. n - 2 /\ j \in 0 .. n - 2
      /\ next = c % (n - 1)
  <2>1. i \in 0 .. last - 1 /\ j \in 0 .. last - 1
    BY <1>3
  <2>2. last > 0
    BY <1>1, <2>1
  <2>3. next = c % last
    BY <1>2, <1>3, <2>2
  <2> QED
    BY <1>1, <2>1, <2>3
<1>5. /\ next \in 0 .. n - 2
      /\ Dist(last, next, i) = Dist(n, c, Before(l, i)) - 1
      /\ Dist(last, next, j) = Dist(n, c, Before(l, j)) - 1
  <2>1. next = IF c = n - 1 THEN 0 ELSE c
    BY <1>4
  <2>2. \A x \in 0 .. n - 2 : Dist(n - 1, IF c = n - 1 THEN 0 ELSE c, x)
                                = Dist(n, c, IF x < c THEN x ELSE x + 1) - 1
    <3> HIDE DEF n, c
    <3> QED
      BY <1>4 DEF Dist
  <2> QED
    BY <1>4, <2>1, <2>2 DEF Before
<1>6. /\ Runnable(m.proc_table[i].state) /\ m.proc_table[i].id # l.proc_table[c].id
      /\ p[m.proc_table[i].id][m.proc_table[j].id]
           = o[m.proc_table[i].id][m.proc_table[j].id]
             + (IF m.proc_table[j].id = l.proc_table[c].id THEN 1 ELSE 0)
  BY DEF Counted, m
<1>7. Dist(n, c, Before(l, i)) < Dist(n, c, Before(l, j))
  <2> DEFINE x == p[m.proc_table[i].id][m.proc_table[j].id]
             y == Before(l, i)
             z == Before(l, j)
  <2>1. /\ y \in InUse(l) /\ z \in InUse(l) \ {c}
        /\ m.proc_table[i].id = l.proc_table[y].id
        /\ m.proc_table[j].id = l.proc_table[z].id
    BY <1>3
  <2>2. x \in Int /\ x > 0
    BY SMTT(60), <2>1
  <2> HIDE DEF x, y, z
  <2>3. /\ l.proc_table[y].id # l.proc_table[c].id
        /\ x = o[l.proc_table[y].id][l.proc_table[z].id]
                  + (IF l.proc_table[z].id = l.proc_table[c].id THEN 1 ELSE 0)
    BY SMTT(60), <1>6, <2>1 DEF x
  <2>4. z # c => Place(l, y) < Place(l, z)
    BY <2>1, <2>2, <2>3, CountedBefore
  <2> QED
    BY <2>1, <2>4 DEF Place, y, z
<1>8. Dist(last, next, i) < Dist(last, next, j) /\ Dist(last, next, i) \in Nat
  <2>1. Before(l, i) \in 0 .. n - 1 /\ Before(l, j) \in 0 .. n - 1
    BY <1>1, <1>3
  <2>2. Dist(n, c, Before(l, i)) \in Int /\ Dist(n, c, Before(l, j)) \in Int
    <3> HIDE DEF n, c
    <3> QED
      BY <1>4, <2>1 DEF Dist
  <2>3. Dist(last, next, i) \in Nat
    <3>1. last \in Nat /\ next \in 0 .. last - 1 /\ i \in 0 .. last - 1
      BY <1>3, <1>4, <1>5
    <3> HIDE DEF last, next
    <3> QED
      BY <3>1 DEF Dist
  <2> QED
    BY <1>5, <1>7, <2>2, <2>3
<1>9. i # j /\ j # next
  <2>1. last \in Nat /\ next \in 0 .. last - 1 /\ i \in 0 .. last - 1 /\ j \in 0 .. last - 1
    BY <1>3, <1>4, <1>5
  <2> HIDE DEF last, next
  <2> QED
    BY <1>8, <2>1 DEF Dist
<1> QED
  BY <1>6, <1>8, <1>9

(* Whatever the tick does after entry(), the turns keep their order.       *)
LEMMA AfterEntryInTurn ==
  ASSUME NEW k, Numbered(k), NEW o \in Counts, InTurn(k, o, 0), CurrentRunning(k),
         k.preemptive_mode, NEW e \in {EntryReturns(k), EntryExits(k)},
         NEW p \in [Ids -> [Ids -> Int]],
         Counted(AfterEntry(e), p, o, k.proc_table[k.current].id)
  PROVE  InTurn(AfterEntry(e), p, 1) /\ AfterEntry(e).preemptive_mode
<1> DEFINE l == Charge(e)
           m == AfterEntry(e)
           r == l.proc_table[l.current].id
<1>1. /\ Numbered(l) /\ CurrentRunning(l) /\ Ahead(l, o) /\ SameProcesses(k, l)
      /\ l.current = k.current /\ l.slice = k.slice + 1 /\ l.preemptive_mode
  BY ChargedAhead
<1>2. /\ l.proc_table[l.current].remaining <= 0 => m = Reap(l)
      /\ ~(l.proc_table[l.current].remaining <= 0) =>
           m = IF l.preemptive_mode /\ l.slice >= QUANTUM THEN Rotate(l) ELSE l
  BY DEF AfterEntry
<1> HIDE DEF l
<1>3. Counted(m, p, o, r)
  <2>1. k.current \in Slots
    BY GoodBounds DEF Numbered, CurrentRunning, CurrentValid
  <2>2. r = k.proc_table[k.current].id
    BY <1>1, <2>1 DEF SameProcesses
  <2> QED
    BY <2>2
<1> HIDE DEF m
<1>4. \A i, j \in InUse(l) : p[l.proc_table[i].id][l.proc_table[j].id] \in Int
  BY <1>1 DEF Numbered
<1>5. /\ l \in TablesOf(Blocks) /\ ControlBlocks(Blocks) /\ CurrentValid(l) /\ l.slice > 0
  <2>1. Good(k) /\ Good(l) /\ CurrentValid(l)
    BY <1>1 DEF Numbered, CurrentRunning
  <2>2. k.slice \in Nat
    BY SMTT(60), <2>1, GoodBounds
  <2> QED
    BY <1>1, <2>1, <2>2, GoodBounds
<1>6. CASE m = Reap(l)
  BY <1>1, <1>3, <1>4, <1>5, <1>6, Reaped, ReapInTurn DEF m
<1>7. CASE m = Rotate(l)
  BY <1>1, <1>3, <1>4, <1>5, <1>7, Rotated, RotateInTurn DEF m
<1>8. CASE m = l
  BY <1>1, <1>3, <1>5, <1>8, StayInTurn DEF m
<1> QED
  BY <1>2, <1>6, <1>7, <1>8

----------------------------------------------------------------------------
(***************************************************************************)
(* The invariant.                                                          *)
(***************************************************************************)
LEMMA SoundNumbered ==
  ASSUME NEW k, NEW n \in 0 .. MaxCommands, Sound(k, n)
  PROVE  Numbered(k) /\ BornBefore(k, n)
BY SchedulerAssumption DEF Sound, Numbered, BornBefore, Ids

LEMMA RunnableAt ==
  ASSUME NEW k, Distinct(k), NEW i \in InUse(k)
  PROVE  RunnableIn(k, k.proc_table[i].id) <=> Runnable(k.proc_table[i].state)
<1>1. IndexOf(k, k.proc_table[i].id) = i
  BY DEF IndexOf, Distinct
<1> QED
  BY <1>1 DEF RunnableIn, Process, Live

(* How a step counts.                                                      *)
LEMMA StepCounts ==
  ASSUME IInv, IInv', overtook \in Counts, RoundRobinNext
  PROVE  /\ Sound(sched', typed') /\ Numbered(sched) /\ Numbered(sched')
         /\ Counted(sched', overtook', overtook, ran')
         /\ overtook' \in [Ids -> [Ids -> Int]]
         /\ \A id, other \in Ids :
              \/ overtook'[id][other] = 0
              \/ /\ RunnableIn(sched, id) /\ ran' # id
                 /\ overtook'[id][other] = overtook[id][other] + (IF ran' = other THEN 1 ELSE 0)
<1>1. Sound(sched', typed') /\ typed' \in 0 .. MaxCommands
  BY DEF IInv, Sound, Good, Compact, OneRunning, CurrentInTable, Distinct, BornBefore, InUse
<1>2. Numbered(sched) /\ Numbered(sched')
  BY <1>1, SoundNumbered DEF IInv
<1>3. \A id, other \in Ids :
        overtook'[id][other] = IF RunnableIn(sched, id) /\ RunnableIn(sched', id) /\ ran' # id
                               THEN overtook[id][other] + (IF ran' = other THEN 1 ELSE 0)
                               ELSE 0
  BY DEF RoundRobinNext, RunnableIn, Process, IndexOf, Live, InUse
<1>4. \A id, other \in Ids : overtook[id][other] \in Int
  BY TableAssumption DEF Counts
<1>5. overtook' \in [Ids -> [Ids -> Int]]
  <2>1. \A id, other \in Ids :
          (IF RunnableIn(sched, id) /\ RunnableIn(sched', id) /\ ran' # id
           THEN overtook[id][other] + (IF ran' = other THEN 1 ELSE 0) ELSE 0) \in Int
    BY <1>4
  <2>2. overtook' = [id \in Ids |-> [other \in Ids |->
          IF RunnableIn(sched, id) /\ RunnableIn(sched', id) /\ ran' # id
          THEN overtook[id][other] + (IF ran' = other THEN 1 ELSE 0) ELSE 0]]
    BY DEF RoundRobinNext, RunnableIn, Process, IndexOf, Live, InUse
  <2> QED
    BY <2>1, <2>2
<1>6. Counted(sched', overtook', overtook, ran')
  <2> SUFFICES ASSUME NEW i \in InUse(sched'), NEW j \in InUse(sched'),
                      overtook'[sched'.proc_table[i].id][sched'.proc_table[j].id] > 0
               PROVE  /\ Runnable(sched'.proc_table[i].state)
                      /\ sched'.proc_table[i].id # ran'
                      /\ overtook'[sched'.proc_table[i].id][sched'.proc_table[j].id]
                           = overtook[sched'.proc_table[i].id][sched'.proc_table[j].id]
                             + (IF sched'.proc_table[j].id = ran' THEN 1 ELSE 0)
    BY DEF Counted
  <2> DEFINE a == sched'.proc_table[i].id
             b == sched'.proc_table[j].id
  <2>1. a \in Ids /\ b \in Ids /\ Distinct(sched')
    BY <1>2 DEF Numbered
  <2>2. RunnableIn(sched', a) <=> Runnable(sched'.proc_table[i].state)
    BY <2>1, RunnableAt
  <2>3. overtook'[a][b] > 0
    OBVIOUS
  <2> HIDE DEF a, b
  <2>4. RunnableIn(sched', a) /\ ran' # a
        /\ overtook'[a][b] = overtook[a][b] + (IF ran' = b THEN 1 ELSE 0)
    BY <1>3, <2>1, <2>3
  <2> QED
    BY <2>2, <2>4 DEF a, b
<1> QED
  BY <1>1, <1>2, <1>3, <1>5, <1>6

(* The invariant in the next state.                                        *)
LEMMA NextTurns ==
  ASSUME sched'.preemptive_mode, CurrentRunning(sched') => sched'.slice < QUANTUM,
         overtook' \in Counts,
         \A id, other \in Ids : other > typed' => overtook'[id][other] = 0,
         InTurn(sched', overtook', 1)
  PROVE  TurnsSound'
BY DEF TurnsSound, CurrentRunning, CurrentValid, InTurn, MayHavePassed, Place, Dist,
       Runnable, InUse

(* A tick that runs a process.                                             *)
LEMMA RunTurns ==
  ASSUME IInv, IInv', TurnsSound, RoundRobinNext, TickRun
  PROVE  TurnsSound'
<1> DEFINE w == UpdateWaiting(sched)
           k == Dispatch(w)
           c == k.current
           r == k.proc_table[c].id
<1>1. /\ Numbered(sched) /\ Numbered(sched') /\ overtook \in Counts
      /\ Counted(sched', overtook', overtook, ran') /\ overtook' \in [Ids -> [Ids -> Int]]
  BY StepCounts DEF TurnsSound
<1>2. /\ sched.nr_procese > 0 /\ CurrentRunning(k) /\ ran' = r /\ typed' = typed
  BY DEF TickRun
<1>3. PICK e \in {EntryReturns(k), EntryExits(k)} : sched' = AfterEntry(e)
  BY DEF TickRun
<1>4. Sound(w, typed) /\ Sound(k, typed) /\ typed \in 0 .. MaxCommands /\ typed \in Nat
  BY DispatchSound, SchedulerAssumption DEF IInv
<1>5. Numbered(w) /\ Numbered(k) /\ BornBefore(k, typed)
  BY <1>4, SoundNumbered
<1>6. InTurn(w, overtook, 0)
  BY <1>1, UpdateInTurn DEF TurnsSound, Numbered
<1>7. /\ sched \in TablesOf(Blocks) /\ ControlBlocks(Blocks)
      /\ w \in TablesOf(Blocks) /\ w.nr_procese = sched.nr_procese
      /\ w.current = sched.current /\ w.slice = sched.slice
      /\ w.preemptive_mode = sched.preemptive_mode
      /\ \A i \in InUse(sched) : w.proc_table[i] = Awaken(sched.proc_table[i])
      /\ k \in TablesOf(Blocks) /\ KeepsBlocks(w, k) /\ k.preemptive_mode = w.preemptive_mode
      /\ InUse(sched) \subseteq Slots /\ \A i \in Slots : sched.proc_table[i] \in Blocks
  <2>1. /\ sched \in TablesOf(Blocks) /\ ControlBlocks(Blocks)
        /\ InUse(sched) \subseteq Slots /\ \A i \in Slots : sched.proc_table[i] \in Blocks
    BY <1>1, GoodBounds DEF Numbered
  <2>2. /\ w \in TablesOf(Blocks) /\ KeepsBlocks(sched, w)
        /\ w.current = sched.current /\ w.slice = sched.slice
        /\ w.preemptive_mode = sched.preemptive_mode
        /\ \A i \in InUse(sched) : w.proc_table[i] = Awaken(sched.proc_table[i])
    BY <2>1, WaitingUpdated
  <2> HIDE DEF w
  <2>3. k \in TablesOf(Blocks) /\ KeepsBlocks(w, k) /\ k.preemptive_mode = w.preemptive_mode
    BY <2>1, <2>2, Dispatched
  <2> QED
    BY <2>1, <2>2, <2>3 DEF KeepsBlocks
<1>8. CurrentRunning(w) => w.slice < QUANTUM
  <2> SUFFICES ASSUME CurrentRunning(w) PROVE CurrentRunning(sched)
    BY <1>7 DEF TurnsSound
  <2>1. sched.current \in InUse(sched) /\ w.proc_table[sched.current].state = "RUNNING"
    BY <1>7 DEF CurrentRunning, CurrentValid, InUse
  <2>2. sched.proc_table[sched.current].state = "RUNNING"
    <3> DEFINE q == sched.proc_table[sched.current]
    <3>1. q \in Blocks /\ Awaken(q).state = "RUNNING"
      BY <1>7, <2>1
    <3> HIDE DEF q
    <3>2. q.state = "RUNNING"
      BY <1>7, <3>1, Awakened
    <3> QED
      BY <3>2 DEF q
  <2> QED
    BY <2>1, <2>2 DEF CurrentRunning, CurrentValid
<1>9. w.nr_procese > 0
  BY <1>2, <1>7
<1> HIDE DEF w
<1>10. InTurn(k, overtook, 0) /\ k.slice < QUANTUM
  BY <1>1, <1>2, <1>5, <1>6, <1>8, <1>9, DispatchInTurn
<1>11. k.preemptive_mode
  BY <1>7 DEF TurnsSound
<1> HIDE DEF k
<1>12. InTurn(sched', overtook', 1) /\ sched'.preemptive_mode
  <2>1. Counted(AfterEntry(e), overtook', overtook, k.proc_table[k.current].id)
    BY <1>1, <1>2, <1>3
  <2>2. InTurn(AfterEntry(e), overtook', 1) /\ AfterEntry(e).preemptive_mode
    BY <1>1, <1>2, <1>3, <1>5, <1>10, <1>11, <2>1, AfterEntryInTurn
  <2> QED
    BY <1>3, <2>2
<1>13. r \in 1 .. typed /\ r \in Ids /\ k.slice \in Nat /\ c \in InUse(k)
       /\ k.proc_table[c].state = "RUNNING"
  BY <1>2, <1>4, <1>5, GoodBounds DEF BornBefore, CurrentRunning, CurrentValid, Numbered, Ids
<1>14. CurrentRunning(sched') => sched'.slice < QUANTUM
  <2> SUFFICES ASSUME CurrentRunning(sched') PROVE sched'.slice < QUANTUM
    OBVIOUS
  <2>1. sched'.nr_procese > 0
    <3>1. sched'.nr_procese \in Nat /\ sched'.current \in 0 .. sched'.nr_procese - 1
      BY <1>1, GoodBounds DEF Numbered, CurrentRunning, CurrentValid, InUse
    <3> QED
      BY <3>1
  <2>2. ran' # 0
    BY <1>2, <1>13
  <2>3. QuantumRespected'
    BY DEF IInv
  <2> QED
    BY <1>12, <2>1, <2>2, <2>3 DEF QuantumRespected
<1>15. ASSUME NEW id \in Ids, NEW other \in Ids
       PROVE  /\ overtook'[id][other] \in 0 .. QUANTUM
              /\ other > typed' => overtook'[id][other] = 0
  <2> DEFINE x == overtook'[id][other]
             y == overtook[id][other]
  <2>1. \/ x = 0
        \/ /\ RunnableIn(sched, id) /\ r # id
           /\ x = y + (IF r = other THEN 1 ELSE 0)
    BY <1>1, <1>2, StepCounts DEF TurnsSound
  <2>2. y \in 0 .. QUANTUM /\ (other > typed => y = 0)
    BY DEF TurnsSound, Counts
  <2>3. CASE r = other /\ RunnableIn(sched, id) /\ r # id
    <3>1. PICK i \in InUse(sched) : sched.proc_table[i].id = id
      BY <2>3 DEF RunnableIn, Live
    <3>2. SameProcesses(sched, k)
      BY <1>1, DispatchedGood DEF Numbered, k, w
    <3>3. InUse(k) = InUse(sched) /\ k.proc_table[i].id = id
      BY <1>7, <3>1, <3>2 DEF SameProcesses, InUse
    <3>4. y > 0 => MayHavePassed(k, i, c, y, 0)
      BY <1>10, <1>13, <2>3, <3>3 DEF InTurn
    <3> HIDE DEF y
    <3>5. y <= k.slice
      BY <1>13, <2>2, <3>4 DEF MayHavePassed
    <3>6. y + 1 \in 0 .. QUANTUM /\ 0 \in 0 .. QUANTUM
      BY <1>10, <1>13, <2>2, <3>5, TableAssumption
    <3>7. ~(other > typed')
      BY <1>2, <1>4, <1>13, <2>3
    <3>8. x = 0 \/ x = y + 1
      BY <2>1, <2>3
    <3> HIDE DEF x
    <3>9. x \in 0 .. QUANTUM
      BY <3>6, <3>8
    <3> QED
      BY <3>7, <3>9 DEF x
  <2>4. CASE ~(r = other /\ RunnableIn(sched, id) /\ r # id)
    <3> HIDE DEF x, y
    <3>1. x = 0 \/ x = y
      BY <2>1, <2>2, <2>4
    <3> QED
      BY <1>2, <2>2, <3>1, TableAssumption DEF x
  <2> QED
    BY <2>3, <2>4
<1>16. overtook' \in Counts
  BY <1>1, <1>15 DEF Counts
<1> QED
  BY <1>12, <1>14, <1>15, <1>16, NextTurns

(* A step that runs no process adds to no count.                           *)
LEMMA QuietCounts ==
  ASSUME IInv, IInv', TurnsSound, RoundRobinNext, ran' = 0,
         typed' \in {typed, typed + 1}
  PROVE  /\ overtook' \in Counts
         /\ \A id, other \in Ids : /\ other > typed' => overtook'[id][other] = 0
                                   /\ \/ overtook'[id][other] = 0
                                      \/ /\ RunnableIn(sched, id)
                                         /\ overtook'[id][other] = overtook[id][other]
<1>1. /\ overtook' \in [Ids -> [Ids -> Int]]
      /\ \A id, other \in Ids :
           \/ overtook'[id][other] = 0
           \/ /\ RunnableIn(sched, id)
              /\ overtook'[id][other] = overtook[id][other] + (IF ran' = other THEN 1 ELSE 0)
  BY StepCounts DEF TurnsSound
<1>2. overtook \in Counts /\ QUANTUM \in Nat /\ typed \in Nat
  BY TableAssumption, SchedulerAssumption DEF TurnsSound, IInv
<1>3. ASSUME NEW id \in Ids, NEW other \in Ids
      PROVE  /\ overtook'[id][other] \in 0 .. QUANTUM
             /\ other > typed' => overtook'[id][other] = 0
             /\ \/ overtook'[id][other] = 0
                \/ RunnableIn(sched, id) /\ overtook'[id][other] = overtook[id][other]
  <2> DEFINE x == overtook'[id][other]
             y == overtook[id][other]
  <2>1. y \in 0 .. QUANTUM /\ (other > typed => y = 0) /\ other \in Nat \ {0}
    BY <1>2, SchedulerAssumption DEF TurnsSound, Counts, Ids
  <2>2. x = 0 \/ (RunnableIn(sched, id) /\ x = y + (IF ran' = other THEN 1 ELSE 0))
    BY <1>1
  <2> HIDE DEF x, y
  <2>3. x = 0 \/ (RunnableIn(sched, id) /\ x = y)
    BY <2>1, <2>2
  <2>4. other > typed' => other > typed
    BY <1>2, <2>1
  <2> QED
    BY <1>2, <2>1, <2>3, <2>4 DEF x, y
<1>4. overtook' \in Counts
  BY <1>1, <1>3 DEF Counts
<1> QED
  BY <1>3, <1>4

(* Nobody moves, and who is changed is made to wait more than a tick.      *)
LEMMA QuietInTurn ==
  ASSUME NEW k, Numbered(k), NEW o, InTurn(k, o, 1), NEW m, SameProcesses(k, m),
         m.current = k.current, m.slice = k.slice,
         \A i \in InUse(k) :
           \/ /\ m.proc_table[i].state = k.proc_table[i].state
              /\ m.proc_table[i].wait_ticks = k.proc_table[i].wait_ticks
           \/ m.proc_table[i].state = "WAITING" /\ m.proc_table[i].wait_ticks > 1,
         NEW p,
         \A id, other \in Ids : p[id][other] > 0 => p[id][other] = o[id][other],
         Counted(m, p, o, 0)
  PROVE  InTurn(m, p, 1)
<1>1. /\ InUse(m) = InUse(k)
      /\ \A i \in InUse(k) : /\ m.proc_table[i].id = k.proc_table[i].id
                              /\ k.proc_table[i].id \in Ids
      /\ \A i : Place(m, i) = Place(k, i)
  BY GoodBounds DEF Numbered, SameProcesses, InUse, Place
<1> SUFFICES ASSUME NEW i \in InUse(k), NEW j \in InUse(k),
                    p[k.proc_table[i].id][k.proc_table[j].id] > 0
             PROVE  MayHavePassed(m, i, j, p[k.proc_table[i].id][k.proc_table[j].id], 1)
  BY <1>1 DEF InTurn
<1> DEFINE x == p[k.proc_table[i].id][k.proc_table[j].id]
<1>2. x = o[k.proc_table[i].id][k.proc_table[j].id] /\ x > 0
  BY SMTT(60), <1>1
<1>3. MayHavePassed(k, i, j, x, 1)
  BY <1>2 DEF InTurn
<1>4. Runnable(m.proc_table[i].state)
  BY SMTT(60), <1>1 DEF Counted
<1> HIDE DEF x
<1> QED
  BY <1>1, <1>3, <1>4 DEF MayHavePassed, x

(* A process that arrives comes last, and has let nobody pass.             *)
LEMMA ArrivalInTurn ==
  ASSUME NEW k, Numbered(k), NEW o, InTurn(k, o, 1), NEW m \in TablesOf(Blocks),
         m.nr_procese = k.nr_procese + 1, m.current = k.current, m.slice = k.slice,
         \A i \in InUse(k) : m.proc_table[i] = k.proc_table[i],
         NEW p,
         \A i, j \in InUse(m) : p[m.proc_table[i].id][m.proc_table[j].id] > 0 =>
           /\ i \in InUse(k) /\ j \in InUse(k)
           /\ p[m.proc_table[i].id][m.proc_table[j].id]
                = o[m.proc_table[i].id][m.proc_table[j].id]
  PROVE  InTurn(m, p, 1)
<1> DEFINE n == k.nr_procese
           c == k.current
<1>1. InUse(k) = 0 .. n - 1 /\ n \in Nat /\ c \in -1 .. n - 1
  BY GoodBounds DEF Numbered
<1>2. ASSUME NEW i \in InUse(k), NEW j \in InUse(k)
      PROVE  Dist(n + 1, c, i) < Dist(n + 1, c, j) <=> Dist(n, c, i) < Dist(n, c, j)
  <2>1. i \in 0 .. n - 1 /\ j \in 0 .. n - 1
    BY SMTT(60), <1>1
  <2> HIDE DEF n, c
  <2> QED
    BY <1>1, <2>1 DEF Dist
<1> SUFFICES ASSUME NEW i \in InUse(m), NEW j \in InUse(m),
                    p[m.proc_table[i].id][m.proc_table[j].id] > 0
             PROVE  MayHavePassed(m, i, j, p[m.proc_table[i].id][m.proc_table[j].id], 1)
  BY SMTT(60) DEF InTurn
<1> DEFINE x == p[m.proc_table[i].id][m.proc_table[j].id]
<1>3. /\ i \in InUse(k) /\ j \in InUse(k) /\ x > 0
      /\ x = o[k.proc_table[i].id][k.proc_table[j].id]
  <2>1. /\ i \in InUse(k) /\ j \in InUse(k) /\ x > 0
        /\ x = o[m.proc_table[i].id][m.proc_table[j].id]
    OBVIOUS
  <2> HIDE DEF x
  <2> QED
    BY <2>1
<1> HIDE DEF x
<1>4. MayHavePassed(k, i, j, x, 1)
  BY SMTT(60), <1>3 DEF InTurn
<1>5. MayHavePassed(m, i, j, x, 1)
  BY <1>2, <1>3, <1>4 DEF MayHavePassed, Place
<1> QED
  BY <1>5 DEF x

(* A tick that runs no process.                                            *)
LEMMA IdleTurns ==
  ASSUME IInv, IInv', TurnsSound, RoundRobinNext, TickEmpty \/ TickIdle \/ TickNoPick
  PROVE  TurnsSound'
<1> DEFINE w == UpdateWaiting(sched)
<1>1. ran' = 0 /\ typed' = typed /\ (sched' = sched \/ sched' = w)
  BY DEF TickEmpty, TickIdle, TickNoPick
<1>2. /\ Numbered(sched) /\ Numbered(sched')
      /\ Counted(sched', overtook', overtook, 0) /\ overtook \in Counts
  BY <1>1, StepCounts DEF TurnsSound
<1>3. /\ overtook' \in Counts
      /\ \A id, other \in Ids : /\ other > typed' => overtook'[id][other] = 0
                                /\ \/ overtook'[id][other] = 0
                                   \/ overtook'[id][other] = overtook[id][other]
  BY <1>1, QuietCounts
<1>4. CASE TickEmpty
  <2>1. sched' = sched /\ InUse(sched') = {}
    BY <1>4 DEF TickEmpty, InUse
  <2>2. InTurn(sched', overtook', 1) /\ ~CurrentRunning(sched')
    BY <2>1 DEF InTurn, CurrentRunning, CurrentValid
  <2> QED
    BY <1>3, <2>1, <2>2, NextTurns DEF TurnsSound
<1>5. CASE TickIdle \/ TickNoPick
  <2>1. /\ w.current = sched.current /\ w.preemptive_mode = sched.preemptive_mode
        /\ w.nr_procese = sched.nr_procese /\ sched' = w /\ sched.nr_procese > 0
    <3>1. sched \in TablesOf(Blocks) /\ ControlBlocks(Blocks)
      BY <1>2, GoodBounds DEF Numbered
    <3>2. /\ w.current = sched.current /\ w.preemptive_mode = sched.preemptive_mode
          /\ KeepsBlocks(sched, w)
      BY <3>1, WaitingUpdated
    <3> QED
      BY <1>5, <3>2 DEF TickIdle, TickNoPick, KeepsBlocks
  <2>2. Numbered(w) /\ Counted(w, overtook', overtook, 0)
    BY <1>2, <2>1
  <2>3. InTurn(w, overtook, 0)
    BY <1>2, UpdateInTurn DEF TurnsSound, Numbered
  <2>4. CASE TickIdle
    <3>1. \A i \in InUse(w) : ~Runnable(w.proc_table[i].state)
      BY <2>4 DEF TickIdle, HasReady
    <3> HIDE DEF w
    <3>2. InTurn(w, overtook', 1)
      BY <2>2, <3>1 DEF InTurn, Counted
    <3>3. ~CurrentRunning(w)
      BY <3>1 DEF CurrentRunning, CurrentValid, Runnable
    <3> QED
      BY <1>3, <2>1, <3>2, <3>3, NextTurns DEF TurnsSound
  <2>5. CASE TickNoPick
    <3>1. HasReady(w) /\ ~CurrentRunning(Dispatch(w))
      BY <2>5 DEF TickNoPick
    <3> HIDE DEF w
    <3>2. w.current = -1
      BY <2>1, <2>2, <3>1, NothingPicked
    <3>3. ~CurrentRunning(w) /\ \A i \in InUse(w) : i # w.current
      BY <2>2, <3>2, GoodBounds DEF CurrentRunning, CurrentValid, Numbered
    <3>4. InTurn(w, overtook', 1)
      <4> SUFFICES ASSUME NEW i \in InUse(w), NEW j \in InUse(w),
                          overtook'[w.proc_table[i].id][w.proc_table[j].id] > 0
                   PROVE  MayHavePassed(w, i, j,
                            overtook'[w.proc_table[i].id][w.proc_table[j].id], 1)
        BY DEF InTurn
      <4> DEFINE x == overtook'[w.proc_table[i].id][w.proc_table[j].id]
      <4>1. x > 0 /\ x = overtook[w.proc_table[i].id][w.proc_table[j].id]
        <5>1. w.proc_table[i].id \in Ids /\ w.proc_table[j].id \in Ids
          BY SMTT(60), <2>2 DEF Numbered
        <5> QED
          BY SMTT(60), <1>3, <5>1
      <4>2. MayHavePassed(w, i, j, x, 0)
        BY <2>3, <4>1 DEF InTurn
      <4> HIDE DEF x
      <4> QED
        BY <3>3, <4>2 DEF MayHavePassed, x
    <3> QED
      BY <1>3, <2>1, <3>3, <3>4, NextTurns DEF TurnsSound
  <2> QED
    BY <1>5, <2>4, <2>5
<1> QED
  BY <1>4, <1>5

(* Waits of more than one tick, and no cooperative mode.                   *)
LongWaits == "coop" \notin Commands /\ 1 \notin WaitArgs /\ DefaultWait > 1

(* What is typed.                                                          *)
LEMMA CommandTurns ==
  ASSUME IInv, IInv', TurnsSound, RoundRobinNext, Command, LongWaits
  PROVE  TurnsSound'
<1>1. ran' = 0 /\ typed' = typed + 1 /\ typed \in Nat /\ ~SetCooperative
  BY SchedulerAssumption
     DEF IInv, Command, Type, LoadAndRun, KillProcess, WaitProcess, SysYield,
         SetPreemptive, SetCooperative, LongWaits
<1>2. /\ Numbered(sched) /\ Numbered(sched') /\ BornBefore(sched, typed)
      /\ Counted(sched', overtook', overtook, 0) /\ overtook \in Counts
  BY <1>1, StepCounts DEF TurnsSound, IInv, Sound
<1>3. /\ overtook' \in Counts
      /\ \A id, other \in Ids : /\ other > typed' => overtook'[id][other] = 0
                                /\ \/ overtook'[id][other] = 0
                                   \/ /\ RunnableIn(sched, id)
                                      /\ overtook'[id][other] = overtook[id][other]
  BY <1>1, QuietCounts
<1>4. /\ Good(sched) /\ sched \in TablesOf(Blocks) /\ ControlBlocks(Blocks)
      /\ InUse(sched) \subseteq Slots /\ sched \in Tables
      /\ sched.current \in -1 .. sched.nr_procese - 1
  BY <1>2, GoodBounds, BlocksAreControl DEF Numbered
<1>5. ASSUME SameProcesses(sched, sched'), sched'.current = sched.current,
             sched'.slice = sched.slice, sched'.preemptive_mode,
             \A i \in InUse(sched) :
               \/ /\ sched'.proc_table[i].state = sched.proc_table[i].state
                  /\ sched'.proc_table[i].wait_ticks = sched.proc_table[i].wait_ticks
               \/ sched'.proc_table[i].state = "WAITING" /\ sched'.proc_table[i].wait_ticks > 1
      PROVE  TurnsSound'
  <2>1. InTurn(sched', overtook', 1)
    <3>1. \A id, other \in Ids : overtook'[id][other] > 0 =>
            overtook'[id][other] = overtook[id][other]
      BY <1>3
    <3> QED
      BY <1>2, <1>5, <3>1, QuietInTurn DEF TurnsSound
  <2>2. CurrentRunning(sched') => sched'.slice < QUANTUM
    BY <1>5 DEF CurrentRunning, CurrentValid, TurnsSound, SameProcesses, InUse
  <2> QED
    BY <1>3, <1>5, <2>1, <2>2, NextTurns
<1>6. CASE sched' = sched
  BY <1>5, <1>6 DEF SameProcesses, TurnsSound
<1>7. CASE LoadAndRun
  <2> DEFINE b == [id |-> typed + 1, remaining |-> LoadTicks,
                   state |-> "READY", wait_ticks |-> 0]
             m == Add(sched, b)
  <2>1. b \in Blocks /\ b.id = typed + 1 /\ b.state = "READY" /\ sched' = m
    BY <1>1, <1>7, SchedulerAssumption DEF Blocks, States, LoadAndRun
  <2> HIDE DEF b
  <2>2. CASE ~(sched.nr_procese < MAX_PROCESSES)
    BY <1>6, <2>1, <2>2 DEF Add
  <2>3. CASE sched.nr_procese < MAX_PROCESSES
    <3>1. /\ m \in TablesOf(Blocks) /\ m.nr_procese = sched.nr_procese + 1
          /\ m.current = sched.current
          /\ InUse(m) = InUse(sched) \cup {sched.nr_procese}
          /\ sched.nr_procese \notin InUse(sched)
          /\ m.proc_table[sched.nr_procese] = b
          /\ \A j \in Slots \ {sched.nr_procese} : m.proc_table[j] = sched.proc_table[j]
      BY <1>4, <2>1, <2>3, Added
    <3>2. m.slice = sched.slice /\ m.preemptive_mode = sched.preemptive_mode
      BY <1>4 DEF Add, Tables
    <3> HIDE DEF m
    <3>3. \A i \in InUse(sched) : m.proc_table[i] = sched.proc_table[i]
      BY <1>4, <3>1
    <3>4. ASSUME NEW i \in InUse(m), NEW j \in InUse(m),
                 overtook'[m.proc_table[i].id][m.proc_table[j].id] > 0
          PROVE  /\ i \in InUse(sched) /\ j \in InUse(sched)
                 /\ overtook'[m.proc_table[i].id][m.proc_table[j].id]
                      = overtook[m.proc_table[i].id][m.proc_table[j].id]
      <4> DEFINE a == m.proc_table[i].id
                 d == m.proc_table[j].id
      <4>1. a \in Ids /\ d \in Ids
        BY <1>2, <2>1 DEF Numbered
      <4>2. RunnableIn(sched, a) /\ overtook'[a][d] = overtook[a][d]
        BY <1>3, <3>4, <4>1
      <4>3. overtook[a][d] # 0
        BY <3>4, <4>2
      <4> HIDE DEF a, d
      <4>4. a <= typed /\ ~(d > typed)
        <5>1. \A x \in InUse(sched) : sched.proc_table[x].id <= typed
          BY <1>2 DEF BornBefore
        <5> QED
          BY <4>1, <4>2, <4>3, <5>1 DEF TurnsSound, RunnableIn, Live
      <4>5. a # typed + 1 /\ d # typed + 1
        BY SMTT(60), <1>1, <4>4
      <4> QED
        BY <2>1, <3>1, <4>2, <4>5 DEF a, d
    <3>5. InTurn(m, overtook', 1)
      BY <1>2, <3>1, <3>2, <3>3, <3>4, ArrivalInTurn DEF TurnsSound
    <3>6. CurrentRunning(m) => m.slice < QUANTUM
      <4> SUFFICES ASSUME CurrentRunning(m) PROVE CurrentRunning(sched)
        BY <3>2 DEF TurnsSound
      <4>1. sched.current \in InUse(sched)
        BY <1>4, <3>1 DEF CurrentRunning, CurrentValid, InUse
      <4> QED
        BY <3>1, <3>3, <4>1 DEF CurrentRunning, CurrentValid
    <3> QED
      BY <1>3, <2>1, <3>2, <3>5, <3>6, NextTurns DEF TurnsSound
  <2> QED
    BY <2>2, <2>3
<1>8. CASE KillProcess
  <2>1. PICK pid \in Slots : sched' = Kill(sched, pid)
    BY <1>8 DEF KillProcess
  <2>2. SameProcesses(sched, sched')
    <3>1. 0 \in Nat
      OBVIOUS
    <3> QED
      BY <1>4, <2>1, <3>1, OperationsGood
  <2>3. /\ sched'.current = sched.current /\ sched'.slice = sched.slice
        /\ sched'.preemptive_mode = sched.preemptive_mode
        /\ \A i \in Slots : sched'.proc_table[i].state = sched.proc_table[i].state
    BY <1>4, <2>1, Killed
  <2>4. \A i \in Slots : sched'.proc_table[i].wait_ticks = sched.proc_table[i].wait_ticks
    BY <1>4, <2>1 DEF Kill, Tables, Blocks
  <2> QED
    BY <1>4, <1>5, <2>2, <2>3, <2>4 DEF TurnsSound
<1>9. CASE WaitProcess
  <2>1. PICK pid \in Slots, ticks \in WaitArgs : sched' = Wait(sched, pid, ticks)
    BY <1>9 DEF WaitProcess
  <2>2. ticks \in Nat
    BY SchedulerAssumption
  <2>3. SameProcesses(sched, sched') /\ sched'.current = sched.current
    BY <1>4, <2>1, <2>2, OperationsGood, Waited
  <2>4. sched'.slice = sched.slice /\ sched'.preemptive_mode = sched.preemptive_mode
    BY <1>4, <2>1 DEF Wait, Tables
  <2>5. \A i \in Slots :
          \/ sched'.proc_table[i] = sched.proc_table[i]
          \/ sched'.proc_table[i].state = "WAITING" /\ sched'.proc_table[i].wait_ticks > 1
    <3> DEFINE t == IF ticks <= 0 THEN DefaultWait ELSE ticks
    <3>1. t > 1
      BY <2>2 DEF LongWaits
    <3>2. \/ sched' = sched
          \/ sched' = [sched EXCEPT !.proc_table[pid].state = "WAITING",
                                    !.proc_table[pid].wait_ticks = t]
      BY <2>1 DEF Wait
    <3>3. t \in Nat
      BY <2>2, TableAssumption
    <3> HIDE DEF t
    <3> DEFINE q == Parked(sched.proc_table[pid], "WAITING", t)
    <3>4. sched.proc_table[pid] \in Blocks /\ "WAITING" \in States
      BY <1>4, InUseAreSlots DEF States
    <3>5. q.state = "WAITING" /\ q.wait_ticks = t
      BY <1>4, <3>3, <3>4, ParkedBlock
    <3>6. \/ sched' = sched
          \/ sched' = [sched EXCEPT !.proc_table = [sched.proc_table EXCEPT ![pid] = q]]
      <4>1. sched \in TablesOf(Blocks) /\ pid \in Slots
        BY <1>4
      <4>2. sched' # sched => sched' = [sched EXCEPT !.proc_table[pid].state = "WAITING",
                                                    !.proc_table[pid].wait_ticks = t]
        BY <3>2
      <4> QED
        BY <4>1, <4>2 DEF Parked, TablesOf
    <3> HIDE DEF q
    <3>7. \A i \in Slots : sched'.proc_table[i] = sched.proc_table[i]
                          \/ sched'.proc_table[i] = q
      BY <1>4, <3>6 DEF Tables
    <3> QED
      BY <3>1, <3>5, <3>7
  <2> QED
    BY <1>4, <1>5, <2>3, <2>4, <2>5 DEF TurnsSound
<1>10. CASE SysYield
  <2>1. sched' = sched
    BY <1>10 DEF SysYield, Yield, TurnsSound
  <2> QED
    BY <1>6, <2>1
<1>11. CASE SetPreemptive
  <2>1. /\ sched'.proc_table = sched.proc_table /\ sched'.nr_procese = sched.nr_procese
        /\ sched'.current = sched.current /\ sched'.slice = sched.slice
        /\ sched'.preemptive_mode
    BY <1>4, <1>11 DEF SetPreemptive, Tables
  <2> QED
    BY <1>5, <2>1 DEF SameProcesses
<1> QED
  BY <1>1, <1>7, <1>8, <1>9, <1>10, <1>11 DEF Command

(* Every step of the scheduler keeps the order of the turns.               *)
LEMMA TurnsInvariant ==
  ASSUME LongWaits
  PROVE  RoundRobinSpec => [](IInv /\ TurnsSound)
<1>1. RoundRobinInit => IInv /\ TurnsSound
  <2> SUFFICES ASSUME RoundRobinInit PROVE TurnsSound
    BY InitIInv DEF RoundRobinInit
  <2>1. /\ sched.preemptive_mode /\ sched.nr_procese = 0
        /\ overtook = [id \in Ids |-> [other \in Ids |-> 0]]
    BY DEF RoundRobinInit, Init
  <2>2. InUse(sched) = {}
    BY <2>1 DEF InUse
  <2>3. InTurn(sched, overtook, 1) /\ ~CurrentRunning(sched)
    BY <2>2 DEF InTurn, CurrentRunning, CurrentValid
  <2>4. overtook \in Counts /\ \A id, other \in Ids : overtook[id][other] = 0
    BY <2>1, TableAssumption DEF Counts
  <2> QED
    BY <2>1, <2>3, <2>4 DEF TurnsSound
<1>2. IInv /\ TurnsSound /\ [RoundRobinNext]_<<vars, overtook>> => (IInv /\ TurnsSound)'
  <2> SUFFICES ASSUME IInv, TurnsSound, [RoundRobinNext]_<<vars, overtook>>
               PROVE  IInv' /\ TurnsSound'
    OBVIOUS
  <2>1. CASE RoundRobinNext
    <3>1. Next
      BY <2>1 DEF RoundRobinNext
    <3>2. IInv'
      BY <3>1, TickIInv, CommandIInv DEF Next
    <3> QED
      BY <2>1, <3>1, <3>2, RunTurns, IdleTurns, CommandTurns DEF Next, Tick
  <2>2. CASE UNCHANGED <<vars, overtook>>
    <3>1. IInv'
      BY <2>2, StutterIInv
    <3>2. sched' = sched /\ typed' = typed /\ overtook' = overtook
      BY <2>2 DEF vars
    <3>3. TurnsSound'
      BY <3>2, NextTurns DEF TurnsSound
    <3> QED
      BY <3>1, <3>3
  <2> QED
    BY <2>1, <2>2
<1> QED
  BY <1>1, <1>2, PTL DEF RoundRobinSpec

(* Under round robin, whatever arrivals, kills and waits of more than one  *)
(* tick do to the indices the turns go by, no process has more than        *)
(* QUANTUM ticks while another that can run waits for its turn.            *)
THEOREM NobodyHasASecondTurn ==
  ASSUME LongWaits
  PROVE  RoundRobinSpec => []NoSecondTurn
<1>1. TurnsSound => NoSecondTurn
  BY TableAssumption DEF TurnsSound, NoSecondTurn, Counts
<1> QED
  BY TurnsInvariant, <1>1, PTL

=============================================================================
