---------------------------- MODULE ShellProofs ----------------------------
(***************************************************************************)
(* The theorems of Shell.  All but the last are consequences of one        *)
(* inductive invariant, IInv, in three parts:                              *)
(*   Typed           ranges; they hold whatever a tick tears               *)
(*   PipesOwned      a pipe in use is one of the current pipeline's, also  *)
(*                   whatever a tick tears                                 *)
(*   SoundUntilTorn  as long as no tick came between steps of the shell    *)
(*                   that belong together: the table is consistent, the    *)
(*                   waiting loop has left no stage behind it, and the     *)
(*                   descriptors are wired as execute_pipeline meant them  *)
(*                   (Wired)                                               *)
(* Wired takes the blocks and what the shell has come to (Progress) as     *)
(* arguments, so that what a tick or a command does to the blocks is one   *)
(* lemma each: they are renamed by compaction (WiredRenamed), one quits    *)
(* (WiredQuit), one arrives (WiredFilled).  The last theorem, about the    *)
(* message of a pipeline, has an invariant of its own on top of IInv,      *)
(* MInv, in the second half of the module.  The theorems hold for every    *)
(* size of the table, of the pool and of the buffers, and every set of     *)
(* commands and pipelines.                                                 *)
(***************************************************************************)
EXTENDS Shell, ProcTableProofs, FiniteSetTheorems, TLAPS

PipeIds == 0 .. MAX_PIPES - 1
PipeFds == 0 .. 2 * MAX_PIPES - 1

PipeState == [used : BOOLEAN, read_open : BOOLEAN, write_open : BOOLEAN, content : Seq(Nat)]

Pools == {ps \in [PipeIds -> PipeState] :
            \A id \in PipeIds : Len(ps[id].content) <= PIPE_BUF_SIZE}

(* The descriptors that stand for an open end of a pipe in use.            *)
IsOpen(ps, fd) ==
  /\ ps[PipeId(fd)].used
  /\ PipeEnd(fd) = 0 => ps[PipeId(fd)].read_open
  /\ PipeEnd(fd) = 1 => ps[PipeId(fd)].write_open

OpenFds(ps) == {fd \in PipeFds : IsOpen(ps, fd)}

UsedPipes(ps) == {id \in PipeIds : ps[id].used}

(* Where the shell stands in a pipeline.                                   *)
Storing == pc \in {"load", "store"}
Spawning == pc = "spawn" \/ Storing
Awaiting == pc \in {"scan", "halted"} /\ target = "tagged"
Ending == pc \in {"clear", "close"}
MidPipeline == Spawning \/ Awaiting \/ Ending

(* What the pipeline has come to.                                          *)
Progress ==
  [spawning |-> Spawning, awaiting |-> Awaiting, ending |-> Ending,
   upcoming |-> IF Storing THEN stage + 1 ELSE stage,  \* the stage spawned next
   fds |-> pipe_fds, spawned |-> history.spawned, born |-> history.born]

(* The blocks that hold a process: those in use, and between SpawnFill and *)
(* SpawnStore the one that is being added.                                 *)
Filled == InUse(k) \cup (IF Storing THEN {k.nr_procese} ELSE {})

----------------------------------------------------------------------------
Histories ==
  [born : Nat, ran : SUBSET Nat, spawned : SUBSET Nat, output : Seq(Nat),
   torn : SUBSET {"spawn", "scan", "demo"}, aborted : BOOLEAN]

(* Always: types.                                                          *)
Typed ==
  /\ k \in TablesOf(Blocks)
  /\ pool \in Pools
  /\ pc \in {"prompt", "spawn", "load", "store", "scan", "halted", "clear", "close",
             "demo_current", "demo_slice"}
  /\ scan \in 0 .. MAX_PROCESSES
  /\ nr_loaded \in 0 .. MAX_PROCESSES - 1
  /\ pc = "load" => k.nr_procese < MAX_PROCESSES
  /\ target \in Programs \cup {"tagged"}
  /\ pc = "halted" => scan = 0
  /\ history \in Histories
  /\ Range(pipe_fds) \subseteq PipeIds
  /\ \A i, j \in DOMAIN pipe_fds : pipe_fds[i] = pipe_fds[j] => i = j
  /\ Spawning => /\ stage \in 1 .. Len(stages) /\ Len(stages) \in Nat
                 /\ DOMAIN pipe_fds = 1 .. Len(stages) - 1

(* Always: a pipe in use belongs to the pipeline, unless one was given up. *)
PipesOwned ==
  ~history.aborted => UsedPipes(pool) \subseteq (IF MidPipeline THEN Range(pipe_fds) ELSE {})

(* Until a tick tears the shell's work: the table.                         *)
TableSound ==
  /\ Orderly(k)
  /\ \A i \in Slots \ Filled : k.proc_table[i].state = "UNUSED"
  /\ \A i \in Filled \ InUse(k) : i \in Slots /\ k.proc_table[i].state = "READY"
  /\ pc = "store" => nr_loaded = k.nr_procese
  /\ pc = "demo_current" => \A i \in InUse(k) : k.proc_table[i].state # "RUNNING"

(* The blocks the waiting loop has left behind hold no stage.              *)
ScanSound ==
  pc = "scan" /\ target = "tagged" =>
    \A i \in InUse(k) : i < scan => k.proc_table[i].id \notin history.spawned

(* Who is a stage, and how the shell knows.                                *)
StagesKnown(t, F, x) ==
  /\ \A i \in F : t[i].id \in Nat /\ t[i].id <= x.born
  /\ x.spawning \/ x.awaiting => \A i \in F : t[i].id \in x.spawned => t[i].pipeline_tag
  /\ x.ending => \A i \in F : t[i].id \notin x.spawned

(* A descriptor of a pipe is open, held at its own end, and by one block.  *)
Descriptors(t, F, open) ==
  \A i \in F :
    /\ IsPipe(t[i].stdin) => t[i].stdin \in open /\ PipeEnd(t[i].stdin) = 0
    /\ IsPipe(t[i].stdout) => t[i].stdout \in open /\ PipeEnd(t[i].stdout) = 1
    /\ \A j \in F \ {i} : /\ IsPipe(t[i].stdin) => t[j].stdin # t[i].stdin
                          /\ IsPipe(t[i].stdout) => t[j].stdout # t[i].stdout

(* The ends of the pipeline's pipes are held by its stages only.           *)
StagesHold(t, F, x) ==
  x.spawning \/ x.awaiting \/ x.ending =>
    \A i \in F : t[i].id \notin x.spawned =>
      /\ IsPipe(t[i].stdin) => PipeId(t[i].stdin) \notin Range(x.fds)
      /\ IsPipe(t[i].stdout) => PipeId(t[i].stdout) \notin Range(x.fds)

(* The ends for the stages to come are open, and no one holds them yet.    *)
EndsSpare(t, F, open, x) ==
  x.spawning =>
    \A j \in DOMAIN x.fds :
      /\ j >= x.upcoming - 1 => /\ FD_MAKE_PIPE(x.fds[j], 0) \in open
                                /\ \A i \in F : t[i].stdin # FD_MAKE_PIPE(x.fds[j], 0)
      /\ j >= x.upcoming => /\ FD_MAKE_PIPE(x.fds[j], 1) \in open
                            /\ \A i \in F : t[i].stdout # FD_MAKE_PIPE(x.fds[j], 1)

Wired(t, F, open, x) ==
  /\ StagesKnown(t, F, x)
  /\ Descriptors(t, F, open)
  /\ StagesHold(t, F, x)
  /\ EndsSpare(t, F, open, x)

SoundUntilTorn ==
  Untorn => /\ TableSound
            /\ ScanSound
            /\ Wired(k.proc_table, Filled, OpenFds(pool), Progress)

IInv == Typed /\ PipesOwned /\ SoundUntilTorn

----------------------------------------------------------------------------
(***************************************************************************)
(* Descriptors and pipes.                                                  *)
(***************************************************************************)
LEMMA SizesArePositive ==
  /\ MAX_PIPES \in Nat \ {0} /\ PIPE_BUF_SIZE \in Nat \ {0}
  /\ MsgLen \in Nat \ {0} /\ ReadLen \in Nat \ {0}
  /\ StageTicks \in Nat /\ LoadTicks \in Nat /\ DemoTicks \in Nat
  /\ MAX_PROCESSES \in Nat \ {0}
BY ShellAssumption, TableAssumption

LEMMA PipeOfFd ==
  ASSUME NEW fd \in Fds, IsPipe(fd)
  PROVE  /\ fd \in PipeFds
         /\ PipeId(fd) \in PipeIds /\ PipeEnd(fd) \in {0, 1}
         /\ fd = FD_MAKE_PIPE(PipeId(fd), PipeEnd(fd))
<1>1. fd \in Nat /\ fd < 2 * MAX_PIPES /\ MAX_PIPES \in Nat
  BY SizesArePositive DEF Fds, IsPipe, FD_NONE, FD_UART_IN, FD_UART_OUT
<1> QED
  BY <1>1 DEF PipeFds, PipeIds, PipeId, PipeEnd, FD_MAKE_PIPE

LEMMA FdOfPipe ==
  ASSUME NEW id \in PipeIds, NEW end \in {0, 1}
  PROVE  /\ FD_MAKE_PIPE(id, end) \in PipeFds /\ FD_MAKE_PIPE(id, end) \in Fds
         /\ IsPipe(FD_MAKE_PIPE(id, end))
         /\ PipeId(FD_MAKE_PIPE(id, end)) = id /\ PipeEnd(FD_MAKE_PIPE(id, end)) = end
<1>1. id \in Nat /\ id < MAX_PIPES /\ MAX_PIPES \in Nat
  BY SizesArePositive DEF PipeIds
<1> QED
  BY <1>1 DEF PipeFds, Fds, IsPipe, PipeId, PipeEnd, FD_MAKE_PIPE

(* Min is the same in PipeFifo.                                            *)
LEMMA SameMin == \A S : Fifo!Min(S) = Min(S)
BY DEF Fifo!Min, Min

(* One pipe of the pool is written over.                                   *)
LEMMA PipeReplaced ==
  ASSUME NEW ps \in Pools, NEW id \in PipeIds, NEW p \in PipeState,
         Len(p.content) <= PIPE_BUF_SIZE
  PROVE  /\ [ps EXCEPT ![id] = p] \in Pools
         /\ [ps EXCEPT ![id] = p][id] = p
         /\ \A j \in PipeIds \ {id} : [ps EXCEPT ![id] = p][j] = ps[j]
BY DEF Pools

(* The pipes are open and in use as before.                                *)
SameEnds(ps, qs) ==
  \A id \in PipeIds : /\ qs[id].used = ps[id].used
                      /\ qs[id].read_open = ps[id].read_open
                      /\ qs[id].write_open = ps[id].write_open

LEMMA SameEndsOpen ==
  ASSUME NEW ps, NEW qs, SameEnds(ps, qs)
  PROVE  OpenFds(qs) = OpenFds(ps) /\ UsedPipes(qs) = UsedPipes(ps)
<1>1. ASSUME NEW fd \in PipeFds PROVE IsOpen(qs, fd) = IsOpen(ps, fd)
  <2>1. fd \in Fds /\ IsPipe(fd)
    BY SizesArePositive DEF PipeFds, Fds, IsPipe
  <2>2. PipeId(fd) \in PipeIds
    BY <2>1, PipeOfFd
  <2> QED
    BY <2>2 DEF SameEnds, IsOpen
<1> QED
  BY <1>1 DEF OpenFds, UsedPipes, SameEnds

(* Writing and reading move bytes, and leave the ends alone.               *)
LEMMA ContentReplaced ==
  ASSUME NEW ps \in Pools, NEW id \in PipeIds, NEW c \in Seq(Nat), Len(c) <= PIPE_BUF_SIZE
  PROVE  /\ [ps EXCEPT ![id].content = c] \in Pools
         /\ SameEnds(ps, [ps EXCEPT ![id].content = c])
<1> DEFINE p == [ps[id] EXCEPT !.content = c]
<1>1. /\ p \in PipeState /\ p.content = c /\ p.used = ps[id].used
      /\ p.read_open = ps[id].read_open /\ p.write_open = ps[id].write_open
  BY DEF Pools, PipeState
<1>2. [ps EXCEPT ![id].content = c] = [ps EXCEPT ![id] = p]
  OBVIOUS
<1> HIDE DEF p
<1>3. /\ [ps EXCEPT ![id] = p] \in Pools /\ [ps EXCEPT ![id] = p][id] = p
      /\ \A j \in PipeIds \ {id} : [ps EXCEPT ![id] = p][j] = ps[j]
  BY <1>1, PipeReplaced
<1>4. SameEnds(ps, [ps EXCEPT ![id] = p])
  BY <1>1, <1>3 DEF SameEnds
<1> QED
  BY <1>2, <1>3, <1>4

LEMMA WrittenPool ==
  ASSUME NEW ps \in Pools, NEW id \in PipeIds, NEW data \in Seq(Nat)
  PROVE  Fifo!Written(ps, id, data) \in Pools /\ SameEnds(ps, Fifo!Written(ps, id, data))
<1> DEFINE n == Fifo!WriteResult(ps, id, data)
           s == ps[id].content
           c == s \o SubSeq(data, 1, n)
<1>1. s \in Seq(Nat) /\ Len(s) \in Nat /\ Len(s) <= PIPE_BUF_SIZE
  BY DEF Pools, PipeState
<1>2. CASE n < 0
  BY <1>2 DEF Fifo!Written, SameEnds
<1>3. CASE ~(n < 0)
  <2>1. n = Fifo!Min({Len(data), PIPE_BUF_SIZE - Len(s)})
    BY <1>3 DEF Fifo!WriteResult
  <2>2. n = IF Len(data) <= PIPE_BUF_SIZE - Len(s) THEN Len(data) ELSE PIPE_BUF_SIZE - Len(s)
    <3> DEFINE room == PIPE_BUF_SIZE - Len(s)
    <3>1. room \in Int /\ Len(data) \in Int
      BY <1>1, SizesArePositive
    <3> HIDE DEF room, n, s
    <3>2. Min({Len(data), room}) = IF Len(data) <= room THEN Len(data) ELSE room
      BY <3>1, MinOfTwo
    <3>3. n = Min({Len(data), room})
      BY <2>1, SameMin DEF room
    <3> QED
      BY <3>2, <3>3 DEF room
  <2>3. Fifo!Written(ps, id, data) = [ps EXCEPT ![id].content = c]
    BY <1>3 DEF Fifo!Written
  <2> HIDE DEF n, s
  <2>4. n \in 0 .. Len(data) /\ Len(s) + n <= PIPE_BUF_SIZE
    <3>1. Len(data) \in Nat /\ PIPE_BUF_SIZE \in Nat
      BY SizesArePositive
    <3> QED
      BY <1>1, <2>2, <3>1
  <2>5. c \in Seq(Nat) /\ Len(c) <= PIPE_BUF_SIZE
    <3>1. SubSeq(data, 1, n) \in Seq(Nat) /\ Len(SubSeq(data, 1, n)) = n
      BY <2>4
    <3> QED
      BY <1>1, <2>4, <3>1
  <2> HIDE DEF c
  <2>6. [ps EXCEPT ![id].content = c] \in Pools /\ SameEnds(ps, [ps EXCEPT ![id].content = c])
    BY <2>5, ContentReplaced
  <2> QED
    BY <2>3, <2>6
<1> QED
  BY <1>2, <1>3

LEMMA ReadPool ==
  ASSUME NEW ps \in Pools, NEW id \in PipeIds
  PROVE  /\ Fifo!AfterRead(ps, id, ReadLen) \in Pools
         /\ SameEnds(ps, Fifo!AfterRead(ps, id, ReadLen))
         /\ Fifo!ReadData(ps, id, ReadLen) \in Seq(Nat)
<1> DEFINE d == Fifo!ReadData(ps, id, ReadLen)
           s == ps[id].content
           n == Fifo!Min({ReadLen, Len(s)})
           c == SubSeq(s, Len(d) + 1, Len(s))
<1>1. s \in Seq(Nat) /\ Len(s) \in Nat /\ Len(s) <= PIPE_BUF_SIZE
  BY DEF Pools, PipeState
<1>2. n = IF ReadLen <= Len(s) THEN ReadLen ELSE Len(s)
  BY SMTT(60), <1>1, SameMin, MinOfTwo, SizesArePositive
<1>3. n \in 0 .. Len(s)
  BY <1>1, <1>2, SizesArePositive
<1>4. d = <<>> \/ d = SubSeq(s, 1, n)
  BY DEF Fifo!ReadData
<1>5. /\ Fifo!AfterRead(ps, id, ReadLen) = ps
      \/ Fifo!AfterRead(ps, id, ReadLen) = [ps EXCEPT ![id].content = c]
  BY DEF Fifo!AfterRead
<1> HIDE DEF d, n, s
<1>6. d \in Seq(Nat) /\ Len(d) \in 0 .. Len(s)
  <2>1. SubSeq(s, 1, n) \in Seq(Nat) /\ Len(SubSeq(s, 1, n)) = n
    BY <1>1, <1>3
  <2>2. <<>> \in Seq(Nat) /\ Len(<<>>) = 0
    OBVIOUS
  <2>3. CASE d = <<>>
    <3>1. d \in Seq(Nat) /\ Len(d) = 0
      BY <2>2, <2>3, Zenon
    <3> QED
      BY <1>1, <3>1
  <2>4. CASE d = SubSeq(s, 1, n)
    <3>1. d \in Seq(Nat) /\ Len(d) = n
      BY <2>1, <2>4, Zenon
    <3> QED
      BY <1>3, <3>1
  <2> QED
    BY <1>4, <2>3, <2>4
<1>7. c \in Seq(Nat) /\ Len(c) <= PIPE_BUF_SIZE
  <2> DEFINE b == Len(d) + 1
  <2>1. b \in Nat /\ b >= 1 /\ b <= Len(s) + 1
    BY <1>1, <1>6
  <2> HIDE DEF b
  <2>2. SubSeq(s, b, Len(s)) \in Seq(Nat) /\ Len(SubSeq(s, b, Len(s))) <= Len(s)
    BY <1>1, <2>1
  <2> QED
    BY <1>1, <2>2, SizesArePositive DEF b
<1> HIDE DEF c
<1>8. ps \in Pools /\ SameEnds(ps, ps)
  BY DEF SameEnds
<1>9. [ps EXCEPT ![id].content = c] \in Pools /\ SameEnds(ps, [ps EXCEPT ![id].content = c])
  <2>1. [ps EXCEPT ![id].content = c] \in Pools /\ SameEnds(ps, [ps EXCEPT ![id].content = c])
    BY <1>7, ContentReplaced
  <2> QED
    BY <2>1 DEF s
<1> QED
  BY <1>5, <1>6, <1>8, <1>9 DEF d

(* A close takes one descriptor from the open ones, and may free its pipe. *)
LEMMA FdClosed ==
  ASSUME NEW ps \in Pools, NEW fd \in Fds
  PROVE  /\ CloseFd(ps, fd) \in Pools
         /\ OpenFds(CloseFd(ps, fd)) = OpenFds(ps) \ {fd}
         /\ UsedPipes(CloseFd(ps, fd)) \subseteq UsedPipes(ps)
<1>1. CASE ~IsPipe(fd)
  <2>1. fd \notin PipeFds
    BY <1>1, SizesArePositive DEF IsPipe, PipeFds
  <2> QED
    BY <1>1, <2>1 DEF CloseFd, OpenFds
<1>2. CASE IsPipe(fd)
  <2> DEFINE id  == PipeId(fd)
             end == PipeEnd(fd)
             r   == ps[id].read_open /\ end # 0
             w   == ps[id].write_open /\ end = 0
             p   == [ps[id] EXCEPT !.read_open = r, !.write_open = w, !.used = r \/ w]
             qs  == CloseFd(ps, fd)
  <2>1. id \in PipeIds /\ end \in {0, 1} /\ fd \in PipeFds /\ fd = FD_MAKE_PIPE(id, end)
    BY <1>2, PipeOfFd
  <2>2. ps[id] \in PipeState /\ Len(ps[id].content) <= PIPE_BUF_SIZE
    BY <2>1 DEF Pools
  <2>3. qs = IF ps[id].used THEN [ps EXCEPT ![id] = p] ELSE ps
    BY <1>2, <2>1 DEF CloseFd, Fifo!Closed, Fifo!IsUsed, Fifo!PipeIds, Fifo!ReadEnd, PipeIds
  <2>4. /\ p \in PipeState /\ p.content = ps[id].content
        /\ p.read_open = r /\ p.write_open = w /\ p.used = (r \/ w)
    BY <2>2 DEF PipeState
  <2>5. /\ qs \in Pools
        /\ \A j \in PipeIds \ {id} : qs[j] = ps[j]
        /\ ps[id].used => qs[id] = p
        /\ ~ps[id].used => qs = ps
    <3> HIDE DEF p, id
    <3> QED
      BY <2>1, <2>2, <2>3, <2>4, PipeReplaced
  <2> HIDE DEF p, qs
  <2>6. UsedPipes(qs) \subseteq UsedPipes(ps)
    <3> SUFFICES ASSUME NEW j \in UsedPipes(qs) PROVE ps[j].used
      BY DEF UsedPipes
    <3> QED
      BY <2>5 DEF UsedPipes
  <2>7. ASSUME NEW g \in PipeFds PROVE IsOpen(qs, g) <=> IsOpen(ps, g) /\ g # fd
    <3>1. g \in Fds /\ IsPipe(g)
      BY SizesArePositive DEF PipeFds, Fds, IsPipe
    <3>2. PipeId(g) \in PipeIds /\ PipeEnd(g) \in {0, 1} /\ g = FD_MAKE_PIPE(PipeId(g), PipeEnd(g))
      BY <3>1, PipeOfFd
    <3>3. CASE PipeId(g) # id
      BY <2>1, <2>5, <3>2, <3>3 DEF IsOpen
    <3>4. CASE PipeId(g) = id /\ ~ps[id].used
      BY <2>5, <3>4 DEF IsOpen
    <3>5. CASE PipeId(g) = id /\ ps[id].used
      <4> HIDE DEF id, end
      <4>1. qs[id] = p
        BY <2>5, <3>5
      <4>2. PipeEnd(g) = end <=> g = fd
        BY <2>1, <3>2, <3>5 DEF id, end
      <4>3. CASE PipeEnd(g) = 0
        BY <2>1, <2>4, <3>5, <4>1, <4>2, <4>3 DEF IsOpen
      <4>4. CASE PipeEnd(g) = 1
        BY <2>1, <2>4, <3>5, <4>1, <4>2, <4>4 DEF IsOpen
      <4> QED
        BY <3>2, <4>3, <4>4
    <3> QED
      BY <3>3, <3>4, <3>5
  <2> QED
    BY <2>5, <2>6, <2>7 DEF OpenFds, qs
<1> QED
  BY <1>1, <1>2

----------------------------------------------------------------------------
(***************************************************************************)
(* What the programs do to the machine.                                    *)
(***************************************************************************)
LEMMA BlocksAreControl == ControlBlocks(Blocks)
BY DEF ControlBlocks, Blocks, Scheduling, States

LEMMA LikeBlock ==
  ASSUME NEW b \in Blocks, NEW c \in Blocks, Like(b, c)
  PROVE  /\ b.id = c.id /\ b.entry = c.entry /\ b.pipeline_tag = c.pipeline_tag
         /\ b.stdin = c.stdin /\ b.stdout = c.stdout
BY DEF Like, Blocks, Scheduling

Machines == [k : TablesOf(Blocks), pool : Pools, output : Seq(Nat)]

(* The program returned: it has moved bytes at most.                       *)
Returned(m, n) == n.k = m.k /\ SameEnds(m.pool, n.pool)

(* Process i let go of its descriptors.                                    *)
Detached(b, c) ==
  /\ b.id = c.id /\ b.state = c.state /\ b.pipeline_tag = c.pipeline_tag
  /\ b.stdin = FD_NONE /\ b.stdout = FD_NONE

Quit(m, n, i) ==
  /\ n.k.nr_procese = m.k.nr_procese /\ n.k.current = m.k.current
  /\ Detached(n.k.proc_table[i], m.k.proc_table[i])
  /\ \A j \in Slots \ {i} : n.k.proc_table[j] = m.k.proc_table[j]
  /\ OpenFds(n.pool) = OpenFds(m.pool) \ {m.k.proc_table[i].stdin, m.k.proc_table[i].stdout}
  /\ UsedPipes(n.pool) \subseteq UsedPipes(m.pool)

LEMMA ProcessKilled ==
  ASSUME NEW m \in Machines, NEW i \in InUse(m.k)
  PROVE  KillProcess(m, i) \in Machines /\ Quit(m, KillProcess(m, i), i)
<1> DEFINE n  == KillProcess(m, i)
           p  == m.k.proc_table[i]
           b  == [p EXCEPT !.remaining = 0, !.stdin = FD_NONE, !.stdout = FD_NONE]
           t  == [m.k.proc_table EXCEPT ![i] = b]
           kk == [m.k EXCEPT !.proc_table = t]
           ps == CloseFd(m.pool, p.stdin)
           qs == CloseFd(ps, p.stdout)
<1>1. /\ m.k \in TablesOf(Blocks) /\ m.pool \in Pools /\ m.output \in Seq(Nat)
      /\ m = [k |-> m.k, pool |-> m.pool, output |-> m.output]
  BY DEF Machines
<1>2. i \in Slots /\ p \in Blocks
  BY <1>1, InUseAreSlots
<1>3. p.stdin \in Fds /\ p.stdout \in Fds
  BY <1>2 DEF Blocks
<1>4. /\ qs \in Pools /\ OpenFds(qs) = OpenFds(m.pool) \ {p.stdin, p.stdout}
      /\ UsedPipes(qs) \subseteq UsedPipes(m.pool)
  <2>1. /\ ps \in Pools /\ OpenFds(ps) = OpenFds(m.pool) \ {p.stdin}
        /\ UsedPipes(ps) \subseteq UsedPipes(m.pool)
    BY <1>1, <1>3, FdClosed
  <2> HIDE DEF ps
  <2>2. /\ qs \in Pools /\ OpenFds(qs) = OpenFds(ps) \ {p.stdout}
        /\ UsedPipes(qs) \subseteq UsedPipes(ps)
    BY <2>1, <1>3, FdClosed
  <2> HIDE DEF p, qs
  <2> QED
    BY <2>1, <2>2
<1>5. b \in Blocks /\ Detached(b, p)
  <2>1. FD_NONE \in Fds
    BY DEF Fds
  <2> HIDE DEF p
  <2>2. b \in Blocks
    <3> DEFINE d == [p EXCEPT !.remaining = 0]
    <3>1. d \in Blocks
      BY <1>2 DEF Blocks
    <3>2. b = [d EXCEPT !.stdin = FD_NONE, !.stdout = FD_NONE]
      OBVIOUS
    <3> HIDE DEF b, d
    <3> QED
      BY <2>1, <3>1, <3>2 DEF Blocks
  <2>3. /\ b.id = p.id /\ b.state = p.state /\ b.pipeline_tag = p.pipeline_tag
        /\ b.stdin = FD_NONE /\ b.stdout = FD_NONE
    BY <1>2 DEF Blocks
  <2> HIDE DEF b
  <2> QED
    BY <2>2, <2>3 DEF Detached
<1>6. [Kill(m.k, i) EXCEPT !.proc_table[i].stdin = FD_NONE,
                           !.proc_table[i].stdout = FD_NONE] = kk
  <2> DEFINE v == [m.k.proc_table EXCEPT ![i] = [p EXCEPT !.remaining = 0]]
             l == [m.k EXCEPT !.proc_table = v]
  <2>1. Kill(m.k, i) = l
    BY DEF Kill
  <2>2. DOMAIN v = Slots /\ v[i] = [p EXCEPT !.remaining = 0]
    BY <1>1, <1>2 DEF TablesOf
  <2>3. t = [v EXCEPT ![i] = b]
    BY <1>1, <1>2 DEF TablesOf
  <2>4. [v[i] EXCEPT !.stdin = FD_NONE, !.stdout = FD_NONE] = b
    BY <2>2
  <2> HIDE DEF v, t, b
  <2>5. l.proc_table = v /\ kk = [l EXCEPT !.proc_table = t]
    BY <1>1 DEF TablesOf
  <2> HIDE DEF l, kk
  <2>6. [l EXCEPT !.proc_table[i].stdin = FD_NONE, !.proc_table[i].stdout = FD_NONE]
          = [l EXCEPT !.proc_table =
               [l.proc_table EXCEPT ![i] =
                  [l.proc_table[i] EXCEPT !.stdin = FD_NONE, !.stdout = FD_NONE]]]
    BY <1>2, <2>2, <2>5
  <2>7. [l.proc_table EXCEPT ![i] =
           [l.proc_table[i] EXCEPT !.stdin = FD_NONE, !.stdout = FD_NONE]] = t
    BY <2>3, <2>4, <2>5
  <2> QED
    BY <2>1, <2>5, <2>6, <2>7
<1>7. n = [k |-> kk, pool |-> qs, output |-> m.output]
  BY <1>1, <1>6 DEF KillProcess
<1> HIDE DEF b, n, qs
<1>8. t \in [Slots -> Blocks] /\ t[i] = b /\ \A j \in Slots \ {i} : t[j] = m.k.proc_table[j]
  BY <1>1, <1>2, <1>5 DEF TablesOf
<1> HIDE DEF t
<1>9. /\ kk \in TablesOf(Blocks) /\ kk.proc_table = t
      /\ kk.nr_procese = m.k.nr_procese /\ kk.current = m.k.current
  BY <1>1, <1>8 DEF TablesOf
<1> HIDE DEF kk, p
<1>10. n \in Machines /\ n.k = kk /\ n.pool = qs
  BY <1>1, <1>4, <1>7, <1>9 DEF Machines
<1> QED
  BY <1>4, <1>5, <1>8, <1>9, <1>10 DEF Quit, n, p

LEMMA CurrentBlock ==
  ASSUME NEW m, m.k \in TablesOf(Blocks), CurrentRunning(m.k)
  PROVE  This(m) \in Blocks
<1>1. m.k.current \in InUse(m.k)
  BY DEF CurrentRunning, CurrentValid
<1>2. m.k.current \in Slots
  BY <1>1, InUseAreSlots
<1> QED
  BY <1>2, InUseAreSlots DEF This

LEMMA WrittenOut ==
  ASSUME NEW m \in Machines, NEW data \in Seq(Nat), CurrentRunning(m.k)
  PROVE  SysWrite(m, data) \in Machines /\ Returned(m, SysWrite(m, data))
<1> DEFINE fd == This(m).stdout
           qs == Fifo!Written(m.pool, PipeId(fd), data)
<1>1. m.k \in TablesOf(Blocks) /\ m.pool \in Pools /\ m.output \in Seq(Nat)
  BY DEF Machines
<1>2. This(m) \in Blocks /\ fd \in Fds
  BY <1>1, CurrentBlock DEF Blocks
<1>3. CASE fd = FD_UART_OUT
  <2>1. SysWrite(m, data) = [m EXCEPT !.output = m.output \o data]
    BY <1>3 DEF SysWrite
  <2>2. m.output \o data \in Seq(Nat)
    BY <1>1
  <2> QED
    BY <1>1, <2>1, <2>2 DEF Machines, Returned, SameEnds
<1>4. CASE fd # FD_UART_OUT /\ IsPipe(fd)
  <2>1. qs \in Pools /\ SameEnds(m.pool, qs)
    BY <1>1, <1>2, <1>4, PipeOfFd, WrittenPool
  <2>2. SysWrite(m, data) = [m EXCEPT !.pool = qs]
    BY <1>4 DEF SysWrite
  <2> HIDE DEF qs
  <2> QED
    BY <1>1, <2>1, <2>2 DEF Machines, Returned
<1>5. CASE fd # FD_UART_OUT /\ ~IsPipe(fd)
  BY <1>1, <1>5 DEF SysWrite, Returned, SameEnds
<1> QED
  BY <1>3, <1>4, <1>5

LEMMA ReturnedThenQuit ==
  ASSUME NEW m, NEW l, NEW n, NEW i, Returned(m, l), Quit(l, n, i)
  PROVE  Quit(m, n, i)
<1>1. OpenFds(l.pool) = OpenFds(m.pool) /\ UsedPipes(l.pool) = UsedPipes(m.pool)
  BY SameEndsOpen DEF Returned
<1> QED
  BY <1>1 DEF Returned, Quit

LEMMA ReturnedChain ==
  ASSUME NEW m, NEW l, NEW n, Returned(m, l), Returned(l, n)
  PROVE  Returned(m, n)
BY DEF Returned, SameEnds

(* A call of entry() returns, or the process has quit.                     *)
LEMMA EntryRuns ==
  ASSUME NEW m \in Machines, CurrentRunning(m.k), NEW n \in EntryOutcomes(m)
  PROVE  n \in Machines /\ (Returned(m, n) \/ Quit(m, n, m.k.current))
<1> DEFINE p == This(m)
           c == m.k.current
<1>1. /\ m.k \in TablesOf(Blocks) /\ m.pool \in Pools /\ m.output \in Seq(Nat)
      /\ c \in InUse(m.k)
  BY DEF Machines, CurrentRunning, CurrentValid
<1>2. p \in Blocks /\ p.id \in Nat /\ p.stdin \in Fds
  BY <1>1, CurrentBlock DEF Blocks
<1>3. Returned(m, m)
  BY DEF Returned, SameEnds
<1>4. CASE p.entry = "u1"
  <2> DEFINE data == [j \in 1 .. MsgLen |-> p.id]
             w    == SysWrite(m, data)
  <2>1. data \in Seq(Nat)
    BY <1>2, SizesArePositive
  <2>2. n = SysExit(w)
    BY <1>4 DEF EntryOutcomes, RunU1
  <2> HIDE DEF data
  <2>3. w \in Machines /\ Returned(m, w)
    BY <2>1, WrittenOut
  <2> HIDE DEF w
  <2>4. w.k = m.k
    BY <2>3 DEF Returned
  <2>5. n = KillProcess(w, c) /\ c \in InUse(w.k)
    BY <1>1, <2>2, <2>4 DEF SysExit
  <2>6. n \in Machines /\ Quit(w, n, c)
    BY <2>3, <2>5, ProcessKilled
  <2> QED
    BY <2>3, <2>6, ReturnedThenQuit
<1>5. CASE p.entry = "u2"
  <2>1. PICK typedIn \in Received : n = RunU2(m, typedIn)
    BY <1>5 DEF EntryOutcomes
  <2> DEFINE fd   == p.stdin
             data == IF IsPipe(fd) THEN Fifo!ReadData(m.pool, PipeId(fd), ReadLen)
                     ELSE IF fd = FD_UART_IN THEN typedIn ELSE <<>>
             nr   == IF IsPipe(fd) THEN Fifo!ReadResult(m.pool, PipeId(fd), ReadLen)
                     ELSE IF fd = FD_UART_IN THEN Len(typedIn) ELSE -1
             rest == IF IsPipe(fd)
                     THEN [m EXCEPT !.pool = Fifo!AfterRead(m.pool, PipeId(fd), ReadLen)]
                     ELSE m
  <2>2. n = IF nr > 0 THEN SysWrite(rest, data) ELSE IF nr < 0 THEN SysExit(rest) ELSE m
    BY <2>1 DEF RunU2
  <2>3. data \in Seq(Nat) /\ rest \in Machines /\ Returned(m, rest)
    <3>1. CASE IsPipe(fd)
      <4> DEFINE qs == Fifo!AfterRead(m.pool, PipeId(fd), ReadLen)
      <4>1. /\ qs \in Pools /\ SameEnds(m.pool, qs)
            /\ Fifo!ReadData(m.pool, PipeId(fd), ReadLen) \in Seq(Nat)
        BY <1>1, <1>2, <3>1, PipeOfFd, ReadPool
      <4>2. rest = [m EXCEPT !.pool = qs] /\ data = Fifo!ReadData(m.pool, PipeId(fd), ReadLen)
        BY <3>1
      <4> HIDE DEF qs, data, rest
      <4> QED
        BY <1>1, <4>1, <4>2 DEF Machines, Returned
    <3>2. CASE ~IsPipe(fd)
      <4>1. typedIn \in Seq(Nat) /\ <<>> \in Seq(Nat)
        <5>1. <<>> \in Seq(Nat) /\ <<0>> \in Seq(Nat)
          OBVIOUS
        <5> QED
          BY <5>1, Zenon DEF Received
      <4> QED
        BY <1>3, <3>2, <4>1
    <3> QED
      BY <3>1, <3>2
  <2> HIDE DEF rest, data, nr
  <2>4. rest.k = m.k
    BY <2>3 DEF Returned
  <2>5. CASE nr > 0
    <3>1. n \in Machines /\ Returned(rest, n)
      BY <2>2, <2>3, <2>4, <2>5, WrittenOut
    <3> QED
      BY <2>3, <3>1, ReturnedChain
  <2>6. CASE ~(nr > 0) /\ nr < 0
    <3>1. n = KillProcess(rest, c) /\ c \in InUse(rest.k)
      BY <1>1, <2>2, <2>4, <2>6 DEF SysExit
    <3>2. n \in Machines /\ Quit(rest, n, c)
      BY <2>3, <3>1, ProcessKilled
    <3> QED
      BY <2>3, <3>2, ReturnedThenQuit
  <2>7. CASE ~(nr > 0) /\ ~(nr < 0)
    BY <1>3, <2>2, <2>7
  <2> QED
    BY <2>5, <2>6, <2>7
<1>6. CASE p.entry \notin {"u1", "u2"}
  BY <1>3, <1>6 DEF EntryOutcomes
<1> QED
  BY <1>4, <1>5, <1>6

----------------------------------------------------------------------------
(***************************************************************************)
(* The wiring, as blocks move, quit and arrive.                            *)
(***************************************************************************)
(* Processes keep their descriptors wherever their blocks move, and some   *)
(* may leave.                                                              *)
LEMMA WiredRenamed ==
  ASSUME NEW t, NEW F, NEW u, NEW G, NEW open, NEW x, NEW f \in [G -> F],
         \A i, j \in G : f[i] = f[j] => i = j,
         \A i \in G : u[i] \in Blocks /\ t[f[i]] \in Blocks /\ Like(u[i], t[f[i]]),
         Wired(t, F, open, x)
  PROVE  Wired(u, G, open, x)
<1>1. ASSUME NEW i \in G
      PROVE  /\ f[i] \in F
             /\ u[i].id = t[f[i]].id /\ u[i].pipeline_tag = t[f[i]].pipeline_tag
             /\ u[i].stdin = t[f[i]].stdin /\ u[i].stdout = t[f[i]].stdout
  BY LikeBlock
<1>2. StagesKnown(u, G, x)
  BY <1>1 DEF Wired, StagesKnown
<1>3. Descriptors(u, G, open)
  <2> SUFFICES ASSUME NEW i \in G
               PROVE  /\ IsPipe(u[i].stdin) => u[i].stdin \in open /\ PipeEnd(u[i].stdin) = 0
                      /\ IsPipe(u[i].stdout) => u[i].stdout \in open /\ PipeEnd(u[i].stdout) = 1
                      /\ \A j \in G \ {i} : /\ IsPipe(u[i].stdin) => u[j].stdin # u[i].stdin
                                            /\ IsPipe(u[i].stdout) => u[j].stdout # u[i].stdout
    BY DEF Descriptors
  <2>1. \A j \in G \ {i} : f[j] \in F \ {f[i]}
    BY <1>1
  <2> QED
    BY <1>1, <2>1 DEF Wired, Descriptors
<1>4. StagesHold(u, G, x)
  BY <1>1 DEF Wired, StagesHold
<1>5. EndsSpare(u, G, open, x)
  BY <1>1 DEF Wired, EndsSpare
<1> QED
  BY <1>2, <1>3, <1>4, <1>5 DEF Wired

(* A process that quits closes nothing that another one holds.             *)
LEMMA WiredQuit ==
  ASSUME NEW t, NEW F, NEW u, NEW open, NEW x, NEW i \in F, NEW left,
         Range(x.fds) \subseteq PipeIds,
         left = open \ {t[i].stdin, t[i].stdout},
         Detached(u[i], t[i]), \A j \in F \ {i} : u[j] = t[j],
         Wired(t, F, open, x)
  PROVE  Wired(u, F, left, x)
<1>1. ~IsPipe(FD_NONE)
  BY DEF IsPipe, FD_NONE
<1>2. ASSUME NEW j \in F
      PROVE  /\ u[j].id = t[j].id /\ u[j].pipeline_tag = t[j].pipeline_tag
             /\ j = i => ~IsPipe(u[j].stdin) /\ ~IsPipe(u[j].stdout)
             /\ IsPipe(u[j].stdin) => u[j].stdin = t[j].stdin /\ j # i
             /\ IsPipe(u[j].stdout) => u[j].stdout = t[j].stdout /\ j # i
  BY <1>1 DEF Detached
<1>3. StagesKnown(u, F, x)
  BY <1>2 DEF Wired, StagesKnown
<1>4. Descriptors(u, F, left)
  <2> SUFFICES ASSUME NEW j \in F
               PROVE  /\ IsPipe(u[j].stdin) => u[j].stdin \in left /\ PipeEnd(u[j].stdin) = 0
                      /\ IsPipe(u[j].stdout) => u[j].stdout \in left /\ PipeEnd(u[j].stdout) = 1
                      /\ \A h \in F \ {j} : /\ IsPipe(u[j].stdin) => u[h].stdin # u[j].stdin
                                            /\ IsPipe(u[j].stdout) => u[h].stdout # u[j].stdout
    BY DEF Descriptors
  <2>1. ASSUME IsPipe(u[j].stdin)
        PROVE  /\ u[j].stdin \in left /\ PipeEnd(u[j].stdin) = 0
               /\ \A h \in F \ {j} : u[h].stdin # u[j].stdin
    BY <1>2, <2>1 DEF Wired, Descriptors
  <2>2. ASSUME IsPipe(u[j].stdout)
        PROVE  /\ u[j].stdout \in left /\ PipeEnd(u[j].stdout) = 1
               /\ \A h \in F \ {j} : u[h].stdout # u[j].stdout
    BY <1>2, <2>2 DEF Wired, Descriptors
  <2> QED
    BY <2>1, <2>2
<1>5. StagesHold(u, F, x)
  BY <1>2 DEF Wired, StagesHold
<1>6. EndsSpare(u, F, left, x)
  <2> SUFFICES ASSUME x.spawning, NEW j \in DOMAIN x.fds
               PROVE  /\ j >= x.upcoming - 1 =>
                           /\ FD_MAKE_PIPE(x.fds[j], 0) \in left
                           /\ \A h \in F : u[h].stdin # FD_MAKE_PIPE(x.fds[j], 0)
                      /\ j >= x.upcoming =>
                           /\ FD_MAKE_PIPE(x.fds[j], 1) \in left
                           /\ \A h \in F : u[h].stdout # FD_MAKE_PIPE(x.fds[j], 1)
    BY DEF EndsSpare
  <2> DEFINE rd == FD_MAKE_PIPE(x.fds[j], 0)
             wr == FD_MAKE_PIPE(x.fds[j], 1)
  <2>1. x.fds[j] \in PipeIds
    BY DEF Range
  <2>2. IsPipe(rd) /\ PipeEnd(rd) = 0 /\ IsPipe(wr) /\ PipeEnd(wr) = 1
    BY <2>1, FdOfPipe
  <2>3. /\ j >= x.upcoming - 1 => rd \in open /\ \A h \in F : t[h].stdin # rd
        /\ j >= x.upcoming => wr \in open /\ \A h \in F : t[h].stdout # wr
    BY DEF Wired, EndsSpare
  <2>4. /\ IsPipe(t[i].stdin) => PipeEnd(t[i].stdin) = 0
        /\ IsPipe(t[i].stdout) => PipeEnd(t[i].stdout) = 1
    BY DEF Wired, Descriptors
  <2> HIDE DEF rd, wr
  <2>5. j >= x.upcoming - 1 => rd \in left /\ \A h \in F : u[h].stdin # rd
    BY <1>2, <2>2, <2>3, <2>4
  <2>6. j >= x.upcoming => wr \in left /\ \A h \in F : u[h].stdout # wr
    BY <1>2, <2>2, <2>3, <2>4
  <2> QED
    BY <2>5, <2>6 DEF rd, wr
<1> QED
  BY <1>3, <1>4, <1>5, <1>6 DEF Wired

LEMMA WiredKept ==
  ASSUME NEW l \in TablesOf(Blocks), NEW m \in TablesOf(Blocks), KeepsBlocks(l, m),
         NEW F, F \subseteq Slots, NEW open, NEW x, Wired(l.proc_table, F, open, x)
  PROVE  Wired(m.proc_table, F, open, x)
<1> DEFINE f == [i \in F |-> i]
<1>1. f \in [F -> F] /\ \A i \in F : f[i] = i
  OBVIOUS
<1>2. \A i, j \in F : f[i] = f[j] => i = j
  BY <1>1
<1>3. \A i \in F : /\ m.proc_table[i] \in Blocks /\ l.proc_table[f[i]] \in Blocks
                   /\ Like(m.proc_table[i], l.proc_table[f[i]])
  BY <1>1, InUseAreSlots DEF KeepsBlocks
<1> HIDE DEF f
<1> QED
  BY <1>1, <1>2, <1>3, WiredRenamed

LEMMA WiredCompacted ==
  ASSUME NEW l \in TablesOf(Blocks), NEW m \in TablesOf(Blocks), Compacts(l, m),
         NEW open, NEW x, Wired(l.proc_table, InUse(l), open, x)
  PROVE  Wired(m.proc_table, InUse(m), open, x)
<1> DEFINE f == [i \in InUse(m) |-> Before(l, i)]
<1>1. f \in [InUse(m) -> InUse(l)] /\ \A i \in InUse(m) : f[i] = Before(l, i)
  BY DEF Compacts
<1>2. \A i, j \in InUse(m) : f[i] = f[j] => i = j
  <2>1. l.current \in Int /\ \A i \in InUse(m) : i \in Int
    BY TableAssumption DEF TablesOf, InUse
  <2> QED
    BY <1>1, <2>1 DEF Before
<1>3. \A i \in InUse(m) : /\ m.proc_table[i] \in Blocks /\ l.proc_table[f[i]] \in Blocks
                          /\ Like(m.proc_table[i], l.proc_table[f[i]])
  BY <1>1, InUseAreSlots DEF Compacts
<1> HIDE DEF f
<1> QED
  BY <1>1, <1>2, <1>3, WiredRenamed

(* What an interrupt does to table l and pipes ps, if it leaves m and qs:  *)
(* the processes keep their indices, or one has left.                      *)
Passes(l, ps, m, qs) ==
  /\ m \in TablesOf(Blocks) /\ qs \in Pools
  /\ Orderly(l) => Orderly(m)
  /\ UsedPipes(qs) \subseteq UsedPipes(ps)
  /\ \/ /\ m.nr_procese = l.nr_procese
        /\ \A i \in InUse(l) : m.proc_table[i].id = l.proc_table[i].id
        /\ \A i \in Slots \ InUse(l) : m.proc_table[i] = l.proc_table[i]
        /\ \A F, x : /\ InUse(l) \subseteq F /\ F \subseteq Slots
                     /\ Range(x.fds) \subseteq PipeIds
                     /\ Wired(l.proc_table, F, OpenFds(ps), x)
                     => Wired(m.proc_table, F, OpenFds(qs), x)
     \/ /\ m.nr_procese = l.nr_procese - 1
        /\ m.proc_table[l.nr_procese - 1].state = "UNUSED"
        /\ \A i \in Slots \ InUse(l) : m.proc_table[i] = l.proc_table[i]
        /\ \A x : /\ Range(x.fds) \subseteq PipeIds
                  /\ Wired(l.proc_table, InUse(l), OpenFds(ps), x)
                  => Wired(m.proc_table, InUse(m), OpenFds(qs), x)

LEMMA KeptPasses ==
  ASSUME NEW l \in TablesOf(Blocks), NEW m \in TablesOf(Blocks), NEW ps \in Pools,
         KeepsBlocks(l, m), Orderly(l) => Orderly(m)
  PROVE  Passes(l, ps, m, ps)
<1>1. /\ m.nr_procese = l.nr_procese
      /\ \A i \in Slots \ InUse(l) : m.proc_table[i] = l.proc_table[i]
  BY DEF KeepsBlocks
<1>2. \A i \in InUse(l) : m.proc_table[i].id = l.proc_table[i].id
  BY InUseAreSlots, LikeBlock DEF KeepsBlocks
<1>3. \A F, x : /\ F \subseteq Slots
                /\ Wired(l.proc_table, F, OpenFds(ps), x)
                => Wired(m.proc_table, F, OpenFds(ps), x)
  BY WiredKept
<1> QED
  BY <1>1, <1>2, <1>3 DEF Passes

LEMMA CompactedPasses ==
  ASSUME NEW l \in TablesOf(Blocks), NEW m \in TablesOf(Blocks), NEW ps \in Pools,
         Compacts(l, m), Orderly(l) => Orderly(m)
  PROVE  Passes(l, ps, m, ps)
<1>1. \A x : Wired(l.proc_table, InUse(l), OpenFds(ps), x)
             => Wired(m.proc_table, InUse(m), OpenFds(ps), x)
  BY WiredCompacted
<1> QED
  BY <1>1 DEF Passes, Compacts

LEMMA QuitPasses ==
  ASSUME NEW m \in Machines, NEW n \in Machines, NEW i \in InUse(m.k), Quit(m, n, i)
  PROVE  Passes(m.k, m.pool, n.k, n.pool)
<1> DEFINE t == m.k.proc_table
           u == n.k.proc_table
<1>1. /\ m.k \in TablesOf(Blocks) /\ n.k \in TablesOf(Blocks) /\ n.pool \in Pools
      /\ InUse(m.k) \subseteq Slots
  BY InUseAreSlots DEF Machines
<1>2. /\ n.k.nr_procese = m.k.nr_procese /\ n.k.current = m.k.current
      /\ Detached(u[i], t[i]) /\ \A j \in Slots \ {i} : u[j] = t[j]
      /\ OpenFds(n.pool) = OpenFds(m.pool) \ {t[i].stdin, t[i].stdout}
      /\ UsedPipes(n.pool) \subseteq UsedPipes(m.pool)
  BY DEF Quit
<1>3. InUse(n.k) = InUse(m.k)
  BY <1>2 DEF InUse
<1>4. Orderly(m.k) => Orderly(n.k)
  BY <1>1, <1>2, <1>3 DEF Orderly, Detached
<1>5. \A j \in InUse(m.k) : u[j].id = t[j].id
  BY <1>1, <1>2 DEF Detached
<1>6. ASSUME NEW F, NEW x, InUse(m.k) \subseteq F, F \subseteq Slots,
             Range(x.fds) \subseteq PipeIds, Wired(t, F, OpenFds(m.pool), x)
      PROVE  Wired(u, F, OpenFds(n.pool), x)
  <2>1. i \in F /\ \A j \in F \ {i} : u[j] = t[j]
    BY <1>2, <1>6
  <2> HIDE DEF t, u
  <2> QED
    BY <1>2, <1>6, <2>1, WiredQuit
<1>7. \A j \in Slots \ InUse(m.k) : u[j] = t[j]
  BY <1>2
<1> QED
  BY <1>1, <1>2, <1>4, <1>5, <1>6, <1>7 DEF Passes

(* Without a process leaving in the first of them, two passages are one.   *)
LEMMA PassesChain ==
  ASSUME NEW l \in TablesOf(Blocks), NEW ps, NEW m, NEW qs, NEW n, NEW rs,
         Passes(l, ps, m, qs), m.nr_procese = l.nr_procese, Passes(m, qs, n, rs)
  PROVE  Passes(l, ps, n, rs)
<1>1. InUse(m) = InUse(l) /\ InUse(l) \subseteq Slots /\ l.nr_procese \in Nat
  BY InUseAreSlots DEF InUse
<1>2. /\ \A i \in InUse(l) : m.proc_table[i].id = l.proc_table[i].id
      /\ \A i \in Slots \ InUse(l) : m.proc_table[i] = l.proc_table[i]
      /\ \A F, x : /\ InUse(l) \subseteq F /\ F \subseteq Slots
                   /\ Range(x.fds) \subseteq PipeIds
                   /\ Wired(l.proc_table, F, OpenFds(ps), x)
                   => Wired(m.proc_table, F, OpenFds(qs), x)
  BY <1>1 DEF Passes
<1>3. /\ n \in TablesOf(Blocks) /\ rs \in Pools /\ (Orderly(l) => Orderly(n))
      /\ UsedPipes(rs) \subseteq UsedPipes(ps)
  BY DEF Passes
<1>4. CASE n.nr_procese = m.nr_procese
  <2>1. /\ \A i \in InUse(m) : n.proc_table[i].id = m.proc_table[i].id
        /\ \A i \in Slots \ InUse(m) : n.proc_table[i] = m.proc_table[i]
        /\ \A F, x : /\ InUse(m) \subseteq F /\ F \subseteq Slots
                     /\ Range(x.fds) \subseteq PipeIds
                     /\ Wired(m.proc_table, F, OpenFds(qs), x)
                     => Wired(n.proc_table, F, OpenFds(rs), x)
    BY <1>1, <1>4 DEF Passes
  <2>2. /\ \A i \in InUse(l) : n.proc_table[i].id = l.proc_table[i].id
        /\ \A i \in Slots \ InUse(l) : n.proc_table[i] = l.proc_table[i]
    BY <1>1, <1>2, <2>1
  <2>3. \A F, x : /\ InUse(l) \subseteq F /\ F \subseteq Slots
                  /\ Range(x.fds) \subseteq PipeIds
                  /\ Wired(l.proc_table, F, OpenFds(ps), x)
                  => Wired(n.proc_table, F, OpenFds(rs), x)
    BY <1>1, <1>2, <2>1
  <2> QED
    BY <1>3, <1>4, <2>2, <2>3 DEF Passes
<1>5. CASE n.nr_procese # m.nr_procese
  <2>1. /\ n.nr_procese = l.nr_procese - 1
        /\ n.proc_table[l.nr_procese - 1].state = "UNUSED"
        /\ \A i \in Slots \ InUse(m) : n.proc_table[i] = m.proc_table[i]
        /\ \A x : /\ Range(x.fds) \subseteq PipeIds
                  /\ Wired(m.proc_table, InUse(m), OpenFds(qs), x)
                  => Wired(n.proc_table, InUse(n), OpenFds(rs), x)
    BY <1>5 DEF Passes
  <2>2. \A i \in Slots \ InUse(l) : n.proc_table[i] = l.proc_table[i]
    BY <1>1, <1>2, <2>1
  <2>3. \A x : /\ Range(x.fds) \subseteq PipeIds
               /\ Wired(l.proc_table, InUse(l), OpenFds(ps), x)
               => Wired(n.proc_table, InUse(n), OpenFds(rs), x)
    BY <1>1, <1>2, <2>1
  <2> QED
    BY <1>3, <2>1, <2>2, <2>3 DEF Passes
<1> QED
  BY <1>4, <1>5

LEMMA TickPasses ==
  ASSUME NEW l \in TablesOf(Blocks), NEW ps \in Pools, NEW out \in Seq(Nat),
         NEW d, d = Dispatch(UpdateWaiting(l)), CurrentRunning(d),
         NEW n \in EntryOutcomes([k |-> d, pool |-> ps, output |-> out])
  PROVE  /\ Passes(l, ps, AfterEntry(n.k), n.pool)
         /\ n.output \in Seq(Nat) /\ d.proc_table[d.current].id \in Nat
<1> DEFINE w == UpdateWaiting(l)
           m == [k |-> d, pool |-> ps, output |-> out]
<1>1. w \in TablesOf(Blocks) /\ KeepsBlocks(l, w) /\ (Orderly(l) => Orderly(w))
  BY BlocksAreControl, WaitingUpdated
<1> HIDE DEF w
<1>2. d \in TablesOf(Blocks) /\ KeepsBlocks(w, d) /\ (Orderly(w) => Orderly(d))
  BY <1>1, BlocksAreControl, Dispatched DEF w
<1>3. KeepsBlocks(l, d) /\ (Orderly(l) => Orderly(d)) /\ d.nr_procese = l.nr_procese
  <2>1. KeepsBlocks(l, d)
    BY <1>1, <1>2, KeepsChain
  <2> QED
    BY <1>1, <1>2, <2>1 DEF KeepsBlocks
<1>4. Passes(l, ps, d, ps)
  BY <1>2, <1>3, KeptPasses
<1>5. m \in Machines /\ m.k = d /\ m.pool = ps
  BY <1>2 DEF Machines
<1> HIDE DEF m
<1>6. n \in Machines /\ (Returned(m, n) \/ Quit(m, n, d.current))
  BY <1>5, EntryRuns DEF m
<1>7. n.k \in TablesOf(Blocks) /\ n.pool \in Pools /\ n.output \in Seq(Nat)
  BY <1>6 DEF Machines
<1>8. d.current \in InUse(d) /\ d.current \in Slots /\ d.proc_table[d.current] \in Blocks
  BY <1>2, InUseAreSlots DEF CurrentRunning, CurrentValid
<1>9. Passes(d, ps, n.k, n.pool) /\ n.k.nr_procese = d.nr_procese /\ CurrentRunning(n.k)
  <2>1. CASE Returned(m, n)
    <3>1. n.k = d /\ SameEnds(ps, n.pool)
      BY <1>5, <2>1 DEF Returned
    <3>2. OpenFds(n.pool) = OpenFds(ps) /\ UsedPipes(n.pool) = UsedPipes(ps)
      BY <3>1, SameEndsOpen
    <3>3. Passes(d, ps, d, ps)
      BY <1>2, KeepsItself, KeptPasses
    <3>4. Passes(d, ps, d, n.pool)
      BY <1>7, <3>2, <3>3 DEF Passes
    <3> QED
      BY <3>1, <3>4
  <2>2. CASE Quit(m, n, d.current)
    <3>1. Passes(d, ps, n.k, n.pool)
      BY <1>5, <1>6, <1>8, <2>2, QuitPasses
    <3>2. n.k.nr_procese = d.nr_procese /\ n.k.current = d.current
          /\ n.k.proc_table[d.current].state = d.proc_table[d.current].state
      BY <1>5, <2>2 DEF Quit, Detached
    <3> QED
      BY <3>1, <3>2 DEF CurrentRunning, CurrentValid, InUse
  <2> QED
    BY <1>6, <2>1, <2>2
<1>10. Passes(n.k, n.pool, AfterEntry(n.k), n.pool)
  <2> DEFINE a == AfterEntry(n.k)
  <2>1. /\ a \in TablesOf(Blocks) /\ (KeepsBlocks(n.k, a) \/ Compacts(n.k, a))
        /\ (Orderly(n.k) => Orderly(a))
    BY <1>7, <1>9, BlocksAreControl, EntryDone
  <2> HIDE DEF a
  <2>2. Passes(n.k, n.pool, a, n.pool)
    BY <1>7, <2>1, KeptPasses, CompactedPasses
  <2> QED
    BY <2>2 DEF a
<1>11. Passes(l, ps, n.k, n.pool)
  BY <1>2, <1>3, <1>4, <1>9, PassesChain
<1> QED
  BY <1>3, <1>7, <1>8, <1>9, <1>10, <1>11, PassesChain DEF Blocks

----------------------------------------------------------------------------
(***************************************************************************)
(* The inductive invariant, step by step.                                  *)
(***************************************************************************)
LEMMA FilledAreSlots == ASSUME Typed, TableSound PROVE Filled \subseteq Slots
BY InUseAreSlots DEF Typed, TableSound, Filled

(* The steps that leave the shell where it is: an interrupt and the        *)
(* commands kill, wait, yield, preempt and coop.                           *)
LEMMA PassageStep ==
  ASSUME IInv,
         Passes(k, pool, k', pool'),
         history' \in Histories,
         history'.born = history.born, history'.spawned = history.spawned,
         history'.aborted = history.aborted, history.torn \subseteq history'.torn,
         k'.nr_procese < k.nr_procese => Torn(TRUE) \subseteq history'.torn,
         pc = "demo_current" => \/ history'.torn # {}
                                \/ \A i \in InUse(k') : k'.proc_table[i].state # "RUNNING",
         pc' = IF pc = "halted" THEN "scan" ELSE pc,
         UNCHANGED <<stages, stage, pipe_fds, nr_loaded, scan, target>>
  PROVE  IInv'
<1>1. /\ k \in TablesOf(Blocks) /\ k' \in TablesOf(Blocks) /\ pool' \in Pools
      /\ k.nr_procese \in Nat /\ k'.nr_procese \in {k.nr_procese, k.nr_procese - 1}
      /\ InUse(k) \subseteq Slots
  BY InUseAreSlots DEF IInv, Typed, Passes
<1>2. /\ Storing' = Storing /\ Spawning' = Spawning /\ Awaiting' = Awaiting
      /\ Ending' = Ending /\ MidPipeline' = MidPipeline /\ Progress' = Progress
  BY DEF Storing, Spawning, Awaiting, Ending, MidPipeline, Progress
<1>3. Typed'
  <2>1. (pc = "load" => k.nr_procese < MAX_PROCESSES) /\ MAX_PROCESSES \in Nat
    BY TableAssumption DEF IInv, Typed
  <2>2. pc' = "load" => k'.nr_procese < MAX_PROCESSES
    BY <1>1, <2>1
  <2> QED
    BY <1>1, <1>2, <2>2 DEF IInv, Typed
<1>4. PipesOwned'
  BY <1>2 DEF IInv, PipesOwned, Passes
<1>5. ASSUME Untorn' PROVE /\ TableSound' /\ ScanSound'
                           /\ Wired(k.proc_table, Filled, OpenFds(pool), Progress)'
  <2>1. Untorn /\ TableSound /\ ScanSound
        /\ Wired(k.proc_table, Filled, OpenFds(pool), Progress)
    BY <1>5 DEF IInv, SoundUntilTorn, Untorn
  <2>2. Orderly(k')
    BY <2>1 DEF TableSound, Passes
  <2>3. Filled \subseteq Slots
    BY <2>1, FilledAreSlots DEF IInv
  <2>4. Range(Progress.fds) \subseteq PipeIds
    BY DEF Progress, IInv, Typed
  <2>5. pc' = "demo_current" => \A i \in InUse(k') : k'.proc_table[i].state # "RUNNING"
    BY <1>5 DEF Untorn
  <2>6. CASE k'.nr_procese = k.nr_procese
    <3>1. InUse(k') = InUse(k) /\ Filled' = Filled
      BY <1>2, <2>6 DEF InUse, Filled
    <3>2. /\ \A i \in InUse(k) : k'.proc_table[i].id = k.proc_table[i].id
          /\ \A i \in Slots \ InUse(k) : k'.proc_table[i] = k.proc_table[i]
      BY <1>1, <2>6 DEF Passes
    <3>3. Wired(k'.proc_table, Filled, OpenFds(pool'), Progress)
      <4>1. InUse(k) \subseteq Filled
        BY DEF Filled
      <4> HIDE DEF Filled, Progress
      <4> QED
        BY <1>1, <2>1, <2>3, <2>4, <2>6, <4>1 DEF Passes
    <3>4. TableSound'
      <4>1. \A i \in Slots \ Filled : k'.proc_table[i].state = "UNUSED"
        BY <2>1, <3>2 DEF TableSound, Filled
      <4>2. \A i \in Filled \ InUse(k) : i \in Slots /\ k'.proc_table[i].state = "READY"
        BY <2>1, <3>2 DEF TableSound
      <4>3. pc' = "store" => nr_loaded' = k'.nr_procese
        BY <2>1, <2>6 DEF TableSound
      <4> QED
        BY <2>2, <2>5, <3>1, <4>1, <4>2, <4>3 DEF TableSound
    <3>5. ScanSound'
      BY <1>1, <2>1, <3>1, <3>2 DEF ScanSound, IInv, Typed, InUse
    <3> QED
      BY <1>2, <3>1, <3>3, <3>4, <3>5
  <2>7. CASE k'.nr_procese # k.nr_procese
    <3>1. /\ k'.nr_procese = k.nr_procese - 1
          /\ k'.proc_table[k.nr_procese - 1].state = "UNUSED"
          /\ \A i \in Slots \ InUse(k) : k'.proc_table[i] = k.proc_table[i]
          /\ \A x : /\ Range(x.fds) \subseteq PipeIds
                    /\ Wired(k.proc_table, InUse(k), OpenFds(pool), x)
                    => Wired(k'.proc_table, InUse(k'), OpenFds(pool'), x)
      BY <2>7 DEF Passes
    <3>2. ~Storing /\ (pc = "scan" => ~(scan > 0))
      <4>1. Torn(TRUE) = {}
        <5>1. k'.nr_procese < k.nr_procese
          BY <1>1, <3>1
        <5>2. history'.torn = {}
          BY <1>5 DEF Untorn
        <5> QED
          BY <5>1, <5>2
      <4> QED
        BY <4>1 DEF Torn, Storing
    <3>3. Filled = InUse(k) /\ Filled' = InUse(k')
      BY <1>2, <3>2 DEF Filled
    <3>4. Wired(k'.proc_table, InUse(k'), OpenFds(pool'), Progress)
      BY <2>1, <2>4, <3>1, <3>3
    <3>5. TableSound'
      <4>1. \A i \in Slots \ InUse(k') : i = k.nr_procese - 1 \/ i \in Slots \ InUse(k)
        BY <1>1, <3>1 DEF InUse, Slots
      <4>2. \A i \in Slots \ InUse(k') : k'.proc_table[i].state = "UNUSED"
        BY <2>1, <3>1, <3>3, <4>1 DEF TableSound
      <4>3. pc' # "store"
        BY <3>2 DEF Storing
      <4> QED
        BY <2>2, <2>5, <3>3, <4>2, <4>3 DEF TableSound
    <3>6. ScanSound'
      <4>1. pc' = "scan" => scan' = 0
        BY <3>2, TableAssumption DEF IInv, Typed
      <4>2. \A i \in InUse(k') : ~(i < 0)
        BY <1>1 DEF InUse
      <4> QED
        BY <4>1, <4>2 DEF ScanSound
    <3> QED
      BY <1>2, <3>3, <3>4, <3>5, <3>6
  <2> QED
    BY <2>6, <2>7
<1> QED
  BY <1>3, <1>4, <1>5 DEF IInv, SoundUntilTorn

LEMMA TickIdleStep == ASSUME IInv, TickIdle PROVE IInv'
<1>1. /\ k' = UpdateWaiting(k) /\ pool' = pool /\ history' = history
      /\ pc' = IF pc = "halted" THEN "scan" ELSE pc
      /\ UNCHANGED <<stages, stage, pipe_fds, nr_loaded, scan, target>>
  BY DEF TickIdle, Interrupt
<1>2. k \in TablesOf(Blocks) /\ pool \in Pools /\ history \in Histories
  BY DEF IInv, Typed
<1>3. /\ k' \in TablesOf(Blocks) /\ KeepsBlocks(k, k') /\ (Orderly(k) => Orderly(k'))
      /\ \A i \in InUse(k) : k'.proc_table[i] = Awaken(k.proc_table[i])
  BY <1>1, <1>2, BlocksAreControl, WaitingUpdated
<1>4. Passes(k, pool, k', pool') /\ k'.nr_procese = k.nr_procese /\ InUse(k') = InUse(k)
  BY <1>1, <1>2, <1>3, KeptPasses DEF KeepsBlocks, InUse
<1>5. ~(k'.nr_procese < k.nr_procese)
  BY <1>2, <1>4, InUseAreSlots
<1>6. pc = "demo_current" =>
        \/ history'.torn # {}
        \/ \A i \in InUse(k') : k'.proc_table[i].state # "RUNNING"
  <2>1. ASSUME Untorn, pc = "demo_current", NEW i \in InUse(k)
        PROVE  k'.proc_table[i].state # "RUNNING"
    <3>1. k.proc_table[i].state # "RUNNING" /\ k.proc_table[i] \in Blocks
      BY <1>2, <2>1, InUseAreSlots DEF IInv, SoundUntilTorn, TableSound
    <3> QED
      BY <1>3, <3>1, BlocksAreControl, Awakened
  <2> QED
    BY <1>1, <1>4, <2>1 DEF Untorn
<1> QED
  BY <1>1, <1>2, <1>4, <1>5, <1>6, PassageStep

LEMMA TickRunStep == ASSUME IInv, TickRun PROVE IInv'
<1>1. k \in TablesOf(Blocks) /\ pool \in Pools /\ history \in Histories
  BY DEF IInv, Typed
<1> DEFINE d == Dispatch(UpdateWaiting(k))
<1>2. PICK n \in EntryOutcomes([k |-> d, pool |-> pool, output |-> history.output]) :
        /\ k' = AfterEntry(n.k)
        /\ pool' = n.pool
        /\ history' = [history EXCEPT
             !.output = n.output,
             !.ran = history.ran \cup {d.proc_table[d.current].id},
             !.torn = history.torn \cup Torn(k'.nr_procese < k.nr_procese)]
  BY DEF TickRun
<1>3. /\ CurrentRunning(d)
      /\ pc' = IF pc = "halted" THEN "scan" ELSE pc
      /\ UNCHANGED <<stages, stage, pipe_fds, nr_loaded, scan, target>>
  BY DEF TickRun, Interrupt
<1>4. /\ Passes(k, pool, k', pool')
      /\ n.output \in Seq(Nat) /\ d.proc_table[d.current].id \in Nat
  <2>1. history.output \in Seq(Nat)
    BY <1>1 DEF Histories
  <2>2. d = Dispatch(UpdateWaiting(k))
    OBVIOUS
  <2> HIDE DEF d
  <2> QED
    BY <1>1, <1>2, <1>3, <2>1, <2>2, TickPasses
<1> HIDE DEF d
<1> DEFINE tears == Torn(k'.nr_procese < k.nr_procese)
<1>5. /\ tears \subseteq {"spawn", "scan", "demo"}
      /\ k'.nr_procese < k.nr_procese => Torn(TRUE) = tears
      /\ pc = "demo_current" => "demo" \in tears
  BY DEF Torn
<1> HIDE DEF tears
<1>6. /\ history' \in Histories
      /\ history'.born = history.born /\ history'.spawned = history.spawned
      /\ history'.aborted = history.aborted /\ history'.torn = history.torn \cup tears
  BY <1>1, <1>2, <1>4, <1>5 DEF Histories, tears
<1>7. /\ history.torn \subseteq history'.torn
      /\ k'.nr_procese < k.nr_procese => Torn(TRUE) \subseteq history'.torn
      /\ pc = "demo_current" => "demo" \in history'.torn
  BY <1>5, <1>6
<1> QED
  BY <1>3, <1>4, <1>6, <1>7, PassageStep

(* The commands of one step that leave the shell at its prompt.            *)
LEMMA PromptStep ==
  ASSUME IInv, pc = "prompt", Passes(k, pool, k', pool'), k'.nr_procese = k.nr_procese,
         UNCHANGED <<history, pc, Parameters>>
  PROVE  IInv'
<1>1. k \in TablesOf(Blocks) /\ history \in Histories
  BY DEF IInv, Typed
<1>2. ~(k'.nr_procese < k.nr_procese)
  BY <1>1, InUseAreSlots
<1>3. UNCHANGED <<stages, stage, pipe_fds, nr_loaded, scan, target>> /\ history' = history
      /\ pc' = IF pc = "halted" THEN "scan" ELSE pc
  BY DEF Parameters
<1>4. pc # "demo_current"
  OBVIOUS
<1> QED
  BY <1>1, <1>2, <1>3, <1>4, PassageStep

LEMMA KillStep == ASSUME IInv, NEW pid, KillCommand(pid) PROVE IInv'
<1> DEFINE m == [k |-> k, pool |-> pool, output |-> <<>>]
           n == KillProcess(m, pid)
<1>1. /\ pc = "prompt" /\ k' = n.k /\ pool' = n.pool
      /\ UNCHANGED <<history, pc, Parameters>>
  BY DEF KillCommand, Type
<1>2. k \in TablesOf(Blocks) /\ pool \in Pools
  BY DEF IInv, Typed
<1>3. m \in Machines /\ m.k = k /\ m.pool = pool
  BY <1>2 DEF Machines
<1> HIDE DEF m
<1>4. Passes(k, pool, k', pool') /\ k'.nr_procese = k.nr_procese
  <2>1. CASE pid \in InUse(k)
    <3>1. n \in Machines /\ Quit(m, n, pid)
      BY <1>3, <2>1, ProcessKilled
    <3> HIDE DEF n
    <3>2. Passes(m.k, m.pool, n.k, n.pool)
      BY <1>3, <2>1, <3>1, QuitPasses
    <3> QED
      BY <1>1, <1>3, <3>1, <3>2 DEF Quit
  <2>2. CASE pid \notin InUse(k)
    <3>1. n = m
      BY <1>3, <2>2 DEF KillProcess
    <3>2. k' = k /\ pool' = pool
      BY <1>1, <1>3, <3>1
    <3>3. Passes(k, pool, k, pool)
      BY <1>2, KeepsItself, KeptPasses
    <3> QED
      BY <3>2, <3>3
  <2> QED
    BY <2>1, <2>2
<1> QED
  BY <1>1, <1>4, PromptStep

LEMMA WaitStep == ASSUME IInv, WaitCommand PROVE IInv'
<1>1. PICK pid \in Slots, ticks \in WaitArgs : k' = Wait(k, pid, ticks)
  BY DEF WaitCommand
<1>2. pc = "prompt" /\ pool' = pool /\ UNCHANGED <<history, pc, Parameters>>
  BY DEF WaitCommand, Type
<1>3. k \in TablesOf(Blocks) /\ pool \in Pools /\ ticks \in Nat
  BY ShellAssumption DEF IInv, Typed
<1>4. k' \in TablesOf(Blocks) /\ KeepsBlocks(k, k') /\ (Orderly(k) => Orderly(k'))
  BY <1>1, <1>3, BlocksAreControl, Waited
<1>5. Passes(k, pool, k', pool') /\ k'.nr_procese = k.nr_procese
  BY <1>2, <1>3, <1>4, KeptPasses DEF KeepsBlocks
<1> QED
  BY <1>2, <1>5, PromptStep

LEMMA YieldStep == ASSUME IInv, YieldCommand PROVE IInv'
<1>1. /\ pc = "prompt" /\ k' = Yield(k) /\ pool' = pool
      /\ UNCHANGED <<history, pc, Parameters>>
  BY DEF YieldCommand, Type
<1>2. k \in TablesOf(Blocks) /\ pool \in Pools
  BY DEF IInv, Typed
<1>3. k' \in TablesOf(Blocks) /\ KeepsBlocks(k, k') /\ (Orderly(k) => Orderly(k'))
  BY <1>1, <1>2, BlocksAreControl, Yielded
<1>4. Passes(k, pool, k', pool') /\ k'.nr_procese = k.nr_procese
  BY <1>1, <1>2, <1>3, KeptPasses DEF KeepsBlocks
<1> QED
  BY <1>1, <1>4, PromptStep

LEMMA ModeStep == ASSUME IInv, ModeCommand PROVE IInv'
<1>1. PICK preemptive \in BOOLEAN : k' = [k EXCEPT !.preemptive_mode = preemptive]
  BY DEF ModeCommand, SetMode
<1>2. pc = "prompt" /\ pool' = pool /\ UNCHANGED <<history, pc, Parameters>>
  BY DEF ModeCommand, SetMode, Type
<1>3. k \in TablesOf(Blocks) /\ pool \in Pools
  BY DEF IInv, Typed
<1>4. /\ k' \in TablesOf(Blocks) /\ k'.proc_table = k.proc_table
      /\ k'.nr_procese = k.nr_procese /\ k'.current = k.current
  BY <1>1, <1>3 DEF TablesOf
<1>5. KeepsBlocks(k, k') /\ (Orderly(k) => Orderly(k'))
  BY <1>4, LikeItself DEF KeepsBlocks, Orderly, InUse
<1>6. Passes(k, pool, k', pool')
  BY <1>2, <1>3, <1>4, <1>5, KeptPasses
<1> QED
  BY <1>2, <1>4, <1>6, PromptStep

(* Outside a pipeline, a process without pipes changes no wiring.          *)
LEMMA WiredOutside ==
  ASSUME NEW t, NEW F, NEW open, NEW x, ~x.spawning, ~x.awaiting, ~x.ending,
         \A i \in F : t[i].id \in Nat /\ t[i].id <= x.born,
         Descriptors(t, F, open)
  PROVE  Wired(t, F, open, x)
BY DEF Wired, StagesKnown, StagesHold, EndsSpare

LEMMA ExecStep == ASSUME IInv, NEW program \in Programs, ExecCommand(program) PROVE IInv'
<1> DEFINE id == history.born + 1
           n  == k.nr_procese
           b  == Block(id, program, LoadTicks, FALSE, FD_UART_IN, FD_UART_OUT)
<1>1. /\ pc = "prompt" /\ k' = Add(k, b) /\ pool' = pool
      /\ history' = [history EXCEPT !.born = id]
      /\ pc' = "scan" /\ scan' = 0 /\ target' = program
      /\ UNCHANGED <<stages, stage, pipe_fds, nr_loaded>>
  BY DEF ExecCommand, Type
<1>2. k \in TablesOf(Blocks) /\ pool \in Pools /\ history \in Histories
  BY DEF IInv, Typed
<1>3. id \in Nat
  BY <1>2 DEF Histories
<1>4. /\ b \in Blocks /\ b.id = id /\ b.state = "READY"
      /\ ~IsPipe(b.stdin) /\ ~IsPipe(b.stdout)
  <2>1. FD_UART_IN \in Fds /\ FD_UART_OUT \in Fds /\ program \in Programs \cup {"demo"}
    BY DEF Fds
  <2>2. b \in Blocks /\ b.id = id /\ b.state = "READY"
        /\ b.stdin = FD_UART_IN /\ b.stdout = FD_UART_OUT
    <3> HIDE DEF id
    <3> QED
      BY <1>3, <2>1, SizesArePositive DEF Block, Blocks, States
  <2> HIDE DEF b
  <2> QED
    BY <2>2 DEF IsPipe, FD_UART_IN, FD_UART_OUT
<1> HIDE DEF b
<1>5. /\ history' \in Histories /\ history'.born = id /\ history.born <= id
      /\ history'.spawned = history.spawned
      /\ history'.torn = history.torn /\ history'.aborted = history.aborted
  <2>1. history.born <= id
    BY <1>2 DEF Histories
  <2> HIDE DEF id
  <2> QED
    BY <1>1, <1>2, <1>3, <2>1 DEF Histories
<1>6. target' # "tagged" /\ target' \in Programs
  BY <1>1 DEF Programs
<1>7. ~Storing' /\ ~Spawning' /\ ~Awaiting' /\ ~Ending' /\ ~MidPipeline' /\ ~MidPipeline
  BY <1>1, <1>6 DEF Storing, Spawning, Awaiting, Ending, MidPipeline
<1>8. /\ k' \in TablesOf(Blocks) /\ k'.current = k.current
      /\ \/ k' = k
         \/ /\ n < MAX_PROCESSES /\ n \in Slots \ InUse(k)
            /\ InUse(k') = InUse(k) \cup {n} /\ k'.proc_table[n] = b
            /\ \A j \in Slots \ {n} : k'.proc_table[j] = k.proc_table[j]
            /\ Orderly(k) => Orderly(k')
  <2>1. CASE n < MAX_PROCESSES
    BY <1>1, <1>2, <1>4, <2>1, BlocksAreControl, Added
  <2>2. CASE ~(n < MAX_PROCESSES)
    BY <1>1, <1>2, <2>2 DEF Add
  <2> QED
    BY <2>1, <2>2
<1>9. Typed'
  <2>1. scan' \in 0 .. MAX_PROCESSES
    BY <1>1, TableAssumption
  <2> QED
    BY <1>1, <1>2, <1>5, <1>6, <1>7, <1>8, <2>1 DEF IInv, Typed
<1>10. PipesOwned'
  BY <1>1, <1>5, <1>7 DEF IInv, PipesOwned
<1>11. ASSUME Untorn' PROVE /\ TableSound' /\ ScanSound'
                            /\ Wired(k.proc_table, Filled, OpenFds(pool), Progress)'
  <2>1. TableSound /\ Wired(k.proc_table, Filled, OpenFds(pool), Progress)
    BY <1>5, <1>11 DEF IInv, SoundUntilTorn, Untorn
  <2>2. Filled = InUse(k) /\ Filled' = InUse(k') /\ InUse(k) \subseteq Slots
    BY <1>1, <1>2, <1>7, InUseAreSlots DEF Filled, Storing
  <2>3. TableSound'
    <3>1. Orderly(k')
      BY <1>8, <2>1 DEF TableSound
    <3>2. \A i \in Slots \ InUse(k') : k'.proc_table[i].state = "UNUSED"
      BY <1>8, <2>1, <2>2 DEF TableSound
    <3> QED
      BY <1>1, <2>2, <3>1, <3>2 DEF TableSound
  <2>4. ScanSound'
    BY <1>6 DEF ScanSound
  <2>5. \A i \in InUse(k') : \/ i = n /\ n \notin InUse(k) /\ k'.proc_table[i] = b
                             \/ i \in InUse(k) /\ k'.proc_table[i] = k.proc_table[i]
    BY <1>8, <2>2
  <2>6. \A i \in InUse(k) : k.proc_table[i].id \in Nat /\ k.proc_table[i].id <= history.born
    BY <2>1, <2>2 DEF Wired, StagesKnown, Progress
  <2>7. \A i \in InUse(k') : k'.proc_table[i].id \in Nat /\ k'.proc_table[i].id <= id
    BY <1>2, <1>3, <1>4, <2>5, <2>6 DEF Histories
  <2>8. Descriptors(k'.proc_table, InUse(k'), OpenFds(pool))
    <3>1. Descriptors(k.proc_table, InUse(k), OpenFds(pool))
      BY <2>1, <2>2 DEF Wired
    <3> HIDE DEF n, id
    <3> QED
      BY <1>4, <2>5, <3>1 DEF Descriptors
  <2>9. Wired(k'.proc_table, InUse(k'), OpenFds(pool), Progress')
    <3>1. ~Progress'.spawning /\ ~Progress'.awaiting /\ ~Progress'.ending
          /\ Progress'.born = id
      BY <1>5, <1>7 DEF Progress
    <3> HIDE DEF id
    <3> QED
      BY <2>7, <2>8, <3>1, WiredOutside
  <2> QED
    BY <1>1, <2>2, <2>3, <2>4, <2>9
<1> QED
  BY <1>9, <1>10, <1>11 DEF IInv, SoundUntilTorn

LEMMA DemoStep == ASSUME IInv, DemoCommand PROVE IInv'
<1> DEFINE born == history.born
<1>1. /\ pc = "prompt" /\ k.nr_procese = 0 /\ pool' = pool
      /\ k' = [k EXCEPT !.proc_table = DemoBlocks, !.nr_procese = 3]
      /\ history' = [history EXCEPT !.born = born + 3]
      /\ pc' = "demo_current"
      /\ UNCHANGED <<stages, stage, pipe_fds, nr_loaded, scan, target>>
  BY DEF DemoCommand, Type, Parameters
<1>2. k \in TablesOf(Blocks) /\ pool \in Pools /\ history \in Histories /\ born \in Nat
  BY DEF IInv, Typed, Histories
<1>3. 3 \in 0 .. MAX_PROCESSES /\ 0 .. 2 \subseteq Slots
  BY ShellAssumption, TableAssumption DEF Slots
<1>4. ASSUME NEW i \in 0 .. 2
      PROVE  LET b == DemoBlocks[i]
             IN  /\ b \in Blocks /\ b.id \in Nat /\ b.id <= born + 3 /\ b.state = "READY"
                 /\ ~IsPipe(b.stdin) /\ ~IsPipe(b.stdout)
  <2> DEFINE id == born + i + 1
             b  == Block(id, "demo", DemoTicks, FALSE, FD_UART_IN, FD_UART_OUT)
  <2>1. id \in Nat /\ id <= born + 3
    BY <1>2
  <2>2. DemoBlocks[i] = b
    BY <1>3 DEF DemoBlocks
  <2>3. FD_UART_IN \in Fds /\ FD_UART_OUT \in Fds
    BY DEF Fds
  <2> HIDE DEF id
  <2>4. b \in Blocks /\ b.id = id /\ b.state = "READY"
        /\ b.stdin = FD_UART_IN /\ b.stdout = FD_UART_OUT
    BY <2>1, <2>3, SizesArePositive DEF Block, Blocks, States
  <2> HIDE DEF b
  <2> QED
    BY <2>1, <2>2, <2>4 DEF IsPipe, FD_UART_IN, FD_UART_OUT
<1>5. /\ DemoBlocks \in [Slots -> Blocks]
      /\ \A i \in Slots \ 0 .. 2 : DemoBlocks[i] = k.proc_table[i]
  <2>1. \A i \in Slots \ 0 .. 2 : DemoBlocks[i] = k.proc_table[i]
    BY DEF DemoBlocks
  <2>2. \A i \in Slots : DemoBlocks[i] \in Blocks
    BY <1>2, <1>4, <2>1, InUseAreSlots
  <2> QED
    BY <2>1, <2>2 DEF DemoBlocks
<1>6. /\ k' \in TablesOf(Blocks) /\ k'.proc_table = DemoBlocks /\ k'.nr_procese = 3
      /\ InUse(k') = 0 .. 2 /\ InUse(k) = {}
  <2>1. /\ k' \in TablesOf(Blocks) /\ k'.proc_table = DemoBlocks /\ k'.nr_procese = 3
    BY <1>1, <1>2, <1>3, <1>5 DEF TablesOf
  <2> QED
    BY <1>1, <2>1 DEF InUse
<1>7. /\ history' \in Histories /\ history'.born = born + 3
      /\ history'.torn = history.torn /\ history'.aborted = history.aborted
  <2>1. born + 3 \in Nat
    BY <1>2
  <2> DEFINE later == born + 3
  <2> HIDE DEF born, later
  <2>2. history' = [history EXCEPT !.born = later] /\ later \in Nat
    BY <1>1, <2>1 DEF later
  <2>3. /\ history' \in Histories /\ history'.born = later
        /\ history'.torn = history.torn /\ history'.aborted = history.aborted
    BY <1>2, <2>2 DEF Histories
  <2> QED
    BY <2>3 DEF later
<1>8. /\ ~Storing' /\ ~Spawning' /\ ~Awaiting' /\ ~Ending' /\ ~MidPipeline' /\ ~MidPipeline
      /\ Filled = InUse(k) /\ Filled' = InUse(k')
  BY <1>1 DEF Storing, Spawning, Awaiting, Ending, MidPipeline, Filled
<1>9. Typed'
  BY <1>1, <1>6, <1>7, <1>8 DEF IInv, Typed
<1>10. PipesOwned'
  BY <1>1, <1>7, <1>8 DEF IInv, PipesOwned
<1>11. ASSUME Untorn' PROVE /\ TableSound' /\ ScanSound'
                            /\ Wired(k.proc_table, Filled, OpenFds(pool), Progress)'
  <2>1. TableSound
    BY <1>7, <1>11 DEF IInv, SoundUntilTorn, Untorn
  <2>2. /\ Orderly(k') /\ \A i \in InUse(k') : k'.proc_table[i].state # "RUNNING"
    BY <1>4, <1>6 DEF Orderly
  <2>3. \A i \in Slots \ InUse(k') : k'.proc_table[i].state = "UNUSED"
    BY <1>5, <1>6, <1>8, <2>1 DEF TableSound
  <2>4. TableSound'
    BY <1>1, <1>8, <2>2, <2>3 DEF TableSound
  <2>5. Wired(k'.proc_table, InUse(k'), OpenFds(pool), Progress')
    <3>1. ~Progress'.spawning /\ ~Progress'.awaiting /\ ~Progress'.ending
          /\ Progress'.born = born + 3
      BY <1>7, <1>8 DEF Progress
    <3>2. Descriptors(k'.proc_table, InUse(k'), OpenFds(pool))
      BY <1>4, <1>6 DEF Descriptors
    <3>3. \A i \in InUse(k') : k'.proc_table[i].id \in Nat /\ k'.proc_table[i].id <= born + 3
      BY <1>4, <1>6
    <3> HIDE DEF born
    <3> QED
      BY <3>1, <3>2, <3>3, WiredOutside
  <2> QED
    BY <1>1, <1>8, <2>4, <2>5 DEF ScanSound
<1> QED
  BY <1>9, <1>10, <1>11 DEF IInv, SoundUntilTorn

LEMMA DemoCurrentStep == ASSUME IInv, DemoCurrent PROVE IInv'
<1>1. /\ pc = "demo_current" /\ k' = [k EXCEPT !.current = 0] /\ pc' = "demo_slice"
      /\ UNCHANGED <<pool, history, stages, stage, pipe_fds, nr_loaded, scan, target>>
  BY DEF DemoCurrent, Parameters
<1>2. /\ k' \in TablesOf(Blocks) /\ k'.proc_table = k.proc_table
      /\ k'.nr_procese = k.nr_procese
  BY <1>1, TableAssumption DEF IInv, Typed, TablesOf
<1>3. /\ ~Storing' /\ ~Spawning' /\ ~MidPipeline' /\ ~MidPipeline
      /\ InUse(k') = InUse(k) /\ Filled' = Filled /\ Progress' = Progress
  BY <1>1, <1>2 DEF Storing, Spawning, Awaiting, Ending, MidPipeline, Filled, InUse, Progress
<1>4. Typed'
  BY <1>1, <1>2, <1>3 DEF IInv, Typed
<1>5. PipesOwned'
  BY <1>1, <1>3 DEF IInv, PipesOwned
<1>6. ASSUME Untorn' PROVE /\ TableSound' /\ ScanSound'
                           /\ Wired(k.proc_table, Filled, OpenFds(pool), Progress)'
  <2>1. TableSound /\ Wired(k.proc_table, Filled, OpenFds(pool), Progress)
    BY <1>1, <1>6 DEF IInv, SoundUntilTorn, Untorn
  <2>2. Orderly(k')
    BY <1>1, <1>2, <1>3, <2>1 DEF TableSound, Orderly
  <2>3. TableSound'
    BY <1>1, <1>2, <1>3, <2>1, <2>2 DEF TableSound
  <2> QED
    BY <1>1, <1>2, <1>3, <2>1, <2>3 DEF ScanSound
<1> QED
  BY <1>4, <1>5, <1>6 DEF IInv, SoundUntilTorn

LEMMA DemoSliceStep == ASSUME IInv, DemoSlice PROVE IInv'
<1>1. /\ pc = "demo_slice" /\ k' = [k EXCEPT !.slice = 0] /\ pc' = "prompt"
      /\ UNCHANGED <<pool, history, stages, stage, pipe_fds, nr_loaded, scan, target>>
  BY DEF DemoSlice, Parameters
<1>2. /\ k' \in TablesOf(Blocks) /\ k'.proc_table = k.proc_table
      /\ k'.nr_procese = k.nr_procese /\ k'.current = k.current
  BY <1>1 DEF IInv, Typed, TablesOf
<1>3. /\ ~Storing' /\ ~Spawning' /\ ~MidPipeline' /\ ~MidPipeline
      /\ InUse(k') = InUse(k) /\ Filled' = Filled /\ Progress' = Progress
  BY <1>1, <1>2 DEF Storing, Spawning, Awaiting, Ending, MidPipeline, Filled, InUse, Progress
<1>4. Typed'
  BY <1>1, <1>2, <1>3 DEF IInv, Typed
<1>5. PipesOwned'
  BY <1>1, <1>3 DEF IInv, PipesOwned
<1>6. ASSUME Untorn' PROVE /\ TableSound' /\ ScanSound'
                           /\ Wired(k.proc_table, Filled, OpenFds(pool), Progress)'
  <2>1. TableSound /\ Wired(k.proc_table, Filled, OpenFds(pool), Progress)
    BY <1>1, <1>6 DEF IInv, SoundUntilTorn, Untorn
  <2>2. Orderly(k')
    BY <1>2, <1>3, <2>1 DEF TableSound, Orderly
  <2>3. TableSound'
    BY <1>1, <1>2, <1>3, <2>1, <2>2 DEF TableSound
  <2> QED
    BY <1>1, <1>2, <1>3, <2>1, <2>3 DEF ScanSound
<1> QED
  BY <1>4, <1>5, <1>6 DEF IInv, SoundUntilTorn

(***************************************************************************)
(* The steps of execute_pipeline.                                          *)
(***************************************************************************)
(* Pipes taken from the pool: their ends are new among the open ones.      *)
Taken(ps, ids) == [id \in DOMAIN ps |-> IF id \in ids THEN Fifo!Emptied ELSE ps[id]]

LEMMA PipesTaken ==
  ASSUME NEW ps \in Pools, NEW ids, ids \subseteq Fifo!Unused(ps)
  PROVE  /\ Taken(ps, ids) \in Pools /\ ids \subseteq PipeIds
         /\ UsedPipes(Taken(ps, ids)) = UsedPipes(ps) \cup ids
         /\ OpenFds(ps) \subseteq OpenFds(Taken(ps, ids))
         /\ \A fd \in OpenFds(ps) : PipeId(fd) \notin ids
         /\ \A id \in ids, end \in {0, 1} : FD_MAKE_PIPE(id, end) \in OpenFds(Taken(ps, ids))
<1> DEFINE qs == Taken(ps, ids)
<1>1. ids \subseteq PipeIds /\ \A id \in ids : ~ps[id].used
  BY DEF Fifo!Unused, Fifo!PipeIds, PipeIds
<1>2. /\ Fifo!Emptied \in PipeState /\ Len(Fifo!Emptied.content) <= PIPE_BUF_SIZE
      /\ Fifo!Emptied.used /\ Fifo!Emptied.read_open /\ Fifo!Emptied.write_open
  BY SizesArePositive DEF Fifo!Emptied, PipeState
<1>3. DOMAIN ps = PipeIds /\ \A id \in PipeIds : ps[id] \in PipeState
  BY DEF Pools
<1>4. qs = [id \in PipeIds |-> IF id \in ids THEN Fifo!Emptied ELSE ps[id]]
  BY <1>3 DEF Taken
<1> HIDE DEF qs
<1>5. /\ \A id \in ids : qs[id] = Fifo!Emptied
      /\ \A id \in PipeIds \ ids : qs[id] = ps[id]
      /\ qs \in [PipeIds -> PipeState]
  BY <1>1, <1>2, <1>3, <1>4
<1>6. qs \in Pools
  BY <1>2, <1>5 DEF Pools
<1>7. UsedPipes(qs) = UsedPipes(ps) \cup ids
  BY <1>1, <1>2, <1>5 DEF UsedPipes
<1>8. ASSUME NEW fd \in OpenFds(ps) PROVE fd \in OpenFds(qs) /\ PipeId(fd) \notin ids
  <2>1. fd \in PipeFds /\ IsOpen(ps, fd)
    BY DEF OpenFds
  <2>2. fd \in Fds /\ IsPipe(fd)
    BY <2>1, SizesArePositive DEF PipeFds, Fds, IsPipe
  <2>3. PipeId(fd) \in PipeIds
    BY <2>2, PipeOfFd
  <2>4. PipeId(fd) \notin ids
    BY <1>1, <2>1 DEF IsOpen
  <2>5. IsOpen(qs, fd)
    BY <1>5, <2>1, <2>3, <2>4 DEF IsOpen
  <2> QED
    BY <2>1, <2>4, <2>5 DEF OpenFds
<1>9. ASSUME NEW id \in ids, NEW end \in {0, 1} PROVE FD_MAKE_PIPE(id, end) \in OpenFds(qs)
  <2> DEFINE fd == FD_MAKE_PIPE(id, end)
  <2>1. fd \in PipeFds /\ PipeId(fd) = id
    BY <1>1, FdOfPipe
  <2> HIDE DEF fd
  <2>2. IsOpen(qs, fd)
    BY <1>2, <1>5, <2>1 DEF IsOpen
  <2> QED
    BY <2>1, <2>2 DEF OpenFds, fd
<1> QED
  BY <1>1, <1>6, <1>7, <1>8, <1>9 DEF qs

(* Numbered in ascending order, every one of the pipes has a number.       *)
LEMMA AllNumbered ==
  ASSUME NEW S, IsFiniteSet(S), S \subseteq Nat, NEW fds \in [1 .. Cardinality(S) -> S],
         \A i, j \in DOMAIN fds : i < j => fds[i] < fds[j]
  PROVE  /\ Range(fds) = S
         /\ \A i, j \in DOMAIN fds : fds[i] = fds[j] => i = j
<1> DEFINE n == Cardinality(S)
           D == 1 .. n
<1>1. n \in Nat
  BY FS_CardinalityType
<1>2. DOMAIN fds = D /\ \A i \in D : fds[i] \in S /\ fds[i] \in Nat
  OBVIOUS
<1>3. \A i, j \in D : fds[i] = fds[j] => i = j
  <2> SUFFICES ASSUME NEW i \in D, NEW j \in D, fds[i] = fds[j], i # j PROVE FALSE
    OBVIOUS
  <2>1. i < j \/ j < i
    BY <1>1
  <2> QED
    BY <1>2, <2>1
<1>4. Range(fds) \subseteq S
  BY <1>2 DEF Range
<1>5. IsFiniteSet(D) /\ Cardinality(D) = n
  BY <1>1, FS_Interval
<1>6. IsFiniteSet(Range(fds)) /\ Cardinality(Range(fds)) <= n
  BY <1>4, FS_Subset
<1>7. Range(fds) = S
  <2>1. fds \in Bijection(D, Range(fds))
    BY <1>2, <1>3 DEF Bijection, Injection, Surjection, IsInjective, Range
  <2>2. ExistsBijection(D, Range(fds))
    BY <2>1 DEF ExistsBijection
  <2>3. Cardinality(Range(fds)) = n
    BY <1>5, <2>2, FS_Bijection
  <2> QED
    BY <1>4, <2>3, FS_Subset
<1> QED
  BY <1>2, <1>3, <1>7

LEMMA PipelineStep == ASSUME IInv, PipelineCommand PROVE IInv'
<1>1. PICK p \in Pipelines :
        LET ids == FirstFree(Len(p) - 1)
            all == Cardinality(ids) = Len(p) - 1
        IN  /\ stages' = p
            /\ \E fds \in [1 .. Cardinality(ids) -> ids] :
                 /\ \A i, j \in DOMAIN fds : i < j => fds[i] < fds[j]
                 /\ pipe_fds' = fds
            /\ pool' = [id \in DOMAIN pool |-> IF id \in ids THEN Fifo!Emptied ELSE pool[id]]
            /\ pc' = IF all THEN "spawn" ELSE "prompt"
            /\ history' = [history EXCEPT !.spawned = {}, !.output = <<>>,
                                          !.aborted = history.aborted \/ ~all]
  BY DEF PipelineCommand
<1> DEFINE ids == FirstFree(Len(p) - 1)
           n   == Cardinality(ids)
           all == n = Len(p) - 1
           ab  == history.aborted \/ ~all
<1>2. PICK fds \in [1 .. n -> ids] :
        (\A i, j \in DOMAIN fds : i < j => fds[i] < fds[j]) /\ pipe_fds' = fds
  BY <1>1
<1>3. /\ pc = "prompt" /\ stage' = 1 /\ k' = k /\ stages' = p
      /\ nr_loaded' = nr_loaded /\ scan' = scan /\ target' = target
      /\ pool' = [id \in DOMAIN pool |-> IF id \in ids THEN Fifo!Emptied ELSE pool[id]]
      /\ pc' = IF all THEN "spawn" ELSE "prompt"
      /\ history' = [history EXCEPT !.spawned = {}, !.output = <<>>, !.aborted = ab]
  BY <1>1 DEF PipelineCommand
<1>4. k \in TablesOf(Blocks) /\ pool \in Pools /\ history \in Histories
  BY DEF IInv, Typed
<1>5. Len(p) \in 2 .. 4 /\ MAX_PIPES \in Nat
  BY ShellAssumption
<1>6. ids \subseteq Fifo!Unused(pool)
  BY DEF FirstFree
<1>7. /\ pool' \in Pools /\ ids \subseteq PipeIds
      /\ UsedPipes(pool') = UsedPipes(pool) \cup ids
      /\ OpenFds(pool) \subseteq OpenFds(pool')
      /\ \A fd \in OpenFds(pool) : PipeId(fd) \notin ids
      /\ \A id \in ids, end \in {0, 1} : FD_MAKE_PIPE(id, end) \in OpenFds(pool')
  <2>1. pool' = Taken(pool, ids)
    BY <1>3 DEF Taken
  <2> HIDE DEF ids
  <2> QED
    BY <1>4, <1>6, <2>1, PipesTaken
<1>8. IsFiniteSet(ids) /\ ids \subseteq Nat /\ n \in Nat
  <2>1. IsFiniteSet(PipeIds) /\ PipeIds \subseteq Nat
    BY <1>5, FS_Interval DEF PipeIds
  <2> HIDE DEF ids
  <2> QED
    BY <1>7, <2>1, FS_Subset, FS_CardinalityType
<1> HIDE DEF ids
<1>9. /\ Range(fds) = ids /\ DOMAIN fds = 1 .. n
      /\ \A i, j \in DOMAIN fds : fds[i] = fds[j] => i = j
  BY <1>2, <1>8, AllNumbered
<1> HIDE DEF n
<1>10. ab \in BOOLEAN
  BY <1>4 DEF Histories
<1>11. /\ history' \in Histories /\ history'.born = history.born /\ history'.spawned = {}
       /\ history'.torn = history.torn /\ (history'.aborted <=> ab)
  <2> DEFINE h == [history EXCEPT !.aborted = ab]
  <2>1. history' = [h EXCEPT !.spawned = {}, !.output = <<>>]
    BY <1>3
  <2> HIDE DEF ab
  <2>2. /\ h \in Histories /\ h.born = history.born /\ h.torn = history.torn
        /\ h.aborted = ab
    BY <1>4, <1>10 DEF Histories
  <2>3. <<>> \in Seq(Nat)
    OBVIOUS
  <2> HIDE DEF h
  <2> QED
    BY <2>1, <2>2, <2>3 DEF Histories
<1>12. /\ ~Storing /\ ~Storing' /\ ~MidPipeline /\ Filled = InUse(k) /\ Filled' = InUse(k)
       /\ ~Awaiting' /\ ~Ending' /\ (Spawning' <=> all) /\ (MidPipeline' <=> all)
  BY <1>3 DEF Storing, Spawning, Awaiting, Ending, MidPipeline, Filled
<1>13. Typed'
  <2>1. Spawning' => /\ stage' \in 1 .. Len(stages') /\ Len(stages') \in Nat
                     /\ DOMAIN pipe_fds' = 1 .. Len(stages') - 1
    <3>1. all => n = Len(p) - 1
      OBVIOUS
    <3> HIDE DEF all
    <3>2. pipe_fds' = fds /\ DOMAIN fds = 1 .. n /\ stages' = p /\ stage' = 1
      BY <1>2, <1>3, <1>9
    <3>3. \A l \in 2 .. 4 : 1 \in 1 .. l /\ l \in Nat
      OBVIOUS
    <3>4. 1 \in 1 .. Len(p) /\ Len(p) \in Nat
      BY <1>5, <3>3
    <3> QED
      BY <1>12, <3>1, <3>2, <3>4
  <2>2. /\ Range(pipe_fds') \subseteq PipeIds
        /\ \A i, j \in DOMAIN pipe_fds' : pipe_fds'[i] = pipe_fds'[j] => i = j
    BY <1>2, <1>7, <1>9
  <2>3. pc' \in {"prompt", "spawn"}
    BY <1>3
  <2> QED
    BY <1>3, <1>4, <1>7, <1>11, <2>1, <2>2, <2>3 DEF IInv, Typed
<1>14. PipesOwned'
  <2> SUFFICES ASSUME ~history'.aborted
               PROVE  UsedPipes(pool') \subseteq IF MidPipeline' THEN Range(pipe_fds') ELSE {}
    BY DEF PipesOwned
  <2>1. all /\ ~history.aborted
    BY <1>11
  <2>2. UsedPipes(pool) = {}
    BY <1>12, <2>1 DEF IInv, PipesOwned
  <2> QED
    BY <1>2, <1>7, <1>9, <1>12, <2>1, <2>2
<1>15. ASSUME Untorn' PROVE /\ TableSound' /\ ScanSound'
                            /\ Wired(k.proc_table, Filled, OpenFds(pool), Progress)'
  <2>1. TableSound /\ Wired(k.proc_table, InUse(k), OpenFds(pool), Progress)
    BY <1>11, <1>12, <1>15 DEF IInv, SoundUntilTorn, Untorn
  <2>2. TableSound'
    BY <1>3, <1>12, <2>1 DEF TableSound
  <2>3. ScanSound'
    BY <1>3 DEF ScanSound
  <2> DEFINE t == k.proc_table
             F == InUse(k)
             x == Progress'
  <2>4. /\ (x.spawning <=> all) /\ ~x.awaiting /\ ~x.ending /\ x.upcoming = 1
        /\ x.fds = fds /\ x.spawned = {} /\ x.born = history.born
    BY <1>2, <1>3, <1>11, <1>12 DEF Progress
  <2> HIDE DEF x
  <2>5. StagesKnown(t, F, x)
    BY <2>1, <2>4 DEF Wired, StagesKnown, Progress
  <2>6. ASSUME NEW i \in F
        PROVE  /\ IsPipe(t[i].stdin) => t[i].stdin \in OpenFds(pool)
               /\ IsPipe(t[i].stdout) => t[i].stdout \in OpenFds(pool)
    BY <2>1 DEF Wired, Descriptors
  <2>7. Descriptors(t, F, OpenFds(pool'))
    BY <1>7, <2>1 DEF Wired, Descriptors
  <2>8. StagesHold(t, F, x)
    BY <1>7, <1>9, <2>4, <2>6 DEF StagesHold
  <2>9. EndsSpare(t, F, OpenFds(pool'), x)
    <3> SUFFICES ASSUME NEW j \in DOMAIN fds, NEW end \in {0, 1}
                 PROVE  /\ FD_MAKE_PIPE(fds[j], end) \in OpenFds(pool')
                        /\ \A i \in F : /\ t[i].stdin # FD_MAKE_PIPE(fds[j], end)
                                        /\ t[i].stdout # FD_MAKE_PIPE(fds[j], end)
      BY <2>4 DEF EndsSpare
    <3> DEFINE fd == FD_MAKE_PIPE(fds[j], end)
    <3>1. fds[j] \in ids /\ fds[j] \in PipeIds
      BY <1>7
    <3>2. IsPipe(fd) /\ PipeId(fd) = fds[j]
      BY <3>1, FdOfPipe
    <3>3. fd \in OpenFds(pool') /\ fd \notin OpenFds(pool)
      BY <1>7, <3>1, <3>2
    <3> HIDE DEF fd, F, t
    <3>4. \A i \in F : t[i].stdin # fd /\ t[i].stdout # fd
      BY <2>6, <3>2, <3>3
    <3> QED
      BY <3>3, <3>4 DEF fd
  <2>10. Wired(t, F, OpenFds(pool'), x)
    BY <2>5, <2>7, <2>8, <2>9 DEF Wired
  <2> QED
    BY <1>3, <1>12, <2>2, <2>3, <2>10 DEF x
<1> QED
  BY <1>13, <1>14, <1>15 DEF IInv, SoundUntilTorn

LEMMA UnsupportedStep == ASSUME IInv, UnsupportedStage PROVE IInv'
<1>1. /\ pc = "spawn" /\ pc' = "prompt" /\ k' = k /\ pool' = pool
      /\ history' = [history EXCEPT !.aborted = TRUE]
      /\ UNCHANGED <<stages, stage, pipe_fds, nr_loaded, scan, target>>
  BY DEF UnsupportedStage, Parameters
<1>2. history \in Histories
  BY DEF IInv, Typed
<1>3. /\ history' \in Histories /\ history'.born = history.born /\ history'.aborted
      /\ history'.torn = history.torn
  BY <1>1, <1>2 DEF Histories
<1>4. /\ ~Storing /\ ~Storing' /\ ~Spawning' /\ ~Awaiting' /\ ~Ending'
      /\ Filled = InUse(k) /\ Filled' = InUse(k)
  BY <1>1 DEF Storing, Spawning, Awaiting, Ending, Filled
<1>5. Typed'
  BY <1>1, <1>3, <1>4 DEF IInv, Typed
<1>6. PipesOwned'
  BY <1>3 DEF PipesOwned
<1>7. ASSUME Untorn' PROVE /\ TableSound' /\ ScanSound'
                           /\ Wired(k.proc_table, Filled, OpenFds(pool), Progress)'
  <2>1. TableSound /\ Wired(k.proc_table, InUse(k), OpenFds(pool), Progress)
    BY <1>3, <1>4, <1>7 DEF IInv, SoundUntilTorn, Untorn
  <2>2. TableSound' /\ ScanSound'
    BY <1>1, <1>4, <2>1 DEF TableSound, ScanSound
  <2>3. ~Progress'.spawning /\ ~Progress'.awaiting /\ ~Progress'.ending
        /\ Progress'.born = history.born
    BY <1>3, <1>4 DEF Progress
  <2>4. \A i \in InUse(k) : k.proc_table[i].id \in Nat /\ k.proc_table[i].id <= history.born
    BY <2>1 DEF Wired, StagesKnown, Progress
  <2>5. Wired(k.proc_table, InUse(k), OpenFds(pool), Progress')
    BY <2>1, <2>3, <2>4, WiredOutside DEF Wired
  <2> QED
    BY <1>1, <1>4, <2>2, <2>5
<1> QED
  BY <1>5, <1>6, <1>7 DEF IInv, SoundUntilTorn

(* On to the next stage, with the block of this one in use or not there.   *)
LEMMA WiredNext ==
  ASSUME NEW t, NEW F, NEW open, NEW x, NEW y, Wired(t, F, open, x), x.spawning,
         y.spawning \/ y.awaiting, ~y.ending,
         x.upcoming \in Int, y.spawning => y.upcoming \in {x.upcoming, x.upcoming + 1},
         DOMAIN x.fds \subseteq Int,
         y.fds = x.fds, y.spawned = x.spawned, y.born = x.born
  PROVE  Wired(t, F, open, y)
<1>1. StagesKnown(t, F, y)
  BY DEF Wired, StagesKnown
<1>2. StagesHold(t, F, y)
  BY DEF Wired, StagesHold
<1>3. EndsSpare(t, F, open, y)
  <2> SUFFICES ASSUME y.spawning, NEW j \in DOMAIN x.fds
               PROVE  /\ j >= y.upcoming - 1 => j >= x.upcoming - 1
                      /\ j >= y.upcoming => j >= x.upcoming
    BY DEF Wired, EndsSpare
  <2> QED
    OBVIOUS
<1> QED
  BY <1>1, <1>2, <1>3 DEF Wired

(***************************************************************************)
(* The steps that spawn a stage.                                           *)
(***************************************************************************)
(* NextStage, and the place it leaves the shell at.                        *)
LEMMA StageOver ==
  ASSUME Typed, pc \in {"spawn", "store"}, NextStage, stages' = stages, pipe_fds' = pipe_fds
  PROVE  /\ pc' \in {"spawn", "scan"} /\ scan' = 0 /\ scan' \in 0 .. MAX_PROCESSES
         /\ target' = "tagged" /\ stage' = stage + 1 /\ stage \in Nat
         /\ (pc' = "spawn" => stage' \in 1 .. Len(stages))
         /\ Spawning /\ MidPipeline /\ MidPipeline' /\ ~Storing' /\ ~Ending'
         /\ (Spawning' \/ Awaiting') /\ (Spawning' => pc' = "spawn")
<1>1. Spawning /\ MidPipeline
  BY DEF Spawning, Storing, MidPipeline
<1>2. stage \in 1 .. Len(stages) /\ Len(stages) \in Nat
  BY <1>1 DEF Typed
<1>3. /\ stage' = stage + 1 /\ scan' = 0 /\ target' = "tagged"
      /\ pc' = IF stage < Len(stages) THEN "spawn" ELSE "scan"
  BY DEF NextStage
<1>4. pc' = "spawn" => stage' \in 1 .. Len(stages)
  BY <1>2, <1>3
<1>5. 0 \in 0 .. MAX_PROCESSES
  BY SizesArePositive
<1> QED
  BY <1>1, <1>2, <1>3, <1>4, <1>5 DEF Spawning, Storing, MidPipeline, Awaiting, Ending

LEMMA SpawnRefusedStep == ASSUME IInv, SpawnRefused PROVE IInv'
<1>1. /\ pc = "spawn" /\ NextStage
      /\ UNCHANGED <<k, pool, stages, pipe_fds, nr_loaded, typed, history>>
  BY DEF SpawnRefused
<1>2. Typed
  BY DEF IInv
<1>3. /\ pc' \in {"spawn", "scan"} /\ scan' = 0 /\ scan' \in 0 .. MAX_PROCESSES
      /\ target' = "tagged" /\ stage' = stage + 1 /\ stage \in Nat
      /\ (pc' = "spawn" => stage' \in 1 .. Len(stages))
      /\ Spawning /\ MidPipeline /\ MidPipeline' /\ ~Storing' /\ ~Ending'
      /\ (Spawning' \/ Awaiting') /\ (Spawning' => pc' = "spawn")
  BY <1>1, <1>2, StageOver
<1>4. ~Storing /\ Filled = InUse(k) /\ Filled' = InUse(k)
  BY <1>1, <1>3 DEF Storing, Filled
<1>5. Typed'
  BY <1>1, <1>2, <1>3 DEF Typed
<1>6. PipesOwned'
  BY <1>1, <1>3 DEF IInv, PipesOwned
<1>7. ASSUME Untorn' PROVE /\ TableSound' /\ ScanSound'
                           /\ Wired(k.proc_table, Filled, OpenFds(pool), Progress)'
  <2>1. TableSound /\ Wired(k.proc_table, InUse(k), OpenFds(pool), Progress)
    BY <1>1, <1>4, <1>7 DEF IInv, SoundUntilTorn, Untorn
  <2>2. TableSound'
    BY <1>1, <1>3, <1>4, <2>1 DEF TableSound
  <2>3. ScanSound'
    <3>1. \A i \in InUse(k) : ~(i < 0)
      BY <1>2 DEF InUse
    <3> QED
      BY <1>1, <1>3, <3>1 DEF ScanSound
  <2>4. Wired(k.proc_table, InUse(k), OpenFds(pool), Progress')
    <3> DEFINE x == Progress
               y == Progress'
    <3>1. /\ x.spawning /\ (y.spawning \/ y.awaiting) /\ ~y.ending
          /\ x.upcoming = stage /\ y.upcoming = stage + 1
          /\ x.fds = pipe_fds /\ y.fds = pipe_fds /\ y.spawned = x.spawned
          /\ y.born = x.born
      BY <1>1, <1>3, <1>4 DEF Progress
    <3>2. DOMAIN pipe_fds \subseteq Int
      BY <1>2, <1>3 DEF Typed
    <3> HIDE DEF x, y
    <3>3. Wired(k.proc_table, InUse(k), OpenFds(pool), y)
      BY <1>3, <2>1, <3>1, <3>2, WiredNext DEF x
    <3> QED
      BY <3>3 DEF y
  <2> QED
    BY <1>1, <1>4, <2>2, <2>3, <2>4
<1> QED
  BY <1>5, <1>6, <1>7 DEF IInv, SoundUntilTorn

(* The next stage gets block n: it takes over the ends that were kept for  *)
(* it.                                                                     *)
StageArrives(t, F, u, n, x, y) ==
  LET s   == x.upcoming
      fds == x.fds
  IN  /\ n \notin F /\ x.spawning /\ y.spawning /\ ~y.ending
      /\ s \in Nat /\ y.upcoming = s + 1 /\ y.fds = fds
      /\ DOMAIN fds \subseteq Int /\ Range(fds) \subseteq PipeIds
      /\ \A i, j \in DOMAIN fds : fds[i] = fds[j] => i = j
      /\ x.born \in Nat /\ y.born = x.born + 1 /\ y.spawned = x.spawned \cup {y.born}
      /\ \A i \in F : u[i] = t[i]
      /\ u[n].id = y.born /\ u[n].pipeline_tag
      /\ IsPipe(u[n].stdin) =>
           s - 1 \in DOMAIN fds /\ u[n].stdin = FD_MAKE_PIPE(fds[s - 1], 0)
      /\ IsPipe(u[n].stdout) =>
           s \in DOMAIN fds /\ u[n].stdout = FD_MAKE_PIPE(fds[s], 1)

LEMMA WiredFilled ==
  ASSUME NEW t, NEW F, NEW u, NEW n, NEW open, NEW x, NEW y,
         Wired(t, F, open, x), StageArrives(t, F, u, n, x, y)
  PROVE  Wired(u, F \cup {n}, open, y)
<1> DEFINE s   == x.upcoming
           fds == x.fds
<1>0. /\ n \notin F /\ x.spawning /\ y.spawning /\ ~y.ending
      /\ s \in Nat /\ y.upcoming = s + 1 /\ y.fds = fds
      /\ DOMAIN fds \subseteq Int /\ Range(fds) \subseteq PipeIds
      /\ \A i, j \in DOMAIN fds : fds[i] = fds[j] => i = j
      /\ x.born \in Nat /\ y.born = x.born + 1 /\ y.spawned = x.spawned \cup {y.born}
      /\ \A i \in F : u[i] = t[i]
      /\ u[n].id = y.born /\ u[n].pipeline_tag
      /\ IsPipe(u[n].stdin) =>
           s - 1 \in DOMAIN fds /\ u[n].stdin = FD_MAKE_PIPE(fds[s - 1], 0)
      /\ IsPipe(u[n].stdout) =>
           s \in DOMAIN fds /\ u[n].stdout = FD_MAKE_PIPE(fds[s], 1)
  BY DEF StageArrives
<1> DEFINE G == F \cup {n}
           rd(j) == FD_MAKE_PIPE(fds[j], 0)
           wr(j) == FD_MAKE_PIPE(fds[j], 1)
<1>1. ASSUME NEW j \in DOMAIN fds
      PROVE  /\ j \in Int
             /\ IsPipe(rd(j)) /\ PipeEnd(rd(j)) = 0
             /\ IsPipe(wr(j)) /\ PipeEnd(wr(j)) = 1
             /\ \A i \in DOMAIN fds : (rd(i) = rd(j) => i = j) /\ (wr(i) = wr(j) => i = j)
  <2>1. \A i \in DOMAIN fds : fds[i] \in PipeIds
    BY <1>0 DEF Range
  <2>2. 0 \in {0, 1} /\ 1 \in {0, 1}
    BY <1>0
  <2> QED
    BY <1>0, <2>1, <2>2, FdOfPipe
<1>2. ASSUME NEW j \in DOMAIN fds
      PROVE  /\ j >= s - 1 => rd(j) \in open /\ \A i \in F : t[i].stdin # rd(j)
             /\ j >= s => wr(j) \in open /\ \A i \in F : t[i].stdout # wr(j)
  BY <1>0 DEF Wired, EndsSpare
<1> HIDE DEF rd, wr
<1>3. /\ IsPipe(u[n].stdin) => s - 1 \in DOMAIN fds /\ u[n].stdin = rd(s - 1)
      /\ IsPipe(u[n].stdout) => s \in DOMAIN fds /\ u[n].stdout = wr(s)
  BY <1>0 DEF rd, wr
<1>4. /\ s >= s /\ s - 1 >= s - 1
      /\ \A j \in Int : (j >= s => j >= s - 1 /\ j # s - 1) /\ (j >= s + 1 => j >= s /\ j # s)
  BY <1>0
<1>5. StagesKnown(u, G, y)
  <2>1. \A i \in F : t[i].id \in Nat /\ t[i].id <= x.born /\ (t[i].id \in x.spawned => t[i].pipeline_tag)
    BY <1>0 DEF Wired, StagesKnown
  <2>2. \A i \in F : u[i].id \in Nat /\ u[i].id <= y.born /\ u[i].id # y.born
    BY <1>0, <2>1
  <2>3. u[n].id \in Nat /\ u[n].id <= y.born
    BY <1>0
  <2> QED
    BY <1>0, <2>1, <2>2, <2>3 DEF StagesKnown
<1>6. Descriptors(u, G, open)
  <2>1. ASSUME IsPipe(u[n].stdin)
        PROVE  /\ u[n].stdin \in open /\ PipeEnd(u[n].stdin) = 0
               /\ \A i \in F : u[i].stdin # u[n].stdin
    BY <1>0, <1>1, <1>2, <1>3, <1>4, <2>1
  <2>2. ASSUME IsPipe(u[n].stdout)
        PROVE  /\ u[n].stdout \in open /\ PipeEnd(u[n].stdout) = 1
               /\ \A i \in F : u[i].stdout # u[n].stdout
    BY <1>0, <1>1, <1>2, <1>3, <1>4, <2>2
  <2>3. Descriptors(t, F, open)
    BY <1>0 DEF Wired
  <2>4. ASSUME NEW i \in F
        PROVE  /\ IsPipe(u[i].stdin) =>
                    /\ u[i].stdin \in open /\ PipeEnd(u[i].stdin) = 0
                    /\ \A j \in G \ {i} : u[j].stdin # u[i].stdin
               /\ IsPipe(u[i].stdout) =>
                    /\ u[i].stdout \in open /\ PipeEnd(u[i].stdout) = 1
                    /\ \A j \in G \ {i} : u[j].stdout # u[i].stdout
    BY <1>0, <2>1, <2>2, <2>3, <2>4 DEF Descriptors
  <2> QED
    BY <1>0, <2>1, <2>2, <2>4 DEF Descriptors
<1>7. StagesHold(u, G, y)
  BY <1>0 DEF Wired, StagesHold
<1>8. EndsSpare(u, G, open, y)
  <2> SUFFICES ASSUME NEW j \in DOMAIN fds
               PROVE  /\ j >= s => rd(j) \in open /\ \A i \in G : u[i].stdin # rd(j)
                      /\ j >= s + 1 => wr(j) \in open /\ \A i \in G : u[i].stdout # wr(j)
    BY <1>0 DEF EndsSpare, rd, wr
  <2>1. ASSUME j >= s PROVE rd(j) \in open /\ \A i \in G : u[i].stdin # rd(j)
    BY <1>0, <1>1, <1>2, <1>3, <1>4, <2>1
  <2>2. ASSUME j >= s + 1 PROVE wr(j) \in open /\ \A i \in G : u[i].stdout # wr(j)
    BY <1>0, <1>1, <1>2, <1>3, <1>4, <2>2
  <2> QED
    BY <1>0, <2>1, <2>2
<1> QED
  BY <1>0, <1>5, <1>6, <1>7, <1>8 DEF Wired

LEMMA SpawnFillStep == ASSUME IInv, SpawnFill PROVE IInv'
<1> DEFINE n      == k.nr_procese
           id     == history.born + 1
           sp     == history.spawned \cup {id}
           stdin  == IF stage = 1 THEN FD_UART_IN
                     ELSE FD_MAKE_PIPE(pipe_fds[stage - 1], 0)
           stdout == IF stage = Len(stages) THEN FD_UART_OUT
                     ELSE FD_MAKE_PIPE(pipe_fds[stage], 1)
           entry  == stages[stage]
           b      == Block(id, entry, StageTicks, TRUE, stdin, stdout)
           t      == [k.proc_table EXCEPT ![n] = b]
           h      == [history EXCEPT !.born = id]
<1>1. /\ pc = "spawn" /\ pc' = "load" /\ entry \in Programs /\ n < MAX_PROCESSES
      /\ k' = [k EXCEPT !.proc_table = t]
      /\ history' = [h EXCEPT !.spawned = sp]
      /\ UNCHANGED <<pool, stages, stage, pipe_fds, nr_loaded, scan, target>>
  <2>1. k' = [k EXCEPT !.proc_table = t]
    BY DEF SpawnFill, Fifo!ReadEnd, Fifo!WriteEnd
  <2>2. history' = [history EXCEPT !.born = id, !.spawned = sp]
    BY DEF SpawnFill
  <2>3. history' = [h EXCEPT !.spawned = sp]
    BY <2>2
  <2> QED
    BY <2>1, <2>3 DEF SpawnFill, Parameters
<1>2. k \in TablesOf(Blocks) /\ pool \in Pools /\ history \in Histories
  BY DEF IInv, Typed
<1>3. /\ stage \in 1 .. Len(stages) /\ Len(stages) \in Nat /\ stage \in Nat
      /\ DOMAIN pipe_fds = 1 .. Len(stages) - 1 /\ DOMAIN pipe_fds \subseteq Int
      /\ Range(pipe_fds) \subseteq PipeIds
      /\ \A i, j \in DOMAIN pipe_fds : pipe_fds[i] = pipe_fds[j] => i = j
  <2>1. Spawning
    BY <1>1 DEF Spawning
  <2> QED
    BY <2>1 DEF IInv, Typed
<1>4. /\ stdin \in Fds /\ stdout \in Fds
      /\ IsPipe(stdin) =>
           stage - 1 \in DOMAIN pipe_fds /\ stdin = FD_MAKE_PIPE(pipe_fds[stage - 1], 0)
      /\ IsPipe(stdout) =>
           stage \in DOMAIN pipe_fds /\ stdout = FD_MAKE_PIPE(pipe_fds[stage], 1)
  <2>1. /\ FD_UART_IN \in Fds /\ ~IsPipe(FD_UART_IN)
        /\ FD_UART_OUT \in Fds /\ ~IsPipe(FD_UART_OUT)
    BY DEF Fds, IsPipe, FD_UART_IN, FD_UART_OUT
  <2>2. /\ stage # 1 => stage - 1 \in DOMAIN pipe_fds
        /\ stage # Len(stages) => stage \in DOMAIN pipe_fds
    BY <1>3
  <2>3. \A j \in DOMAIN pipe_fds : pipe_fds[j] \in PipeIds
    BY <1>3 DEF Range
  <2>4. \A i \in PipeIds : FD_MAKE_PIPE(i, 0) \in Fds /\ FD_MAKE_PIPE(i, 1) \in Fds
    BY FdOfPipe
  <2>5. /\ stdin \in Fds
        /\ IsPipe(stdin) =>
             stage - 1 \in DOMAIN pipe_fds /\ stdin = FD_MAKE_PIPE(pipe_fds[stage - 1], 0)
    <3>1. CASE stage = 1
      BY <2>1, <3>1
    <3>2. CASE stage # 1
      BY <2>2, <2>3, <2>4, <3>2
    <3> QED
      BY <3>1, <3>2
  <2>6. /\ stdout \in Fds
        /\ IsPipe(stdout) =>
             stage \in DOMAIN pipe_fds /\ stdout = FD_MAKE_PIPE(pipe_fds[stage], 1)
    <3>1. CASE stage = Len(stages)
      BY <2>1, <3>1
    <3>2. CASE stage # Len(stages)
      BY <2>2, <2>3, <2>4, <3>2
    <3> QED
      BY <3>1, <3>2
  <2> QED
    BY <2>5, <2>6
<1>5. id \in Nat /\ history.born \in Nat
  BY <1>2 DEF Histories
<1> HIDE DEF stdin, stdout, id, entry
<1>6. /\ b \in Blocks /\ b.id = id /\ b.state = "READY" /\ b.pipeline_tag
      /\ b.stdin = stdin /\ b.stdout = stdout
  BY <1>1, <1>4, <1>5, SizesArePositive DEF Block, Blocks, States
<1> HIDE DEF b
<1>7. n \in Slots /\ n \notin InUse(k) /\ InUse(k) \subseteq Slots
  BY <1>1, <1>2, InUseAreSlots, SizesArePositive DEF Slots, InUse
<1>8. /\ t \in [Slots -> Blocks] /\ t[n] = b
      /\ \A j \in Slots \ {n} : t[j] = k.proc_table[j]
  BY <1>2, <1>6, <1>7 DEF TablesOf
<1> HIDE DEF t
<1>9. /\ k' \in TablesOf(Blocks) /\ k'.proc_table = t /\ k'.nr_procese = n
      /\ k'.current = k.current /\ InUse(k') = InUse(k)
  BY <1>1, <1>2, <1>8 DEF TablesOf, InUse
<1>10. /\ history' \in Histories /\ history'.born = id /\ history'.spawned = sp
       /\ history'.torn = history.torn /\ history'.aborted = history.aborted
  <2>1. h \in Histories /\ h.born = id /\ h.torn = history.torn /\ h.aborted = history.aborted
    BY <1>2, <1>5 DEF Histories
  <2>2. sp \in SUBSET Nat
    BY <1>2, <1>5 DEF Histories
  <2> HIDE DEF h, sp
  <2> QED
    BY <1>1, <2>1, <2>2 DEF Histories
<1>11. /\ ~Storing /\ Storing' /\ Spawning /\ Spawning' /\ MidPipeline /\ MidPipeline'
       /\ ~Ending'
       /\ Filled = InUse(k) /\ Filled' = InUse(k) \cup {n}
  BY <1>1, <1>9 DEF Storing, Spawning, MidPipeline, Ending, Filled
<1>12. Typed'
  BY <1>1, <1>2, <1>3, <1>9, <1>10, <1>11 DEF IInv, Typed
<1>13. PipesOwned'
  BY <1>1, <1>10, <1>11 DEF IInv, PipesOwned
<1>14. ASSUME Untorn' PROVE /\ TableSound' /\ ScanSound'
                            /\ Wired(k.proc_table, Filled, OpenFds(pool), Progress)'
  <2>1. TableSound /\ Wired(k.proc_table, InUse(k), OpenFds(pool), Progress)
    BY <1>10, <1>11, <1>14 DEF IInv, SoundUntilTorn, Untorn
  <2>2. TableSound'
    <3>1. Orderly(k')
      BY <1>7, <1>8, <1>9, <2>1 DEF TableSound, Orderly
    <3>2. \A i \in Slots \ (InUse(k) \cup {n}) : t[i].state = "UNUSED"
      BY <1>8, <1>11, <2>1 DEF TableSound
    <3> QED
      BY <1>1, <1>6, <1>7, <1>8, <1>9, <1>11, <3>1, <3>2 DEF TableSound
  <2>3. ScanSound'
    BY <1>1 DEF ScanSound
  <2>4. Wired(t, InUse(k) \cup {n}, OpenFds(pool), Progress')
    <3> DEFINE x == Progress
               y == Progress'
               F == InUse(k)
    <3>1. /\ x.spawning /\ y.spawning /\ ~y.ending
          /\ x.upcoming = stage /\ y.upcoming = stage + 1
          /\ x.fds = pipe_fds /\ y.fds = pipe_fds
          /\ x.spawned = history.spawned /\ y.spawned = sp
          /\ x.born = history.born /\ y.born = id
      BY <1>1, <1>10, <1>11 DEF Progress
    <3>2. /\ x.born \in Nat /\ y.born = x.born + 1
          /\ y.spawned = x.spawned \cup {y.born}
      BY <1>5, <3>1 DEF id
    <3>3. Wired(k.proc_table, F, OpenFds(pool), x) /\ n \notin F
      BY <1>7, <2>1
    <3> HIDE DEF x, y
    <3>4. (\A i \in F : t[i] = k.proc_table[i]) /\ t[n].id = y.born /\ t[n].pipeline_tag
      BY <1>6, <1>7, <1>8, <3>1
    <3>5. /\ IsPipe(t[n].stdin) =>
               stage - 1 \in DOMAIN pipe_fds /\ t[n].stdin = FD_MAKE_PIPE(pipe_fds[stage - 1], 0)
          /\ IsPipe(t[n].stdout) =>
               stage \in DOMAIN pipe_fds /\ t[n].stdout = FD_MAKE_PIPE(pipe_fds[stage], 1)
      BY <1>4, <1>6, <1>8
    <3> HIDE DEF n, F
    <3>6. StageArrives(k.proc_table, F, t, n, x, y)
      BY <1>3, <3>1, <3>2, <3>3, <3>4, <3>5 DEF StageArrives
    <3>7. Wired(t, F \cup {n}, OpenFds(pool), y)
      BY <3>3, <3>6, WiredFilled
    <3> QED
      BY <3>7 DEF y, F
  <2> QED
    BY <1>1, <1>9, <1>11, <2>2, <2>3, <2>4
<1> QED
  BY <1>12, <1>13, <1>14 DEF IInv, SoundUntilTorn

LEMMA SpawnLoadStep == ASSUME IInv, SpawnLoad PROVE IInv'
<1>1. /\ pc = "load" /\ pc' = "store" /\ nr_loaded' = k.nr_procese
      /\ UNCHANGED <<k, pool, stages, stage, pipe_fds, scan, target, typed, history>>
  BY DEF SpawnLoad
<1>2. /\ Storing /\ Storing' /\ Spawning /\ Spawning' /\ MidPipeline /\ MidPipeline'
      /\ Filled' = Filled /\ Progress' = Progress
  BY <1>1 DEF Storing, Spawning, Awaiting, Ending, MidPipeline, Filled, Progress
<1>3. Typed'
  <2>1. k \in TablesOf(Blocks) /\ k.nr_procese < MAX_PROCESSES
    BY <1>1 DEF IInv, Typed
  <2>2. k.nr_procese \in 0 .. MAX_PROCESSES - 1
    BY <2>1, SizesArePositive DEF TablesOf
  <2> QED
    BY <1>1, <1>2, <2>2 DEF IInv, Typed
<1>4. PipesOwned'
  BY <1>1, <1>2 DEF IInv, PipesOwned
<1>5. ASSUME Untorn' PROVE /\ TableSound' /\ ScanSound'
                           /\ Wired(k.proc_table, Filled, OpenFds(pool), Progress)'
  <2>1. TableSound /\ Wired(k.proc_table, Filled, OpenFds(pool), Progress)
    BY <1>1, <1>5 DEF IInv, SoundUntilTorn, Untorn
  <2>2. TableSound' /\ ScanSound'
    BY <1>1, <1>2, <2>1 DEF TableSound, ScanSound
  <2> QED
    BY <1>1, <1>2, <2>1, <2>2
<1> QED
  BY <1>3, <1>4, <1>5 DEF IInv, SoundUntilTorn

LEMMA SpawnStoreStep == ASSUME IInv, SpawnStore PROVE IInv'
<1>1. /\ pc = "store" /\ NextStage /\ k' = [k EXCEPT !.nr_procese = nr_loaded + 1]
      /\ UNCHANGED <<pool, stages, pipe_fds, nr_loaded, typed, history>>
  BY DEF SpawnStore
<1>2. Typed /\ k \in TablesOf(Blocks)
  BY DEF IInv, Typed
<1>3. /\ pc' \in {"spawn", "scan"} /\ scan' = 0 /\ scan' \in 0 .. MAX_PROCESSES
      /\ target' = "tagged" /\ stage' = stage + 1 /\ stage \in Nat
      /\ (pc' = "spawn" => stage' \in 1 .. Len(stages))
      /\ Spawning /\ MidPipeline /\ MidPipeline' /\ ~Storing' /\ ~Ending'
      /\ (Spawning' \/ Awaiting') /\ (Spawning' => pc' = "spawn")
  BY <1>1, <1>2, StageOver
<1>4. /\ k' \in TablesOf(Blocks) /\ k'.proc_table = k.proc_table
      /\ k'.nr_procese = nr_loaded + 1 /\ k'.current = k.current
  <2>1. nr_loaded + 1 \in 0 .. MAX_PROCESSES
    BY <1>2, SizesArePositive DEF Typed
  <2> QED
    BY <1>1, <1>2, <2>1 DEF TablesOf
<1>5. Filled' = InUse(k')
  BY <1>3 DEF Filled
<1>6. Typed'
  BY <1>1, <1>2, <1>3, <1>4 DEF Typed
<1>7. PipesOwned'
  BY <1>1, <1>3 DEF IInv, PipesOwned
<1>8. ASSUME Untorn' PROVE /\ TableSound' /\ ScanSound'
                           /\ Wired(k.proc_table, Filled, OpenFds(pool), Progress)'
  <2>1. TableSound /\ Wired(k.proc_table, Filled, OpenFds(pool), Progress)
    BY <1>1, <1>8 DEF IInv, SoundUntilTorn, Untorn
  <2>2. Storing /\ nr_loaded = k.nr_procese /\ Filled = InUse(k) \cup {k.nr_procese}
    BY <1>1, <2>1 DEF Storing, TableSound, Filled
  <2>3. InUse(k') = Filled /\ k.nr_procese \notin InUse(k)
    BY <1>2, <1>4, <2>2 DEF InUse, TablesOf
  <2>4. TableSound'
    <3>1. \A i \in Filled : i \in InUse(k) \/ k.proc_table[i].state = "READY"
      BY <2>1 DEF TableSound
    <3>2. Orderly(k')
      BY <1>4, <2>1, <2>3, <3>1 DEF TableSound, Orderly
    <3> QED
      BY <1>3, <1>4, <1>5, <2>1, <2>3, <3>2 DEF TableSound
  <2>5. ScanSound'
    <3>1. \A i \in InUse(k') : ~(i < 0)
      BY <1>4 DEF InUse
    <3> QED
      BY <1>3, <3>1 DEF ScanSound
  <2>6. Wired(k.proc_table, Filled, OpenFds(pool), Progress')
    <3> DEFINE x == Progress
               y == Progress'
    <3>1. /\ x.spawning /\ (y.spawning \/ y.awaiting) /\ ~y.ending
          /\ x.upcoming = stage + 1 /\ y.upcoming = stage + 1
          /\ x.fds = pipe_fds /\ y.fds = pipe_fds /\ y.spawned = x.spawned
          /\ y.born = x.born
      BY <1>1, <1>3, <2>2 DEF Progress
    <3>2. DOMAIN pipe_fds \subseteq Int
      BY <1>2, <1>3 DEF Typed
    <3> HIDE DEF x, y
    <3>3. Wired(k.proc_table, Filled, OpenFds(pool), y)
      BY <1>3, <2>1, <3>1, <3>2, WiredNext DEF x
    <3> QED
      BY <3>3 DEF y
  <2> QED
    BY <1>1, <1>4, <1>5, <2>3, <2>4, <2>5, <2>6
<1> QED
  BY <1>6, <1>7, <1>8 DEF IInv, SoundUntilTorn

(***************************************************************************)
(* The steps of the waiting loop, and the end of a pipeline.               *)
(***************************************************************************)
LEMMA ScanNextStep == ASSUME IInv, ScanNext PROVE IInv'
<1>1. /\ pc = "scan" /\ pc' = "scan" /\ scan < k.nr_procese /\ scan' = scan + 1
      /\ ~Awaited(k.proc_table[scan])
      /\ UNCHANGED <<k, pool, stages, stage, pipe_fds, nr_loaded, target, typed, history>>
  BY DEF ScanNext, Scanning
<1>2. Typed /\ k \in TablesOf(Blocks) /\ scan \in Nat
  BY DEF IInv, Typed
<1>3. /\ ~Storing /\ ~Storing' /\ ~Spawning' /\ (MidPipeline' <=> MidPipeline)
      /\ Filled = InUse(k) /\ Filled' = InUse(k) /\ Progress' = Progress
  BY <1>1 DEF Storing, Spawning, Awaiting, Ending, MidPipeline, Filled, Progress
<1>4. Typed'
  <2>1. scan + 1 \in 0 .. MAX_PROCESSES
    BY <1>1, <1>2, SizesArePositive DEF TablesOf
  <2> QED
    BY <1>1, <1>2, <1>3, <2>1 DEF Typed
<1>5. PipesOwned'
  BY <1>1, <1>3 DEF IInv, PipesOwned
<1>6. ASSUME Untorn' PROVE /\ TableSound' /\ ScanSound'
                           /\ Wired(k.proc_table, Filled, OpenFds(pool), Progress)'
  <2>1. TableSound /\ ScanSound /\ Wired(k.proc_table, InUse(k), OpenFds(pool), Progress)
    BY <1>1, <1>3, <1>6 DEF IInv, SoundUntilTorn, Untorn
  <2>2. TableSound'
    BY <1>1, <1>3, <2>1 DEF TableSound
  <2>3. ASSUME target = "tagged", NEW i \in InUse(k), i < scan + 1
        PROVE  k.proc_table[i].id \notin history.spawned
    <3>1. CASE i < scan
      BY <1>1, <2>1, <2>3, <3>1 DEF ScanSound
    <3>2. CASE i = scan
      <4>1. ~k.proc_table[i].pipeline_tag
        BY <1>1, <2>1, <2>3, <3>2 DEF TableSound, Orderly, Awaited
      <4>2. Progress.awaiting /\ Progress.spawned = history.spawned
        BY <1>1, <2>3 DEF Progress, Awaiting
      <4> QED
        BY <2>1, <4>1, <4>2 DEF Wired, StagesKnown
    <3>3. i < scan \/ i = scan
      BY <1>2, <2>3 DEF InUse
    <3> QED
      BY <3>1, <3>2, <3>3
  <2>4. ScanSound'
    BY <1>1, <2>3 DEF ScanSound
  <2> QED
    BY <1>1, <1>3, <2>1, <2>2, <2>4
<1> QED
  BY <1>4, <1>5, <1>6 DEF IInv, SoundUntilTorn

LEMMA ScanFoundStep == ASSUME IInv, ScanFound PROVE IInv'
<1>1. /\ pc = "scan" /\ pc' = "halted" /\ scan' = 0
      /\ UNCHANGED <<k, pool, stages, stage, pipe_fds, nr_loaded, target, typed, history>>
  BY DEF ScanFound, Scanning
<1>2. /\ ~Storing /\ ~Storing' /\ ~Spawning' /\ (MidPipeline' <=> MidPipeline)
      /\ Filled' = Filled /\ Progress' = Progress
  BY <1>1 DEF Storing, Spawning, Awaiting, Ending, MidPipeline, Filled, Progress
<1>3. Typed'
  <2>1. 0 \in 0 .. MAX_PROCESSES
    BY SizesArePositive
  <2> QED
    BY <1>1, <1>2, <2>1 DEF IInv, Typed
<1>4. PipesOwned'
  BY <1>1, <1>2 DEF IInv, PipesOwned
<1>5. ASSUME Untorn' PROVE /\ TableSound' /\ ScanSound'
                           /\ Wired(k.proc_table, Filled, OpenFds(pool), Progress)'
  <2>1. TableSound /\ Wired(k.proc_table, Filled, OpenFds(pool), Progress)
    BY <1>1, <1>5 DEF IInv, SoundUntilTorn, Untorn
  <2>2. TableSound' /\ ScanSound'
    BY <1>1, <1>2, <2>1 DEF TableSound, ScanSound
  <2> QED
    BY <1>1, <1>2, <2>1, <2>2
<1> QED
  BY <1>3, <1>4, <1>5 DEF IInv, SoundUntilTorn

LEMMA ScanEndStep == ASSUME IInv, ScanEnd PROVE IInv'
<1>1. /\ pc = "scan" /\ scan >= k.nr_procese /\ scan' = 0
      /\ pc' = IF target = "tagged" THEN "clear" ELSE "prompt"
      /\ UNCHANGED <<k, pool, stages, stage, pipe_fds, nr_loaded, target, typed, history>>
  BY DEF ScanEnd, Scanning
<1>2. Typed /\ k \in TablesOf(Blocks) /\ scan \in Nat
  BY DEF IInv, Typed
<1>3. /\ ~Storing /\ ~Storing' /\ ~Spawning /\ ~Spawning' /\ ~Awaiting' /\ ~Ending
      /\ (Awaiting <=> target = "tagged") /\ (Ending' <=> target = "tagged")
      /\ (MidPipeline' <=> MidPipeline)
      /\ Filled = InUse(k) /\ Filled' = InUse(k)
  BY <1>1 DEF Storing, Spawning, Awaiting, Ending, MidPipeline, Filled
<1>4. Typed'
  <2>1. 0 \in 0 .. MAX_PROCESSES /\ pc' \in {"clear", "prompt"}
    BY <1>1, SizesArePositive
  <2> QED
    BY <1>1, <1>2, <1>3, <2>1 DEF Typed
<1>5. PipesOwned'
  BY <1>1, <1>3 DEF IInv, PipesOwned
<1>6. ASSUME Untorn' PROVE /\ TableSound' /\ ScanSound'
                           /\ Wired(k.proc_table, Filled, OpenFds(pool), Progress)'
  <2> DEFINE t == k.proc_table
             F == InUse(k)
             x == Progress
             y == Progress'
  <2>1. TableSound /\ ScanSound /\ Wired(t, F, OpenFds(pool), x)
    BY <1>1, <1>3, <1>6 DEF IInv, SoundUntilTorn, Untorn
  <2>2. TableSound'
    BY <1>1, <1>3, <2>1 DEF TableSound
  <2>3. ScanSound'
    BY <1>1 DEF ScanSound
  <2>4. /\ ~y.spawning /\ ~y.awaiting /\ (y.ending <=> target = "tagged")
        /\ (x.awaiting <=> target = "tagged")
        /\ y.fds = x.fds /\ y.spawned = x.spawned /\ y.born = x.born
        /\ x.spawned = history.spawned
    BY <1>1, <1>3 DEF Progress
  <2>5. target = "tagged" => \A i \in F : t[i].id \notin history.spawned
    <3>1. \A i \in F : i < scan
      BY <1>1, <1>2 DEF InUse, TablesOf
    <3> QED
      BY <1>1, <2>1, <3>1 DEF ScanSound
  <2> HIDE DEF x, y
  <2>6. StagesKnown(t, F, y)
    BY <2>1, <2>4, <2>5 DEF Wired, StagesKnown
  <2>7. StagesHold(t, F, y)
    BY <2>1, <2>4 DEF Wired, StagesHold
  <2>8. Wired(t, F, OpenFds(pool), y)
    BY <2>1, <2>4, <2>6, <2>7 DEF Wired, EndsSpare
  <2> QED
    BY <1>1, <1>3, <2>2, <2>3, <2>8 DEF y
<1> QED
  BY <1>4, <1>5, <1>6 DEF IInv, SoundUntilTorn

(* The tags taken off, everything else as it was.                          *)
Untagged(l, S) ==
  [i \in Slots |-> [l.proc_table[i] EXCEPT !.pipeline_tag = @ /\ i \notin S]]

LEMMA TagsCleared ==
  ASSUME NEW l \in TablesOf(Blocks), NEW S
  PROVE  LET t == Untagged(l, S)
         IN  /\ [l EXCEPT !.proc_table = t] \in TablesOf(Blocks)
             /\ \A i \in Slots : /\ t[i].id = l.proc_table[i].id
                                 /\ t[i].entry = l.proc_table[i].entry
                                 /\ t[i].state = l.proc_table[i].state
                                 /\ t[i].stdin = l.proc_table[i].stdin
                                 /\ t[i].stdout = l.proc_table[i].stdout
<1> DEFINE t == Untagged(l, S)
<1>1. ASSUME NEW i \in Slots
      PROVE  /\ t[i] \in Blocks /\ t[i].id = l.proc_table[i].id
             /\ t[i].entry = l.proc_table[i].entry /\ t[i].state = l.proc_table[i].state
             /\ t[i].stdin = l.proc_table[i].stdin /\ t[i].stdout = l.proc_table[i].stdout
  <2> DEFINE p   == l.proc_table[i]
             tag == p.pipeline_tag /\ i \notin S
  <2>1. p \in Blocks
    BY DEF TablesOf
  <2>2. tag \in BOOLEAN /\ t[i] = [p EXCEPT !.pipeline_tag = tag]
    BY <2>1 DEF Blocks, Untagged
  <2> HIDE DEF p, tag, t
  <2>3. [p EXCEPT !.pipeline_tag = tag] \in Blocks
    BY <2>1, <2>2 DEF Blocks
  <2> QED
    BY <2>1, <2>2, <2>3 DEF Blocks, p
<1>2. t \in [Slots -> Blocks]
  BY <1>1 DEF Untagged
<1> HIDE DEF t
<1> QED
  BY <1>1, <1>2 DEF TablesOf, t

LEMMA ClearTagsStep == ASSUME IInv, ClearTags PROVE IInv'
<1> DEFINE t == Untagged(k, InUse(k))
<1>1. /\ pc = "clear" /\ pc' = "close" /\ k' = [k EXCEPT !.proc_table = t]
      /\ UNCHANGED <<pool, stages, stage, pipe_fds, nr_loaded, scan, target, typed, history>>
  BY DEF ClearTags, Parameters, Untagged
<1>2. k \in TablesOf(Blocks)
  BY DEF IInv, Typed
<1>3. /\ k' \in TablesOf(Blocks)
      /\ \A i \in Slots : /\ t[i].id = k.proc_table[i].id
                          /\ t[i].state = k.proc_table[i].state
                          /\ t[i].stdin = k.proc_table[i].stdin
                          /\ t[i].stdout = k.proc_table[i].stdout
  BY <1>1, <1>2, TagsCleared
<1> HIDE DEF t
<1>4. /\ k'.proc_table = t /\ k'.nr_procese = k.nr_procese /\ k'.current = k.current
      /\ InUse(k') = InUse(k) /\ InUse(k) \subseteq Slots
  BY <1>1, <1>2, InUseAreSlots DEF TablesOf, InUse
<1>5. /\ ~Storing /\ ~Storing' /\ ~Spawning' /\ ~Spawning /\ ~Awaiting' /\ Ending /\ Ending'
      /\ MidPipeline /\ MidPipeline'
      /\ Filled = InUse(k) /\ Filled' = InUse(k)
  BY <1>1, <1>4 DEF Storing, Spawning, Awaiting, Ending, MidPipeline, Filled
<1>6. Typed'
  BY <1>1, <1>3, <1>5 DEF IInv, Typed
<1>7. PipesOwned'
  BY <1>1, <1>5 DEF IInv, PipesOwned
<1>8. ASSUME Untorn' PROVE /\ TableSound' /\ ScanSound'
                           /\ Wired(k.proc_table, Filled, OpenFds(pool), Progress)'
  <2> DEFINE F == InUse(k)
             x == Progress
             y == Progress'
  <2>1. TableSound /\ Wired(k.proc_table, F, OpenFds(pool), x)
    BY <1>1, <1>5, <1>8 DEF IInv, SoundUntilTorn, Untorn
  <2>2. TableSound'
    BY <1>1, <1>3, <1>4, <1>5, <2>1 DEF TableSound, Orderly
  <2>3. ScanSound'
    BY <1>1 DEF ScanSound
  <2>4. /\ ~y.spawning /\ ~y.awaiting /\ y.ending /\ x.ending
        /\ y.fds = x.fds /\ y.spawned = x.spawned /\ y.born = x.born
    BY <1>1, <1>5 DEF Progress
  <2>5. \A i \in F : /\ t[i].id = k.proc_table[i].id
                     /\ t[i].stdin = k.proc_table[i].stdin
                     /\ t[i].stdout = k.proc_table[i].stdout
    BY <1>3, <1>4
  <2> HIDE DEF x, y, F
  <2>6. StagesKnown(t, F, y)
    BY <2>1, <2>4, <2>5 DEF Wired, StagesKnown
  <2>7. Descriptors(t, F, OpenFds(pool))
    BY <2>1, <2>5 DEF Wired, Descriptors
  <2>8. StagesHold(t, F, y)
    BY <2>1, <2>4, <2>5 DEF Wired, StagesHold
  <2>9. Wired(t, F, OpenFds(pool), y)
    BY <2>4, <2>6, <2>7, <2>8 DEF Wired, EndsSpare
  <2> QED
    BY <1>1, <1>4, <1>5, <2>2, <2>3, <2>9 DEF y, F
<1> QED
  BY <1>6, <1>7, <1>8 DEF IInv, SoundUntilTorn

(* pipe_close on a pipe of the pool.                                       *)
LEMMA EndClosed ==
  ASSUME NEW ps \in Pools, NEW id \in PipeIds, NEW end \in {0, 1}
  PROVE  LET qs == Fifo!Closed(ps, id, end)
         IN  /\ qs \in Pools /\ qs[id].content = ps[id].content
             /\ qs[id].used => ps[id].used
             /\ end = 0 => ~qs[id].used \/ ~qs[id].read_open
             /\ end = 1 /\ ~ps[id].read_open => ~qs[id].used
<1> DEFINE r  == ps[id].read_open /\ end # 0
           w  == ps[id].write_open /\ end = 0
           p  == [ps[id] EXCEPT !.read_open = r, !.write_open = w, !.used = r \/ w]
           qs == Fifo!Closed(ps, id, end)
<1>1. ps[id] \in PipeState /\ Len(ps[id].content) <= PIPE_BUF_SIZE
  BY DEF Pools
<1>2. qs = IF ps[id].used THEN [ps EXCEPT ![id] = p] ELSE ps
  BY DEF Fifo!Closed, Fifo!IsUsed, Fifo!PipeIds, Fifo!ReadEnd, PipeIds
<1>3. /\ p \in PipeState /\ p.content = ps[id].content
      /\ p.read_open = r /\ p.write_open = w /\ p.used = (r \/ w)
  BY <1>1 DEF PipeState
<1> HIDE DEF p
<1>4. /\ qs \in Pools
      /\ ps[id].used => qs[id] = p
      /\ ~ps[id].used => qs = ps
  BY <1>1, <1>2, <1>3, PipeReplaced
<1> HIDE DEF qs
<1>5. /\ qs[id].content = ps[id].content
      /\ qs[id].used => ps[id].used
      /\ end = 0 => ~qs[id].used \/ ~qs[id].read_open
      /\ end = 1 /\ ~ps[id].read_open => ~qs[id].used
  <2>1. CASE ps[id].used
    BY <1>1, <1>3, <1>4, <2>1 DEF PipeState
  <2>2. CASE ~ps[id].used
    BY <1>4, <2>2
  <2> QED
    BY <2>1, <2>2
<1> QED
  BY <1>4, <1>5 DEF qs

(* Pipes shut at both ends.                                                *)
ShutPipe(ps, id) ==
  Fifo!Closed(Fifo!Closed(ps, id, Fifo!ReadEnd), id, Fifo!WriteEnd)[id]

Shut(ps, ids) == [id \in DOMAIN ps |-> IF id \in ids THEN ShutPipe(ps, id) ELSE ps[id]]

LEMMA PipesShut ==
  ASSUME NEW ps \in Pools, NEW ids
  PROVE  /\ Shut(ps, ids) \in Pools
         /\ UsedPipes(Shut(ps, ids)) = UsedPipes(ps) \ ids
         /\ \A fd \in OpenFds(ps) : PipeId(fd) \notin ids => fd \in OpenFds(Shut(ps, ids))
<1> DEFINE qs == Shut(ps, ids)
<1>1. ASSUME NEW id \in PipeIds
      PROVE  /\ ShutPipe(ps, id) \in PipeState /\ ~ShutPipe(ps, id).used
             /\ Len(ShutPipe(ps, id).content) <= PIPE_BUF_SIZE
  <2> DEFINE rs == Fifo!Closed(ps, id, 0)
             ss == Fifo!Closed(rs, id, 1)
  <2>1. rs \in Pools /\ (~rs[id].used \/ ~rs[id].read_open)
    BY EndClosed
  <2> HIDE DEF rs
  <2>2. ss \in Pools /\ (ss[id].used => rs[id].used) /\ (~rs[id].read_open => ~ss[id].used)
    BY <2>1, EndClosed
  <2>3. ShutPipe(ps, id) = ss[id]
    BY DEF ShutPipe, rs, Fifo!ReadEnd, Fifo!WriteEnd
  <2> HIDE DEF ss
  <2> QED
    BY <2>1, <2>2, <2>3 DEF Pools
<1>2. DOMAIN ps = PipeIds /\ \A id \in PipeIds : ps[id] \in PipeState
  BY DEF Pools
<1>3. /\ qs = [id \in PipeIds |-> IF id \in ids THEN ShutPipe(ps, id) ELSE ps[id]]
      /\ \A id \in PipeIds : qs[id] = IF id \in ids THEN ShutPipe(ps, id) ELSE ps[id]
  BY <1>2 DEF Shut
<1> HIDE DEF qs
<1>4. qs \in [PipeIds -> PipeState]
  BY <1>1, <1>2, <1>3
<1>5. qs \in Pools
  BY <1>1, <1>3, <1>4 DEF Pools
<1>6. UsedPipes(qs) = UsedPipes(ps) \ ids
  BY <1>1, <1>3 DEF UsedPipes
<1>7. ASSUME NEW fd \in OpenFds(ps), PipeId(fd) \notin ids PROVE fd \in OpenFds(qs)
  <2>1. fd \in PipeFds /\ IsOpen(ps, fd)
    BY DEF OpenFds
  <2>2. fd \in Fds /\ IsPipe(fd)
    BY <2>1, SizesArePositive DEF PipeFds, Fds, IsPipe
  <2>3. qs[PipeId(fd)] = ps[PipeId(fd)]
    BY <1>3, <1>7, <2>2, PipeOfFd
  <2> QED
    BY <2>1, <2>3 DEF OpenFds, IsOpen
<1> QED
  BY <1>5, <1>6, <1>7 DEF qs

LEMMA ClosePipesStep == ASSUME IInv, ClosePipes PROVE IInv'
<1>1. /\ pc = "close" /\ pc' = "prompt"
      /\ UNCHANGED <<k, stages, stage, pipe_fds, nr_loaded, scan, target, typed, history>>
  BY DEF ClosePipes, Parameters
<1>2. pool' = Shut(pool, Range(pipe_fds))
  <2>1. \A id : id \in Range(pipe_fds) <=> \E j \in DOMAIN pipe_fds : pipe_fds[j] = id
    BY DEF Range
  <2> QED
    BY <2>1 DEF ClosePipes, Shut, ShutPipe
<1>3. pool \in Pools
  BY DEF IInv, Typed
<1>4. /\ pool' \in Pools
      /\ UsedPipes(pool') = UsedPipes(pool) \ Range(pipe_fds)
      /\ \A fd \in OpenFds(pool) : PipeId(fd) \notin Range(pipe_fds) => fd \in OpenFds(pool')
  BY <1>2, <1>3, PipesShut
<1>5. /\ ~Storing /\ ~Storing' /\ ~Spawning' /\ ~Awaiting' /\ ~Ending' /\ Ending
      /\ MidPipeline /\ ~MidPipeline'
      /\ Filled = InUse(k) /\ Filled' = InUse(k)
  BY <1>1 DEF Storing, Spawning, Awaiting, Ending, MidPipeline, Filled
<1>6. Typed'
  BY <1>1, <1>4, <1>5 DEF IInv, Typed
<1>7. PipesOwned'
  BY <1>1, <1>4, <1>5 DEF IInv, PipesOwned
<1>8. ASSUME Untorn' PROVE /\ TableSound' /\ ScanSound'
                           /\ Wired(k.proc_table, Filled, OpenFds(pool), Progress)'
  <2> DEFINE t == k.proc_table
             F == InUse(k)
             x == Progress
             y == Progress'
  <2>1. TableSound /\ Wired(t, F, OpenFds(pool), x)
    BY <1>1, <1>5, <1>8 DEF IInv, SoundUntilTorn, Untorn
  <2>2. TableSound' /\ ScanSound'
    BY <1>1, <1>5, <2>1 DEF TableSound, ScanSound
  <2>3. /\ ~y.spawning /\ ~y.awaiting /\ ~y.ending /\ x.ending
        /\ y.born = x.born /\ x.fds = pipe_fds
    BY <1>1, <1>5 DEF Progress
  <2> HIDE DEF x, y
  <2>4. \A i \in F : t[i].id \in Nat /\ t[i].id <= y.born
    BY <2>1, <2>3 DEF Wired, StagesKnown
  <2>5. ASSUME NEW i \in F
        PROVE  /\ IsPipe(t[i].stdin) => PipeId(t[i].stdin) \notin Range(pipe_fds)
               /\ IsPipe(t[i].stdout) => PipeId(t[i].stdout) \notin Range(pipe_fds)
    BY <2>1, <2>3 DEF Wired, StagesKnown, StagesHold
  <2>6. Descriptors(t, F, OpenFds(pool'))
    BY <1>4, <2>1, <2>5 DEF Wired, Descriptors
  <2>7. Wired(t, F, OpenFds(pool'), y)
    BY <2>3, <2>4, <2>6, WiredOutside
  <2> QED
    BY <1>1, <1>5, <2>2, <2>7 DEF y
<1> QED
  BY <1>6, <1>7, <1>8 DEF IInv, SoundUntilTorn

----------------------------------------------------------------------------
(***************************************************************************)
(* The inductive invariant, and what follows from it.                      *)
(***************************************************************************)
LEMMA InitStep == ASSUME Init PROVE IInv
<1>1. /\ pc = "prompt" /\ stages = <<>> /\ stage = 0 /\ pipe_fds = <<>> /\ nr_loaded = 0
      /\ scan = 0 /\ target = "tagged"
      /\ history = [born |-> 0, ran |-> {}, spawned |-> {}, output |-> <<>>,
                    torn |-> {}, aborted |-> FALSE]
      /\ k = [proc_table |-> [i \in Slots |-> NoBlock], nr_procese |-> 0,
              current |-> -1, slice |-> 0, preemptive_mode |-> TRUE]
      /\ pool = [id \in PipeIds |-> [used |-> FALSE, read_open |-> FALSE,
                                     write_open |-> FALSE, content |-> <<>>]]
  BY DEF Init, PipeIds
<1>2. <<>> \in Seq(Nat) /\ Len(<<>>) = 0 /\ 0 <= PIPE_BUF_SIZE
  BY SizesArePositive
<1>3. NoBlock \in Blocks /\ NoBlock.state = "UNUSED"
  <2>1. 0 \in Fds
    BY SizesArePositive DEF Fds
  <2> QED
    BY <2>1 DEF NoBlock, Blocks, States
<1>4. /\ k \in TablesOf(Blocks) /\ InUse(k) = {}
      /\ \A i \in Slots : k.proc_table[i].state = "UNUSED"
  <2>1. k.proc_table = [i \in Slots |-> NoBlock] /\ k.nr_procese = 0
    BY <1>1
  <2>2. k \in TablesOf(Blocks)
    BY <1>1, <1>3, SizesArePositive DEF TablesOf
  <2> QED
    BY <1>3, <2>1, <2>2 DEF InUse
<1>5. /\ pool \in Pools /\ UsedPipes(pool) = {}
  <2> DEFINE e == [used |-> FALSE, read_open |-> FALSE, write_open |-> FALSE, content |-> <<>>]
  <2>1. e \in PipeState /\ e.content = <<>> /\ ~e.used
    BY <1>2 DEF PipeState
  <2>2. pool = [id \in PipeIds |-> e]
    BY <1>1
  <2> HIDE DEF e
  <2> QED
    BY <1>2, <2>1, <2>2 DEF Pools, UsedPipes
<1>6. history \in Histories /\ ~history.aborted
  <2>1. {} \in SUBSET Nat /\ {} \in SUBSET {"spawn", "scan", "demo"} /\ 0 \in Nat
    OBVIOUS
  <2> QED
    BY <1>1, <1>2, <2>1 DEF Histories
<1>7. ~Storing /\ ~Spawning /\ ~Awaiting /\ ~Ending /\ ~MidPipeline /\ Filled = {}
  BY <1>1, <1>4 DEF Storing, Spawning, Awaiting, Ending, MidPipeline, Filled
<1>8. Typed
  <2>1. DOMAIN pipe_fds = {} /\ Range(pipe_fds) = {}
    BY <1>1 DEF Range
  <2>2. scan \in 0 .. MAX_PROCESSES /\ nr_loaded \in 0 .. MAX_PROCESSES - 1
    BY <1>1, SizesArePositive
  <2> QED
    BY <1>1, <1>4, <1>5, <1>6, <1>7, <2>1, <2>2 DEF Typed
<1>9. PipesOwned
  BY <1>5 DEF PipesOwned
<1>10. TableSound
  BY <1>1, <1>4, <1>7 DEF TableSound, Orderly
<1>11. Wired(k.proc_table, Filled, OpenFds(pool), Progress)
  BY <1>7 DEF Wired, StagesKnown, Descriptors, StagesHold, EndsSpare, Progress
<1> QED
  BY <1>1, <1>8, <1>9, <1>10, <1>11 DEF IInv, SoundUntilTorn, ScanSound

LEMMA StutterStep == ASSUME IInv, UNCHANGED vars PROVE IInv'
<1>1. UNCHANGED <<k, pool, pc, stages, stage, pipe_fds, nr_loaded, scan, target, history>>
  BY DEF vars, shellVars
<1>2. Typed'
  BY <1>1 DEF IInv, Typed, Spawning, Storing
<1>3. PipesOwned'
  BY <1>1 DEF IInv, PipesOwned, MidPipeline, Spawning, Storing, Awaiting, Ending
<1>4. SoundUntilTorn'
  <2>1. Filled' = Filled /\ Progress' = Progress /\ (Untorn' <=> Untorn)
    BY <1>1 DEF Filled, Progress, Spawning, Storing, Awaiting, Ending, Untorn
  <2>2. Untorn => TableSound' /\ ScanSound'
    BY <1>1, <2>1 DEF IInv, SoundUntilTorn, TableSound, ScanSound
  <2> QED
    BY <1>1, <2>1, <2>2 DEF IInv, SoundUntilTorn
<1> QED
  BY <1>2, <1>3, <1>4 DEF IInv

(* The wiring is kept by every step of the shell and of the timer.         *)
THEOREM WiringIsInvariant == Spec => []IInv
<1>1. Init => IInv
  BY InitStep
<1>2. IInv /\ [Next]_vars => IInv'
  <2> SUFFICES ASSUME IInv, [Next]_vars PROVE IInv'
    OBVIOUS
  <2>1. CASE Tick
    BY <2>1, TickIdleStep, TickRunStep DEF Tick
  <2>2. CASE Command
    BY <2>2, WaitStep, YieldStep, ModeStep, DemoStep, PipelineStep, KillStep, ExecStep
       DEF Command
  <2>3. CASE Continue
    <3>1. CASE DemoCurrent \/ DemoSlice
      BY <3>1, DemoCurrentStep, DemoSliceStep
    <3>2. CASE UnsupportedStage \/ SpawnRefused \/ SpawnFill \/ SpawnLoad \/ SpawnStore
      BY <3>2, UnsupportedStep, SpawnRefusedStep, SpawnFillStep, SpawnLoadStep, SpawnStoreStep
    <3>3. CASE ScanNext \/ ScanFound \/ ScanEnd \/ ClearTags \/ ClosePipes
      BY <3>3, ScanNextStep, ScanFoundStep, ScanEndStep, ClearTagsStep, ClosePipesStep
    <3> QED
      BY <2>3, <3>1, <3>2, <3>3 DEF Continue
  <2>4. CASE UNCHANGED vars
    BY <2>4, StutterStep
  <2> QED
    BY <2>1, <2>2, <2>3, <2>4 DEF Next
<1> QED
  BY <1>1, <1>2, PTL DEF Spec

(* The table, the pipes and the shell's indices stay in their ranges,      *)
(* whatever a tick tears: in particular nr_procese++ of a stale copy never *)
(* leads past the end of the table.                                        *)
THEOREM ShellTyped == Spec => []TypeOK
<1>1. IInv => TypeOK
  BY DEF IInv, Typed, TypeOK, TablesOf, Pools
<1> QED
  BY <1>1, WiringIsInvariant, PTL

(* Shell and ticks keep the table consistent together: no holes below      *)
(* nr_procese, no process above it, none RUNNING but the current one.      *)
THEOREM TableConsistentUntilTorn == Spec => []ConsistentUnlessTorn
<1>1. IInv => ConsistentUnlessTorn
  <2> SUFFICES ASSUME IInv, Untorn, pc \notin {"load", "store", "demo_current", "demo_slice"}
               PROVE  /\ \A i \in Slots : i \in InUse(k) <=> k.proc_table[i].state # "UNUSED"
                      /\ \A i \in Slots : k.proc_table[i].state = "RUNNING" => i = k.current
    BY DEF ConsistentUnlessTorn
  <2>1. TableSound /\ Filled = InUse(k)
    BY DEF IInv, SoundUntilTorn, Filled, Storing
  <2> QED
    BY <2>1 DEF TableSound, Orderly
<1> QED
  BY <1>1, WiringIsInvariant, PTL

(* execute_pipeline clears its tags and closes its pipes only when none of *)
(* its stages is left in the table.                                        *)
THEOREM StagesEndBeforeClose == Spec => []StagesEndFirstUnlessTorn
<1>1. IInv => StagesEndFirstUnlessTorn
  <2> SUFFICES ASSUME IInv, Untorn, pc = "close" PROVE Live \cap history.spawned = {}
    BY DEF StagesEndFirstUnlessTorn, NoStageLeft
  <2>1. Filled = InUse(k) /\ Progress.ending /\ Progress.spawned = history.spawned
    BY DEF Filled, Storing, Progress, Ending
  <2>2. \A i \in InUse(k) : k.proc_table[i].id \notin history.spawned
    BY <2>1 DEF IInv, SoundUntilTorn, Wired, StagesKnown
  <2> QED
    BY <2>2 DEF Live
<1> QED
  BY <1>1, WiringIsInvariant, PTL

(* Whatever the ticks tear: back at the prompt, every pipe is in the pool  *)
(* again, unless a pipeline was given up.                                  *)
THEOREM PipesComeBack == Spec => []PipesReturned
<1>1. IInv => PipesReturned
  <2> SUFFICES ASSUME IInv, pc = "prompt", ~history.aborted
               PROVE  Fifo!Unused(pool) = DOMAIN pool
    BY DEF PipesReturned
  <2>1. UsedPipes(pool) = {}
    BY DEF IInv, PipesOwned, MidPipeline, Spawning, Storing, Awaiting, Ending
  <2>2. DOMAIN pool = PipeIds /\ Fifo!PipeIds = PipeIds
    BY DEF IInv, Typed, Pools, Fifo!PipeIds, PipeIds
  <2> QED
    BY <2>1, <2>2 DEF UsedPipes, Fifo!Unused
<1> QED
  BY <1>1, WiringIsInvariant, PTL

(* A process never holds a descriptor of an end that is closed, or of a    *)
(* pipe that has gone back to the pool.                                    *)
THEOREM DescriptorsStayOpen == Spec => []NoStaleDescriptor
<1>1. IInv => NoStaleDescriptor
  <2> SUFFICES ASSUME IInv, Untorn, NEW i \in InUse(k)
               PROVE  LET p == k.proc_table[i]
                      IN  /\ IsPipe(p.stdin) => /\ pool[PipeId(p.stdin)].used
                                                /\ pool[PipeId(p.stdin)].read_open
                          /\ IsPipe(p.stdout) => /\ pool[PipeId(p.stdout)].used
                                                 /\ pool[PipeId(p.stdout)].write_open
    BY DEF NoStaleDescriptor, Fifo!ReadEnd, Fifo!WriteEnd
  <2>1. i \in Filled /\ Descriptors(k.proc_table, Filled, OpenFds(pool))
    BY DEF Filled, IInv, SoundUntilTorn, Wired
  <2> QED
    BY <2>1 DEF Descriptors, OpenFds, IsOpen
<1> QED
  BY <1>1, WiringIsInvariant, PTL


(***************************************************************************)
(* The message of a pipeline.  It is at one place, and the stages take it  *)
(* on in the order in which they were spawned: the first r of them have    *)
(* run, the message is in the pipe after the last of these, and the others *)
(* are in the table, runnable, at or after the current index, so that no   *)
(* stage is run before the one that feeds it.  The second invariant, MInv, *)
(* says so on top of IInv.                                                 *)
(***************************************************************************)
(* The message of the u1 that is process id.                               *)
Message(id) == [j \in 1 .. MsgLen |-> id]

(* How many stages the shell has tried to spawn.                           *)
Tried == IF Storing THEN stage ELSE stage - 1

(* The pipeline the shell executes; base is the last process before it.    *)
Line(base) == [base |-> base, tried |-> Tried, stages |-> stages, fds |-> pipe_fds]

(* The first stage writes the message and the others pass it on.           *)
Regular(x) == x.stages[1] = "u1" /\ \A s \in 2 .. Len(x.stages) : x.stages[s] = "u2"

(* Every stage tried has a process, and these are the processes since.     *)
Complete(x) == history.born = x.base + x.tried

(* A block that the shell's output may come from.                          *)
Writes(p) == p.entry \in Programs /\ p.stdout = FD_UART_OUT

(* Whoever may write to the serial line is waited for, or is the last      *)
(* stage and about to be.                                                  *)
WritersAwaited ==
  \A i \in Filled : Writes(k.proc_table[i]) =>
    \/ pc \in {"scan", "halted"} /\ i >= scan /\ Awaited(k.proc_table[i])
    \/ /\ Storing /\ stage = Len(stages) /\ i = k.nr_procese
       /\ k.proc_table[i].pipeline_tag

(* The table is in the order of arrival.                                   *)
InOrder(t, F) == \A i, j \in F : i < j => t[i].id < t[j].id

(* What execute_pipeline gives stage s.                                    *)
StdinOf(x, s) == IF s = 1 THEN FD_UART_IN ELSE FD_MAKE_PIPE(x.fds[s - 1], 0)
StdoutOf(x, s) == IF s = Len(x.stages) THEN FD_UART_OUT ELSE FD_MAKE_PIPE(x.fds[s], 1)

IsStage(p, x, s) ==
  /\ s \in 1 .. x.tried
  /\ p.id = x.base + s
  /\ p.entry = x.stages[s]
  /\ p.stdin = StdinOf(x, s) /\ p.stdout = StdoutOf(x, s)

(* The processes since base are the stages, as they were spawned; none of  *)
(* the others writes to the serial line.                                   *)
Who(t, F, x) ==
  \A i \in F : /\ t[i].id > x.base => IsStage(t[i], x, t[i].id - x.base)
               /\ t[i].id <= x.base => ~Writes(t[i])

(* u1 has run, and is gone; those that have not run have their turn yet.   *)
FirstGone(t, F, x, r) == r >= 1 => \A i \in F : t[i].id # x.base + 1

RestToCome(l, F, x, r) ==
  \A s \in r + 1 .. x.tried :
    \E i \in F : l.proc_table[i].id = x.base + s /\ ToCome(l, i)

(* The message is behind stage r.                                          *)
MessageAt(ps, out, x, r) ==
  /\ \A s \in 1 .. Len(x.stages) - 1 :
       ps[x.fds[s]].content = IF s = r THEN Message(x.base + 1) ELSE <<>>
  /\ out = IF r = Len(x.stages) THEN Message(x.base + 1) ELSE <<>>

Relayed(l, F, ps, out, x, r) ==
  /\ r \in 0 .. x.tried
  /\ Who(l.proc_table, F, x)
  /\ FirstGone(l.proc_table, F, x, r)
  /\ RestToCome(l, F, x, r)
  /\ MessageAt(ps, out, x, r)

(* The pipeline, as far as it has come.                                    *)
LineSound(x) ==
  /\ Len(x.stages) \in Nat /\ Len(x.stages) >= 2
  /\ x.tried \in 0 .. Len(x.stages)
  /\ ~Spawning => x.tried = Len(x.stages)
  /\ DOMAIN x.fds = 1 .. Len(x.stages) - 1
  /\ x.base \in 0 .. history.born /\ history.born <= x.base + x.tried
  /\ history.spawned = x.base + 1 .. history.born

MessageOnItsWay ==
  MidPipeline =>
    \E base \in 0 .. history.born :
      /\ LineSound(Line(base))
      /\ Regular(Line(base)) /\ Complete(Line(base)) =>
           \E r \in 0 .. Tried :
             Relayed(k, Filled, pool, history.output, Line(base), r)

(* No process has the turn in an empty table.                              *)
CurrentBelow ==
  /\ k.current < k.nr_procese
  /\ pc = "demo_current" => k.nr_procese > 0

MInv == Untorn => /\ CurrentBelow
                  /\ InOrder(k.proc_table, Filled)
                  /\ WritersAwaited
                  /\ MessageOnItsWay

----------------------------------------------------------------------------
(***************************************************************************)
(* What a call of entry() does to the bytes.                               *)
(***************************************************************************)
(* The pipes of P hold the bytes they held.                                *)
SameBytes(ps, qs, P) == \A id \in P : qs[id].content = ps[id].content

LEMMA MessageIsBytes ==
  ASSUME NEW id \in Nat
  PROVE  /\ Message(id) \in Seq(Nat) /\ Len(Message(id)) = MsgLen
         /\ MsgLen \in Nat /\ MsgLen > 0
BY SizesArePositive DEF Message

(* A close moves no bytes.                                                 *)
LEMMA CloseKeepsBytes ==
  ASSUME NEW ps \in Pools, NEW fd \in Fds
  PROVE  SameBytes(ps, CloseFd(ps, fd), PipeIds)
<1>1. CASE ~IsPipe(fd)
  BY <1>1 DEF CloseFd, SameBytes
<1>2. CASE IsPipe(fd)
  <2> DEFINE id  == PipeId(fd)
             end == PipeEnd(fd)
             r   == ps[id].read_open /\ end # 0
             w   == ps[id].write_open /\ end = 0
             p   == [ps[id] EXCEPT !.read_open = r, !.write_open = w, !.used = r \/ w]
  <2>1. id \in PipeIds
    BY <1>2, PipeOfFd
  <2>2. ps[id] \in PipeState /\ DOMAIN ps = PipeIds
    BY <2>1 DEF Pools
  <2>3. CloseFd(ps, fd) = IF ps[id].used THEN [ps EXCEPT ![id] = p] ELSE ps
    BY <1>2, <2>1 DEF CloseFd, Fifo!Closed, Fifo!IsUsed, Fifo!PipeIds, Fifo!ReadEnd, PipeIds
  <2>4. p.content = ps[id].content
    BY <2>2 DEF PipeState
  <2> HIDE DEF p, id
  <2> QED
    BY <2>1, <2>2, <2>3, <2>4 DEF SameBytes
<1> QED
  BY <1>1, <1>2

(* exit moves no bytes either, and leaves the process no ticks.            *)
LEMMA KillKeepsBytes ==
  ASSUME NEW m \in Machines, NEW i \in InUse(m.k)
  PROVE  LET n == KillProcess(m, i)
         IN  /\ SameBytes(m.pool, n.pool, PipeIds) /\ n.output = m.output
             /\ n.k.proc_table[i].remaining = 0
<1> DEFINE n == KillProcess(m, i)
           p  == m.k.proc_table[i]
           ps == CloseFd(m.pool, p.stdin)
           qs == CloseFd(ps, p.stdout)
           kk == [Kill(m.k, i) EXCEPT !.proc_table[i].stdin = FD_NONE,
                                      !.proc_table[i].stdout = FD_NONE]
<1>1. /\ m.k \in TablesOf(Blocks) /\ m.pool \in Pools /\ m.output \in Seq(Nat)
      /\ m = [k |-> m.k, pool |-> m.pool, output |-> m.output]
  BY DEF Machines
<1>2. i \in Slots /\ p \in Blocks /\ p.stdin \in Fds /\ p.stdout \in Fds
  <2>1. i \in Slots /\ p \in Blocks
    BY <1>1, InUseAreSlots
  <2> QED
    BY <2>1 DEF Blocks
<1>3. n = [k |-> kk, pool |-> qs, output |-> m.output]
  BY <1>1 DEF KillProcess
<1>4. SameBytes(m.pool, qs, PipeIds)
  <2>1. ps \in Pools /\ SameBytes(m.pool, ps, PipeIds)
    BY <1>1, <1>2, FdClosed, CloseKeepsBytes
  <2> HIDE DEF ps
  <2>2. SameBytes(ps, qs, PipeIds)
    BY <1>2, <2>1, CloseKeepsBytes
  <2> QED
    BY <2>1, <2>2 DEF SameBytes
<1>5. kk.proc_table[i].remaining = 0
  <2> DEFINE l == Kill(m.k, i)
  <2>1. /\ l = [m.k EXCEPT !.proc_table = [m.k.proc_table EXCEPT ![i] = [p EXCEPT !.remaining = 0]]]
    BY DEF Kill
  <2>2. i \in DOMAIN l.proc_table /\ "proc_table" \in DOMAIN l
        /\ l.proc_table[i] = [p EXCEPT !.remaining = 0]
    BY <1>1, <1>2, <2>1 DEF TablesOf
  <2>3. "remaining" \in DOMAIN p
    BY <1>2 DEF Blocks
  <2> HIDE DEF l, p
  <2> QED
    BY <2>2, <2>3 DEF l
<1> HIDE DEF n, kk, qs
<1> QED
  BY <1>3, <1>4, <1>5 DEF n

(* A process that writes to no pipe of P and not to the serial line.       *)
LEMMA WriteElsewhere ==
  ASSUME NEW m \in Machines, NEW data \in Seq(Nat), CurrentRunning(m.k),
         NEW P, P \subseteq PipeIds, This(m).stdout # FD_UART_OUT,
         IsPipe(This(m).stdout) => PipeId(This(m).stdout) \notin P
  PROVE  SameBytes(m.pool, SysWrite(m, data).pool, P) /\ SysWrite(m, data).output = m.output
<1> DEFINE fd == This(m).stdout
           id == PipeId(fd)
           qs == Fifo!Written(m.pool, id, data)
<1>1. m.k \in TablesOf(Blocks) /\ m.pool \in Pools /\ m.output \in Seq(Nat)
  BY DEF Machines
<1>2. CASE IsPipe(fd)
  <2>1. SysWrite(m, data) = [m EXCEPT !.pool = qs]
    BY <1>2 DEF SysWrite
  <2>2. \A j \in P : qs[j].content = m.pool[j].content
    BY <1>1, <1>2 DEF Fifo!Written, Pools
  <2> HIDE DEF qs
  <2> QED
    BY <2>1, <2>2 DEF SameBytes, Machines
<1>3. CASE ~IsPipe(fd)
  BY <1>3 DEF SysWrite, SameBytes
<1> QED
  BY <1>2, <1>3

(* A write of the message to an empty pipe that is open.                   *)
LEMMA MessageWritten ==
  ASSUME NEW ps \in Pools, NEW q \in PipeIds, NEW b \in Nat,
         ps[q].used, ps[q].write_open, ps[q].content = <<>>
  PROVE  LET qs == Fifo!Written(ps, q, Message(b))
         IN  qs[q].content = Message(b) /\ \A j \in PipeIds \ {q} : qs[j] = ps[j]
<1> DEFINE M  == Message(b)
           n  == Fifo!WriteResult(ps, q, M)
           qs == Fifo!Written(ps, q, M)
<1>1. M \in Seq(Nat) /\ Len(M) = MsgLen /\ MsgLen \in Nat
  BY MessageIsBytes
<1>2. n = Fifo!Min({Len(M), PIPE_BUF_SIZE - Len(ps[q].content)})
  BY DEF Fifo!WriteResult, Fifo!IsUsed, Fifo!PipeIds, PipeIds
<1> HIDE DEF M, n
<1>3. n = MsgLen
  <2>1. Len(ps[q].content) = 0 /\ PIPE_BUF_SIZE \in Int /\ MsgLen \in Int
    BY <1>1, SizesArePositive
  <2>2. PIPE_BUF_SIZE - Len(ps[q].content) = PIPE_BUF_SIZE
    BY <2>1
  <2>3. n = Min({MsgLen, PIPE_BUF_SIZE})
    BY <1>1, <1>2, <2>2, SameMin
  <2> QED
    BY <2>1, <2>3, MinOfTwo, MessageFits
<1>4. qs = [ps EXCEPT ![q].content = ps[q].content \o SubSeq(M, 1, n)]
  <2>1. ~(n < 0)
    BY <1>1, <1>3
  <2> QED
    BY <2>1 DEF Fifo!Written, M, n
<1>5. ps[q].content \o SubSeq(M, 1, n) = M
  <2>1. SubSeq(M, 1, n) = M
    BY <1>1, <1>3
  <2>2. <<>> \o M = M
    BY <1>1
  <2> QED
    BY <2>1, <2>2
<1>6. q \in DOMAIN ps /\ DOMAIN ps = PipeIds /\ "content" \in DOMAIN ps[q]
  BY DEF Pools, PipeState
<1> HIDE DEF qs
<1>7. qs = [ps EXCEPT ![q].content = M]
  BY <1>4, <1>5
<1>8. qs[q].content = M /\ \A j \in PipeIds \ {q} : qs[j] = ps[j]
  BY <1>6, <1>7
<1> QED
  BY <1>8 DEF qs, M

(* The read that takes the message leaves the pipe empty.                  *)
LEMMA MessageRead ==
  ASSUME NEW ps \in Pools, NEW q \in PipeIds, NEW b \in Nat,
         ps[q].used, ps[q].read_open, ps[q].content = Message(b)
  PROVE  /\ Fifo!ReadData(ps, q, ReadLen) = Message(b)
         /\ Fifo!ReadResult(ps, q, ReadLen) = MsgLen
         /\ LET qs == Fifo!AfterRead(ps, q, ReadLen)
            IN  qs[q].content = <<>> /\ \A j \in PipeIds \ {q} : qs[j] = ps[j]
<1> DEFINE M  == Message(b)
           d  == Fifo!ReadData(ps, q, ReadLen)
           qs == Fifo!AfterRead(ps, q, ReadLen)
<1>1. M \in Seq(Nat) /\ Len(M) = MsgLen /\ MsgLen \in Nat /\ MsgLen > 0
  BY MessageIsBytes
<1>2. q \in Fifo!PipeIds /\ q \in DOMAIN ps /\ DOMAIN ps = PipeIds /\ "content" \in DOMAIN ps[q]
  BY DEF Fifo!PipeIds, PipeIds, Pools, PipeState
<1>3. d = SubSeq(ps[q].content, 1, Fifo!Min({ReadLen, Len(ps[q].content)}))
  BY <1>2 DEF Fifo!ReadData, Fifo!IsUsed
<1> HIDE DEF M, d
<1>4. Fifo!Min({ReadLen, Len(M)}) = MsgLen
  <2>1. ReadLen \in Int /\ MsgLen \in Int
    BY <1>1, SizesArePositive
  <2>2. Fifo!Min({ReadLen, Len(M)}) = Min({ReadLen, MsgLen})
    BY <1>1, SameMin
  <2>3. Min({ReadLen, MsgLen}) = IF ReadLen <= MsgLen THEN ReadLen ELSE MsgLen
    BY <2>1, MinOfTwo
  <2> QED
    BY <2>1, <2>2, <2>3, MessageFits
<1>5. d = M
  <2>1. d = SubSeq(M, 1, MsgLen)
    BY <1>3, <1>4 DEF M
  <2>2. SubSeq(M, 1, MsgLen) = M
    BY <1>1
  <2> QED
    BY <2>1, <2>2
<1>6. Fifo!ReadResult(ps, q, ReadLen) = MsgLen
  <2>1. Fifo!ReadResult(ps, q, ReadLen) =
          IF Len(d) = 0 /\ ~ps[q].write_open THEN -1 ELSE Len(d)
    BY <1>2 DEF Fifo!ReadResult, Fifo!IsUsed, d
  <2>2. Len(d) = MsgLen /\ MsgLen # 0
    BY <1>1, <1>5
  <2> QED
    BY <2>1, <2>2
<1>7. qs = [ps EXCEPT ![q].content = <<>>]
  <2>1. qs = IF Len(d) = 0 THEN ps
             ELSE [ps EXCEPT ![q].content = SubSeq(ps[q].content, Len(d) + 1, Len(ps[q].content))]
    BY DEF Fifo!AfterRead, d
  <2>2. ps[q].content = M
    BY DEF M
  <2>3. SubSeq(M, MsgLen + 1, MsgLen) = <<>>
    BY <1>1
  <2>4. Len(d) = MsgLen /\ MsgLen # 0 /\ Len(M) = MsgLen
    BY <1>1, <1>5
  <2> HIDE DEF qs
  <2> QED
    BY <2>1, <2>2, <2>3, <2>4
<1> HIDE DEF qs
<1>8. qs[q].content = <<>> /\ \A j \in PipeIds \ {q} : qs[j] = ps[j]
  BY <1>2, <1>7
<1> QED
  BY <1>5, <1>6, <1>8 DEF qs, d, M

(* A read of an empty pipe brings nothing.                                 *)
LEMMA EmptyRead ==
  ASSUME NEW ps \in Pools, NEW q \in PipeIds, ps[q].content = <<>>
  PROVE  /\ ~(Fifo!ReadResult(ps, q, ReadLen) > 0)
         /\ Fifo!AfterRead(ps, q, ReadLen) = ps
<1> DEFINE d == Fifo!ReadData(ps, q, ReadLen)
<1>1. Len(d) = 0
  <2> DEFINE n == Fifo!Min({ReadLen, Len(ps[q].content)})
  <2>1. d = <<>> \/ d = SubSeq(<<>>, 1, n)
    BY DEF Fifo!ReadData
  <2>2. n = 0
    <3>1. Len(ps[q].content) = 0 /\ ReadLen \in Nat \ {0}
      BY SizesArePositive
    <3>2. Min({ReadLen, 0}) = IF ReadLen <= 0 THEN ReadLen ELSE 0
      BY <3>1, MinOfTwo
    <3> QED
      BY <3>1, <3>2, SameMin
  <2> HIDE DEF n, d
  <2>3. SubSeq(<<>>, 1, n) = <<>>
    BY <2>2
  <2>4. d = <<>>
    BY <2>1, <2>3, Zenon
  <2>5. Len(<<>>) = 0
    OBVIOUS
  <2> QED
    BY <2>4, <2>5, Zenon
<1>2. Fifo!AfterRead(ps, q, ReadLen) = ps
  BY <1>1 DEF Fifo!AfterRead
<1>3. Fifo!ReadResult(ps, q, ReadLen) \in {-1, 0}
  BY <1>1 DEF Fifo!ReadResult, d
<1> QED
  BY <1>2, <1>3

(* SysWrite leaves the table alone.                                        *)
LEMMA WriteKeepsTable ==
  ASSUME NEW m \in Machines, NEW data \in Seq(Nat), CurrentRunning(m.k)
  PROVE  /\ SysWrite(m, data) \in Machines /\ SysWrite(m, data).k = m.k
         /\ m.k.current \in InUse(SysWrite(m, data).k)
BY WrittenOut DEF Returned, CurrentRunning, CurrentValid

(* What u2 does, in terms of what it reads.                                *)
LEMMA ReaderRuns ==
  ASSUME NEW m \in Machines, CurrentRunning(m.k), NEW n \in EntryOutcomes(m),
         This(m).entry = "u2", IsPipe(This(m).stdin)
  PROVE  LET q    == PipeId(This(m).stdin)
             nr   == Fifo!ReadResult(m.pool, q, ReadLen)
             rest == [m EXCEPT !.pool = Fifo!AfterRead(m.pool, q, ReadLen)]
         IN  /\ q \in PipeIds
             /\ rest \in Machines /\ rest.k = m.k /\ rest.output = m.output
             /\ rest.pool = Fifo!AfterRead(m.pool, q, ReadLen)
             /\ Fifo!ReadData(m.pool, q, ReadLen) \in Seq(Nat)
             /\ n = IF nr > 0 THEN SysWrite(rest, Fifo!ReadData(m.pool, q, ReadLen))
                    ELSE IF nr < 0 THEN SysExit(rest) ELSE m
<1> DEFINE q  == PipeId(This(m).stdin)
           qs == Fifo!AfterRead(m.pool, q, ReadLen)
<1>1. m.k \in TablesOf(Blocks) /\ m.pool \in Pools /\ m.output \in Seq(Nat)
  BY DEF Machines
<1>2. This(m) \in Blocks /\ This(m).stdin \in Fds
  BY <1>1, CurrentBlock DEF Blocks
<1>3. q \in PipeIds
  BY <1>2, PipeOfFd
<1>4. PICK typedIn \in Received : n = RunU2(m, typedIn)
  BY DEF EntryOutcomes
<1>5. qs \in Pools /\ Fifo!ReadData(m.pool, q, ReadLen) \in Seq(Nat)
  BY <1>1, <1>3, ReadPool
<1>6. n = LET nr   == Fifo!ReadResult(m.pool, q, ReadLen)
              rest == [m EXCEPT !.pool = qs]
          IN  IF nr > 0 THEN SysWrite(rest, Fifo!ReadData(m.pool, q, ReadLen))
              ELSE IF nr < 0 THEN SysExit(rest) ELSE m
  BY <1>4 DEF RunU2
<1> HIDE DEF qs
<1>7. LET rest == [m EXCEPT !.pool = qs]
      IN  rest \in Machines /\ rest.k = m.k /\ rest.output = m.output /\ rest.pool = qs
  BY <1>1, <1>5 DEF Machines
<1> QED
  BY <1>3, <1>5, <1>6, <1>7 DEF qs

(* A process that exits has no ticks left.                                 *)
LEMMA EntryExits ==
  ASSUME NEW m \in Machines, CurrentRunning(m.k), NEW n \in EntryOutcomes(m)
  PROVE  n.k = m.k \/ n.k.proc_table[m.k.current].remaining = 0
<1> DEFINE c == m.k.current
<1>1. c \in InUse(m.k) /\ m.k \in TablesOf(Blocks)
  BY DEF CurrentRunning, CurrentValid, Machines
<1>2. CASE This(m).entry = "u1"
  <2> DEFINE w == SysWrite(m, Message(This(m).id))
  <2>1. n = KillProcess(w, w.k.current)
    BY <1>2 DEF EntryOutcomes, RunU1, SysExit, Message
  <2>2. Message(This(m).id) \in Seq(Nat)
    BY <1>1, CurrentBlock, MessageIsBytes DEF Blocks
  <2>3. w \in Machines /\ w.k = m.k
    BY <2>2, WriteKeepsTable
  <2> HIDE DEF w
  <2> QED
    BY <1>1, <2>1, <2>3, KillKeepsBytes
<1>3. CASE This(m).entry = "u2"
  <2>1. PICK typedIn \in Received : n = RunU2(m, typedIn)
    BY <1>3 DEF EntryOutcomes
  <2> DEFINE fd   == This(m).stdin
             data == IF IsPipe(fd) THEN Fifo!ReadData(m.pool, PipeId(fd), ReadLen)
                     ELSE IF fd = FD_UART_IN THEN typedIn ELSE <<>>
             nr   == IF IsPipe(fd) THEN Fifo!ReadResult(m.pool, PipeId(fd), ReadLen)
                     ELSE IF fd = FD_UART_IN THEN Len(typedIn) ELSE -1
             rest == IF IsPipe(fd)
                     THEN [m EXCEPT !.pool = Fifo!AfterRead(m.pool, PipeId(fd), ReadLen)]
                     ELSE m
  <2>2. n = IF nr > 0 THEN SysWrite(rest, data) ELSE IF nr < 0 THEN SysExit(rest) ELSE m
    BY <2>1 DEF RunU2
  <2>3. data \in Seq(Nat) /\ rest \in Machines /\ rest.k = m.k
    <3>1. CASE IsPipe(fd)
      BY <1>3, <3>1, ReaderRuns
    <3>2. CASE ~IsPipe(fd)
      <4>1. typedIn \in Seq(Nat) /\ <<>> \in Seq(Nat)
        <5>1. <<>> \in Seq(Nat) /\ <<0>> \in Seq(Nat)
          OBVIOUS
        <5> QED
          BY <5>1, Zenon DEF Received
      <4> QED
        BY <3>2, <4>1
    <3> QED
      BY <3>1, <3>2
  <2> HIDE DEF rest, data, nr
  <2>4. CASE nr > 0
    BY <2>2, <2>3, <2>4, WriteKeepsTable
  <2>5. CASE ~(nr > 0) /\ nr < 0
    <3>1. n = KillProcess(rest, c)
      BY <2>2, <2>3, <2>5 DEF SysExit
    <3> QED
      BY <1>1, <2>3, <3>1, KillKeepsBytes
  <2>6. CASE ~(nr > 0) /\ ~(nr < 0)
    BY <2>2, <2>6
  <2> QED
    BY <2>4, <2>5, <2>6
<1>4. CASE This(m).entry \notin {"u1", "u2"}
  BY <1>4 DEF EntryOutcomes
<1> QED
  BY <1>2, <1>3, <1>4

(* A process that holds no pipe of P and is no writer to the serial line.  *)
LEMMA SilentEntry ==
  ASSUME NEW m \in Machines, CurrentRunning(m.k), NEW n \in EntryOutcomes(m),
         NEW P, P \subseteq PipeIds, ~Writes(This(m)),
         IsPipe(This(m).stdin) => PipeId(This(m).stdin) \notin P,
         IsPipe(This(m).stdout) => PipeId(This(m).stdout) \notin P
  PROVE  SameBytes(m.pool, n.pool, P) /\ n.output = m.output
<1> DEFINE c  == m.k.current
           fd == This(m).stdin
<1>1. c \in InUse(m.k) /\ m.k \in TablesOf(Blocks)
  BY DEF CurrentRunning, CurrentValid, Machines
<1>2. CASE This(m).entry = "u1"
  <2> DEFINE w == SysWrite(m, Message(This(m).id))
  <2>1. n = KillProcess(w, w.k.current)
    BY <1>2 DEF EntryOutcomes, RunU1, SysExit, Message
  <2>2. Message(This(m).id) \in Seq(Nat)
    BY <1>1, CurrentBlock, MessageIsBytes DEF Blocks
  <2>3. w \in Machines /\ w.k = m.k
    BY <2>2, WriteKeepsTable
  <2>4. This(m).stdout # FD_UART_OUT
    BY <1>2 DEF Writes, Programs
  <2>5. SameBytes(m.pool, w.pool, P) /\ w.output = m.output
    BY <2>2, <2>4, WriteElsewhere
  <2> HIDE DEF w
  <2>6. SameBytes(w.pool, n.pool, PipeIds) /\ n.output = w.output
    BY <1>1, <2>1, <2>3, KillKeepsBytes
  <2> QED
    BY <2>5, <2>6 DEF SameBytes
<1>3. CASE This(m).entry = "u2"
  <2>1. This(m).stdout # FD_UART_OUT
    BY <1>3 DEF Writes, Programs
  <2>2. CASE IsPipe(fd)
    <3> DEFINE q    == PipeId(fd)
               nr   == Fifo!ReadResult(m.pool, q, ReadLen)
               data == Fifo!ReadData(m.pool, q, ReadLen)
               rest == [m EXCEPT !.pool = Fifo!AfterRead(m.pool, q, ReadLen)]
    <3>1. /\ q \in PipeIds /\ rest \in Machines /\ rest.k = m.k /\ rest.output = m.output
          /\ rest.pool = Fifo!AfterRead(m.pool, q, ReadLen) /\ data \in Seq(Nat)
          /\ n = IF nr > 0 THEN SysWrite(rest, data) ELSE IF nr < 0 THEN SysExit(rest) ELSE m
      BY <1>3, <2>2, ReaderRuns
    <3>2. SameBytes(m.pool, rest.pool, P)
      <4>1. m.pool \in Pools /\ q \notin P
        BY <2>2 DEF Machines
      <4> HIDE DEF q, rest
      <4> QED
        BY <3>1, <4>1 DEF Fifo!AfterRead, SameBytes, Pools
    <3> HIDE DEF rest, data, nr
    <3>3. This(rest) = This(m) /\ CurrentRunning(rest.k)
      BY <3>1 DEF This
    <3>4. CASE nr > 0
      <4>1. SameBytes(rest.pool, n.pool, P) /\ n.output = rest.output
        BY <2>1, <3>1, <3>3, <3>4, WriteElsewhere
      <4> QED
        BY <3>1, <3>2, <4>1 DEF SameBytes
    <3>5. CASE ~(nr > 0) /\ nr < 0
      <4>1. n = KillProcess(rest, c) /\ c \in InUse(rest.k)
        BY <1>1, <3>1, <3>5 DEF SysExit
      <4>2. SameBytes(rest.pool, n.pool, PipeIds) /\ n.output = rest.output
        BY <3>1, <4>1, KillKeepsBytes
      <4> QED
        BY <3>1, <3>2, <4>2 DEF SameBytes
    <3>6. CASE ~(nr > 0) /\ ~(nr < 0)
      BY <3>1, <3>6 DEF SameBytes
    <3> QED
      BY <3>4, <3>5, <3>6
  <2>3. CASE ~IsPipe(fd)
    <3>1. PICK typedIn \in Received : n = RunU2(m, typedIn)
      BY <1>3 DEF EntryOutcomes
    <3> DEFINE data == IF fd = FD_UART_IN THEN typedIn ELSE <<>>
               nr   == IF fd = FD_UART_IN THEN Len(typedIn) ELSE -1
    <3>2. n = IF nr > 0 THEN SysWrite(m, data) ELSE IF nr < 0 THEN SysExit(m) ELSE m
      BY <2>3, <3>1 DEF RunU2
    <3>3. data \in Seq(Nat)
      <4>1. <<>> \in Seq(Nat) /\ <<0>> \in Seq(Nat)
        OBVIOUS
      <4> QED
        BY <4>1, Zenon DEF Received
    <3> HIDE DEF data, nr
    <3>4. CASE nr > 0
      BY <2>1, <3>2, <3>3, <3>4, WriteElsewhere
    <3>5. CASE ~(nr > 0) /\ nr < 0
      <4>1. n = KillProcess(m, c)
        BY <3>2, <3>5 DEF SysExit
      <4> QED
        BY <1>1, <4>1, KillKeepsBytes DEF SameBytes
    <3>6. CASE ~(nr > 0) /\ ~(nr < 0)
      BY <3>2, <3>6 DEF SameBytes
    <3> QED
      BY <3>4, <3>5, <3>6
  <2> QED
    BY <2>2, <2>3
<1>4. CASE This(m).entry \notin {"u1", "u2"}
  BY <1>4 DEF EntryOutcomes, SameBytes
<1> QED
  BY <1>2, <1>3, <1>4

(* u2 with nothing to read.                                                *)
LEMMA IdleReader ==
  ASSUME NEW m \in Machines, CurrentRunning(m.k), NEW n \in EntryOutcomes(m),
         This(m).entry = "u2", IsPipe(This(m).stdin),
         m.pool[PipeId(This(m).stdin)].content = <<>>
  PROVE  SameBytes(m.pool, n.pool, PipeIds) /\ n.output = m.output
<1> DEFINE q    == PipeId(This(m).stdin)
           nr   == Fifo!ReadResult(m.pool, q, ReadLen)
           data == Fifo!ReadData(m.pool, q, ReadLen)
           rest == [m EXCEPT !.pool = Fifo!AfterRead(m.pool, q, ReadLen)]
<1>1. /\ q \in PipeIds /\ rest \in Machines /\ rest.k = m.k /\ rest.output = m.output
      /\ rest.pool = Fifo!AfterRead(m.pool, q, ReadLen)
      /\ n = IF nr > 0 THEN SysWrite(rest, data) ELSE IF nr < 0 THEN SysExit(rest) ELSE m
  BY ReaderRuns
<1>2. m.pool \in Pools /\ m.k.current \in InUse(m.k)
  BY DEF Machines, CurrentRunning, CurrentValid
<1>3. ~(nr > 0) /\ rest.pool = m.pool
  BY <1>1, <1>2, EmptyRead
<1> HIDE DEF rest, nr, data
<1>4. CASE nr < 0
  <2>1. n = KillProcess(rest, m.k.current) /\ m.k.current \in InUse(rest.k)
    BY <1>1, <1>2, <1>3, <1>4 DEF SysExit
  <2> QED
    BY <1>1, <1>3, <2>1, KillKeepsBytes
<1>5. CASE ~(nr < 0)
  BY <1>1, <1>3, <1>5 DEF SameBytes
<1> QED
  BY <1>4, <1>5

(* u1 puts its message into the pipe behind it, and is done.               *)
LEMMA WriterEntry ==
  ASSUME NEW m \in Machines, CurrentRunning(m.k), NEW n \in EntryOutcomes(m),
         This(m).entry = "u1", NEW q \in PipeIds, This(m).stdout = FD_MAKE_PIPE(q, 1),
         IsOpen(m.pool, This(m).stdout), m.pool[q].content = <<>>
  PROVE  /\ n.pool[q].content = Message(This(m).id)
         /\ SameBytes(m.pool, n.pool, PipeIds \ {q}) /\ n.output = m.output
         /\ n.k.proc_table[m.k.current].remaining = 0
<1> DEFINE b == This(m).id
           w == SysWrite(m, Message(b))
<1>1. m.pool \in Pools /\ m.k.current \in InUse(m.k) /\ m.k \in TablesOf(Blocks)
  BY DEF Machines, CurrentRunning, CurrentValid
<1>2. b \in Nat /\ Message(b) \in Seq(Nat)
  BY <1>1, CurrentBlock, MessageIsBytes DEF Blocks
<1>3. /\ IsPipe(This(m).stdout) /\ PipeId(This(m).stdout) = q
      /\ This(m).stdout # FD_UART_OUT /\ PipeEnd(This(m).stdout) = 1
  BY FdOfPipe DEF IsPipe, FD_UART_OUT
<1>4. m.pool[q].used /\ m.pool[q].write_open
  BY <1>3 DEF IsOpen
<1>5. n = KillProcess(w, w.k.current)
  BY DEF EntryOutcomes, RunU1, SysExit, Message
<1>6. w \in Machines /\ w.k = m.k
  BY <1>2, WriteKeepsTable
<1>7. w = [m EXCEPT !.pool = Fifo!Written(m.pool, q, Message(b))]
  BY <1>3 DEF SysWrite
<1>8. w.pool = Fifo!Written(m.pool, q, Message(b)) /\ w.output = m.output
  <2> HIDE DEF w
  <2> QED
    BY <1>7 DEF Machines
<1>9. w.pool[q].content = Message(b) /\ \A j \in PipeIds \ {q} : w.pool[j] = m.pool[j]
  BY <1>1, <1>2, <1>4, <1>8, MessageWritten
<1> HIDE DEF w, b
<1>10. /\ SameBytes(w.pool, n.pool, PipeIds) /\ n.output = w.output
       /\ n.k.proc_table[m.k.current].remaining = 0
  BY <1>1, <1>5, <1>6, KillKeepsBytes
<1> QED
  BY <1>8, <1>9, <1>10 DEF SameBytes, b

(* u2 takes the message from the pipe before it to where it writes.        *)
LEMMA ReaderEntry ==
  ASSUME NEW m \in Machines, CurrentRunning(m.k), NEW n \in EntryOutcomes(m),
         This(m).entry = "u2", NEW q \in PipeIds, This(m).stdin = FD_MAKE_PIPE(q, 0),
         IsOpen(m.pool, This(m).stdin), NEW b \in Nat, m.pool[q].content = Message(b)
  PROVE  /\ This(m).stdout = FD_UART_OUT =>
              /\ n.pool[q].content = <<>> /\ n.output = m.output \o Message(b)
              /\ SameBytes(m.pool, n.pool, PipeIds \ {q})
         /\ \A p \in PipeIds \ {q} :
              /\ This(m).stdout = FD_MAKE_PIPE(p, 1) /\ IsOpen(m.pool, This(m).stdout)
              /\ m.pool[p].content = <<>>
              => /\ n.pool[p].content = Message(b) /\ n.pool[q].content = <<>>
                 /\ SameBytes(m.pool, n.pool, PipeIds \ {q, p}) /\ n.output = m.output
<1> DEFINE fd   == This(m).stdin
           out  == This(m).stdout
           ps   == Fifo!AfterRead(m.pool, q, ReadLen)
           rest == [m EXCEPT !.pool = ps]
<1>1. m.pool \in Pools /\ m.k.current \in InUse(m.k) /\ m.k \in TablesOf(Blocks)
  BY DEF Machines, CurrentRunning, CurrentValid
<1>2. IsPipe(fd) /\ PipeId(fd) = q /\ PipeEnd(fd) = 0
  BY FdOfPipe
<1>3. m.pool[q].used /\ m.pool[q].read_open
  BY <1>2 DEF IsOpen
<1>4. /\ Fifo!ReadData(m.pool, q, ReadLen) = Message(b)
      /\ Fifo!ReadResult(m.pool, q, ReadLen) = MsgLen
      /\ ps[q].content = <<>> /\ \A j \in PipeIds \ {q} : ps[j] = m.pool[j]
  BY <1>1, <1>3, MessageRead
<1>5. Message(b) \in Seq(Nat) /\ MsgLen > 0
  BY MessageIsBytes
<1>6. /\ rest \in Machines /\ rest.k = m.k /\ rest.output = m.output /\ rest.pool = ps
      /\ n = SysWrite(rest, Message(b))
  BY <1>2, <1>4, <1>5, ReaderRuns
<1> HIDE DEF rest, ps
<1>7. This(rest) = This(m) /\ CurrentRunning(rest.k) /\ ps \in Pools
  BY <1>6 DEF This, Machines
<1>8. CASE out = FD_UART_OUT
  <2>1. n = [rest EXCEPT !.output = m.output \o Message(b)]
    BY <1>6, <1>7, <1>8 DEF SysWrite
  <2>2. n.pool = ps /\ n.output = m.output \o Message(b)
    BY <1>6, <2>1 DEF Machines
  <2>3. \A p \in PipeIds : out # FD_MAKE_PIPE(p, 1)
    BY <1>8, FdOfPipe DEF IsPipe, FD_UART_OUT
  <2> QED
    BY <1>4, <2>2, <2>3 DEF SameBytes
<1>9. ASSUME NEW p \in PipeIds, out = FD_MAKE_PIPE(p, 1)
      PROVE  n.pool = Fifo!Written(ps, p, Message(b)) /\ n.output = m.output
             /\ out # FD_UART_OUT
  <2>1. IsPipe(out) /\ PipeId(out) = p /\ out # FD_UART_OUT
    BY <1>9, FdOfPipe DEF IsPipe, FD_UART_OUT
  <2>2. n = [rest EXCEPT !.pool = Fifo!Written(ps, p, Message(b))]
    BY <1>6, <1>7, <2>1 DEF SysWrite
  <2> QED
    BY <1>6, <2>1, <2>2 DEF Machines
<1>10. ASSUME NEW p \in PipeIds \ {q}, out = FD_MAKE_PIPE(p, 1), IsOpen(m.pool, out),
              m.pool[p].content = <<>>
       PROVE  /\ n.pool[p].content = Message(b) /\ n.pool[q].content = <<>>
              /\ SameBytes(m.pool, n.pool, PipeIds \ {q, p}) /\ n.output = m.output
  <2>1. PipeId(out) = p /\ PipeEnd(out) = 1
    BY <1>10, FdOfPipe
  <2>2. ps[p].used /\ ps[p].write_open /\ ps[p].content = <<>>
    BY <1>4, <1>10, <2>1 DEF IsOpen
  <2>3. n.pool = Fifo!Written(ps, p, Message(b)) /\ n.output = m.output
    BY <1>9, <1>10
  <2>4. n.pool[p].content = Message(b) /\ \A j \in PipeIds \ {p} : n.pool[j] = ps[j]
    BY <1>7, <2>2, <2>3, MessageWritten
  <2> QED
    BY <1>4, <2>3, <2>4 DEF SameBytes
<1> QED
  BY <1>8, <1>9, <1>10

----------------------------------------------------------------------------
(***************************************************************************)
(* The stages, as their blocks move.                                       *)
(***************************************************************************)
(* From the blocks F of table l to the blocks G of table a, every process  *)
(* that is still to come remains so, but for the one at index c, which has *)
(* its turn; f[i] is the index that block i had.                           *)
Moves(l, F, a, G, c, f) ==
  /\ f \in [G -> F]
  /\ \A i, j \in G : i < j => f[i] < f[j]
  /\ \A i \in G : Like(a.proc_table[i], l.proc_table[f[i]])
  /\ \A i \in F \ {c} : ToCome(l, i) => \E j \in G : f[j] = i /\ ToCome(a, j)

Standing(l, F, x, r) ==
  /\ r \in 0 .. x.tried
  /\ Who(l.proc_table, F, x)
  /\ FirstGone(l.proc_table, F, x, r)
  /\ RestToCome(l, F, x, r)

LEMMA RelayedStands ==
  ASSUME NEW l, NEW F, NEW ps, NEW out, NEW x, NEW r
  PROVE  Relayed(l, F, ps, out, x, r) <=> Standing(l, F, x, r) /\ MessageAt(ps, out, x, r)
BY DEF Relayed, Standing

SameProcess(b, c) ==
  /\ b.id = c.id /\ b.entry = c.entry /\ b.pipeline_tag = c.pipeline_tag
  /\ b.stdin = c.stdin /\ b.stdout = c.stdout
  /\ b.id \in Nat

LEMMA MovedBlock ==
  ASSUME NEW l \in TablesOf(Blocks), NEW a \in TablesOf(Blocks),
         NEW F, F \subseteq Slots, NEW G, G \subseteq Slots,
         NEW c, NEW f, Moves(l, F, a, G, c, f)
  PROVE  \A i \in G : f[i] \in F /\ SameProcess(a.proc_table[i], l.proc_table[f[i]])
<1> TAKE i \in G
<1>1. f[i] \in F /\ Like(a.proc_table[i], l.proc_table[f[i]])
  BY DEF Moves
<1>2. a.proc_table[i] \in Blocks /\ l.proc_table[f[i]] \in Blocks
  BY <1>1, InUseAreSlots
<1> QED
  BY <1>1, <1>2, LikeBlock DEF Blocks, SameProcess

LEMMA OrderMoves ==
  ASSUME NEW l \in TablesOf(Blocks), NEW a \in TablesOf(Blocks),
         NEW F, F \subseteq Slots, NEW G, G \subseteq Slots,
         NEW c, NEW f, Moves(l, F, a, G, c, f), InOrder(l.proc_table, F)
  PROVE  InOrder(a.proc_table, G)
<1> SUFFICES ASSUME NEW i \in G, NEW j \in G, i < j
             PROVE  a.proc_table[i].id < a.proc_table[j].id
  BY DEF InOrder
<1>1. f[i] < f[j] /\ f[i] \in F /\ f[j] \in F
  BY DEF Moves
<1>2. l.proc_table[f[i]].id < l.proc_table[f[j]].id
  BY <1>1 DEF InOrder
<1>3. a.proc_table[i].id = l.proc_table[f[i]].id /\ a.proc_table[j].id = l.proc_table[f[j]].id
  <2>1. \A h \in G : f[h] \in F /\ SameProcess(a.proc_table[h], l.proc_table[f[h]])
    BY MovedBlock
  <2> QED
    BY <2>1 DEF SameProcess
<1> QED
  BY <1>2, <1>3

(* In a table in order, a process has one block.                           *)
LEMMA OneBlockEach ==
  ASSUME NEW l \in TablesOf(Blocks), NEW F, F \subseteq Slots, InOrder(l.proc_table, F),
         NEW i \in F, NEW j \in F
  PROVE  /\ l.proc_table[i].id = l.proc_table[j].id => i = j
         /\ i <= j => l.proc_table[i].id <= l.proc_table[j].id
<1>1. i \in Int /\ j \in Int
  BY TableAssumption DEF Slots
<1>2. l.proc_table[i].id \in Nat /\ l.proc_table[j].id \in Nat
  <2>1. l.proc_table[i] \in Blocks /\ l.proc_table[j] \in Blocks
    BY InUseAreSlots
  <2> QED
    BY <2>1 DEF Blocks
<1> QED
  BY <1>1, <1>2 DEF InOrder

(* The stage at index c has its turn, if it is stage q = r + 1, and the    *)
(* others stand as they stood.                                             *)
LEMMA StandingMoves ==
  ASSUME NEW l \in TablesOf(Blocks), NEW a \in TablesOf(Blocks),
         NEW F, F \subseteq Slots, NEW G, G \subseteq Slots,
         NEW c, NEW f, Moves(l, F, a, G, c, f), InOrder(l.proc_table, F),
         NEW x, x.base \in Nat, x.tried \in Nat, NEW r, Standing(l, F, x, r),
         NEW q \in {r, r + 1},
         q = r => c \notin F \/ l.proc_table[c].id <= x.base + r,
         q = r + 1 => /\ c \in F /\ l.proc_table[c].id = x.base + q /\ q \in 1 .. x.tried
                      /\ q = 1 => \A j \in G : f[j] # c
  PROVE  Standing(a, G, x, q)
<1>1. r \in Nat /\ r <= x.tried
  BY DEF Standing
<1>2. \A i \in G : /\ f[i] \in F
                   /\ a.proc_table[i].id = l.proc_table[f[i]].id
                   /\ a.proc_table[i].entry = l.proc_table[f[i]].entry
                   /\ a.proc_table[i].stdin = l.proc_table[f[i]].stdin
                   /\ a.proc_table[i].stdout = l.proc_table[f[i]].stdout
                   /\ a.proc_table[i].id \in Nat
  <2>1. \A i \in G : f[i] \in F /\ SameProcess(a.proc_table[i], l.proc_table[f[i]])
    BY MovedBlock
  <2> QED
    BY <2>1 DEF SameProcess
<1>3. q \in 0 .. x.tried
  BY <1>1
<1>4. Who(a.proc_table, G, x)
  BY <1>2 DEF Standing, Who, IsStage, Writes
<1>5. FirstGone(a.proc_table, G, x, q)
  <2>1. CASE r >= 1
    BY <1>2, <2>1 DEF Standing, FirstGone
  <2>2. CASE r = 0 /\ q = 1
    <3> SUFFICES ASSUME NEW i \in G, a.proc_table[i].id = x.base + 1 PROVE FALSE
      BY <2>2 DEF FirstGone
    <3>1. f[i] \in F /\ c \in F /\ l.proc_table[f[i]].id = l.proc_table[c].id /\ f[i] # c
      BY <1>2, <2>2
    <3> QED
      BY <3>1, OneBlockEach
  <2>3. CASE q = 0
    BY <2>3 DEF FirstGone
  <2> QED
    BY <1>1, <2>1, <2>2, <2>3
<1>6. RestToCome(a, G, x, q)
  <2> SUFFICES ASSUME NEW s \in q + 1 .. x.tried
               PROVE  \E j \in G : a.proc_table[j].id = x.base + s /\ ToCome(a, j)
    BY DEF RestToCome
  <2>1. s \in r + 1 .. x.tried /\ s \in Int /\ s > q
    BY <1>1
  <2>2. PICK i \in F : l.proc_table[i].id = x.base + s /\ ToCome(l, i)
    BY <2>1 DEF Standing, RestToCome
  <2>3. i # c
    BY <1>1, <2>1, <2>2
  <2>4. PICK j \in G : f[j] = i /\ ToCome(a, j)
    BY <2>2, <2>3 DEF Moves
  <2> QED
    BY <1>2, <2>2, <2>4
<1> QED
  BY <1>3, <1>4, <1>5, <1>6 DEF Standing

(* The index of the process that runs is at most that of the next stage.   *)
LEMMA TurnOfStage ==
  ASSUME NEW l \in TablesOf(Blocks), NEW F, F \subseteq Slots, InOrder(l.proc_table, F),
         NEW x, x.base \in Nat, x.tried \in Nat, NEW r, Standing(l, F, x, r),
         NEW c \in F, \A i \in F : ToCome(l, i) => c <= i
  PROVE  \/ l.proc_table[c].id <= x.base + r
         \/ l.proc_table[c].id = x.base + r + 1 /\ r + 1 \in 1 .. x.tried
<1>1. r \in Nat /\ r <= x.tried
  BY DEF Standing
<1>2. l.proc_table[c].id \in Nat
  <2>1. l.proc_table[c] \in Blocks
    BY InUseAreSlots
  <2> QED
    BY <2>1 DEF Blocks
<1>3. CASE r = x.tried
  <2>1. l.proc_table[c].id > x.base => l.proc_table[c].id - x.base \in 1 .. x.tried
    BY DEF Standing, Who, IsStage
  <2> QED
    BY <1>1, <1>2, <1>3, <2>1
<1>4. CASE r < x.tried
  <2>1. r + 1 \in r + 1 .. x.tried /\ r + 1 \in 1 .. x.tried
    BY <1>1, <1>4
  <2>2. PICK i \in F : l.proc_table[i].id = x.base + (r + 1) /\ ToCome(l, i)
    BY <2>1 DEF Standing, RestToCome
  <2>3. c <= i
    BY <2>2
  <2>4. l.proc_table[c].id <= l.proc_table[i].id
    BY <2>3, OneBlockEach
  <2> QED
    BY <1>1, <1>2, <2>1, <2>2, <2>4
<1> QED
  BY <1>1, <1>3, <1>4

----------------------------------------------------------------------------
(***************************************************************************)
(* The message, as the stages run.                                         *)
(***************************************************************************)
(* The pipes of the pipeline: one after each stage but the last.           *)
Piped(x) ==
  /\ Len(x.stages) \in Nat /\ Len(x.stages) >= 2
  /\ x.base \in Nat /\ x.tried \in 0 .. Len(x.stages)
  /\ DOMAIN x.fds = 1 .. Len(x.stages) - 1
  /\ \A s \in DOMAIN x.fds : x.fds[s] \in PipeIds
  /\ \A s, u \in DOMAIN x.fds : x.fds[s] = x.fds[u] => s = u

LEMMA MessageKept ==
  ASSUME NEW x, Piped(x), NEW r, NEW ps, NEW qs, NEW out, MessageAt(ps, out, x, r),
         SameBytes(ps, qs, Range(x.fds))
  PROVE  MessageAt(qs, out, x, r)
<1>1. \A s \in 1 .. Len(x.stages) - 1 : x.fds[s] \in Range(x.fds)
  BY DEF Piped, Range
<1> QED
  BY <1>1 DEF MessageAt, SameBytes

(* A process that is no stage.                                             *)
LEMMA StrangerRuns ==
  ASSUME NEW x, Piped(x), NEW r, NEW m \in Machines, MessageAt(m.pool, m.output, x, r),
         CurrentRunning(m.k), NEW n \in EntryOutcomes(m), ~Writes(This(m)),
         IsPipe(This(m).stdin) => PipeId(This(m).stdin) \notin Range(x.fds),
         IsPipe(This(m).stdout) => PipeId(This(m).stdout) \notin Range(x.fds)
  PROVE  MessageAt(n.pool, n.output, x, r)
<1>1. Range(x.fds) \subseteq PipeIds
  BY DEF Piped, Range
<1>2. SameBytes(m.pool, n.pool, Range(x.fds)) /\ n.output = m.output
  BY <1>1, SilentEntry
<1> QED
  BY <1>2, MessageKept

(* A stage that has run already finds its pipe empty.                      *)
LEMMA StageRunsAgain ==
  ASSUME NEW x, Piped(x), Regular(x), NEW r \in Nat, NEW m \in Machines,
         MessageAt(m.pool, m.output, x, r),
         CurrentRunning(m.k), NEW n \in EntryOutcomes(m),
         NEW s \in 2 .. r, IsStage(This(m), x, s)
  PROVE  MessageAt(n.pool, n.output, x, r)
<1>1. /\ s \in 2 .. Len(x.stages) /\ s - 1 \in 1 .. Len(x.stages) - 1 /\ s # 1
      /\ x.fds[s - 1] \in PipeIds /\ s - 1 # r
  <2>1. /\ Len(x.stages) \in Nat /\ x.tried \in 0 .. Len(x.stages) /\ s \in 1 .. x.tried
        /\ DOMAIN x.fds = 1 .. Len(x.stages) - 1
        /\ \A u \in DOMAIN x.fds : x.fds[u] \in PipeIds
    BY DEF Piped, IsStage
  <2>2. s \in 2 .. Len(x.stages) /\ s - 1 \in 1 .. Len(x.stages) - 1 /\ s # 1 /\ s - 1 # r
    BY <2>1
  <2> QED
    BY <2>1, <2>2
<1>2. This(m).entry = "u2" /\ This(m).stdin = FD_MAKE_PIPE(x.fds[s - 1], 0)
  BY <1>1 DEF IsStage, Regular, StdinOf
<1>3. IsPipe(This(m).stdin) /\ PipeId(This(m).stdin) = x.fds[s - 1]
  BY <1>1, <1>2, FdOfPipe
<1>4. m.pool[x.fds[s - 1]].content = <<>>
  BY <1>1 DEF MessageAt
<1>5. SameBytes(m.pool, n.pool, PipeIds) /\ n.output = m.output
  BY <1>2, <1>3, <1>4, IdleReader
<1>6. SameBytes(m.pool, n.pool, Range(x.fds))
  BY <1>5 DEF SameBytes, Piped, Range
<1> QED
  BY <1>5, <1>6, MessageKept

(* The next stage takes the message on.                                    *)
LEMMA StageRuns ==
  ASSUME NEW x, Piped(x), Regular(x), NEW r \in Nat, NEW m \in Machines,
         MessageAt(m.pool, m.output, x, r),
         CurrentRunning(m.k), NEW n \in EntryOutcomes(m), IsStage(This(m), x, r + 1),
         IsPipe(This(m).stdin) => IsOpen(m.pool, This(m).stdin),
         IsPipe(This(m).stdout) => IsOpen(m.pool, This(m).stdout)
  PROVE  /\ MessageAt(n.pool, n.output, x, r + 1)
         /\ r + 1 = 1 => n.k.proc_table[m.k.current].remaining = 0
<1> DEFINE L == Len(x.stages)
           M == Message(x.base + 1)
           p == This(m)
           t == r + 1
<1>1. /\ L \in Nat /\ L >= 2 /\ t \in 1 .. L /\ x.base \in Nat
      /\ p.id = x.base + t /\ p.entry = x.stages[t]
      /\ p.stdin = StdinOf(x, t) /\ p.stdout = StdoutOf(x, t)
  <2>1. /\ L \in Nat /\ L >= 2 /\ x.base \in Nat /\ x.tried \in 0 .. L
        /\ t \in 1 .. x.tried
    BY DEF Piped, IsStage
  <2>2. t \in 1 .. L
    BY <2>1
  <2> HIDE DEF t, p, L
  <2> QED
    BY <2>1, <2>2 DEF IsStage, t, p
<1>2. \A s \in 1 .. L - 1 :
        /\ x.fds[s] \in PipeIds
        /\ m.pool[x.fds[s]].content = IF s = r THEN M ELSE <<>>
        /\ \A u \in 1 .. L - 1 : x.fds[s] = x.fds[u] => s = u
  BY DEF Piped, MessageAt
<1>3. m.output = <<>> /\ m.pool \in Pools
  BY <1>1 DEF MessageAt, Machines
<1> HIDE DEF M, L
<1>4. CASE r = 0
  <2>1. /\ p.entry = "u1" /\ p.stdout = FD_MAKE_PIPE(x.fds[1], 1) /\ p.id = x.base + 1
        /\ 1 \in 1 .. L - 1
    BY <1>1, <1>4 DEF Regular, StdoutOf, L
  <2>2. x.fds[1] \in PipeIds /\ m.pool[x.fds[1]].content = <<>>
    BY <1>2, <1>4, <2>1
  <2>3. IsPipe(p.stdout)
    BY <2>1, <2>2, FdOfPipe
  <2>4. /\ n.pool[x.fds[1]].content = Message(p.id)
        /\ SameBytes(m.pool, n.pool, PipeIds \ {x.fds[1]}) /\ n.output = m.output
        /\ n.k.proc_table[m.k.current].remaining = 0
    <3>1. IsOpen(m.pool, p.stdout)
      BY <2>3
    <3> QED
      BY <2>1, <2>2, <3>1, WriterEntry
  <2>5. \A s \in 1 .. L - 1 : n.pool[x.fds[s]].content = IF s = 1 THEN M ELSE <<>>
    <3> TAKE s \in 1 .. L - 1
    <3>1. CASE s = 1
      BY <2>1, <2>4, <3>1 DEF M
    <3>2. CASE s # 1
      <4>1. x.fds[s] \in PipeIds \ {x.fds[1]} /\ m.pool[x.fds[s]].content = <<>>
        BY <1>2, <1>4, <2>1, <3>2
      <4> QED
        BY <2>4, <3>2, <4>1 DEF SameBytes
    <3> QED
      BY <3>1, <3>2
  <2>6. n.output = <<>> /\ 1 # L
    BY <1>1, <1>3, <2>4
  <2> QED
    BY <1>4, <2>4, <2>5, <2>6 DEF MessageAt, M, L
<1>5. CASE r >= 1
  <2>1. r \in 1 .. L - 1 /\ t \in 2 .. L /\ t # 1 /\ t - 1 = r
    BY <1>1, <1>5
  <2>2. p.entry = "u2" /\ p.stdin = FD_MAKE_PIPE(x.fds[r], 0)
    BY <1>1, <2>1 DEF Regular, StdinOf, L
  <2>3. x.fds[r] \in PipeIds /\ m.pool[x.fds[r]].content = M
    BY <1>2, <2>1
  <2>4. IsPipe(p.stdin)
    BY <2>2, <2>3, FdOfPipe
  <2>5. x.base + 1 \in Nat /\ IsOpen(m.pool, p.stdin)
    BY <1>1, <2>4
  <2>6. /\ p.stdout = FD_UART_OUT =>
             /\ n.pool[x.fds[r]].content = <<>> /\ n.output = m.output \o M
             /\ SameBytes(m.pool, n.pool, PipeIds \ {x.fds[r]})
        /\ \A h \in PipeIds \ {x.fds[r]} :
             /\ p.stdout = FD_MAKE_PIPE(h, 1) /\ IsOpen(m.pool, p.stdout)
             /\ m.pool[h].content = <<>>
             => /\ n.pool[h].content = M /\ n.pool[x.fds[r]].content = <<>>
                /\ SameBytes(m.pool, n.pool, PipeIds \ {x.fds[r], h}) /\ n.output = m.output
    BY <2>2, <2>3, <2>5, ReaderEntry DEF M
  <2>7. CASE t = L
    <3>1. p.stdout = FD_UART_OUT
      BY <1>1, <2>7 DEF StdoutOf, L
    <3>2. n.output = M
      <4>1. M \in Seq(Nat)
        BY <2>5, MessageIsBytes DEF M
      <4>2. <<>> \o M = M
        BY <4>1
      <4> QED
        BY <1>3, <2>6, <3>1, <4>2
    <3>3. \A s \in 1 .. L - 1 : n.pool[x.fds[s]].content = <<>> /\ s # t
      <4> TAKE s \in 1 .. L - 1
      <4>1. CASE s = r
        BY <2>1, <2>6, <3>1, <4>1
      <4>2. CASE s # r
        <5>1. x.fds[s] \in PipeIds \ {x.fds[r]} /\ m.pool[x.fds[s]].content = <<>>
          BY <1>2, <2>1, <4>2
        <5>2. s # t
          BY <1>1, <2>7
        <5> QED
          BY <2>6, <3>1, <5>1, <5>2 DEF SameBytes
      <4> QED
        BY <4>1, <4>2
    <3> QED
      BY <1>5, <2>1, <2>7, <3>2, <3>3 DEF MessageAt, M, L
  <2>8. CASE t # L
    <3>1. t \in 1 .. L - 1 /\ p.stdout = FD_MAKE_PIPE(x.fds[t], 1) /\ t # r
      BY <1>1, <2>8 DEF StdoutOf, L
    <3>2. x.fds[t] \in PipeIds \ {x.fds[r]} /\ m.pool[x.fds[t]].content = <<>>
      BY <1>2, <2>1, <3>1
    <3>3. IsOpen(m.pool, p.stdout)
      BY <3>1, <3>2, FdOfPipe
    <3>4. /\ n.pool[x.fds[t]].content = M /\ n.pool[x.fds[r]].content = <<>>
          /\ SameBytes(m.pool, n.pool, PipeIds \ {x.fds[r], x.fds[t]}) /\ n.output = m.output
      BY <2>6, <3>1, <3>2, <3>3
    <3>5. \A s \in 1 .. L - 1 : n.pool[x.fds[s]].content = IF s = t THEN M ELSE <<>>
      <4> TAKE s \in 1 .. L - 1
      <4>1. CASE s = t
        BY <3>4, <4>1
      <4>2. CASE s = r
        BY <3>1, <3>4, <4>2
      <4>3. CASE s # r /\ s # t
        <5>1. x.fds[s] \in PipeIds \ {x.fds[r], x.fds[t]} /\ m.pool[x.fds[s]].content = <<>>
          BY <1>2, <2>1, <3>1, <4>3
        <5> QED
          BY <3>4, <4>3, <5>1 DEF SameBytes
      <4> QED
        BY <4>1, <4>2, <4>3
    <3> QED
      BY <1>3, <1>5, <2>1, <2>8, <3>4, <3>5 DEF MessageAt, M, L
  <2> QED
    BY <2>7, <2>8
<1> QED
  BY <1>4, <1>5

----------------------------------------------------------------------------
(***************************************************************************)
(* The second invariant, step by step: the interrupt.                      *)
(***************************************************************************)
(* A tick runs the process at index c of the table as dispatched, d, and n *)
(* is the machine when its entry has returned.                             *)
Machine(d) == [k |-> d, pool |-> pool, output |-> history.output]

RunsOne(d, n, f) ==
  /\ d \in TablesOf(Blocks) /\ Machine(d) \in Machines /\ CurrentRunning(d)
  /\ n \in EntryOutcomes(Machine(d))
  /\ pool' = n.pool /\ history'.output = n.output
  /\ d.current \in InUse(k)
  /\ Like(d.proc_table[d.current], k.proc_table[d.current])
  /\ \A i \in Filled : ToCome(k, i) => d.current <= i
  /\ k'.current < k'.nr_procese
  /\ Moves(k, Filled, k', Filled', d.current, f)
  /\ n.k.proc_table[d.current].remaining = 0 => \A j \in Filled' : f[j] # d.current
  /\ k'.nr_procese = k.nr_procese => \A j \in Filled' : f[j] = j
  /\ k'.nr_procese # k.nr_procese => ~Storing /\ (pc = "scan" => scan = 0)

LEMMA TickRunsOne ==
  ASSUME IInv, TickRun, Untorn'
  PROVE  \E d, n, f : RunsOne(d, n, f)
<1> DEFINE d == Dispatch(UpdateWaiting(k))
           c == d.current
<1>1. /\ k \in TablesOf(Blocks) /\ pool \in Pools /\ history \in Histories
      /\ history.output \in Seq(Nat)
  BY DEF IInv, Typed, Histories
<1>2. PICK n \in EntryOutcomes(Machine(d)) :
        /\ k' = AfterEntry(n.k)
        /\ pool' = n.pool
        /\ history' = [history EXCEPT
             !.output = n.output,
             !.ran = history.ran \cup {d.proc_table[d.current].id},
             !.torn = history.torn \cup Torn(k'.nr_procese < k.nr_procese)]
  BY DEF TickRun, Machine
<1>3. CurrentRunning(d) /\ Storing' = Storing
  BY DEF TickRun, Interrupt, Storing
<1>4. d \in TablesOf(Blocks) /\ KeepsBlocks(UpdateWaiting(k), d)
  <2>1. UpdateWaiting(k) \in TablesOf(Blocks)
    BY <1>1, BlocksAreControl, WaitingUpdated
  <2> QED
    BY <2>1, BlocksAreControl, Dispatched
<1>5. d = Dispatch(UpdateWaiting(k))
  OBVIOUS
<1> HIDE DEF d
<1>6. Machine(d) \in Machines /\ Machine(d).k = d
  BY <1>1, <1>4 DEF Machines, Machine
<1>7. n \in Machines /\ (Returned(Machine(d), n) \/ Quit(Machine(d), n, c))
      /\ (n.k = d \/ n.k.proc_table[c].remaining = 0)
  BY <1>3, <1>6, EntryRuns, EntryExits
<1>8. c \in InUse(d) /\ c \in Slots /\ d.proc_table[c].state = "RUNNING"
  BY <1>3, <1>4, InUseAreSlots DEF CurrentRunning, CurrentValid
<1>9. /\ n.k \in TablesOf(Blocks) /\ CurrentRunning(n.k)
      /\ n.k.nr_procese = d.nr_procese /\ n.k.current = c
      /\ \A j \in Slots \ {c} : n.k.proc_table[j] = d.proc_table[j]
  <2>1. n.k \in TablesOf(Blocks)
    BY <1>7 DEF Machines
  <2>2. CASE Returned(Machine(d), n)
    BY <1>3, <1>6, <2>1, <2>2 DEF Returned
  <2>3. CASE Quit(Machine(d), n, c)
    <3>1. /\ n.k.nr_procese = d.nr_procese /\ n.k.current = c
          /\ n.k.proc_table[c].state = "RUNNING"
          /\ \A j \in Slots \ {c} : n.k.proc_table[j] = d.proc_table[j]
      BY <1>6, <1>8, <2>3 DEF Quit, Detached
    <3> QED
      BY <1>8, <2>1, <3>1 DEF CurrentRunning, CurrentValid, InUse
  <2> QED
    BY <1>7, <2>2, <2>3
<1>10. /\ c \in InUse(k) /\ Like(d.proc_table[c], k.proc_table[c])
       /\ k' \in TablesOf(Blocks) /\ k'.current < k'.nr_procese
       /\ \A i \in InUse(k) : ToCome(k, i) => c <= i
       /\ \/ /\ k'.nr_procese = k.nr_procese /\ n.k.proc_table[c].remaining > 1
             /\ \A i \in Slots : Like(k'.proc_table[i], k.proc_table[i])
             /\ \A i \in Slots \ InUse(k) : k'.proc_table[i] = k.proc_table[i]
             /\ \A i \in InUse(k) \ {c} : ToCome(k, i) => ToCome(k', i)
          \/ /\ k'.nr_procese = k.nr_procese - 1
             /\ \A i \in InUse(k') :
                  /\ Skip(c, i) \in InUse(k)
                  /\ Like(k'.proc_table[i], k.proc_table[Skip(c, i)])
             /\ \A i \in InUse(k) \ {c} :
                  ToCome(k, i) => c < i /\ i - 1 \in InUse(k') /\ ToCome(k', i - 1)
  BY <1>1, <1>2, <1>3, <1>5, <1>7, <1>9, BlocksAreControl, TickInOrder
<1>11. Filled \subseteq Slots /\ InUse(k) \subseteq Filled /\ k.nr_procese \in Nat
       /\ \A i \in Slots : i \in Int
  <2>1. Untorn
    BY <1>2 DEF Untorn, Histories, IInv, Typed
  <2> QED
    BY <1>1, <2>1, FilledAreSlots, InUseAreSlots, TableAssumption
       DEF IInv, SoundUntilTorn, Filled, Slots
<1>12. \A i \in Filled : ToCome(k, i) => c <= i
  <2>1. c < k.nr_procese /\ c \in Nat
    BY <1>1, <1>10, InUseAreSlots
  <2> QED
    BY <1>10, <1>11, <2>1 DEF Filled
<1>13. history'.output = n.output
  BY <1>1, <1>2 DEF Histories
<1>14. CASE /\ k'.nr_procese = k.nr_procese /\ n.k.proc_table[c].remaining > 1
            /\ \A i \in Slots : Like(k'.proc_table[i], k.proc_table[i])
            /\ \A i \in Slots \ InUse(k) : k'.proc_table[i] = k.proc_table[i]
            /\ \A i \in InUse(k) \ {c} : ToCome(k, i) => ToCome(k', i)
  <2> DEFINE f == [i \in Filled |-> i]
  <2>1. Filled' = Filled
    BY <1>3, <1>14 DEF Filled, InUse
  <2>2. \A i \in Filled \ {c} : ToCome(k, i) => ToCome(k', i)
    <3> SUFFICES ASSUME NEW i \in Filled \ {c}, ToCome(k, i), i \notin InUse(k)
                 PROVE  ToCome(k', i)
      BY <1>14
    <3>1. i = k.nr_procese /\ i \in Slots
      BY <1>11 DEF Filled
    <3>2. k'.current <= i
      BY <1>10, <1>11, <1>14, <3>1 DEF TablesOf
    <3>3. k'.proc_table[i] = k.proc_table[i]
      BY <1>14, <3>1
    <3> QED
      BY <3>2, <3>3 DEF ToCome
  <2>3. \A i \in Filled : Like(k'.proc_table[i], k.proc_table[i]) /\ f[i] = i
    BY <1>11, <1>14
  <2>4. f \in [Filled -> Filled]
    OBVIOUS
  <2> HIDE DEF f
  <2>5. Moves(k, Filled, k', Filled, c, f)
    BY <2>2, <2>3, <2>4 DEF Moves
  <2>6. n.k.proc_table[c].remaining # 0
    BY <1>14
  <2> HIDE DEF Filled
  <2>7. RunsOne(d, n, f)
    BY <1>2, <1>3, <1>4, <1>6, <1>10, <1>12, <1>13, <1>14, <2>1, <2>3, <2>5, <2>6 DEF RunsOne
  <2> QED
    BY <2>7
<1>15. CASE /\ k'.nr_procese = k.nr_procese - 1
            /\ \A i \in InUse(k') :
                 /\ Skip(c, i) \in InUse(k)
                 /\ Like(k'.proc_table[i], k.proc_table[Skip(c, i)])
            /\ \A i \in InUse(k) \ {c} :
                 ToCome(k, i) => c < i /\ i - 1 \in InUse(k') /\ ToCome(k', i - 1)
  <2> DEFINE f == [i \in InUse(k') |-> Skip(c, i)]
  <2>1. k'.nr_procese < k.nr_procese
    BY <1>11, <1>15
  <2>2. ~Storing /\ (pc = "scan" => scan = 0)
    <3>1. Torn(k'.nr_procese < k.nr_procese) \subseteq history'.torn /\ history'.torn = {}
      BY <1>1, <1>2 DEF Untorn, Histories
    <3>2. Torn(TRUE) = {}
      BY <2>1, <3>1
    <3>3. scan \in Nat
      BY TableAssumption DEF IInv, Typed
    <3> QED
      BY <3>2, <3>3 DEF Torn, Storing
  <2>3. Filled = InUse(k) /\ Filled' = InUse(k')
    BY <1>3, <2>2 DEF Filled
  <2>4. c \in Nat /\ \A i \in InUse(k') : i \in Nat
    BY <1>1, <1>10, InUseAreSlots
  <2>5. f \in [InUse(k') -> InUse(k)] /\ \A i \in InUse(k') : f[i] = Skip(c, i)
    BY <1>15
  <2> HIDE DEF f
  <2>6. \A i, j \in InUse(k') : i < j => f[i] < f[j]
    BY <2>4, <2>5 DEF Skip
  <2>7. \A j \in InUse(k') : f[j] # c
    BY <2>4, <2>5 DEF Skip
  <2>8. \A i \in InUse(k) \ {c} : ToCome(k, i) => \E j \in InUse(k') : f[j] = i /\ ToCome(k', j)
    <3> SUFFICES ASSUME NEW i \in InUse(k) \ {c}, ToCome(k, i)
                 PROVE  \E j \in InUse(k') : f[j] = i /\ ToCome(k', j)
      OBVIOUS
    <3>1. c < i /\ i - 1 \in InUse(k') /\ ToCome(k', i - 1)
      BY <1>15
    <3>2. Skip(c, i - 1) = i
      BY <1>11, <2>4, <3>1 DEF Skip
    <3> QED
      BY <2>5, <3>1, <3>2
  <2>9. Moves(k, InUse(k), k', InUse(k'), c, f)
    BY <1>15, <2>5, <2>6, <2>8 DEF Moves
  <2>10. k'.nr_procese # k.nr_procese
    BY <1>11, <2>1
  <2>11. RunsOne(d, n, f)
    BY <1>2, <1>3, <1>4, <1>6, <1>10, <1>12, <1>13, <2>2, <2>3, <2>7, <2>9, <2>10 DEF RunsOne
  <2> QED
    BY <2>11
<1> QED
  BY <1>10, <1>14, <1>15

(* What IInv says of the pipes of a pipeline.                              *)
LEMMA LineIsPiped ==
  ASSUME IInv, NEW base, LineSound(Line(base))
  PROVE  Piped(Line(base)) /\ Line(base).base = base
<1> DEFINE x == Line(base)
<1>1. x.base = base /\ x.tried = Tried /\ x.stages = stages /\ x.fds = pipe_fds
  BY DEF Line
<1>2. \A s \in DOMAIN pipe_fds : pipe_fds[s] \in PipeIds
  BY DEF IInv, Typed, Range
<1>3. \A s, u \in DOMAIN pipe_fds : pipe_fds[s] = pipe_fds[u] => s = u
  BY DEF IInv, Typed
<1>4. history.born \in Nat
  BY DEF IInv, Typed, Histories
<1> HIDE DEF x
<1>5. x.base \in Nat
  BY <1>4 DEF LineSound, x
<1> QED
  BY <1>1, <1>2, <1>3, <1>5 DEF LineSound, Piped, x

(* The message, as a process runs.                                         *)
LEMMA MessageRuns ==
  ASSUME IInv, Untorn, MidPipeline, NEW base, LineSound(Line(base)),
         Regular(Line(base)), InOrder(k.proc_table, Filled),
         NEW r, Relayed(k, Filled, pool, history.output, Line(base), r),
         NEW d, NEW n, NEW f, RunsOne(d, n, f), k' \in TablesOf(Blocks),
         Filled \subseteq Slots, Filled' \subseteq Slots
  PROVE  \E q \in 0 .. Tried :
           Relayed(k', Filled', pool', history'.output, Line(base), q)
<1> DEFINE x == Line(base)
           c == d.current
           m == Machine(d)
           p == k.proc_table[c]
<1>1. /\ Piped(x) /\ x.base = base /\ x.tried = Tried /\ x.fds = pipe_fds
      /\ x.base \in Nat /\ x.tried \in Nat
  <2>1. Piped(x) /\ x.base = base
    BY LineIsPiped
  <2>2. x.tried = Tried /\ x.fds = pipe_fds
    BY DEF Line
  <2> HIDE DEF x
  <2> QED
    BY <2>1, <2>2 DEF Piped
<1>2. Regular(x) /\ LineSound(x)
  OBVIOUS
<1>3. Standing(k, Filled, x, r) /\ MessageAt(pool, history.output, x, r)
  BY RelayedStands
<1> HIDE DEF x
<1>4. /\ k \in TablesOf(Blocks) /\ c \in InUse(k) /\ InUse(k) \subseteq Filled
      /\ d \in TablesOf(Blocks) /\ c \in Slots
  BY InUseAreSlots DEF IInv, Typed, RunsOne, Filled
<1>5. /\ m \in Machines /\ CurrentRunning(m.k) /\ n \in EntryOutcomes(m)
      /\ m.pool = pool /\ m.output = history.output /\ m.k = d
      /\ pool' = n.pool /\ history'.output = n.output
  BY DEF RunsOne, Machine
<1>6. SameProcess(This(m), p)
  <2>1. This(m) = d.proc_table[c]
    BY <1>5 DEF This
  <2>2. d.proc_table[c] \in Blocks /\ p \in Blocks /\ Like(d.proc_table[c], p)
    BY <1>4, InUseAreSlots DEF RunsOne
  <2> QED
    BY <2>1, <2>2, LikeBlock DEF SameProcess, Blocks
<1>7. /\ c \in Filled /\ r \in Nat /\ r <= x.tried
      /\ p.id > x.base => IsStage(p, x, p.id - x.base)
      /\ p.id <= x.base => ~Writes(p)
      /\ r >= 1 => p.id # x.base + 1
      /\ p.id \in Nat
  BY <1>1, <1>3, <1>4, <1>6 DEF Standing, Who, FirstGone, SameProcess
<1> HIDE DEF m
<1>8. Wired(k.proc_table, Filled, OpenFds(pool), Progress)
  BY DEF IInv, SoundUntilTorn
<1>9. /\ IsPipe(This(m).stdin) => IsOpen(m.pool, This(m).stdin)
      /\ IsPipe(This(m).stdout) => IsOpen(m.pool, This(m).stdout)
  <2>1. /\ IsPipe(p.stdin) => p.stdin \in OpenFds(pool)
        /\ IsPipe(p.stdout) => p.stdout \in OpenFds(pool)
    BY <1>7, <1>8 DEF Wired, Descriptors
  <2> HIDE DEF p
  <2> QED
    BY <1>5, <1>6, <2>1 DEF SameProcess, OpenFds
<1>10. \/ p.id <= x.base + r
       \/ p.id = x.base + r + 1 /\ r + 1 \in 1 .. x.tried
  <2>1. \A i \in Filled : ToCome(k, i) => c <= i
    BY DEF RunsOne
  <2> HIDE DEF c
  <2> QED
    BY <1>1, <1>3, <1>4, <1>7, <2>1, TurnOfStage
<1>11. CASE p.id <= x.base + r
  <2>1. Standing(k', Filled', x, r)
    <3>1. Moves(k, Filled, k', Filled', c, f)
      BY DEF RunsOne
    <3> QED
      BY <1>1, <1>3, <1>4, <1>7, <1>11, <3>1, StandingMoves
  <2>2. MessageAt(n.pool, n.output, x, r)
    <3>1. CASE p.id <= x.base
      <4>1. p.id \notin history.spawned
        <5>1. history.spawned = x.base + 1 .. history.born /\ history.born \in Nat
          BY <1>2 DEF LineSound, IInv, Typed, Histories
        <5> HIDE DEF p
        <5> QED
          BY <1>1, <1>7, <3>1, <5>1
      <4>2. /\ IsPipe(p.stdin) => PipeId(p.stdin) \notin Range(x.fds)
            /\ IsPipe(p.stdout) => PipeId(p.stdout) \notin Range(x.fds)
        <5>1. /\ Progress.spawned = history.spawned /\ Progress.fds = x.fds
              /\ Progress.spawning \/ Progress.awaiting \/ Progress.ending
          BY <1>1 DEF Progress, MidPipeline
        <5> QED
          BY <1>7, <1>8, <4>1, <5>1 DEF Wired, StagesHold
      <4>3. ~Writes(This(m))
        BY <1>6, <1>7, <3>1 DEF SameProcess, Writes
      <4> HIDE DEF p
      <4> QED
        BY <1>1, <1>3, <1>5, <1>6, <4>2, <4>3, StrangerRuns DEF SameProcess
    <3>2. CASE p.id > x.base
      <4> DEFINE s == p.id - x.base
      <4>1. s \in 1 .. r /\ s # 1
        BY <1>1, <1>7, <1>11, <3>2
      <4>2. s \in 2 .. r /\ IsStage(This(m), x, s)
        BY <1>6, <1>7, <3>2, <4>1 DEF SameProcess, IsStage
      <4> HIDE DEF s, p
      <4> QED
        BY <1>1, <1>2, <1>3, <1>5, <1>7, <4>2, StageRunsAgain
    <3> QED
      BY <1>1, <1>7, <3>1, <3>2
  <2>3. Relayed(k', Filled', pool', history'.output, x, r)
    BY <1>5, <2>1, <2>2, RelayedStands
  <2>4. r \in 0 .. Tried
    BY <1>1, <1>7
  <2> QED
    BY <2>3, <2>4 DEF x
<1>12. CASE p.id = x.base + r + 1 /\ r + 1 \in 1 .. x.tried
  <2>1. IsStage(This(m), x, r + 1)
    <3>1. p.id > x.base /\ p.id - x.base = r + 1
      BY <1>1, <1>7, <1>12
    <3>2. IsStage(p, x, r + 1)
      BY <1>7, <3>1
    <3> QED
      BY <1>6, <3>2 DEF SameProcess, IsStage
  <2>2. /\ MessageAt(n.pool, n.output, x, r + 1)
        /\ r + 1 = 1 => n.k.proc_table[c].remaining = 0
    BY <1>1, <1>2, <1>3, <1>5, <1>7, <1>9, <2>1, StageRuns
  <2>3. Standing(k', Filled', x, r + 1)
    <3>1. /\ Moves(k, Filled, k', Filled', c, f)
          /\ r + 1 = 1 => \A j \in Filled' : f[j] # c
      BY <2>2 DEF RunsOne
    <3>2. p.id = x.base + (r + 1) /\ r + 1 # r
      BY <1>1, <1>7, <1>12
    <3> QED
      BY <1>1, <1>3, <1>4, <1>7, <1>12, <3>1, <3>2, StandingMoves
  <2>4. Relayed(k', Filled', pool', history'.output, x, r + 1)
    BY <1>5, <2>2, <2>3, RelayedStands
  <2>5. r + 1 \in 0 .. Tried
    BY <1>1, <1>12
  <2> QED
    BY <2>4, <2>5 DEF x
<1> QED
  BY <1>10, <1>11, <1>12

(* A pipeline that has come no further.                                    *)
LEMMA LineKept ==
  ASSUME UNCHANGED <<stages, stage, pipe_fds>>, Storing' = Storing, Spawning' = Spawning,
         history'.born = history.born, history'.spawned = history.spawned
  PROVE  \A base : /\ Line(base)' = Line(base)
                   /\ LineSound(Line(base))' = LineSound(Line(base))
                   /\ Regular(Line(base))' = Regular(Line(base))
                   /\ Complete(Line(base))' = Complete(Line(base))
                   /\ Tried' = Tried
<1> TAKE base
<1>1. Line(base)' = Line(base) /\ Tried' = Tried
  BY DEF Line, Tried
<1> QED
  BY <1>1 DEF LineSound, Regular, Complete

(* Blocks that move are awaited as before.                                 *)
LEMMA WritersMove ==
  ASSUME IInv, IInv', Untorn, Untorn', WritersAwaited,
         NEW c, NEW f, Moves(k, Filled, k', Filled', c, f),
         k'.nr_procese = k.nr_procese => \A j \in Filled' : f[j] = j,
         k'.nr_procese # k.nr_procese => ~Storing /\ (pc = "scan" => scan = 0),
         Interrupt
  PROVE  WritersAwaited'
<1> SUFFICES ASSUME NEW i \in Filled', Writes(k'.proc_table[i])
             PROVE  \/ pc' \in {"scan", "halted"} /\ i >= scan' /\ Awaited(k.proc_table[i])'
                    \/ /\ Storing' /\ stage' = Len(stages') /\ i = k'.nr_procese
                       /\ k'.proc_table[i].pipeline_tag
  BY DEF WritersAwaited
<1>1. /\ k \in TablesOf(Blocks) /\ k' \in TablesOf(Blocks)
      /\ Filled \subseteq Slots /\ Filled' \subseteq Slots
  <2>1. Typed /\ TableSound /\ Typed' /\ TableSound'
    BY DEF IInv, SoundUntilTorn
  <2>2. Filled \subseteq Slots
    BY <2>1, FilledAreSlots
  <2>3. Filled' \subseteq Slots
    BY <2>1, InUseAreSlots DEF Typed, TableSound, Filled
  <2> QED
    BY <2>1, <2>2, <2>3 DEF Typed
<1>2. f[i] \in Filled /\ SameProcess(k'.proc_table[i], k.proc_table[f[i]])
  BY <1>1, MovedBlock
<1>3. Writes(k.proc_table[f[i]])
  BY <1>2 DEF SameProcess, Writes
<1>4. /\ pc' = (IF pc = "halted" THEN "scan" ELSE pc) /\ scan' = scan /\ stage' = stage
      /\ stages' = stages /\ target' = target /\ Storing' = Storing
  BY DEF Interrupt, Storing
<1>5. scan \in Nat /\ (pc = "halted" => scan = 0) /\ i \in Nat
  BY <1>1, TableAssumption DEF IInv, Typed, Slots
<1>6. CASE pc \in {"scan", "halted"} /\ f[i] >= scan /\ Awaited(k.proc_table[f[i]])
  <2>1. i >= scan
    <3>1. CASE k'.nr_procese = k.nr_procese
      BY <1>6, <3>1
    <3>2. CASE k'.nr_procese # k.nr_procese
      BY <1>5, <1>6, <3>2
    <3> QED
      BY <3>1, <3>2
  <2>2. k'.proc_table[i].state \notin {"TERMINATED", "UNUSED"}
    BY DEF IInv, SoundUntilTorn, TableSound, Orderly
  <2>3. Awaited(k.proc_table[i])'
    BY <1>2, <1>4, <1>6, <2>2 DEF Awaited, SameProcess
  <2> QED
    BY <1>4, <1>6, <2>1, <2>3
<1>7. CASE /\ Storing /\ stage = Len(stages) /\ f[i] = k.nr_procese
           /\ k.proc_table[f[i]].pipeline_tag
  <2>1. k'.nr_procese = k.nr_procese /\ f[i] = i
    BY <1>7
  <2> QED
    BY <1>2, <1>4, <1>7, <2>1 DEF SameProcess
<1> QED
  BY <1>2, <1>3, <1>6, <1>7 DEF WritersAwaited

LEMMA TickRunMessage == ASSUME IInv, IInv', MInv, TickRun PROVE MInv'
<1> SUFFICES ASSUME Untorn' PROVE /\ CurrentBelow'
                                  /\ InOrder(k.proc_table, Filled)'
                                  /\ WritersAwaited'
                                  /\ MessageOnItsWay'
  BY DEF MInv
<1>1. /\ Interrupt
      /\ history'.born = history.born /\ history'.spawned = history.spawned
      /\ history.torn \subseteq history'.torn
  BY DEF TickRun, IInv, Typed, Histories
<1>2. Untorn /\ InOrder(k.proc_table, Filled) /\ WritersAwaited /\ MessageOnItsWay
  BY <1>1 DEF Untorn, MInv
<1>3. /\ k \in TablesOf(Blocks) /\ k' \in TablesOf(Blocks)
      /\ Filled \subseteq Slots /\ Filled' \subseteq Slots
  <2>1. Typed /\ TableSound /\ Typed' /\ TableSound'
    BY <1>2 DEF IInv, SoundUntilTorn
  <2>2. Filled \subseteq Slots
    BY <2>1, FilledAreSlots
  <2>3. Filled' \subseteq Slots
    BY <2>1, InUseAreSlots DEF Typed, TableSound, Filled
  <2> QED
    BY <2>1, <2>2, <2>3 DEF Typed
<1>4. PICK d, n, f : RunsOne(d, n, f)
  BY TickRunsOne
<1>5. /\ Moves(k, Filled, k', Filled', d.current, f)
      /\ k'.nr_procese = k.nr_procese => \A j \in Filled' : f[j] = j
      /\ k'.nr_procese # k.nr_procese => ~Storing /\ (pc = "scan" => scan = 0)
      /\ k'.current < k'.nr_procese
  BY <1>4 DEF RunsOne
<1>6. InOrder(k'.proc_table, Filled') /\ CurrentBelow'
  <2>1. pc' # "demo_current"
    <3>1. Torn(k'.nr_procese < k.nr_procese) \subseteq history'.torn /\ history'.torn = {}
      BY DEF TickRun, Untorn, IInv, Typed, Histories
    <3> QED
      BY <1>1, <3>1 DEF Torn, Interrupt
  <2> QED
    BY <1>2, <1>3, <1>5, <2>1, OrderMoves DEF CurrentBelow
<1>7. WritersAwaited'
  BY <1>1, <1>2, <1>5, WritersMove
<1>8. ASSUME MidPipeline' PROVE
        \E base \in 0 .. history'.born :
          /\ LineSound(Line(base))'
          /\ (Regular(Line(base)) /\ Complete(Line(base)))' =>
               \E q \in 0 .. Tried' : Relayed(k, Filled, pool, history.output, Line(base), q)'
  <2>1. /\ MidPipeline /\ Storing' = Storing /\ Spawning' = Spawning
        /\ UNCHANGED <<stages, stage, pipe_fds>>
    BY <1>1, <1>8 DEF Interrupt, MidPipeline, Spawning, Storing, Awaiting, Ending
  <2>2. PICK base \in 0 .. history.born :
          /\ LineSound(Line(base))
          /\ Regular(Line(base)) /\ Complete(Line(base)) =>
               \E r \in 0 .. Tried :
                 Relayed(k, Filled, pool, history.output, Line(base), r)
    BY <1>2, <2>1 DEF MessageOnItsWay
  <2>3. /\ Line(base)' = Line(base)
        /\ LineSound(Line(base))' = LineSound(Line(base))
        /\ Regular(Line(base))' = Regular(Line(base))
        /\ Complete(Line(base))' = Complete(Line(base))
        /\ Tried' = Tried
    BY <1>1, <2>1, LineKept
  <2>4. ASSUME Regular(Line(base)), Complete(Line(base))
        PROVE  \E q \in 0 .. Tried :
                 Relayed(k', Filled', pool', history'.output, Line(base), q)
    <3>1. PICK r \in 0 .. Tried : Relayed(k, Filled, pool, history.output, Line(base), r)
      BY <2>2, <2>4
    <3> QED
      BY <1>2, <1>3, <1>4, <2>1, <2>2, <2>4, <3>1, MessageRuns
  <2> QED
    BY <1>1, <2>2, <2>3, <2>4
<1> QED
  BY <1>5, <1>6, <1>7, <1>8 DEF MessageOnItsWay

LEMMA TickIdleMessage == ASSUME IInv, IInv', MInv, TickIdle PROVE MInv'
<1> SUFFICES ASSUME Untorn' PROVE /\ CurrentBelow'
                                  /\ InOrder(k.proc_table, Filled)'
                                  /\ WritersAwaited'
                                  /\ MessageOnItsWay'
  BY DEF MInv
<1>1. Interrupt /\ history' = history /\ pool' = pool /\ k' = UpdateWaiting(k)
  BY DEF TickIdle
<1>2. /\ Untorn /\ InOrder(k.proc_table, Filled) /\ WritersAwaited /\ MessageOnItsWay
      /\ CurrentBelow
  BY <1>1 DEF Untorn, MInv
<1>3. /\ k \in TablesOf(Blocks) /\ k' \in TablesOf(Blocks) /\ Filled \subseteq Slots
  BY <1>2, FilledAreSlots DEF IInv, SoundUntilTorn, Typed
<1>4. KeepsBlocks(k, k') /\ k'.current = k.current /\ \A i \in Slots : ToCome(k, i) => ToCome(k', i)
  BY <1>1, <1>3, BlocksAreControl, WaitingUpdated, WaitingInOrder
<1>5. k'.nr_procese = k.nr_procese /\ Filled' = Filled
  BY <1>1, <1>4 DEF KeepsBlocks, Filled, InUse, Interrupt, Storing
<1> DEFINE f == [i \in Filled |-> i]
<1>6. f \in [Filled -> Filled] /\ \A i \in Filled : f[i] = i
  OBVIOUS
<1> HIDE DEF f
<1>7. Moves(k, Filled, k', Filled, -1, f)
  BY <1>3, <1>4, <1>6 DEF Moves, KeepsBlocks
<1>8. InOrder(k'.proc_table, Filled)
  BY <1>2, <1>3, <1>7, OrderMoves
<1>9. WritersAwaited'
  BY <1>1, <1>2, <1>5, <1>6, <1>7, WritersMove
<1>10. ASSUME MidPipeline' PROVE
        \E base \in 0 .. history'.born :
          /\ LineSound(Line(base))'
          /\ (Regular(Line(base)) /\ Complete(Line(base)))' =>
               \E q \in 0 .. Tried' : Relayed(k, Filled, pool, history.output, Line(base), q)'
  <2>1. /\ MidPipeline /\ Storing' = Storing /\ Spawning' = Spawning
        /\ UNCHANGED <<stages, stage, pipe_fds>>
    BY <1>1, <1>10 DEF Interrupt, MidPipeline, Spawning, Storing, Awaiting, Ending
  <2>2. PICK base \in 0 .. history.born :
          /\ LineSound(Line(base))
          /\ Regular(Line(base)) /\ Complete(Line(base)) =>
               \E r \in 0 .. Tried :
                 Relayed(k, Filled, pool, history.output, Line(base), r)
    BY <1>2, <2>1 DEF MessageOnItsWay
  <2>3. /\ Line(base)' = Line(base)
        /\ LineSound(Line(base))' = LineSound(Line(base))
        /\ Regular(Line(base))' = Regular(Line(base))
        /\ Complete(Line(base))' = Complete(Line(base))
        /\ Tried' = Tried
    BY <1>1, <2>1, LineKept
  <2>4. ASSUME NEW r \in 0 .. Tried, Relayed(k, Filled, pool, history.output, Line(base), r)
        PROVE  Relayed(k', Filled', pool', history'.output, Line(base), r)
    <3> DEFINE x == Line(base)
    <3>1. x.base \in Nat /\ x.tried \in Nat
      <4>1. Piped(x)
        BY <2>2, LineIsPiped
      <4> HIDE DEF x
      <4> QED
        BY <4>1 DEF Piped
    <3>2. Standing(k, Filled, x, r) /\ MessageAt(pool, history.output, x, r)
      BY <2>4, RelayedStands
    <3> HIDE DEF x
    <3>3. -1 \notin Filled
      BY <1>3 DEF Slots
    <3>4. r # r + 1
      BY <3>2 DEF Standing
    <3>5. Standing(k', Filled, x, r)
      BY <1>2, <1>3, <1>7, <3>1, <3>2, <3>3, <3>4, StandingMoves
    <3> QED
      BY <1>1, <1>5, <3>2, <3>5, RelayedStands DEF x
  <2> QED
    BY <1>1, <2>2, <2>3, <2>4
<1>11. CurrentBelow'
  BY <1>1, <1>2, <1>4, <1>5 DEF CurrentBelow, Interrupt
<1> QED
  BY <1>5, <1>8, <1>9, <1>10, <1>11 DEF MessageOnItsWay

----------------------------------------------------------------------------
(***************************************************************************)
(* The second invariant, step by step: the commands.                       *)
(***************************************************************************)
(* Steps between which no one may write to the serial line.                *)
LEMMA QuietStep ==
  ASSUME MInv, history'.torn = history.torn,
         pc \notin {"scan", "halted", "load", "store"},
         pc' \in {"prompt", "demo_slice"},
         Untorn => k'.current < k'.nr_procese,
         k'.nr_procese = k.nr_procese,
         \A i \in InUse(k) : /\ k'.proc_table[i].id = k.proc_table[i].id
                             /\ Writes(k'.proc_table[i]) => Writes(k.proc_table[i])
  PROVE  MInv'
<1> SUFFICES ASSUME Untorn' PROVE /\ CurrentBelow'
                                  /\ InOrder(k.proc_table, Filled)'
                                  /\ WritersAwaited'
                                  /\ MessageOnItsWay'
  BY DEF MInv
<1>1. Untorn /\ InOrder(k.proc_table, Filled) /\ WritersAwaited
  BY DEF Untorn, MInv
<1>2. ~Storing /\ ~Storing' /\ ~MidPipeline'
  BY DEF Storing, Spawning, Awaiting, Ending, MidPipeline
<1>3. Filled = InUse(k) /\ Filled' = InUse(k)
  BY <1>2 DEF Filled, InUse
<1>4. CurrentBelow'
  BY <1>1 DEF CurrentBelow
<1>5. InOrder(k.proc_table, Filled)'
  BY <1>1, <1>3 DEF InOrder
<1>6. WritersAwaited'
  BY <1>1, <1>2, <1>3 DEF WritersAwaited
<1> QED
  BY <1>2, <1>4, <1>5, <1>6 DEF MessageOnItsWay

(* kill, wait, yield: blocks move their scheduling fields at most, or lose *)
(* their descriptors.                                                      *)
LEMMA LikeWrites ==
  ASSUME NEW b \in Blocks, NEW c \in Blocks, Like(b, c)
  PROVE  b.id = c.id /\ (Writes(b) => Writes(c))
BY LikeBlock DEF Writes

LEMMA KeptMessage ==
  ASSUME IInv, MInv, k' \in TablesOf(Blocks), KeepsBlocks(k, k'),
         pc = "prompt", pc' = "prompt", history' = history
  PROVE  MInv'
<1>1. k \in TablesOf(Blocks)
  BY DEF IInv, Typed
<1>2. \A i \in InUse(k) : /\ k'.proc_table[i].id = k.proc_table[i].id
                          /\ Writes(k'.proc_table[i]) => Writes(k.proc_table[i])
  BY <1>1, InUseAreSlots, LikeWrites DEF KeepsBlocks
<1>3. k'.nr_procese = k.nr_procese
  BY DEF KeepsBlocks
<1>4. Untorn => k'.current < k'.nr_procese
  BY <1>1, InUseAreSlots DEF KeepsBlocks, MInv, CurrentBelow
<1> QED
  BY <1>2, <1>3, <1>4, QuietStep

LEMMA KillMessage == ASSUME IInv, MInv, NEW pid, KillCommand(pid) PROVE MInv'
<1> DEFINE m == [k |-> k, pool |-> pool, output |-> <<>>]
           n == KillProcess(m, pid)
<1>1. /\ pc = "prompt" /\ pc' = "prompt" /\ k' = n.k /\ history' = history
  BY DEF KillCommand, Type
<1>2. k \in TablesOf(Blocks) /\ pool \in Pools
  BY DEF IInv, Typed
<1>3. m \in Machines /\ m.k = k
  BY <1>2 DEF Machines
<1> HIDE DEF m
<1>4. /\ k'.nr_procese = k.nr_procese /\ k'.current = k.current
      /\ \A i \in InUse(k) : /\ k'.proc_table[i].id = k.proc_table[i].id
                             /\ Writes(k'.proc_table[i]) => Writes(k.proc_table[i])
  <2>1. CASE pid \in InUse(k)
    <3>1. Quit(m, n, pid)
      BY <1>3, <2>1, ProcessKilled
    <3> HIDE DEF n
    <3>2. InUse(k) \subseteq Slots
      BY <1>2, InUseAreSlots
    <3> QED
      BY <1>1, <1>3, <3>1, <3>2 DEF Quit, Detached, Writes, FD_NONE, FD_UART_OUT
  <2>2. CASE pid \notin InUse(k)
    BY <1>1, <1>3, <2>2 DEF KillProcess
  <2> QED
    BY <2>1, <2>2
<1>5. Untorn => k'.current < k'.nr_procese
  BY <1>4 DEF MInv, CurrentBelow
<1> QED
  BY <1>1, <1>4, <1>5, QuietStep

LEMMA WaitMessage == ASSUME IInv, MInv, WaitCommand PROVE MInv'
<1>1. PICK pid \in Slots, ticks \in WaitArgs : k' = Wait(k, pid, ticks)
  BY DEF WaitCommand
<1>2. k \in TablesOf(Blocks) /\ ticks \in Nat
  BY ShellAssumption DEF IInv, Typed
<1>3. k' \in TablesOf(Blocks) /\ KeepsBlocks(k, k')
  BY <1>1, <1>2, BlocksAreControl, Waited
<1> QED
  BY <1>3, KeptMessage DEF WaitCommand, Type

LEMMA YieldMessage == ASSUME IInv, MInv, YieldCommand PROVE MInv'
<1>1. k' = Yield(k) /\ k \in TablesOf(Blocks)
  BY DEF YieldCommand, IInv, Typed
<1>2. k' \in TablesOf(Blocks) /\ KeepsBlocks(k, k')
  BY <1>1, BlocksAreControl, Yielded
<1> QED
  BY <1>2, KeptMessage DEF YieldCommand, Type

LEMMA ModeMessage == ASSUME IInv, MInv, ModeCommand PROVE MInv'
<1>1. PICK preemptive \in BOOLEAN : k' = [k EXCEPT !.preemptive_mode = preemptive]
  BY DEF ModeCommand, SetMode
<1>2. /\ k' \in TablesOf(Blocks) /\ k'.proc_table = k.proc_table
      /\ k'.nr_procese = k.nr_procese /\ k'.current = k.current
  BY <1>1 DEF IInv, Typed, TablesOf
<1>3. KeepsBlocks(k, k')
  BY <1>2, LikeItself DEF KeepsBlocks
<1> QED
  BY <1>2, <1>3, KeptMessage DEF ModeCommand, SetMode, Type

(* The table is in order, and one more process arrives.                    *)
LEMMA ArrivalInOrder ==
  ASSUME NEW t, NEW a, NEW F, NEW n \in Int, F \subseteq Int, \A i \in F : i < n,
         NEW id \in Nat, \A i \in F : t[i].id \in Nat /\ t[i].id < id,
         \A i \in F : a[i] = t[i], a[n].id = id, InOrder(t, F)
  PROVE  InOrder(a, F \cup {n})
<1> SUFFICES ASSUME NEW i \in F \cup {n}, NEW j \in F \cup {n}, i < j
             PROVE  a[i].id < a[j].id
  BY DEF InOrder
<1>1. CASE i \in F /\ j \in F
  BY <1>1 DEF InOrder
<1>2. CASE i \in F /\ j = n
  BY <1>2
<1>3. CASE i = n
  BY <1>3
<1> QED
  BY <1>1, <1>2, <1>3

LEMMA ExecMessage ==
  ASSUME IInv, MInv, NEW program \in Programs, ExecCommand(program) PROVE MInv'
<1> DEFINE id == history.born + 1
           n  == k.nr_procese
           b  == Block(id, program, LoadTicks, FALSE, FD_UART_IN, FD_UART_OUT)
<1> SUFFICES ASSUME Untorn' PROVE /\ CurrentBelow'
                                  /\ InOrder(k.proc_table, Filled)'
                                  /\ WritersAwaited'
                                  /\ MessageOnItsWay'
  BY DEF MInv
<1>1. /\ pc = "prompt" /\ k' = Add(k, b)
      /\ history' = [history EXCEPT !.born = id]
      /\ pc' = "scan" /\ scan' = 0 /\ target' = program
  BY DEF ExecCommand, Type
<1>2. k \in TablesOf(Blocks) /\ history \in Histories /\ history.born \in Nat
  BY DEF IInv, Typed, Histories
<1>3. Untorn /\ InOrder(k.proc_table, Filled) /\ WritersAwaited /\ CurrentBelow
  BY <1>1, <1>2 DEF MInv, Untorn, Histories
<1>4. /\ b \in Blocks /\ b.id = id /\ b.state = "READY" /\ b.entry = program
  <2>1. FD_UART_IN \in Fds /\ FD_UART_OUT \in Fds /\ program \in Programs \cup {"demo"}
    BY DEF Fds
  <2>2. id \in Nat
    BY <1>2
  <2> HIDE DEF id
  <2> QED
    BY <2>1, <2>2, SizesArePositive DEF Block, Blocks, States
<1> HIDE DEF b
<1>5. program # "tagged"
  BY DEF Programs
<1>6. ~Storing /\ ~Storing' /\ ~MidPipeline' /\ pc' # "demo_current"
  BY <1>1, <1>5 DEF Storing, Spawning, Awaiting, Ending, MidPipeline
<1>7. Filled = InUse(k) /\ Filled' = InUse(k')
  BY <1>6 DEF Filled
<1>8. \A i \in InUse(k) : ~Writes(k.proc_table[i])
  BY <1>1, <1>3, <1>6, <1>7 DEF WritersAwaited
<1>9. CASE n < MAX_PROCESSES
  <2>1. /\ k'.nr_procese = n + 1 /\ k'.current = k.current
        /\ InUse(k') = InUse(k) \cup {n} /\ n \notin InUse(k) /\ n \in Slots
        /\ k'.proc_table[n] = b
        /\ \A j \in Slots \ {n} : k'.proc_table[j] = k.proc_table[j]
    BY <1>1, <1>2, <1>4, <1>9, BlocksAreControl, Added
  <2>2. /\ InUse(k) \subseteq Slots /\ n \in Nat
        /\ \A i \in InUse(k) : i \in Nat /\ i < n /\ k'.proc_table[i] = k.proc_table[i]
    BY <1>2, <2>1, InUseAreSlots
  <2>3. CurrentBelow'
    BY <1>2, <1>3, <1>6, <2>1, <2>2 DEF CurrentBelow, TablesOf
  <2>4. InOrder(k'.proc_table, InUse(k'))
    <3>1. \A i \in InUse(k) : k.proc_table[i].id \in Nat /\ k.proc_table[i].id <= history.born
      BY <1>3, <1>7 DEF IInv, SoundUntilTorn, Wired, StagesKnown, Progress
    <3>2. \A i \in InUse(k) : k.proc_table[i].id \in Nat /\ k.proc_table[i].id < id
      BY <1>2, <3>1
    <3>3. id \in Nat /\ n \in Int /\ InUse(k) \subseteq Int
      BY <1>2, <2>2
    <3>4. InOrder(k.proc_table, InUse(k)) /\ k'.proc_table[n].id = id
      BY <1>3, <1>4, <1>7, <2>1
    <3> HIDE DEF id, n
    <3>5. InOrder(k'.proc_table, InUse(k) \cup {n})
      BY <2>2, <3>2, <3>3, <3>4, ArrivalInOrder
    <3> QED
      BY <2>1, <3>5
  <2>5. WritersAwaited'
    <3> SUFFICES ASSUME NEW i \in InUse(k'), Writes(k'.proc_table[i])
                 PROVE  i >= scan' /\ Awaited(k.proc_table[i])'
      BY <1>1, <1>7 DEF WritersAwaited
    <3>1. i = n
      BY <1>8, <2>1, <2>2
    <3> QED
      BY <1>1, <1>4, <1>5, <2>1, <2>2, <3>1 DEF Awaited
  <2> QED
    BY <1>6, <1>7, <2>3, <2>4, <2>5 DEF MessageOnItsWay
<1>10. CASE ~(n < MAX_PROCESSES)
  <2>1. k' = k
    BY <1>1, <1>10 DEF Add
  <2> QED
    BY <1>3, <1>6, <1>7, <1>8, <2>1 DEF MessageOnItsWay, CurrentBelow, WritersAwaited
<1> QED
  BY <1>9, <1>10

LEMMA DemoMessage == ASSUME IInv, MInv, DemoCommand PROVE MInv'
<1> DEFINE born == history.born
<1> SUFFICES ASSUME Untorn' PROVE /\ CurrentBelow'
                                  /\ InOrder(k.proc_table, Filled)'
                                  /\ WritersAwaited'
                                  /\ MessageOnItsWay'
  BY DEF MInv
<1>1. /\ pc = "prompt" /\ pc' = "demo_current" /\ k.nr_procese = 0
      /\ k' = [k EXCEPT !.proc_table = DemoBlocks, !.nr_procese = 3]
      /\ history' = [history EXCEPT !.born = born + 3]
  BY DEF DemoCommand, Type
<1>2. k \in TablesOf(Blocks) /\ history \in Histories /\ born \in Nat
  BY DEF IInv, Typed, Histories
<1>3. Untorn /\ CurrentBelow
  BY <1>1, <1>2 DEF MInv, Untorn, Histories
<1>4. 0 .. 2 \subseteq Slots
  BY ShellAssumption, TableAssumption DEF Slots
<1>5. \A i \in 0 .. 2 : DemoBlocks[i].id = born + i + 1 /\ DemoBlocks[i].entry = "demo"
  BY <1>4 DEF DemoBlocks, Block
<1>6. /\ k'.proc_table = DemoBlocks /\ k'.nr_procese = 3 /\ k'.current = k.current
      /\ InUse(k') = 0 .. 2
  <2>1. k'.proc_table = DemoBlocks /\ k'.nr_procese = 3 /\ k'.current = k.current
    BY <1>1, <1>2 DEF TablesOf
  <2> QED
    BY <2>1 DEF InUse
<1>7. ~Storing' /\ ~MidPipeline' /\ Filled' = 0 .. 2
  BY <1>1, <1>6 DEF Storing, Spawning, Awaiting, Ending, MidPipeline, Filled
<1>8. CurrentBelow'
  <2>1. k.current \in Int
    BY <1>2, TableAssumption DEF TablesOf
  <2> QED
    BY <1>1, <1>3, <1>6, <2>1 DEF CurrentBelow
<1>9. InOrder(k'.proc_table, 0 .. 2)
  BY <1>2, <1>5, <1>6 DEF InOrder
<1>10. WritersAwaited'
  BY <1>5, <1>6, <1>7 DEF WritersAwaited, Writes, Programs
<1> QED
  BY <1>7, <1>8, <1>9, <1>10 DEF MessageOnItsWay

LEMMA DemoCurrentMessage == ASSUME IInv, MInv, DemoCurrent PROVE MInv'
<1>1. /\ pc = "demo_current" /\ k' = [k EXCEPT !.current = 0] /\ pc' = "demo_slice"
      /\ history' = history
  BY DEF DemoCurrent
<1>2. /\ k'.proc_table = k.proc_table /\ k'.nr_procese = k.nr_procese /\ k'.current = 0
  BY <1>1 DEF IInv, Typed, TablesOf
<1>3. Untorn => k'.current < k'.nr_procese
  BY <1>1, <1>2 DEF MInv, CurrentBelow, IInv, Typed, TablesOf
<1> QED
  BY <1>1, <1>2, <1>3, QuietStep

LEMMA DemoSliceMessage == ASSUME IInv, MInv, DemoSlice PROVE MInv'
<1>1. pc = "demo_slice" /\ k' = [k EXCEPT !.slice = 0] /\ pc' = "prompt" /\ history' = history
  BY DEF DemoSlice
<1>2. /\ k'.proc_table = k.proc_table /\ k'.nr_procese = k.nr_procese /\ k'.current = k.current
  BY <1>1 DEF IInv, Typed, TablesOf
<1> QED
  BY <1>1, <1>2, QuietStep DEF MInv, CurrentBelow

LEMMA UnsupportedMessage == ASSUME IInv, MInv, UnsupportedStage PROVE MInv'
<1>1. /\ pc = "spawn" /\ pc' = "prompt" /\ k' = k /\ history'.torn = history.torn
  BY DEF UnsupportedStage, IInv, Typed, Histories
<1> QED
  BY <1>1, QuietStep DEF MInv, CurrentBelow

LEMMA ClosePipesMessage == ASSUME IInv, MInv, ClosePipes PROVE MInv'
<1>1. pc = "close" /\ pc' = "prompt" /\ k' = k /\ history' = history
  BY DEF ClosePipes
<1> QED
  BY <1>1, QuietStep DEF MInv, CurrentBelow

(* The pipeline begins: every pipe is empty, nothing is printed, and no    *)
(* stage has been tried.                                                   *)
LEMMA PipelineMessage == ASSUME IInv, MInv, PipelineCommand PROVE MInv'
<1> SUFFICES ASSUME Untorn' PROVE /\ CurrentBelow'
                                  /\ InOrder(k.proc_table, Filled)'
                                  /\ WritersAwaited'
                                  /\ MessageOnItsWay'
  BY DEF MInv
<1>1. PICK p \in Pipelines :
        LET ids == FirstFree(Len(p) - 1)
            all == Cardinality(ids) = Len(p) - 1
        IN  /\ stages' = p
            /\ \E fds \in [1 .. Cardinality(ids) -> ids] :
                 /\ \A i, j \in DOMAIN fds : i < j => fds[i] < fds[j]
                 /\ pipe_fds' = fds
            /\ pool' = [id \in DOMAIN pool |-> IF id \in ids THEN Fifo!Emptied ELSE pool[id]]
            /\ pc' = IF all THEN "spawn" ELSE "prompt"
            /\ history' = [history EXCEPT !.spawned = {}, !.output = <<>>,
                                          !.aborted = history.aborted \/ ~all]
  BY DEF PipelineCommand
<1> DEFINE ids == FirstFree(Len(p) - 1)
           n   == Cardinality(ids)
           all == n = Len(p) - 1
<1>2. PICK fds \in [1 .. n -> ids] : pipe_fds' = fds
  BY <1>1
<1>3. /\ pc = "prompt" /\ stage' = 1 /\ k' = k /\ stages' = p
      /\ pool' = [id \in DOMAIN pool |-> IF id \in ids THEN Fifo!Emptied ELSE pool[id]]
      /\ pc' = IF all THEN "spawn" ELSE "prompt"
  BY <1>1 DEF PipelineCommand
<1>4. /\ history'.born = history.born /\ history'.spawned = {} /\ history'.output = <<>>
      /\ history'.torn = history.torn /\ history.born \in Nat
  BY <1>1 DEF IInv, Typed, Histories
<1>5. pool \in Pools /\ Len(p) \in 2 .. 4
  BY ShellAssumption DEF IInv, Typed
<1>6. ids \subseteq DOMAIN pool
  BY <1>5 DEF FirstFree, Fifo!Unused, Fifo!PipeIds, Pools, PipeIds
<1>7. \A id \in ids : pool'[id].content = <<>>
  <2> HIDE DEF ids, all
  <2> QED
    BY <1>3, <1>6 DEF Fifo!Emptied
<1> HIDE DEF ids
<1>8. Untorn /\ InOrder(k.proc_table, Filled) /\ WritersAwaited /\ CurrentBelow
  BY <1>4 DEF MInv, Untorn
<1>9. /\ ~Storing /\ ~Storing' /\ Filled = InUse(k) /\ Filled' = InUse(k)
      /\ pc' # "demo_current" /\ (MidPipeline' => all) /\ (MidPipeline' => Spawning')
  BY <1>3 DEF Storing, Spawning, Awaiting, Ending, MidPipeline, Filled
<1>10. \A i \in InUse(k) : ~Writes(k.proc_table[i])
  BY <1>3, <1>8, <1>9 DEF WritersAwaited
<1>11. CurrentBelow' /\ InOrder(k.proc_table, Filled)' /\ WritersAwaited'
  BY <1>3, <1>8, <1>9, <1>10 DEF CurrentBelow, WritersAwaited
<1>12. ASSUME MidPipeline' PROVE
        \E base \in 0 .. history'.born :
          /\ LineSound(Line(base))'
          /\ (Regular(Line(base)) /\ Complete(Line(base)))' =>
               \E q \in 0 .. Tried' : Relayed(k, Filled, pool, history.output, Line(base), q)'
  <2>0. PICK base \in 0 .. history.born : base = history.born
    BY <1>4
  <2> DEFINE x == [base |-> base, tried |-> 0, stages |-> p, fds |-> fds]
  <2>1. Tried' = 0
    BY <1>3, <1>9 DEF Tried
  <2>2. Line(base)' = x
    BY <1>2, <1>3, <1>4, <2>1 DEF Line
  <2>3. /\ x.base = base /\ x.tried = 0 /\ x.stages = p /\ x.fds = fds
        /\ DOMAIN fds = 1 .. Len(p) - 1 /\ \A s \in 1 .. Len(p) - 1 : fds[s] \in ids
    BY <1>9, <1>12
  <2>4. /\ base \in 0 .. history'.born /\ history'.born <= base + 0
        /\ history'.spawned = base + 1 .. history'.born
    BY <1>4, <2>0
  <2> HIDE DEF x
  <2>5. LineSound(Line(base))'
    <3>1. /\ Len(p) \in Nat /\ Len(p) >= 2 /\ 0 \in 0 .. Len(p)
      <4>1. \A l \in 2 .. 4 : l \in Nat /\ l >= 2 /\ 0 \in 0 .. l
        OBVIOUS
      <4> QED
        BY <1>5, <4>1
    <3> QED
      BY <1>9, <1>12, <2>2, <2>3, <2>4, <3>1 DEF LineSound
  <2>6. Relayed(k', InUse(k), pool', history'.output, x, 0)
    <3>1. \A i \in InUse(k) : ~(k.proc_table[i].id > base)
      <4>1. \A i \in InUse(k) : k.proc_table[i].id \in Nat /\ k.proc_table[i].id <= history.born
        BY <1>8, <1>9 DEF IInv, SoundUntilTorn, Wired, StagesKnown, Progress
      <4> QED
        BY <1>4, <2>0, <4>1
    <3>2. Who(k.proc_table, InUse(k), x)
      BY <1>10, <2>3, <3>1 DEF Who
    <3>3. FirstGone(k.proc_table, InUse(k), x, 0)
      BY DEF FirstGone
    <3>4. RestToCome(k, InUse(k), x, 0)
      BY <2>3 DEF RestToCome
    <3>5. MessageAt(pool', history'.output, x, 0)
      <4>1. \A s \in 1 .. Len(p) - 1 : s # 0
        OBVIOUS
      <4>2. 0 # Len(p)
        BY <1>5
      <4> QED
        BY <1>4, <1>7, <2>3, <4>1, <4>2 DEF MessageAt
    <3>6. 0 \in 0 .. x.tried
      BY <2>3
    <3> QED
      BY <1>3, <3>2, <3>3, <3>4, <3>5, <3>6 DEF Relayed
  <2>7. Relayed(k, Filled, pool, history.output, Line(base), 0)' /\ 0 \in 0 .. Tried'
    BY <1>9, <2>1, <2>2, <2>6
  <2> QED
    BY <2>4, <2>5, <2>7
<1> QED
  BY <1>11, <1>12 DEF MessageOnItsWay

----------------------------------------------------------------------------
(***************************************************************************)
(* The second invariant, step by step: the stages are spawned.             *)
(***************************************************************************)
(* A stage that finds the table full has no process: the pipeline will not *)
(* be complete.                                                            *)
LEMMA SpawnRefusedMessage == ASSUME IInv, MInv, SpawnRefused PROVE MInv'
<1> SUFFICES ASSUME Untorn' PROVE /\ CurrentBelow'
                                  /\ InOrder(k.proc_table, Filled)'
                                  /\ WritersAwaited'
                                  /\ MessageOnItsWay'
  BY DEF MInv
<1>1. /\ pc = "spawn" /\ NextStage
      /\ UNCHANGED <<k, pool, stages, pipe_fds, history>>
  BY DEF SpawnRefused
<1>2. Typed /\ Untorn /\ InOrder(k.proc_table, Filled) /\ WritersAwaited /\ CurrentBelow
      /\ MessageOnItsWay
  BY <1>1 DEF IInv, MInv, Untorn
<1>3. /\ pc' \in {"spawn", "scan"} /\ stage' = stage + 1
      /\ Spawning /\ MidPipeline /\ ~Storing' /\ (Spawning' => pc' = "spawn")
  BY <1>1, <1>2, StageOver
<1>4. ~Storing /\ Filled = InUse(k) /\ Filled' = InUse(k)
  BY <1>1, <1>3 DEF Storing, Filled
<1>5. CurrentBelow' /\ InOrder(k.proc_table, Filled)' /\ WritersAwaited'
  BY <1>1, <1>2, <1>3, <1>4 DEF CurrentBelow, WritersAwaited
<1>6. PICK base \in 0 .. history.born : LineSound(Line(base))
  BY <1>2, <1>3 DEF MessageOnItsWay
<1>7. stage \in 1 .. Len(stages) /\ Len(stages) \in Nat /\ history.born \in Nat
  BY <1>2, <1>3 DEF Typed, Histories
<1>8. /\ Tried = stage - 1 /\ Tried' = stage
      /\ Line(base).tried = stage - 1 /\ Line(base)'.tried = stage
      /\ Line(base).base = base /\ Line(base)'.base = base
      /\ Line(base).stages = stages /\ Line(base)'.stages = stages
      /\ Line(base).fds = pipe_fds /\ Line(base)'.fds = pipe_fds
  BY <1>1, <1>3, <1>4, <1>7 DEF Tried, Line
<1>9. /\ stage >= 1 /\ stage - 1 >= 0
      /\ history.born <= base + (stage - 1) /\ history.spawned = base + 1 .. history.born
      /\ Len(stages) >= 2 /\ DOMAIN pipe_fds = 1 .. Len(stages) - 1
  BY <1>6, <1>7, <1>8 DEF LineSound
<1>10. ~Spawning' => stage = Len(stages)
  <2>1. ~(stage < Len(stages)) \/ pc' = "spawn"
    BY <1>1 DEF NextStage
  <2> QED
    BY <1>7, <2>1 DEF Spawning
<1>11. LineSound(Line(base))'
  <2>1. stage \in 0 .. Len(stages) /\ history.born <= base + stage
    BY <1>7, <1>9
  <2> QED
    BY <1>1, <1>7, <1>8, <1>9, <1>10, <2>1 DEF LineSound
<1>12. ~Complete(Line(base))'
  <2>1. history.born # base + stage
    BY <1>7, <1>9
  <2> QED
    BY <1>1, <1>8, <2>1 DEF Complete
<1>13. base \in 0 .. history'.born
  BY <1>1
<1> QED
  BY <1>5, <1>11, <1>12, <1>13 DEF MessageOnItsWay

LEMMA SpawnStoreMessage == ASSUME IInv, MInv, SpawnStore PROVE MInv'
<1> SUFFICES ASSUME Untorn' PROVE /\ CurrentBelow'
                                  /\ InOrder(k.proc_table, Filled)'
                                  /\ WritersAwaited'
                                  /\ MessageOnItsWay'
  BY DEF MInv
<1>1. /\ pc = "store" /\ NextStage /\ k' = [k EXCEPT !.nr_procese = nr_loaded + 1]
      /\ UNCHANGED <<pool, stages, pipe_fds, history>>
  BY DEF SpawnStore
<1>2. Typed /\ Untorn /\ InOrder(k.proc_table, Filled) /\ WritersAwaited /\ CurrentBelow
      /\ MessageOnItsWay /\ TableSound
  BY <1>1 DEF IInv, MInv, SoundUntilTorn, Untorn
<1>3. /\ pc' \in {"spawn", "scan"} /\ stage' = stage + 1 /\ scan' = 0 /\ target' = "tagged"
      /\ Spawning /\ MidPipeline /\ ~Storing' /\ (Spawning' => pc' = "spawn")
  BY <1>1, <1>2, StageOver
<1>4. /\ Storing /\ nr_loaded = k.nr_procese /\ k.nr_procese \in Nat
      /\ k'.proc_table = k.proc_table /\ k'.current = k.current
      /\ k'.nr_procese = k.nr_procese + 1
  BY <1>1, <1>2, InUseAreSlots DEF Typed, TablesOf, TableSound, Storing
<1>5. Filled' = Filled /\ Filled \subseteq Slots /\ Filled = InUse(k) \cup {k.nr_procese}
  <2>1. Filled' = InUse(k')
    BY <1>3 DEF Filled
  <2>2. Filled = InUse(k) \cup {k.nr_procese}
    BY <1>4 DEF Filled
  <2>3. InUse(k') = InUse(k) \cup {k.nr_procese}
    BY <1>4 DEF InUse
  <2> QED
    BY <1>2, <2>1, <2>2, <2>3, FilledAreSlots
<1>6. CurrentBelow' /\ InOrder(k.proc_table, Filled)'
  <2>1. k.current \in Int
    BY <1>2, TableAssumption DEF Typed, TablesOf
  <2> QED
    BY <1>2, <1>3, <1>4, <1>5, <2>1 DEF CurrentBelow
<1>7. stage \in 1 .. Len(stages) /\ Len(stages) \in Nat
  BY <1>2, <1>3 DEF Typed
<1>8. pc' = IF stage < Len(stages) THEN "spawn" ELSE "scan"
  BY <1>1 DEF NextStage
<1>9. WritersAwaited'
  <2> SUFFICES ASSUME NEW i \in Filled, Writes(k.proc_table[i])
               PROVE  pc' \in {"scan", "halted"} /\ i >= scan' /\ Awaited(k.proc_table[i])'
    BY <1>4, <1>5 DEF WritersAwaited
  <2>1. /\ stage = Len(stages) /\ i = k.nr_procese /\ k.proc_table[i].pipeline_tag
    BY <1>1, <1>2 DEF WritersAwaited
  <2>2. pc' = "scan" /\ i >= scan'
    BY <1>3, <1>4, <1>7, <1>8, <2>1
  <2>3. i \notin InUse(k)
    BY <1>4, <2>1 DEF InUse
  <2>4. k.proc_table[i].state = "READY"
    BY <1>2, <2>3 DEF TableSound
  <2> QED
    BY <1>3, <1>4, <2>1, <2>2, <2>4 DEF Awaited
<1>10. PICK base \in 0 .. history.born :
        /\ LineSound(Line(base))
        /\ Regular(Line(base)) /\ Complete(Line(base)) =>
             \E r \in 0 .. Tried :
               Relayed(k, Filled, pool, history.output, Line(base), r)
  BY <1>2, <1>3 DEF MessageOnItsWay
<1>11. Line(base)' = Line(base) /\ Tried' = Tried /\ Tried = stage
  BY <1>1, <1>3, <1>4, <1>7 DEF Line, Tried
<1>12. LineSound(Line(base))'
  <2>1. ~Spawning' => Line(base).tried = Len(Line(base).stages)
    <3>1. ~Spawning' => stage = Len(stages)
      BY <1>7, <1>8 DEF Spawning
    <3> QED
      BY <1>11, <3>1 DEF Line
  <2> QED
    BY <1>1, <1>10, <1>11, <2>1 DEF LineSound
<1>13. \A r : Relayed(k, Filled, pool, history.output, Line(base), r) =>
                Relayed(k, Filled, pool, history.output, Line(base), r)'
  BY <1>1, <1>4, <1>5, <1>11 DEF Relayed, RestToCome, ToCome
<1>14. (Regular(Line(base)) /\ Complete(Line(base)))' =>
         \E r \in 0 .. Tried' : Relayed(k, Filled, pool, history.output, Line(base), r)'
  <2>1. /\ Regular(Line(base))' = Regular(Line(base))
        /\ Complete(Line(base))' = Complete(Line(base))
    BY <1>1, <1>11 DEF Regular, Complete
  <2> QED
    BY <1>10, <1>11, <1>13, <2>1
<1> QED
  BY <1>1, <1>6, <1>9, <1>10, <1>12, <1>14 DEF MessageOnItsWay

(* The next stage, stage x.tried + 1, arrives at the end of the table.     *)
LEMMA StageJoins ==
  ASSUME NEW x, NEW y, x.base \in Nat, x.tried \in Nat,
         y.base = x.base, y.tried = x.tried + 1, y.stages = x.stages, y.fds = x.fds,
         NEW l, NEW a, NEW F, NEW n, NEW ps, NEW out, NEW r,
         Relayed(l, F, ps, out, x, r),
         \A i \in F : a.proc_table[i] = l.proc_table[i],
         \A i \in F : l.proc_table[i].id \in Nat,
         \A i \in F : ToCome(l, i) => ToCome(a, i),
         IsStage(a.proc_table[n], y, y.tried), ToCome(a, n)
  PROVE  Relayed(a, F \cup {n}, ps, out, y, r)
<1> DEFINE G == F \cup {n}
           s == y.tried
<1>1. /\ r \in 0 .. x.tried /\ Who(l.proc_table, F, x)
      /\ FirstGone(l.proc_table, F, x, r) /\ RestToCome(l, F, x, r)
      /\ MessageAt(ps, out, x, r)
  BY DEF Relayed
<1>2. s \in Nat /\ s = x.tried + 1 /\ y.base \in Nat /\ a.proc_table[n].id = y.base + s
  BY DEF IsStage
<1>3. MessageAt(ps, out, y, r) /\ r \in 0 .. y.tried
  BY <1>1 DEF MessageAt
<1>4. Who(a.proc_table, G, y)
  <2>1. ASSUME NEW i \in F
        PROVE  /\ a.proc_table[i].id > y.base =>
                    IsStage(a.proc_table[i], y, a.proc_table[i].id - y.base)
               /\ a.proc_table[i].id <= y.base => ~Writes(a.proc_table[i])
    <3> DEFINE p == l.proc_table[i]
    <3>1. p.id > x.base => IsStage(p, x, p.id - x.base)
      BY <1>1 DEF Who
    <3>2. p.id <= x.base => ~Writes(p)
      BY <1>1 DEF Who
    <3>3. a.proc_table[i] = p /\ p.id \in Nat
      OBVIOUS
    <3> HIDE DEF p
    <3>4. IsStage(p, x, p.id - x.base) => IsStage(p, y, p.id - y.base)
      BY <3>3 DEF IsStage, StdinOf, StdoutOf
    <3> QED
      BY <3>1, <3>2, <3>3, <3>4
  <2>2. /\ a.proc_table[n].id > y.base
        /\ a.proc_table[n].id - y.base = s
    BY <1>2, <1>1
  <2>3. IsStage(a.proc_table[n], y, a.proc_table[n].id - y.base)
    BY <2>2
  <2>4. ~(a.proc_table[n].id <= y.base)
    BY <1>2, <1>1
  <2> QED
    BY <2>1, <2>3, <2>4 DEF Who
<1>5. FirstGone(a.proc_table, G, y, r)
  <2> SUFFICES ASSUME r >= 1, NEW i \in G PROVE a.proc_table[i].id # y.base + 1
    BY DEF FirstGone
  <2>1. CASE i \in F
    BY <1>1, <2>1 DEF FirstGone
  <2>2. CASE i = n
    BY <1>1, <1>2, <2>2
  <2> QED
    BY <2>1, <2>2
<1>6. RestToCome(a, G, y, r)
  <2> SUFFICES ASSUME NEW q \in r + 1 .. s
               PROVE  \E i \in G : a.proc_table[i].id = y.base + q /\ ToCome(a, i)
    BY DEF RestToCome
  <2>1. CASE q = s
    BY <1>2, <2>1
  <2>2. CASE q # s
    <3>1. q \in r + 1 .. x.tried
      BY <1>1, <1>2, <2>2
    <3>2. PICK i \in F : l.proc_table[i].id = x.base + q /\ ToCome(l, i)
      BY <1>1, <3>1 DEF RestToCome
    <3> QED
      BY <3>2
  <2> QED
    BY <2>1, <2>2
<1> QED
  BY <1>3, <1>4, <1>5, <1>6 DEF Relayed

LEMMA SpawnFillMessage == ASSUME IInv, MInv, SpawnFill PROVE MInv'
<1> DEFINE n      == k.nr_procese
           id     == history.born + 1
           sp     == history.spawned \cup {id}
           stdin  == IF stage = 1 THEN FD_UART_IN
                     ELSE FD_MAKE_PIPE(pipe_fds[stage - 1], 0)
           stdout == IF stage = Len(stages) THEN FD_UART_OUT
                     ELSE FD_MAKE_PIPE(pipe_fds[stage], 1)
           b      == Block(id, stages[stage], StageTicks, TRUE, stdin, stdout)
           t      == [k.proc_table EXCEPT ![n] = b]
<1> SUFFICES ASSUME Untorn' PROVE /\ CurrentBelow'
                                  /\ InOrder(k.proc_table, Filled)'
                                  /\ WritersAwaited'
                                  /\ MessageOnItsWay'
  BY DEF MInv
<1>1. /\ pc = "spawn" /\ pc' = "load" /\ n < MAX_PROCESSES
      /\ k' = [k EXCEPT !.proc_table = t]
      /\ UNCHANGED <<pool, stages, stage, pipe_fds>>
  BY DEF SpawnFill, Fifo!ReadEnd, Fifo!WriteEnd, Parameters
<1>2. /\ history'.born = id /\ history'.spawned = sp /\ history'.torn = history.torn
      /\ history'.output = history.output /\ history.born \in Nat
  <2>1. history' = [history EXCEPT !.born = id, !.spawned = sp]
    BY DEF SpawnFill
  <2>2. history \in Histories
    BY DEF IInv, Typed
  <2> HIDE DEF id, sp
  <2> QED
    BY <2>1, <2>2 DEF Histories
<1>3. Untorn /\ InOrder(k.proc_table, Filled) /\ WritersAwaited /\ CurrentBelow
      /\ MessageOnItsWay
  BY <1>2 DEF MInv, Untorn
<1>4. /\ ~Storing /\ Storing' /\ Spawning /\ Spawning' /\ MidPipeline /\ Filled = InUse(k)
      /\ pc' # "demo_current"
  BY <1>1 DEF Storing, Spawning, MidPipeline, Filled
<1>5. /\ stage \in 1 .. Len(stages) /\ Len(stages) \in Nat /\ stage \in Nat
      /\ DOMAIN pipe_fds = 1 .. Len(stages) - 1 /\ Range(pipe_fds) \subseteq PipeIds
  BY <1>4 DEF IInv, Typed
<1>6. /\ b.id = id /\ b.state = "READY" /\ b.pipeline_tag /\ b.entry = stages[stage]
      /\ b.stdin = stdin /\ b.stdout = stdout
  BY DEF Block
<1>7. stage # Len(stages) => stdout # FD_UART_OUT
  <2> SUFFICES ASSUME stage # Len(stages) PROVE FD_MAKE_PIPE(pipe_fds[stage], 1) # FD_UART_OUT
    OBVIOUS
  <2>1. stage \in DOMAIN pipe_fds
    BY <1>5
  <2>2. pipe_fds[stage] \in PipeIds /\ 1 \in {0, 1}
    BY <1>5, <2>1 DEF Range
  <2>3. IsPipe(FD_MAKE_PIPE(pipe_fds[stage], 1))
    BY <2>2, FdOfPipe
  <2> QED
    BY <2>3 DEF IsPipe, FD_UART_OUT
<1> HIDE DEF b
<1>8. /\ k \in TablesOf(Blocks) /\ n \in Slots /\ n \in Int /\ InUse(k) \subseteq Slots
      /\ \A i \in InUse(k) : i \in Int /\ i < n
  <2>1. k \in TablesOf(Blocks)
    BY DEF IInv, Typed
  <2> QED
    BY <1>1, <2>1, InUseAreSlots, SizesArePositive DEF Slots
<1>9. /\ t[n] = b /\ \A j \in InUse(k) : t[j] = k.proc_table[j]
  BY <1>8 DEF TablesOf
<1> HIDE DEF t
<1>10. /\ k'.proc_table = t /\ k'.nr_procese = n /\ k'.current = k.current
       /\ Filled' = InUse(k) \cup {n}
  <2>1. k'.proc_table = t /\ k'.nr_procese = n /\ k'.current = k.current
    BY <1>1, <1>8 DEF TablesOf
  <2> QED
    BY <1>4, <2>1 DEF Filled, InUse
<1>11. \A i \in InUse(k) : k.proc_table[i].id \in Nat /\ k.proc_table[i].id <= history.born
  BY <1>3, <1>4 DEF IInv, SoundUntilTorn, Wired, StagesKnown, Progress
<1>12. CurrentBelow'
  BY <1>3, <1>4, <1>10 DEF CurrentBelow
<1>13. InOrder(t, InUse(k) \cup {n})
  <2>1. \A i \in InUse(k) : k.proc_table[i].id \in Nat /\ k.proc_table[i].id < id
    BY <1>2, <1>11
  <2>2. id \in Nat /\ InUse(k) \subseteq Int /\ t[n].id = id
    BY <1>2, <1>6, <1>8, <1>9
  <2>3. InOrder(k.proc_table, InUse(k))
    BY <1>3, <1>4
  <2> HIDE DEF id, n
  <2> QED
    BY <1>8, <1>9, <2>1, <2>2, <2>3, ArrivalInOrder
<1>14. WritersAwaited'
  <2> SUFFICES ASSUME NEW i \in InUse(k) \cup {n}, Writes(t[i])
               PROVE  stage = Len(stages) /\ i = n /\ t[i].pipeline_tag
    BY <1>1, <1>4, <1>10 DEF WritersAwaited
  <2>1. i \notin InUse(k)
    BY <1>1, <1>3, <1>4, <1>9 DEF WritersAwaited
  <2>2. i = n /\ t[i] = b
    BY <1>9, <2>1
  <2> HIDE DEF stdout
  <2> QED
    BY <1>6, <1>7, <2>2 DEF Writes
<1>15. MessageOnItsWay'
  <2>1. PICK base \in 0 .. history.born :
        /\ LineSound(Line(base))
        /\ Regular(Line(base)) /\ Complete(Line(base)) =>
             \E r \in 0 .. Tried :
               Relayed(k, Filled, pool, history.output, Line(base), r)
    BY <1>3, <1>4 DEF MessageOnItsWay
  <2>2. PICK x : x = Line(base)
    OBVIOUS
  <2>3. /\ x.base = base /\ x.tried = stage - 1 /\ x.stages = stages /\ x.fds = pipe_fds
        /\ Tried = stage - 1
    BY <1>4, <2>2 DEF Line, Tried
  <2>4. PICK y : y = Line(base)'
    OBVIOUS
  <2>5. /\ y.base = base /\ y.tried = stage /\ y.stages = stages /\ y.fds = pipe_fds
        /\ Tried' = stage
    BY <1>1, <1>4, <2>4 DEF Line, Tried
  <2>6. /\ base \in Nat /\ base <= history.born /\ history.born <= base + (stage - 1)
        /\ history.spawned = base + 1 .. history.born
        /\ Len(stages) >= 2 /\ stage >= 1
    BY <1>2, <1>5, <2>1, <2>2, <2>3 DEF LineSound
  <2>7. LineSound(Line(base))' /\ base \in 0 .. history'.born
    <3>1. /\ stage \in 0 .. Len(stages) /\ base \in 0 .. id /\ id <= base + stage
          /\ sp = base + 1 .. id
      BY <1>2, <1>5, <2>6
    <3> HIDE DEF id, sp
    <3> QED
      BY <1>1, <1>2, <1>4, <1>5, <2>4, <2>5, <2>6, <3>1 DEF LineSound
  <2>8. ASSUME (Regular(Line(base)) /\ Complete(Line(base)))'
        PROVE  \E r \in 0 .. Tried' : Relayed(k, Filled, pool, history.output, Line(base), r)'
    <3>1. id = base + stage /\ Regular(y)
      BY <1>2, <2>4, <2>5, <2>8 DEF Complete, Regular
    <3>2. Regular(x) /\ Complete(x)
      <4>1. history.born = base + (stage - 1)
        BY <1>2, <1>5, <2>6, <3>1
      <4> QED
        BY <2>3, <2>5, <3>1, <4>1 DEF Complete, Regular
    <3>3. PICK r \in 0 .. Tried : Relayed(k, InUse(k), pool, history.output, x, r)
      BY <1>4, <2>1, <2>2, <3>2
    <3>4. IsStage(t[n], y, y.tried)
      <4>1. stage \in 1 .. stage
        BY <1>5
      <4>2. stdin = StdinOf(y, stage) /\ stdout = StdoutOf(y, stage)
        BY <2>5 DEF StdinOf, StdoutOf
      <4> HIDE DEF stdin, stdout
      <4> QED
        BY <1>6, <1>9, <2>5, <3>1, <4>1, <4>2 DEF IsStage
    <3>5. ToCome(k', n)
      <4>1. k.current \in Int
        BY <1>8, TableAssumption DEF TablesOf
      <4>2. k.current <= n
        BY <1>3, <1>8, <4>1 DEF CurrentBelow
      <4> QED
        BY <1>6, <1>9, <1>10, <4>2 DEF ToCome, Runnable
    <3>6. \A i \in InUse(k) : /\ k'.proc_table[i] = k.proc_table[i]
                              /\ k.proc_table[i].id \in Nat
                              /\ ToCome(k, i) => ToCome(k', i)
      BY <1>9, <1>10, <1>11 DEF ToCome
    <3>7. /\ x.base \in Nat /\ x.tried \in Nat
          /\ y.base = x.base /\ y.tried = x.tried + 1 /\ y.stages = x.stages /\ y.fds = x.fds
      BY <1>5, <2>3, <2>5, <2>6
    <3>8. Relayed(k', InUse(k) \cup {n}, pool, history.output, y, r)
      <4>1. IsStage(k'.proc_table[n], y, y.tried)
        BY <1>10, <3>4
      <4> HIDE DEF n
      <4> QED
        BY <3>3, <3>5, <3>6, <3>7, <4>1, StageJoins
    <3>9. r \in 0 .. Tried'
      BY <1>5, <2>3, <2>5
    <3> QED
      BY <1>1, <1>2, <1>10, <2>4, <3>8, <3>9
  <2> QED
    BY <2>7, <2>8 DEF MessageOnItsWay
<1> QED
  BY <1>10, <1>12, <1>13, <1>14, <1>15

----------------------------------------------------------------------------
(***************************************************************************)
(* The second invariant, step by step: the stages are waited for.          *)
(***************************************************************************)
(* The shell only looks on.                                                *)
LEMMA LookedOn ==
  ASSUME MInv, UNCHANGED <<k, pool, stages, stage, pipe_fds, history>>,
         pc' = "demo_current" => pc = "demo_current",
         Storing' = Storing, Spawning' = Spawning, MidPipeline' => MidPipeline,
         Untorn /\ WritersAwaited => WritersAwaited'
  PROVE  MInv'
<1> SUFFICES ASSUME Untorn' PROVE /\ CurrentBelow'
                                  /\ InOrder(k.proc_table, Filled)'
                                  /\ WritersAwaited'
                                  /\ MessageOnItsWay'
  BY DEF MInv
<1>1. Untorn /\ InOrder(k.proc_table, Filled) /\ WritersAwaited /\ CurrentBelow
      /\ MessageOnItsWay
  BY DEF MInv, Untorn
<1>2. Filled' = Filled
  BY DEF Filled
<1>3. CurrentBelow' /\ InOrder(k.proc_table, Filled)' /\ WritersAwaited'
  BY <1>1, <1>2 DEF CurrentBelow
<1>4. ASSUME MidPipeline' PROVE
        \E base \in 0 .. history'.born :
          /\ LineSound(Line(base))'
          /\ (Regular(Line(base)) /\ Complete(Line(base)))' =>
               \E q \in 0 .. Tried' : Relayed(k, Filled, pool, history.output, Line(base), q)'
  <2>1. PICK base \in 0 .. history.born :
          /\ LineSound(Line(base))
          /\ Regular(Line(base)) /\ Complete(Line(base)) =>
               \E r \in 0 .. Tried :
                 Relayed(k, Filled, pool, history.output, Line(base), r)
    BY <1>1, <1>4 DEF MessageOnItsWay
  <2>2. /\ Line(base)' = Line(base)
        /\ LineSound(Line(base))' = LineSound(Line(base))
        /\ Regular(Line(base))' = Regular(Line(base))
        /\ Complete(Line(base))' = Complete(Line(base))
        /\ Tried' = Tried
    BY LineKept
  <2> QED
    BY <1>2, <2>1, <2>2
<1> QED
  BY <1>3, <1>4 DEF MessageOnItsWay

LEMMA SpawnLoadMessage == ASSUME MInv, SpawnLoad PROVE MInv'
<1>1. /\ pc = "load" /\ pc' = "store"
      /\ UNCHANGED <<k, pool, stages, stage, pipe_fds, history>>
  BY DEF SpawnLoad
<1>2. /\ Storing /\ Storing' = Storing /\ Spawning' = Spawning /\ MidPipeline
  BY <1>1 DEF Storing, Spawning, MidPipeline
<1>3. WritersAwaited => WritersAwaited'
  BY <1>1, <1>2 DEF WritersAwaited, Filled
<1> QED
  BY <1>1, <1>2, <1>3, LookedOn

LEMMA ScanMessage ==
  ASSUME IInv, MInv, ScanNext \/ ScanFound \/ ScanEnd PROVE MInv'
<1>1. /\ pc = "scan" /\ pc' \in {"scan", "halted", "clear", "prompt"}
      /\ pc' = "clear" => target = "tagged"
      /\ target' = target
      /\ UNCHANGED <<k, pool, stages, stage, pipe_fds, history>>
  BY DEF ScanNext, ScanFound, ScanEnd, Scanning
<1>2. /\ ~Storing /\ Storing' = Storing /\ Spawning' = Spawning /\ (MidPipeline' => MidPipeline)
      /\ Filled = InUse(k) /\ Filled' = InUse(k)
  BY <1>1 DEF Storing, Spawning, Awaiting, Ending, MidPipeline, Filled
<1>3. /\ k \in TablesOf(Blocks) /\ scan \in Nat
      /\ \A i \in InUse(k) : i \in Nat /\ i < k.nr_procese
      /\ k.nr_procese \in Nat
  BY InUseAreSlots, TableAssumption DEF IInv, Typed
<1>4. ASSUME WritersAwaited, NEW i \in InUse(k), Writes(k.proc_table[i])
      PROVE  pc' \in {"scan", "halted"} /\ i >= scan' /\ Awaited(k.proc_table[i])'
  <2>1. i >= scan /\ Awaited(k.proc_table[i])
    BY <1>1, <1>2, <1>4 DEF WritersAwaited
  <2>2. Awaited(k.proc_table[i])'
    BY <1>1, <2>1 DEF Awaited
  <2>3. CASE ScanNext
    <3>1. scan' = scan + 1 /\ i # scan /\ pc' = "scan"
      BY <2>1, <2>3 DEF ScanNext, Scanning
    <3> QED
      BY <1>3, <2>1, <2>2, <3>1
  <2>4. CASE ScanFound
    BY <1>3, <2>2, <2>4 DEF ScanFound, Scanning
  <2>5. CASE ScanEnd
    BY <1>3, <2>1, <2>5 DEF ScanEnd
  <2> QED
    BY <2>3, <2>4, <2>5
<1>5. WritersAwaited => WritersAwaited'
  BY <1>1, <1>2, <1>4 DEF WritersAwaited
<1> QED
  BY <1>1, <1>2, <1>5, LookedOn

LEMMA ClearTagsMessage == ASSUME IInv, MInv, ClearTags PROVE MInv'
<1> DEFINE t == Untagged(k, InUse(k))
<1> SUFFICES ASSUME Untorn' PROVE /\ CurrentBelow'
                                  /\ InOrder(k.proc_table, Filled)'
                                  /\ WritersAwaited'
                                  /\ MessageOnItsWay'
  BY DEF MInv
<1>1. /\ pc = "clear" /\ pc' = "close" /\ k' = [k EXCEPT !.proc_table = t]
      /\ UNCHANGED <<pool, stages, stage, pipe_fds, history>>
  BY DEF ClearTags, Parameters, Untagged
<1>2. Untorn /\ InOrder(k.proc_table, Filled) /\ WritersAwaited /\ CurrentBelow
      /\ MessageOnItsWay
  BY <1>1 DEF MInv, Untorn
<1>3. k \in TablesOf(Blocks) /\ InUse(k) \subseteq Slots
  BY InUseAreSlots DEF IInv, Typed
<1>4. \A i \in InUse(k) : /\ t[i].id = k.proc_table[i].id
                          /\ t[i].entry = k.proc_table[i].entry
                          /\ t[i].state = k.proc_table[i].state
                          /\ t[i].stdin = k.proc_table[i].stdin
                          /\ t[i].stdout = k.proc_table[i].stdout
  BY <1>3, TagsCleared
<1> HIDE DEF t
<1>5. /\ k'.proc_table = t /\ k'.nr_procese = k.nr_procese /\ k'.current = k.current
      /\ InUse(k') = InUse(k)
  BY <1>1, <1>3 DEF TablesOf, InUse
<1>6. /\ ~Storing /\ Storing' = Storing /\ Spawning' = Spawning /\ MidPipeline
      /\ Filled = InUse(k) /\ Filled' = InUse(k)
  BY <1>1, <1>5 DEF Storing, Spawning, Ending, MidPipeline, Filled
<1>7. CurrentBelow' /\ InOrder(t, InUse(k))
  BY <1>1, <1>2, <1>4, <1>5, <1>6 DEF CurrentBelow, InOrder
<1>8. WritersAwaited'
  BY <1>1, <1>2, <1>4, <1>5, <1>6 DEF WritersAwaited, Writes
<1>9. PICK base \in 0 .. history.born :
        /\ LineSound(Line(base))
        /\ Regular(Line(base)) /\ Complete(Line(base)) =>
             \E r \in 0 .. Tried :
               Relayed(k, Filled, pool, history.output, Line(base), r)
  BY <1>2, <1>6 DEF MessageOnItsWay
<1>10. /\ Line(base)' = Line(base)
       /\ LineSound(Line(base))' = LineSound(Line(base))
       /\ Regular(Line(base))' = Regular(Line(base))
       /\ Complete(Line(base))' = Complete(Line(base))
       /\ Tried' = Tried
  BY <1>1, <1>6, LineKept
<1>11. ASSUME NEW r, Relayed(k, InUse(k), pool, history.output, Line(base), r)
       PROVE  Relayed(k', InUse(k), pool, history.output, Line(base), r)
  <2> DEFINE x == Line(base)
             F == InUse(k)
  <2> HIDE DEF x, F
  <2>1. /\ r \in 0 .. x.tried /\ Who(k.proc_table, F, x)
        /\ FirstGone(k.proc_table, F, x, r) /\ RestToCome(k, F, x, r)
        /\ MessageAt(pool, history.output, x, r)
    BY <1>11 DEF Relayed, x, F
  <2>2. \A i \in F : /\ t[i].id = k.proc_table[i].id
                     /\ t[i].entry = k.proc_table[i].entry
                     /\ t[i].state = k.proc_table[i].state
                     /\ t[i].stdin = k.proc_table[i].stdin
                     /\ t[i].stdout = k.proc_table[i].stdout
    BY <1>4 DEF F
  <2>3. Who(t, F, x)
    BY <2>1, <2>2 DEF Who, IsStage, Writes
  <2>4. FirstGone(t, F, x, r)
    BY <2>1, <2>2 DEF FirstGone
  <2>5. \A i \in F : ToCome(k, i) => ToCome(k', i)
    BY <1>5, <2>2 DEF ToCome
  <2>6. RestToCome(k', F, x, r)
    BY <1>5, <2>1, <2>2, <2>5 DEF RestToCome
  <2> QED
    BY <1>5, <2>1, <2>3, <2>4, <2>6 DEF Relayed, x, F
<1>12. /\ base \in 0 .. history'.born
       /\ LineSound(Line(base))'
       /\ (Regular(Line(base)) /\ Complete(Line(base)))' =>
            \E r \in 0 .. Tried' : Relayed(k, Filled, pool, history.output, Line(base), r)'
  BY <1>1, <1>6, <1>9, <1>10, <1>11
<1> QED
  BY <1>5, <1>6, <1>7, <1>8, <1>12 DEF MessageOnItsWay

LEMMA InitMessage == ASSUME Init PROVE MInv
<1>1. /\ pc = "prompt" /\ k.nr_procese = 0 /\ k.current = -1
  BY DEF Init
<1>2. Filled = {} /\ ~MidPipeline
  BY <1>1 DEF Filled, InUse, Storing, Spawning, Awaiting, Ending, MidPipeline
<1> QED
  BY <1>1, <1>2 DEF MInv, CurrentBelow, InOrder, WritersAwaited, MessageOnItsWay

LEMMA StutterMessage == ASSUME MInv, UNCHANGED vars PROVE MInv'
<1>1. UNCHANGED <<k, pool, pc, stages, stage, pipe_fds, scan, target, history>>
  BY DEF vars, shellVars
<1>2. /\ Storing' = Storing /\ Spawning' = Spawning /\ MidPipeline' = MidPipeline
      /\ Filled' = Filled
  BY <1>1 DEF Storing, Spawning, Awaiting, Ending, MidPipeline, Filled
<1>3. WritersAwaited => WritersAwaited'
  BY <1>1, <1>2 DEF WritersAwaited, Awaited
<1> QED
  BY <1>1, <1>2, <1>3, LookedOn

(* A pipeline all of whose stages have a process has come to its end when  *)
(* none of them is left.                                                   *)
LEMMA MessageIsThere == ASSUME IInv, MInv PROVE MessageArrives
<1> DEFINE m == Len(stages)
<1> SUFFICES ASSUME Untorn, pc = "close", Cardinality(history.spawned) = m,
                    stages[1] = "u1", \A s \in 2 .. m : stages[s] = "u2"
             PROVE  history.output = [j \in 1 .. MsgLen |-> Min(history.spawned)]
  BY DEF MessageArrives
<1>1. ~Storing /\ ~Spawning /\ MidPipeline /\ Filled = InUse(k) /\ Progress.ending
      /\ Progress.spawned = history.spawned
  BY DEF Storing, Spawning, Ending, MidPipeline, Filled, Progress
<1>2. PICK base \in 0 .. history.born :
        /\ LineSound(Line(base))
        /\ Regular(Line(base)) /\ Complete(Line(base)) =>
             \E r \in 0 .. Tried :
               Relayed(k, Filled, pool, history.output, Line(base), r)
  BY <1>1 DEF MInv, MessageOnItsWay
<1>3. PICK x : x = Line(base)
  OBVIOUS
<1>4. x.base = base /\ x.tried = Tried /\ x.stages = stages /\ x.fds = pipe_fds
  BY <1>3 DEF Line
<1>5. /\ m \in Nat /\ m >= 2 /\ x.tried = m /\ base \in Nat /\ history.born \in Nat
      /\ base <= history.born /\ history.born <= base + m
      /\ history.spawned = base + 1 .. history.born
  <2>1. history.born \in Nat
    BY DEF IInv, Typed, Histories
  <2> QED
    BY <1>1, <1>2, <1>3, <1>4, <2>1 DEF LineSound
<1> HIDE DEF m
<1>6. history.born = base + m
  <2> DEFINE a == base + 1
             b == history.born
  <2>1. a \in Int /\ b \in Int /\ Cardinality(a .. b) = m
    BY <1>5
  <2> HIDE DEF a, b
  <2>2. m = IF a > b THEN 0 ELSE b - a + 1
    BY <2>1, FS_Interval
  <2> QED
    BY <1>5, <2>1, <2>2 DEF a, b
<1>7. Regular(x) /\ Complete(x)
  BY <1>4, <1>5, <1>6 DEF Regular, Complete, m
<1>8. PICK r \in 0 .. Tried : Relayed(k, Filled, pool, history.output, x, r)
  BY <1>2, <1>3, <1>7
<1>9. r = m
  <2> SUFFICES ASSUME r # m PROVE FALSE
    OBVIOUS
  <2>1. r + 1 \in r + 1 .. m /\ base + (r + 1) \in base + 1 .. base + m
    BY <1>4, <1>5, <1>8
  <2>2. PICK i \in Filled : k.proc_table[i].id = base + (r + 1)
    BY <1>4, <1>5, <1>8, <2>1 DEF Relayed, RestToCome
  <2>3. k.proc_table[i].id \in history.spawned
    BY <1>5, <1>6, <2>1, <2>2
  <2>4. \A j \in Filled : k.proc_table[j].id \notin history.spawned
    BY <1>1 DEF IInv, SoundUntilTorn, Wired, StagesKnown
  <2> QED
    BY <2>3, <2>4
<1>10. history.output = Message(base + 1)
  BY <1>4, <1>8, <1>9 DEF Relayed, MessageAt, m
<1>11. Min(history.spawned) = base + 1
  <2>1. base + 1 \in history.spawned /\ \A j \in history.spawned : base + 1 <= j
    BY <1>5, <1>6
  <2>2. history.spawned \subseteq Int
    BY <1>5
  <2> QED
    BY <2>1, <2>2 DEF Min
<1> QED
  BY <1>10, <1>11 DEF Message

LEMMA MessageStep == ASSUME IInv, IInv', MInv, [Next]_vars PROVE MInv'
<1>1. CASE Tick
  BY <1>1, TickIdleMessage, TickRunMessage DEF Tick
<1>2. CASE Command
  BY <1>2, WaitMessage, YieldMessage, ModeMessage, DemoMessage, PipelineMessage,
     KillMessage, ExecMessage DEF Command
<1>3. CASE Continue
  <2>1. CASE DemoCurrent \/ DemoSlice
    BY <2>1, DemoCurrentMessage, DemoSliceMessage
  <2>2. CASE UnsupportedStage \/ SpawnRefused \/ SpawnFill \/ SpawnLoad \/ SpawnStore
    BY <2>2, UnsupportedMessage, SpawnRefusedMessage, SpawnFillMessage, SpawnLoadMessage,
       SpawnStoreMessage
  <2>3. CASE ScanNext \/ ScanFound \/ ScanEnd \/ ClearTags \/ ClosePipes
    BY <2>3, ScanMessage, ClearTagsMessage, ClosePipesMessage
  <2> QED
    BY <1>3, <2>1, <2>2, <2>3 DEF Continue
<1>4. CASE UNCHANGED vars
  BY <1>4, StutterMessage
<1> QED
  BY <1>1, <1>2, <1>3, <1>4 DEF Next

(* A pipeline all of whose stages have a process prints the message of its *)
(* first stage, whole, once and in order, by the time execute_pipeline     *)
(* closes its pipes, whatever else ran in between.                         *)
THEOREM PipelineDelivers == Spec => []MessageArrives
<1>1. Init => MInv
  BY InitMessage
<1>2. IInv /\ IInv' /\ MInv /\ [Next]_vars => MInv'
  BY MessageStep
<1>3. IInv /\ MInv => MessageArrives
  BY MessageIsThere
<1> QED
  BY <1>1, <1>2, <1>3, WiringIsInvariant, PTL DEF Spec
=============================================================================
