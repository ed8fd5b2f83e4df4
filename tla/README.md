# A TLA+ model of the OS_ITSC kernel

OS_ITSC is a small 32-bit x86 kernel: a process table driven by the timer
interrupt, system calls on `int 0x80`, pipes, a heap, paging, a file system held
in memory and saved to an ATA disk, and a shell on the serial line.  This
directory holds TLA+ modules that model it, TLC configurations that check them
on small instances, and TLAPS proofs.  All line numbers below refer to
`src/src/`.

## 1. The system

### Components

| component | state | operations | what makes it correct |
|---|---|---|---|
| scheduler (`kernel.c` 154-303, 381-477) | `proc_table`, `nr_procese`, `current`, `slice`, `preemptive_mode` | `scheduler_tick`, `yield`, `kill_process`, `wait_process`, `load_and_run`, `preempt`, `coop` | the table stays compact and has one RUNNING process; no process is lost or duplicated by compaction; turns respect the quantum; waits are waited; everyone ends |
| timer and system calls (`idt.c` 89-225, `kernel.asm`) | `system_ticks`, `in_tick` | `timer_handler_c`, `syscall_handler` | one tick is one step; a call acts on the process that made it |
| pipes (`pipe.c`) | `pipes`, `pipe_used` | `pipe_alloc/free/write/read/close` | each is a bounded queue; the end of the data is reported exactly when it is reached; no bytes survive into the next life |
| shell (`kernel.c` 338-379, 504-1008) | locals of `execute_pipeline`, `spawn_pipeline_process` and `shell_loop` | `ps kill wait yield preempt coop exec demo`, pipelines | what it does to the table with interrupts on is safe; a pipeline ends after its stages; pipes go back to the pool; the prompt returns |
| programs (`u1.c`, `u2.c`) | none | write and exit; read and pass on | a pipeline prints u1's message once |
| file system and disk (`fs.c`, `ata.c`) | tree of nodes, current directory, sectors | `touch mkdir cd rm write cat save`, load at boot | the pointers of the tree agree and nothing leaks; a restart, also from the middle of a save, restores what the saved sector holds |
| heap (`heap.c`) | free list, bump pointer, headers | `kmalloc`, `kfree` | blocks are disjoint; freed memory is used again |
| memory (`pmm.c`, `vmm.c`) | frame bitmap, page directories | `pmm_alloc/free_frame`, `vmm_map/unmap_page`, `vmm_create/destroy_pd` | a frame has one owner; what a failed call took it gives back |
| serial line (`uart.c`) | none | `uart_readline`, output | the line fits its buffer |
| screen, descriptor tables, boot (`vga.c`, `gdt.c`, `tss.c`, `boot.asm`) | device state | output, start-up | not modelled |

### How they interact

There is one thread of control, the shell, and one interrupt that matters, the
timer.  A process is not a thread: `scheduler_tick` calls the entry of the
current process as a function, inside the interrupt, once per tick.  The gates
are interrupt gates, so neither a tick nor a system call is interrupted.  The
shell is interruptible except between `cli` and `sti` (ps, kill, wait, the table
part of `load_and_run`) and inside `int 0x80`.  All concurrency is therefore
between whole ticks and the steps of the shell, and the hazards are where the
shell uses the table with interrupts on: `spawn_pipeline_process`, the waiting
loops of `execute_pipeline` and `exec`, and `demo`.  A tick can do a great deal
in between: it can run a program that writes to pipes, closes them and exits,
and it can *compact* `proc_table`, which moves every later process to a lower
index.  Indices are what `ps` prints and `kill` takes, what `current` holds and
what the shell's loops count with.

### Hard behaviours

`PROJECT.json` lists them under `hazards`, each at its line: interleavings of
ticks with the shell, indices that go stale under compaction, the negative
remainder in `pick_next_ready(-1)`, turns that must survive reaps and waits,
bounded pools and buffers, the partial failures of `execute_pipeline` and
`spawn_pipeline_process`, long sequences of splits and joins on the heap, frames
that run out inside `vmm_create_pd`, programs loaded into frames the allocator
hands out, a crash during `save`, and a saved table that is longer than the
sector it is written to.

## 2. Modules

    ProcTable            operators: what each function does to the table
      ProcTableProofs    what each operator keeps, for blocks of any kind
      Scheduler          ticks against operations, callers open
        MCScheduler      refinement of TickBudget
        RoundRobin       a history variable for the order of turns
          SchedulerProofs  the invariant of the table, the theorems about it,
                         the proof of that refinement, and the proof that
                         turns keep their order
      Shell              the shell's steps against ticks, programs, pipes
        MCShell          the pipelines that are typed
        ShellProofs      the invariant of the shell, and its theorems
    TickBudget           what the scheduler promises
    PipeFifo             what pipe.c promises; operators used by Shell
    PipeRing             pipe.c; implements PipeFifo
      PipeProofs         theorems
    Regions              what an allocator promises
    Heap                 heap.c; implements Regions
      HeapProofs         theorems
    Paging               pmm.c, vmm.c and the two loaders of programs
      MCPaging           pages, and a program as TLC sees it
      PagingProofs       who holds which frame, and the theorems about it
    FileSystem           fs.c and the sectors of ata.c
      MCFileSystem       names, texts, and what the stack holds
      FileSystemProofs   what holds of the tree and of the disk, and the theorems
    NaturalLemmas        whole numbers and finite sets: lemmas of all proofs

A proof module extends the module it is about and defines nothing that models
code, only invariants and what they are made of.

**ProcTable** groups the scheduling globals in one record `k` and has one
operator per function of `kernel.c`, and per stage of `scheduler_tick`:
`UpdateWaiting`, `Dispatch` (lines 242-251), the call of the entry, then
`AfterEntry`, which is `Charge` and `Reap` or `Rotate`.  A block has a ghost
field `id`, the identity the code does not keep.  `CRem` is C's remainder, and
`StateAt` reads `proc_table[-1]`: the word there is constant while the kernel
runs, so it is the constant `BelowTable`; the proofs hold for every value of it,
TLC uses UNUSED.

**Scheduler** is the table under ticks and operations in any order.  `TickEmpty`,
`TickIdle`, `TickNoPick` and `TickRun` are the four ways through
`scheduler_tick`; an entry returns or exits.  The commands are those that run
with interrupts off.  `ran` names the process whose entry the last step called.

**Shell** adds to a block its program, `pipeline_tag` and descriptors 0 and 1,
and cuts the shell where a tick makes a difference: `SpawnFill`, `SpawnLoad`,
`SpawnStore` are the fill of the new block and the load and the store of
`nr_procese++` (the Makefile builds with -O0); `ScanNext`, `ScanFound`,
`ScanEnd` are the turns of a waiting loop, "halted" is `hlt`; `DemoCurrent` and
`DemoSlice` are the stores after `nr_procese = 3`.  Steps a tick cannot tell
apart are one action: the fields of a block above `nr_procese`, for instance.
`history` records what the properties ask about the past, among it `torn`: which
of these sequences a tick has interrupted in a way that matters.

**PipeRing** has the ring with its positions, count and flags; the byte loops of
`pipe_write` and `pipe_read` are in closed form.  **PipeFifo** is a pool of
sequences.  The refinement maps a ring to the `count` bytes from `read_pos`.

**TickBudget** has no table: a tick serves at most one process and takes one
tick from its budget alone.  The refinement maps the table to the function from
the identities present to `remaining`.

**Heap** has the free list as a sequence of blocks, `heap_bump`, and the regions
callers hold.  kmalloc is three actions, one for each way it ends.  The model
keeps what the code does with the rest of a split: kmalloc takes the block off
the list before it calls `split_block`, which then finds nothing to link the
rest to.  With the code's 12 and 8 two blocks never touch, because a header
begins at a multiple of 8 and its payload ends 4 bytes short of one, so that
`insert_and_coalesce` never joins any; the operator is modelled all the same.
**Regions** says what callers rely on: a fresh region in the heap, disjoint from
all others, or a refusal.

**Paging** has the bitmap, the count and the contents of every frame in one
record `m`, and an operator from memory to memory for each function of `pmm.c`
and `vmm.c`, `vmm_create_pd` being a fold of the turns of its loop (`CopyTable`).
`Spec` leaves the callers open, as the interface does; `LoaderSpec` has only
those the kernel has, `spawn_pipeline_process` and `load_and_run`.  `lost`,
`loaded` and `overrun` are history.

**FileSystem** has the tree as a function from nodes to records, `children` being
the list of siblings that the code keeps in `next`, and the disk as a table of
entries and one text per data sector.  A command is one step: no tick touches
the tree, and the shell takes one command at a time.  A save is a step per
sector, in the order of the walk, with the table last; `Restart` interrupts it
anywhere, and is `fs_init` on what the disk then holds.  The code's recursions
are written so that they can be proved about: the walk of `serialize_node` takes
one node per turn off a list of nodes to visit (`Visit`, `Order`), the loop of
`fs_init` puts one node per turn under its parent (`Linked`, `Loaded`), and what
`free_node_recursive` frees and `is_parent_of` passes are the least sets closed
under children and under parents (`FreeNode`, `IsParentOf`).  Names are
cut where `create_node` cuts them (`Kept`), and looked for as they are typed.
The table's one sector keeps `Whole` entries (9) and all but size and data
sector of the next; the rest of what `fs_init` reads is its uninitialised stack,
so that every entry there is any member of `Junk`.  `promised` is what the last
finished save was asked to keep, `attempted` what unfinished saves have written
to each data sector since, `clean` says that nothing in the tree comes from the
stack; all three are history.

## 3. Runs

| run | question | instance |
|---|---|---|
| `scheduler` | `TypeOK`, `TableConsistent`, `NoDuplicates`, `QuantumRespected`, `WaitersDoNotRun`, refinement `ChargesTheOneThatRan`; `EveryProcessEnds`: every process leaves, in both modes | 3 slots, quantum 2, 4 commands of any kind, fair ticks |
| `round_robin` | `NoSecondTurn`: nobody has two turns while a runnable process has none | 3 slots, budget 6, 5 commands, preemptive mode only |
| `pipe_ring` | `TypeOK`, `PositionsAgree`, `ImplementsQueues` | 2 pipes of 2 bytes, two byte values |
| `shell` | `TypeOK`; `ConsistentUnlessTorn`; `StagesEndFirstUnlessTorn`; `MessageArrives`; `NoStaleDescriptor`; `PipesReturned` | 4 slots, 2 pipes, three pipelines, 3 commands |
| `shell_liveness` | `ShellReturns`: the prompt comes back | 4 slots, every command, 2 commands, fair ticks and shell |
| `lost_stage` | `EveryStageRuns` is violated | see findings |
| `early_end` | `StagesEndFirst` is violated | see findings |
| `heap` | `TypeOK`, `FreeListAscending`, `UsedCoversLive`, refinement `ServesRegions` | 46 units of 4 bytes, requests of 1, 5 and 9 |
| `paging` | `TypeOK`, `FramesAccounted`, `SpacesIsolated` | 11 frames, tables of 6 entries, 2 spaces at a time |
| `overwritten` | `ImagesStay` is violated | 14 frames, tables of 7 entries; see findings |
| `filesystem` | `TypeOK`, `TreeSound`, `RestartRestores` | 5 nodes, a table of 4 entries of which 2 are whole in the sector, 7 commands |
| `saved_lost` | `SavedIsLoaded` is violated, although the machine is switched off at the prompt and the stack holds zeros | the same; see findings |

**Bounds.** The table has 3 or 4 slots instead of 10: compaction moves blocks
both at the current index and beyond it, the table is full within reach, and a
third process can come between two.  The quantum is 2 instead of 4, so that
turns end and are cut short.  `MaxCommands` bounds only what is typed; ticks are
not bounded.  Budgets (50, 100 and 10000 ticks) become 2 to 6: more than a
quantum, so that a process is both rotated out and reaped; they are finite
counters that only go down.  u1's 38 bytes and u2's 64 become 2 and 3, which
keeps that one read takes a whole message; pipes hold more than a message, as
in the code.  In `pipe_ring` a pipe holds 2 bytes and transfers are up to 2, so
that rings are full, empty and wrapped at every position.

The heap is counted in units of 4 bytes, so that header and alignment, 12 and 8,
are 3 and 2; 46 units hold up to nine blocks, and requests of 1, 5 and 9
units (rounded to 2, 6 and 10) are exact fits, too short to split, and splits.  In `paging` a
directory covers memory with two tables as the code's does with eight, there is
an entry beyond them for the stack, and seven free frames run out at every place
an allocation can: in the first and in a later turn of `vmm_create_pd`, before
the stack, for the stack's table.  The program's page lies above the first
frames handed out, as in the code.  The run ends (`CONSTRAINT NoOverrun`) where a
program is copied over a frame in use: what a directory holds is then arbitrary,
and the properties say nothing of it.

The file system has a table of 4 entries instead of 16, 2 instead of 9 of them
whole: one entry is cut by the end of the sector, one lies beyond it, and a tree
of 5 nodes is larger than the table.  Seven commands are enough for a file to be
saved, a node to be made or removed so that the file changes its sector, and
another save to be cut short; for trees three deep; and for a save of a tree
that came in part from the stack.  `MaxCommands` counts saves too; restarts are
not bounded.  Two texts of different sizes tell old contents from new and a
short from a long prefix.

One assumption is not checked: a sector is written as a whole or not at all.
`ata_write_sector` hands the disk 256 words and does not wait for the write to be
over; what a disk does that loses its power in the middle is not in the code.

**Waits of one tick** are left out of `round_robin`: `update_waiting` runs before
the choice of a process, so `wait <current> 1` does not end the turn of the
current process but begins it anew, and by typing it again and again a user can
give a process more than a turn.

**Fairness.** `WF(Tick)` says that the timer goes on.  `WF(Continue)` says that
the shell, when it is in the middle of a command, takes its next step in the
end: between two ticks the processor runs the shell.  No fairness is assumed of
typing.  `CHECK_DEADLOCK` is left on everywhere: the timer
never stops, and an operation of the heap or on memory is always possible.

**Mutants.** Operators with a suffix after an underscore are the specific
mistakes each property is tested against (`PROJECT.json`, `mutants`).

## 4. Findings

1. `lost_stage` (kernel.c:616).  `nr_procese++` in `spawn_pipeline_process` runs
   with interrupts on.  u1 exits in a tick between the moment the index for u2 is
   taken and the store: the table is compacted, u2's block is left above the
   others with a hole below it, and u2 is not run.
2. `early_end` (kernel.c:697).  The waiting loop is at some index; a tick reaps a
   process below it and u2 moves under the index.  The loop sees no tagged
   process, "[Pipeline] Terminat." is printed and u2's pipe is closed.
3. `overwritten` (kernel.c:562).  Programs are copied to 0x400000 and 0x500000,
   but frames 1024 and 1280 are in the pool of `pmm.c`, which begins at frame 538.
   A spawn takes eleven frames (directory, eight tables, stack, table of the
   stack) that never come back, so that the 44th takes frame 1024 for a page
   table.  In `u1 | u2`, typed for the 22nd time, that is the spawn of u2: it
   overwrites u1, which is READY and has not run.
4. `saved_lost` (fs.c:199).  The table of 16 entries has 832 bytes and one sector
   of it is written and read.  Nine entries survive, the tenth without size and
   data sector; every later node is gone after a restart, although the shell has
   said "Structura si datele au fost salvate pe disc."

Other behaviour the model shows without contradicting a text of the repository:
a pipeline with an unsupported program leaks its pipes and leaves its first
stages running with the tag set (`PipesReturned` excludes it by
`history.aborted`); `ps` prints an index as PID, and compaction may give it to
another process before `kill` is typed; a spawn without a frame for its stack
loses nine frames (`lost`); the heap loses the rest of every block it splits; a
killed process runs once more before it is reaped, and a killed WAITING one only
after its wait; a process whose ticks run out keeps its pipe ends open until the
pipeline command closes them; u1 writes 38 bytes of a message that has 36;
after a torn spawn has left a hole at index 0, `pick_next_ready(-1)`, which looks
at index -1 and stops one short of the last, does not find the process that
`exec` then puts at index 1; loading reverses the order of siblings, so that of
two directories with one name (mkdir does not look) `cd` enters the other; a
name of more than 31 characters is not found again as typed; a `write` that finds
no memory leaves the file empty; the test in `fs_rm` for a directory in use never
holds, because a child of the current directory is never above it.

## 5. Proofs

Every theorem holds for all values of the constants that satisfy the named
assumption of its module: sizes, quantum, budgets, lengths, sets of commands and
pipelines, and the content of `proc_table[-1]`.

| module | theorem | property | assumptions |
|---|---|---|---|
| `SchedulerProofs` | `TypeCorrect` | `TypeOK` | `TableAssumption`, `SchedulerAssumption` |
| | `TableStaysConsistent` | `TableConsistent` | |
| | `ProcessesStayDistinct` | `NoDuplicates` | |
| | `QuantumIsRespected` | `QuantumRespected` | |
| | `WaitersNeverRun` | `WaitersDoNotRun` (action property) | |
| | `SchedulerImplementsBudgets` | `ChargesTheOneThatRan` (refinement) | |
| | `NobodyHasASecondTurn` | `NoSecondTurn` | the same, and `LongWaits` |
| `PipeProofs` | `PipesTyped` | `TypeOK` | `RingAssumption` |
| | `PositionsStayAgreed` | `PositionsAgree` | |
| | `RingImplementsQueues` | `ImplementsQueues` (refinement) | |
| `HeapProofs` | `BlocksStayApart` | - (the invariant) | `HeapAssumption` |
| | `HeapTyped` | `TypeOK` | |
| | `FreeListStaysAscending` | `FreeListAscending` | |
| | `UsedSizeCoversLive` | `UsedCoversLive` | |
| | `HeapImplementsRegions` | `ServesRegions` (refinement) | |
| `PagingProofs` | `FramesStaySound` | - (the invariant) | `PagingAssumption` |
| | `PagingTyped` | `TypeOK` | |
| | `FramesStayAccounted` | `FramesAccounted` | |
| | `SpacesStayIsolated` | `SpacesIsolated` (action property) | |
| `ShellProofs` | `WiringIsInvariant` | - (the invariant) | `TableAssumption`, `ShellAssumption` |
| | `ShellTyped` | `TypeOK` | |
| | `TableConsistentUntilTorn` | `ConsistentUnlessTorn` | |
| | `StagesEndBeforeClose` | `StagesEndFirstUnlessTorn` | |
| | `DescriptorsStayOpen` | `NoStaleDescriptor` | |
| | `PipesComeBack` | `PipesReturned` | |
| | `PipelineDelivers` | `MessageArrives` | the same, and `MessageFits` |
| `FileSystemProofs` | `TypeCorrect` | `TypeOK` | `FileSystemAssumption`, `JunkAssumption` |
| | `TreesAreSound` | `TreeSound` | |
| | `RestartsRestore` | `RestartRestores` | |

**The table.**  `ProcTableProofs` has a lemma per operator of `ProcTable`, for
blocks of any set `B` whose scheduling fields can be written (`ControlBlocks`):
both `Scheduler` and `Shell` use it with blocks of their own.  A lemma says which
indices keep their process (`KeepsBlocks`), or that the current one leaves and
the others move down (`Compacts`), and that the table stays `Orderly`.

**Scheduler.**  The properties of the table are not inductive one by one: `Reap`
keeps at most one RUNNING process only because the current one was that process,
`TickRun` may index the table with `current` only because it is in range, and an
arrival is distinct only because identities grow.  The invariant `IInv` is
`Sound` - typed, `Compact`, `OneRunning`, `CurrentInTable`, `Distinct`, and
identities between 1 and the number of commands typed - with `QuantumRespected`.
`WaitersNeverRun` needs besides that `UpdateWaiting` leaves a process with more
than one tick to wait WAITING and that `Dispatch` picks only runnable ones.

**Budgets.**  In a table without duplicates the abstract state is known from the
blocks (`LeftOfBlocks`), so that each operator is shown to leave it alone, to
take a tick from one process, to take the rest of its budget, to remove it, or to
admit one; the actions of `TickBudget` follow.

**Order of turns.**  `NoSecondTurn` bounds a count and says nothing of who may
still be passed.  `TurnsSound` adds the order: counted upwards from `current` and
round the end of the table (`Dist`), a process has let pass only processes that
come to their turn after it, or the current one for no more ticks than `slice`.
`PickIsFirst` shows that `pick_next_ready` finds the nearest runnable index,
`DistOrder` and `DistWrap` that a move to it keeps the order of all others, and
`ReapInTurn` that compaction does, `current` moving with it.  `LongWaits` is what
run `round_robin` assumes as well: preemptive mode, and no wait of one tick (see
section 3).  TLC checked `TurnsSound` on that instance before it was proved.

**Pipes.**  `PoolSound` is types and `Agrees`, for every pipe.  Two lemmas carry
the rest: `Filled` puts its bytes behind those of the queue a ring stands for
(`FilledPipe`), `Drained` takes them off its front (`DrainedPipe`), wrapped or
not, and both only while write position, read position and count agree.

**Heap.**  `FreeListAscending` alone is not inductive, for it does not say that a
block that comes back is apart from those on the list.  `HeapSound` says that the
blocks on the list and those the callers hold, headers included, are pairwise
apart and lie below `heap_bump`.  `InsertSound` shows that what is apart from the
freed block and from the list is apart from whatever `insert_and_coalesce`
leaves, joined or not.  `UsedCoversLive` is about two sums over sets of blocks:
blocks that are apart and lie below `heap_bump` cover, together, at most
`heap_bump` units (`TotalCounts`), so that what is not on the list is at least
what the callers hold.

**Memory.**  `FramesAccounted` does not say which directory a table belongs to,
and `SpacesIsolated` is about a step only.  `PagingSound` says that every frame in
use is a directory, is held otherwise (below `first_free`, as a stack, as lost), or
is the entry of exactly one directory at exactly one index; so no two directories
share a table (`HoldsApart`), and a translation is what lies in a directory and
its tables (`TranslationKept`).  There is a lemma for each way a frame or an entry
comes and goes; each function of `pmm.c` and `vmm.c`, those that fail half-way
included, is a sequence of those.  The invariant is of `Spec`, any callers, and of
`LoaderSpec`, the kernel's own two loaders.  Like the properties it claims nothing
of the use of frames once a program has been copied over one in use; types and the
count of frames hold all the same.

**Loops and sums.**  Three things are defined by going through a set or through
the entries of a table: the sums of `kheap_used_size`, the tables freed with a
directory, the loop of `vmm_create_pd`.  The first two are folds: `AgreeStepwise`
and `SameOnFiniteSets` (`NaturalLemmas`) say that two functions of finite sets
that agree on the empty set and on every set with one more element are the same,
so that a fold is what its closed form says.  The loop is a recursive function;
that it has a run (`LoopRuns`), and what holds after each turn, is shown by taking
the least number of turns for which it would fail.  The loops of the file system
are shown the same way, once for all of them: `StepsRun` says that there is a
sequence of turns, `FromTo` that what each turn keeps holds after every turn.

**Shell.**  `IInv` has three parts.  `Typed` and `PipesOwned` hold whatever a
tick tears: in particular the store of a stale `nr_procese` never leads past the
table.  `SoundUntilTorn` says, as long as no tick came between steps that belong
together, that the table is consistent except for the block that is being added,
that the waiting loop has left no stage at a lower index, and that descriptors are
`Wired`: a descriptor of a pipe is open, of its own end, held by one block, those
of the pipeline's pipes by its stages only, and the ends for the stages to come
are open and nobody's.  `Wired` takes the blocks and what the pipeline has come to
(`Progress`) as arguments, so that there is one lemma for each thing that happens
to blocks: compaction renames them (`WiredRenamed`), one quits (`WiredQuit`), one
arrives (`WiredFilled`).  TLC checked the parts of `IInv` on the instance of run
`shell`.

**The message of a pipeline.**  `IInv` says who may read and write where, and
nothing of what is in the pipes.  `MessageArrives` needs four more things, which
`MInv` adds, again for as long as nothing is torn.  The table is in the order of
arrival (`InOrder`).  `current` is below `nr_procese` (`CurrentBelow`), so that
the turns go up the table: a runnable process at or after `current` is not passed
over (`ToCome`, in `ProcTableProofs`), and so no stage has a tick before the one
that feeds it; a `u2` that found its pipe empty would use up its ticks and be
reaped in the end.  Any process that may write to the serial line is waited for
(`WritersAwaited`), so that none of an earlier pipeline writes into this one's
output.  And the message is in one place (`MessageOnItsWay`): if r stages have
run, it is whole in the pipe after stage r, or on the serial line after the last,
all other pipes are empty, and the stages after r have their turn to come.  An
arrival leaves r alone, the first tick of a stage adds one to it (`StageRuns`),
and at `close` no stage is left, so that r is their number.  `MessageFits` is the
one assumption: what `u1` writes (38 bytes) is within what `u2` asks for (64) and
what a pipe holds (4096), so that one call moves it.  TLC checked `MInv` on the
instance of run `shell` before it was proved.

**File system.**  The tree: every node's parent lists it and every child points
back (`LinksMatch`), and the root is above every node (`Above`: it is in every
set that holds the node and the parent of all it holds).  A new node is below its directory;
what `rm` frees is closed under children and, but for its top, under parents, so
that no pointer leads into it from outside and nothing that stays loses its way
to the root.  A restart builds the tree anew: after each turn of the linking loop
a node has its parent, and its parent lists it, exactly if its turn has come and
the entry it names exists (`PutUpTo`).  That the root is then above all of them
rests on the disk, and that is the other half: in what was promised parents come
before children (`IsPromise`; `OrderOfSave` shows that the walk of a save goes so),
the table is the first of its entries (`IsTable`), each sector holds what was
promised or what a save that was cut short has put there (`InSectors`), and
`InSave` says how far the current save has come.  Only then is `RestartRestores`
inductive, wherever a restart falls.  Of the uninitialised stack the proofs know
only `JunkAssumption`: whatever is read there as an entry is a file or a
directory, and a directory has no data.

**Only model-checked.**  Liveness (`EveryProcessEnds`, `ShellReturns`): fairness
and ENABLED are out of the prover's reach.  Every invariant, action property and
refinement that a passing run checks is a theorem.

## 6. Not modelled, and what is left

Not modelled, for good: the screen, the descriptor tables, boot (device output
and straight-line set-up), `scheduler.c` (a program for the host), `prog1.c` and
`prog2.c` (not built), and in the parts that are modelled: parsing of the line,
wording of messages, delays.

Left out of modelled parts because nothing in the repository exercises them: the
calls `dup2` and `close` on a process's descriptors and a yield from inside an
entry (no program makes them), and programs that wait for the clock inside a
tick (prog1 and prog2, which are not built).  `uart_readline` runs within one
step of the shell and touches only the shell's own buffer.

What is left to do is liveness beyond small instances, and the hazards that have
no property: `PROJECT.json` says of each why.  Most are about calls that no
program of the repository makes (`dup2`, a yield inside an entry, waiting for the
clock), or about behaviour of which no text says what it should be, such as the
index that `ps` printed before a tick compacted the table.
