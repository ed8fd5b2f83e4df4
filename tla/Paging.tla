------------------------------- MODULE Paging -------------------------------
(***************************************************************************)
(* Frames and address spaces (pmm.c, vmm.c), and what the two loaders of   *)
(* programs do with them.  A frame is its number, and so is what an entry  *)
(* of a directory or table holds; 0 is "none" in both, as frame 0 is never *)
(* free.  Flags are left out.                                              *)
(*                                                                         *)
(* Spec leaves the callers of vmm.c open: spaces are created, changed and  *)
(* destroyed in any order.  The kernel itself only loads programs, which   *)
(* is LoaderSpec.  All of this runs in the shell, and no tick touches it.  *)
(* The kernel's directory stays the one in use, so that a program is       *)
(* copied to the frame that has the number of its page.                    *)
(***************************************************************************)
EXTENDS Integers, SequencesExt

CONSTANTS
  total_frames,   \* frames of memory (8192)
  first_free,     \* the first frame after the bitmap (538)
  Entries,        \* entries of a directory or a table (1024)
  Pages,          \* pages callers map: pairs of a directory and a table index
  ImagePages,     \* the pages programs are loaded at: <<1, 0>>, <<1, 256>>
  Image,          \* a program, read as the entries of a table
  StackPage,      \* the page of its stack: <<703, 1023>>
  MaxSpaces       \* bound: address spaces at a time

Frames == 0 .. total_frames - 1
Indices == 0 .. Entries - 1

PageNumber(page) == page[1] * Entries + page[2]

(* Directory entries it takes to map all of memory.                        *)
KernelTables == (total_frames + Entries - 1) \div Entries

ASSUME PagingAssumption ==
  /\ {total_frames, first_free, Entries} \subseteq Nat \ {0}
  /\ KernelTables < Entries
  /\ first_free + 1 + KernelTables <= total_frames
  /\ Pages \cup ImagePages \cup {StackPage} \subseteq Indices \X Indices
  /\ \A page \in ImagePages : PageNumber(page) \in Frames
  /\ Image \in [Indices -> Frames]
  /\ MaxSpaces \in Nat

VARIABLES
  m,       \* memory: [used, used_frames, page], see below
  spaces,  \* directories that callers hold
  stacks,  \* frames that callers hold by themselves: stacks
  lost,    \* frames no one holds that were not freed
  loaded,  \* the pages of the programs that have a process in the table
  overrun  \* frames in use that a program was copied over

vars == <<m, spaces, stacks, lost, loaded, overrun>>
programs == <<loaded, overrun>>

(* m.used         the frames whose bit is set                              *)
(* m.used_frames  how many the code counts                                 *)
(* m.page         what is in each frame, as the entries of a directory or  *)
(*                table                                                    *)

Empty == [i \in Indices |-> 0]

kernel_pd == first_free

Identity(f) == f

(* pmm_init and vmm_init: the kernel's directory and its tables, which map *)
(* every frame to the page of the same number.                             *)
Init ==
  /\ m = [used |-> 0 .. first_free + KernelTables,
          used_frames |-> first_free + 1 + KernelTables,
          page |-> [f \in Frames |->
            IF f = kernel_pd
            THEN [i \in Indices |-> IF i < KernelTables THEN kernel_pd + 1 + i ELSE 0]
            ELSE IF f \in kernel_pd + 1 .. kernel_pd + KernelTables
            THEN [j \in Indices |->
                    LET mapped == (f - kernel_pd - 1) * Entries + j
                    IN  IF mapped \in Frames THEN Identity(mapped) ELSE 0]
            ELSE Empty]]
  /\ spaces = {} /\ stacks = {} /\ lost = {} /\ loaded = {} /\ overrun = {}

Free(mem) == Frames \ mem.used

(* Mutant: the loop goes on to total_frames.                               *)
NextFrame_OneTooMany(mem) == Min((0 .. total_frames) \ mem.used)

(* pmm_alloc_frame: the first free frame, 0 if there is none; and memory   *)
(* with that frame taken, and filled by the caller.                        *)
NextFrame(mem) == IF Free(mem) = {} THEN 0 ELSE Min(Free(mem))

Taken(mem) == [mem EXCEPT !.used = @ \cup {NextFrame(mem)}, !.used_frames = @ + 1]

Filled(mem, content) == [Taken(mem) EXCEPT !.page[NextFrame(mem)] = content]

(* pmm_free_frame.  It clears nothing, but except for a program nothing    *)
(* reads what a free frame holds.                                          *)
Freed(mem, f) ==
  IF f \in mem.used
  THEN [mem EXCEPT !.used = @ \ {f}, !.used_frames = @ - 1,
                   !.page[f] = IF @ = Image THEN @ ELSE Empty]
  ELSE mem

Present(mem, pd) == {i \in Indices : mem.page[pd][i] # 0}

(* Each table of a directory freed.                                        *)
TablesFreed(mem, pd) ==
  FoldSet(LAMBDA i, rest : Freed(rest, mem.page[pd][i]), mem, Present(mem, pd))

(* vmm_map_page: the table is allocated if it is missing, and nothing      *)
(* happens if it cannot be.                                                *)
WithTable(mem, pd, i) ==
  IF mem.page[pd][i] # 0 \/ NextFrame(mem) = 0 THEN mem
  ELSE [Filled(mem, Empty) EXCEPT !.page[pd][i] = NextFrame(mem)]

Mapped(mem, pd, page, f) ==
  LET with == WithTable(mem, pd, page[1])
      pt   == with.page[pd][page[1]]
  IN  IF pt = 0 THEN with ELSE [with EXCEPT !.page[pt][page[2]] = f]

(* Mutant: an empty table is freed, but its entry stays.                   *)
Unmapped_KeepsEntry(mem, pd, page) ==
  LET pt   == mem.page[pd][page[1]]
      less == [mem EXCEPT !.page[pt][page[2]] = 0]
  IN  IF pt = 0 THEN mem
      ELSE IF less.page[pt] = Empty THEN Freed(less, pt) ELSE less

(* vmm_unmap_page: a table without entries is freed.                       *)
Unmapped(mem, pd, page) ==
  LET pt   == mem.page[pd][page[1]]
      less == [mem EXCEPT !.page[pt][page[2]] = 0]
  IN  IF pt = 0 THEN mem
      ELSE IF less.page[pt] = Empty
           THEN [Freed(less, pt) EXCEPT !.page[pd][page[1]] = 0]
           ELSE less

(* Mutants of CopyTable: the new directory points to the kernel's table;   *)
(* the directory is not given back when a table cannot be allocated.       *)
CopyTable_Shares(copy, i) ==
  [copy EXCEPT !.mem.page[copy.pd][i] = copy.mem.page[kernel_pd][i]]

CopyTable_KeepsDirectory(copy, i) ==
  LET old == copy.mem.page[kernel_pd][i]
      new == NextFrame(copy.mem)
  IN  IF copy.pd = 0 \/ old = 0 THEN copy
      ELSE IF new = 0 THEN [mem |-> TablesFreed(copy.mem, copy.pd), pd |-> 0]
      ELSE [mem |-> [Filled(copy.mem, copy.mem.page[old]) EXCEPT !.page[copy.pd][i] = new],
            pd  |-> copy.pd]

(* vmm_create_pd: one turn of the loop.  If no frame is left, the tables   *)
(* copied so far and the directory are freed, and there is no directory.   *)
CopyTable(copy, i) ==
  LET old == copy.mem.page[kernel_pd][i]
      new == NextFrame(copy.mem)
  IN  IF copy.pd = 0 \/ old = 0 THEN copy
      ELSE IF new = 0
      THEN [mem |-> Freed(TablesFreed(copy.mem, copy.pd), copy.pd), pd |-> 0]
      ELSE [mem |-> [Filled(copy.mem, copy.mem.page[old]) EXCEPT !.page[copy.pd][i] = new],
            pd  |-> copy.pd]

(* The memory, and the new directory or 0, after so many turns.            *)
Created(mem) ==
  LET turns[i \in 0 .. Entries] ==
        IF i = 0 THEN [mem |-> Filled(mem, Empty), pd |-> NextFrame(mem)]
        ELSE CopyTable(turns[i - 1], i - 1)
  IN  IF NextFrame(mem) = 0 THEN [mem |-> mem, pd |-> 0] ELSE turns[Entries]

----------------------------------------------------------------------------
CreatePd ==
  /\ Cardinality(spaces) < MaxSpaces
  /\ m' = Created(m).mem
  /\ spaces' = spaces \cup ({Created(m).pd} \ {0})
  /\ UNCHANGED <<stacks, lost, programs>>

DestroyPd(pd) ==
  /\ m' = Freed(TablesFreed(m, pd), pd)
  /\ spaces' = spaces \ {pd}
  /\ UNCHANGED <<stacks, lost, programs>>

MapPage(pd, page) ==
  /\ m' = Mapped(m, pd, page, 1)
  /\ UNCHANGED <<spaces, stacks, lost, programs>>

UnmapPage(pd, page) ==
  /\ m' = Unmapped(m, pd, page)
  /\ UNCHANGED <<spaces, stacks, lost, programs>>

(* The loop that copies a program, without a look at whose frame it is.    *)
Copied(mem, page) == [mem EXCEPT !.page[PageNumber(page)] = Image]

Overrun(mem, page) == overrun \cup ({PageNumber(page)} \cap mem.used)

(* load_and_run: it copies, also if the table is full and there will be no *)
(* process; the directory is the kernel's.                                 *)
LoadAndRun(page) ==
  /\ m' = Copied(m, page)
  /\ loaded' \in {loaded, loaded \cup {page}}
  /\ overrun' = Overrun(m, page)
  /\ UNCHANGED <<spaces, stacks, lost>>

(* spawn_pipeline_process up to its kernel stack: the directory, the       *)
(* program, its page in the directory, a stack.  Without a frame for the   *)
(* stack it gives up, and what it has taken is lost.                       *)
Spawn(page) ==
  /\ Cardinality(spaces) < MaxSpaces
  /\ LET new   == Created(m)
         image == Mapped(Copied(new.mem, page), new.pd, page, PageNumber(page))
         stack == NextFrame(image)
         owned == {new.pd} \cup {image.page[new.pd][i] : i \in Present(image, new.pd)}
     IN  \/ /\ new.pd = 0
            /\ m' = new.mem
            /\ UNCHANGED <<spaces, stacks, lost, programs>>
         \/ /\ new.pd # 0 /\ stack = 0
            /\ m' = image
            /\ lost' = lost \cup owned
            /\ overrun' = Overrun(new.mem, page)
            /\ UNCHANGED <<spaces, stacks, loaded>>
         \/ /\ new.pd # 0 /\ stack # 0
            /\ m' = Mapped(Taken(image), new.pd, StackPage, stack)
            /\ spaces' = spaces \cup {new.pd}
            /\ stacks' = stacks \cup {stack}
            /\ loaded' = loaded \cup {page}
            /\ overrun' = Overrun(new.mem, page)
            /\ UNCHANGED lost

(* The last process of a program leaves the table.                         *)
Leave(page) ==
  /\ loaded' = loaded \ {page}
  /\ UNCHANGED <<m, spaces, stacks, lost, overrun>>

(* pmm_alloc_frame and pmm_free_frame, called for a frame alone.           *)
AllocFrame ==
  /\ Free(m) # {}
  /\ m' = Taken(m)
  /\ stacks' = stacks \cup {NextFrame(m)}
  /\ UNCHANGED <<spaces, lost, programs>>

FreeFrame(f) ==
  /\ m' = Freed(m, f)
  /\ stacks' = stacks \ {f}
  /\ UNCHANGED <<spaces, lost, programs>>

Next ==
  \/ CreatePd \/ AllocFrame
  \/ \E page \in ImagePages : Spawn(page)
  \/ \E f \in stacks : FreeFrame(f)
  \/ \E pd \in spaces :
       \/ DestroyPd(pd)
       \/ \E page \in Pages : MapPage(pd, page) \/ UnmapPage(pd, page)

Spec == Init /\ [][Next]_vars

LoaderNext ==
  \/ \E page \in ImagePages : Spawn(page) \/ LoadAndRun(page)
  \/ \E page \in loaded : Leave(page)

LoaderSpec == Init /\ [][LoaderNext]_vars

----------------------------------------------------------------------------
TypeOK ==
  /\ m.used \subseteq Frames
  /\ m.used_frames \in Nat
  /\ m.page \in [Frames -> [Indices -> Frames]]
  /\ spaces \cup stacks \cup lost \cup overrun \subseteq Frames
  /\ loaded \subseteq ImagePages

(* The tables of a directory, each once for every entry that points to it. *)
TableUses == {u \in (spaces \cup {kernel_pd}) \X Indices : m.page[u[1]][u[2]] # 0}

TableFrames == {m.page[u[1]][u[2]] : u \in TableUses}

(* Every frame in use has one use: it lies below the first free one, or is *)
(* the kernel's directory, or a directory, or the table of one entry of    *)
(* one directory, or a stack, or was lost by a spawn; the others are free, *)
(* and the count of frames in use is right.  A call that fails gives back  *)
(* all that it took.  This holds until a program is copied over a frame.   *)
FramesAccounted ==
  LET parts == <<0 .. first_free - 1, {kernel_pd}, spaces, TableFrames, stacks, lost>>
  IN  overrun = {} =>
        /\ m.used = UNION {parts[i] : i \in DOMAIN parts}
        /\ \A i, j \in DOMAIN parts : i # j => parts[i] \cap parts[j] = {}
        /\ Cardinality(TableFrames) = Cardinality(TableUses)
        /\ m.used_frames = Cardinality(m.used)

(* What address space pd maps page to, 0 for nothing.                      *)
Translated(mem, pd, page) ==
  IF mem.page[pd][page[1]] = 0 THEN 0 ELSE mem.page[mem.page[pd][page[1]]][page[2]]

(* No operation on one address space changes what another one, or the      *)
(* kernel's, maps a page to; until a program is copied over a frame.       *)
SpacesIsolated ==
  [][overrun' = {} =>
       \A pd \in (spaces \cap spaces') \cup {kernel_pd}, page \in Indices \X Indices :
         Translated(m', pd, page) # Translated(m, pd, page)
           => \E p \in Pages : MapPage(pd, p) \/ UnmapPage(pd, p)]_vars

(* The kernel leaves the frames alone that it loads programs to: as long   *)
(* as a program has a process in the table, it is there to be run.  pmm.c  *)
(* takes every frame above its bitmap for free, and the loaders take none. *)
ImagesStay == \A page \in loaded : m.page[PageNumber(page)] = Image

=============================================================================
