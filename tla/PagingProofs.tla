---------------------------- MODULE PagingProofs ----------------------------
(***************************************************************************)
(* The theorems of Paging.  The argument: every frame in use has one use.  *)
(* Sound(mem, D, K) says so of a memory with directories D and other uses  *)
(* K: the frames in neither are the tables, and each is the entry of one   *)
(* directory at one index.  There is a lemma for each way that a frame or  *)
(* an entry comes and goes (FrameAdded, FrameGone, DirectoryAdded,         *)
(* DirectoryGone, TableAdded, TableGone), and every function of pmm.c and  *)
(* vmm.c, also one that fails half-way, is a sequence of those.            *)
(*                                                                         *)
(* The loops of vmm.c are over the entries of a directory.  The one that   *)
(* frees tables is a fold, whose result is given in closed form (FreedAll);*)
(* the one of vmm_create_pd is a recursive function, and what holds after  *)
(* every turn is shown by the least turn after which it would not hold.    *)
(*                                                                         *)
(* PagingSound is the inductive invariant: the count is right whatever     *)
(* happens, and the use of the frames is Clean until a program is copied   *)
(* over a frame in use.  first_free, total_frames, the entries of a table  *)
(* and the pages of programs are arbitrary.                                *)
(***************************************************************************)
EXTENDS Paging, NaturalLemmas

Memories == [used : SUBSET Frames, used_frames : Nat, page : [Frames -> [Indices -> Frames]]]

Contents == [Indices -> Frames]

(* A memory whose frames in use are counted right.                         *)
Counted(mem) == mem \in Memories /\ mem.used_frames = Cardinality(mem.used)

(***************************************************************************)
(* Memory.                                                                 *)
(***************************************************************************)
LEMMA Constants ==
  /\ Frames \subseteq Nat /\ Indices \subseteq Nat /\ IsFiniteSet(Frames) /\ IsFiniteSet(Indices)
  /\ total_frames \in Nat \ {0} /\ first_free \in Nat \ {0} /\ Entries \in Nat \ {0}
  /\ KernelTables \in Nat /\ first_free + KernelTables < total_frames
  /\ KernelTables < Entries
  /\ 0 \in Frames /\ kernel_pd \in Frames /\ kernel_pd # 0
  /\ Empty \in Contents /\ Image \in Contents
  /\ \A f \in Frames : f \in Nat /\ f < total_frames
<1>1. total_frames \in Nat \ {0} /\ first_free \in Nat \ {0} /\ Entries \in Nat \ {0}
  BY PagingAssumption
<1>2. KernelTables \in Nat
  BY <1>1 DEF KernelTables
<1>3. KernelTables < Entries /\ first_free + KernelTables < total_frames
  BY <1>1, <1>2, PagingAssumption
<1>4. 0 \in Frames /\ kernel_pd \in Frames /\ kernel_pd # 0
  BY <1>1, <1>2, <1>3 DEF Frames, kernel_pd
<1>5. Frames \subseteq Nat /\ Indices \subseteq Nat /\ IsFiniteSet(Frames) /\ IsFiniteSet(Indices)
  <2>1. total_frames - 1 \in Int /\ Entries - 1 \in Int
    BY <1>1
  <2> QED
    BY <2>1, FS_Interval DEF Frames, Indices
<1>6. Empty \in Contents /\ Image \in Contents
  BY <1>4, PagingAssumption DEF Empty, Contents
<1>7. \A f \in Frames : f \in Nat /\ f < total_frames
  BY <1>1 DEF Frames
<1> QED
  BY <1>1, <1>2, <1>3, <1>4, <1>5, <1>6, <1>7

(* What the parts of a memory are.                                         *)
LEMMA Fields ==
  ASSUME NEW mem \in Memories
  PROVE  /\ mem.used \subseteq Frames /\ mem.used_frames \in Nat
         /\ mem.page \in [Frames -> Contents]
         /\ \A f \in Frames : mem.page[f] \in Contents
         /\ \A f \in Frames, i \in Indices : mem.page[f][i] \in Frames
         /\ IsFiniteSet(mem.used)
<1>1. mem.used \subseteq Frames /\ mem.used_frames \in Nat /\ mem.page \in [Frames -> Contents]
  BY DEF Memories, Contents
<1>2. IsFiniteSet(mem.used)
  BY <1>1, Constants, FS_Subset
<1> QED
  BY <1>1, <1>2 DEF Contents

(* What pmm_alloc_frame finds is free, unless it is 0.                     *)
LEMMA NextFrameIsFree ==
  ASSUME NEW mem \in Memories
  PROVE  /\ NextFrame(mem) \in Frames
         /\ NextFrame(mem) # 0 => NextFrame(mem) \notin mem.used
         /\ Free(mem) # {} => NextFrame(mem) \notin mem.used
<1>1. Free(mem) \subseteq Nat /\ Free(mem) \subseteq Frames
  BY Constants DEF Free
<1>2. CASE Free(mem) = {}
  BY <1>2, Constants DEF NextFrame
<1>3. CASE Free(mem) # {}
  <2>1. Min(Free(mem)) \in Free(mem)
    BY <1>1, <1>3, MinInSet
  <2>2. NextFrame(mem) = Min(Free(mem))
    BY <1>3 DEF NextFrame
  <2> QED
    BY <1>1, <2>1, <2>2 DEF Free
<1> QED
  BY <1>2, <1>3

(* A frame taken.                                                          *)
LEMMA TakenFrame ==
  ASSUME NEW mem, Counted(mem), NextFrame(mem) \notin mem.used
  PROVE  /\ Counted(Taken(mem))
         /\ Taken(mem).used = mem.used \cup {NextFrame(mem)}
         /\ Taken(mem).page = mem.page
<1> DEFINE f == NextFrame(mem)
           n == Taken(mem)
<1>1. mem \in Memories /\ mem.used_frames = Cardinality(mem.used) /\ f \in Frames
  BY NextFrameIsFree DEF Counted
<1>2. n = [mem EXCEPT !.used = mem.used \cup {f}, !.used_frames = mem.used_frames + 1]
  BY DEF Taken
<1> HIDE DEF n, f
<1>3. /\ n.used = mem.used \cup {f} /\ n.used_frames = mem.used_frames + 1
      /\ n.page = mem.page /\ n \in Memories
  <2> DEFINE u == mem.used \cup {f}
             c == mem.used_frames + 1
  <2>1. u \in SUBSET Frames /\ c \in Nat
    BY <1>1, Fields
  <2>2. n = [mem EXCEPT !.used = u, !.used_frames = c]
    BY <1>2
  <2> HIDE DEF u, c
  <2>3. n.used = u /\ n.used_frames = c /\ n.page = mem.page /\ n \in Memories
    BY <1>1, <2>1, <2>2 DEF Memories
  <2> QED
    BY <2>3 DEF u, c
<1>4. Cardinality(mem.used \cup {f}) = Cardinality(mem.used) + 1
  BY <1>1, Fields, FS_AddElement DEF f
<1> QED
  BY <1>1, <1>3, <1>4 DEF Counted, n, f

(* A frame taken and filled.                                               *)
LEMMA FilledFrame ==
  ASSUME NEW mem, Counted(mem), NextFrame(mem) \notin mem.used, NEW content \in Contents
  PROVE  /\ Counted(Filled(mem, content))
         /\ Filled(mem, content).used = mem.used \cup {NextFrame(mem)}
         /\ Filled(mem, content).page[NextFrame(mem)] = content
         /\ \A f \in Frames : f # NextFrame(mem) => Filled(mem, content).page[f] = mem.page[f]
<1> DEFINE f == NextFrame(mem)
           t == Taken(mem)
           n == Filled(mem, content)
<1>1. mem \in Memories /\ f \in Frames
  BY NextFrameIsFree DEF Counted
<1>2. Counted(t) /\ t.used = mem.used \cup {f} /\ t.page = mem.page
  BY TakenFrame
<1>3. n = [t EXCEPT !.page = [t.page EXCEPT ![f] = content]]
  BY DEF Filled
<1> HIDE DEF f, t, n
<1>4. t \in Memories /\ t.page \in [Frames -> Contents]
  BY <1>2, Fields DEF Counted
<1>5. /\ n.used = t.used /\ n.used_frames = t.used_frames
      /\ n.page = [t.page EXCEPT ![f] = content]
      /\ n \in Memories
  <2>1. [t.page EXCEPT ![f] = content] \in [Frames -> Contents]
    BY <1>4
  <2> HIDE DEF Contents
  <2> QED
    BY <1>3, <1>4, <2>1 DEF Memories, Contents
<1>6. n.page[f] = content /\ \A g \in Frames : g # f => n.page[g] = mem.page[g]
  BY <1>1, <1>2, <1>4, <1>5
<1> QED
  BY <1>2, <1>5, <1>6 DEF Counted, n, f

(* A frame freed.                                                          *)
LEMMA FreedFrame ==
  ASSUME NEW mem, Counted(mem), NEW f \in Frames
  PROVE  /\ Counted(Freed(mem, f))
         /\ Freed(mem, f).used = mem.used \ {f}
         /\ \A g \in Frames : g # f => Freed(mem, f).page[g] = mem.page[g]
         /\ Freed(mem, f).page[f]
              = IF f \in mem.used /\ mem.page[f] # Image THEN Empty ELSE mem.page[f]
<1> DEFINE n == Freed(mem, f)
           content == IF mem.page[f] = Image THEN mem.page[f] ELSE Empty
<1>1. /\ mem \in Memories /\ mem.used_frames = Cardinality(mem.used) /\ mem.used_frames \in Nat
      /\ mem.page \in [Frames -> Contents] /\ content \in Contents
  BY Fields, Constants DEF Counted
<1>2. CASE f \notin mem.used
  BY <1>2 DEF Freed
<1>3. CASE f \in mem.used
  <2>1. n = [mem EXCEPT !.used = mem.used \ {f}, !.used_frames = mem.used_frames - 1,
                        !.page = [mem.page EXCEPT ![f] = content]]
    BY <1>3 DEF Freed
  <2>2. Cardinality(mem.used \ {f}) = Cardinality(mem.used) - 1
    BY <1>1, <1>3, Fields, FS_RemoveElement
  <2>3. Cardinality(mem.used \ {f}) \in Nat
    BY <1>1, Fields, FS_RemoveElement, FS_CardinalityType
  <2> HIDE DEF n, content
  <2>4. [mem.page EXCEPT ![f] = content] \in [Frames -> Contents]
    BY <1>1
  <2>5. /\ n.used = mem.used \ {f} /\ n.used_frames = mem.used_frames - 1
        /\ n.page = [mem.page EXCEPT ![f] = content]
    BY <1>1, <2>1 DEF Memories
  <2>6. n \in Memories
    <3>1. mem.used_frames - 1 \in Nat /\ mem.used \ {f} \subseteq Frames
      BY <1>1, <2>2, <2>3, Fields
    <3> QED
      BY <1>1, <2>1, <2>4, <3>1 DEF Memories, Contents
  <2>7. /\ n.page[f] = content
        /\ \A g \in Frames : g # f => n.page[g] = mem.page[g]
    BY <1>1, <2>5
  <2> QED
    BY <1>1, <1>3, <2>2, <2>5, <2>6, <2>7 DEF Counted, n, content
<1> QED
  BY <1>2, <1>3

(* Many frames freed, each as pmm_free_frame does, in whatever order.      *)
FreedAll(mem, T) ==
  [used        |-> mem.used \ T,
   used_frames |-> Cardinality(mem.used \ T),
   page        |-> [f \in Frames |->
     IF f \in T /\ f \in mem.used /\ mem.page[f] # Image THEN Empty ELSE mem.page[f]]]

(* Freeing many frames keeps the count right and the other frames as they  *)
(* are.                                                                    *)
LEMMA FreedAllFields ==
  ASSUME NEW mem, Counted(mem), NEW T
  PROVE  /\ Counted(FreedAll(mem, T))
         /\ FreedAll(mem, T).used = mem.used \ T
         /\ \A f \in Frames : f \notin T => FreedAll(mem, T).page[f] = mem.page[f]
<1> DEFINE u == mem.used \ T
           c == Cardinality(u)
           p == [f \in Frames |->
             IF f \in T /\ f \in mem.used /\ mem.page[f] # Image THEN Empty ELSE mem.page[f]]
           n == FreedAll(mem, T)
<1>1. mem \in Memories
  BY DEF Counted
<1>2. u \in SUBSET Frames /\ c \in Nat
  <2>1. u \subseteq mem.used
    OBVIOUS
  <2> HIDE DEF u
  <2> QED
    BY <1>1, <2>1, Fields, FS_Subset, FS_CardinalityType
<1>3. p \in [Frames -> Contents]
  BY <1>1, Fields, Constants
<1>4. \A f \in Frames : f \notin T => p[f] = mem.page[f]
  OBVIOUS
<1>5. n = [used |-> u, used_frames |-> c, page |-> p]
  BY DEF FreedAll
<1> HIDE DEF u, p, n
<1>6. n.used = u /\ n.used_frames = c /\ n.page = p /\ n \in Memories
  BY <1>2, <1>3, <1>5 DEF Memories, Contents
<1> QED
  BY <1>4, <1>6 DEF Counted, n, u

(* Freeing no frames changes nothing.                                      *)
LEMMA FreedNone ==
  ASSUME NEW mem, Counted(mem)
  PROVE  FreedAll(mem, {}) = mem
<1> DEFINE p == [f \in Frames |->
             IF f \in {} /\ f \in mem.used /\ mem.page[f] # Image THEN Empty ELSE mem.page[f]]
<1>1. mem \in Memories /\ mem.used_frames = Cardinality(mem.used)
  BY DEF Counted
<1>2. p = mem.page /\ mem.used \ {} = mem.used
  <2>1. mem.page \in [Frames -> Contents]
    BY <1>1, Fields
  <2> QED
    BY <2>1
<1>3. FreedAll(mem, {}) = [used |-> mem.used \ {}, used_frames |-> Cardinality(mem.used \ {}), page |-> p]
  BY DEF FreedAll
<1> HIDE DEF p
<1>4. mem = [used |-> mem.used, used_frames |-> mem.used_frames, page |-> mem.page]
  BY <1>1 DEF Memories
<1> QED
  BY <1>1, <1>2, <1>3, <1>4

(* Freeing many frames and then one more is freeing one more of them.      *)
LEMMA FreedOneMore ==
  ASSUME NEW mem, Counted(mem), NEW T, NEW f \in Frames
  PROVE  Freed(FreedAll(mem, T), f) = FreedAll(mem, T \cup {f})
<1> DEFINE a == FreedAll(mem, T)
           b == Freed(a, f)
           c == FreedAll(mem, T \cup {f})
<1>1. Counted(a) /\ a.used = mem.used \ T
  BY FreedAllFields
<1>2. Counted(c) /\ c.used = mem.used \ (T \cup {f})
  BY FreedAllFields
<1>3. /\ Counted(b) /\ b.used = a.used \ {f}
      /\ \A g \in Frames : g # f => b.page[g] = a.page[g]
      /\ b.page[f] = IF f \in a.used /\ a.page[f] # Image THEN Empty ELSE a.page[f]
  BY <1>1, FreedFrame
<1>4. b.used = c.used
  BY <1>1, <1>2, <1>3
<1>5. b.used_frames = c.used_frames
  BY <1>2, <1>3, <1>4 DEF Counted
<1>6. \A g \in Frames : b.page[g] = c.page[g]
  <2>1. \A g \in Frames :
          a.page[g] = IF g \in T /\ g \in mem.used /\ mem.page[g] # Image THEN Empty ELSE mem.page[g]
    BY DEF FreedAll
  <2>2. \A g \in Frames :
          c.page[g] = IF g \in T \cup {f} /\ g \in mem.used /\ mem.page[g] # Image
                      THEN Empty ELSE mem.page[g]
    BY DEF FreedAll
  <2> HIDE DEF a, b, c
  <2>3. ASSUME NEW g \in Frames, g # f PROVE b.page[g] = c.page[g]
    BY <1>3, <2>1, <2>2, <2>3
  <2>4. b.page[f] = c.page[f]
    BY <1>1, <1>3, <2>1, <2>2
  <2> QED
    BY <2>3, <2>4
<1>7. b \in Memories /\ c \in Memories
  BY <1>2, <1>3 DEF Counted
<1> HIDE DEF a, b, c
<1>8. b.page = c.page
  <2>1. b.page \in [Frames -> Contents] /\ c.page \in [Frames -> Contents]
    BY <1>7, Fields
  <2> QED
    BY <1>6, <2>1
<1> QED
  <2>1. /\ b = [used |-> b.used, used_frames |-> b.used_frames, page |-> b.page]
        /\ c = [used |-> c.used, used_frames |-> c.used_frames, page |-> c.page]
    BY <1>7 DEF Memories
  <2>2. b = c
    BY <1>4, <1>5, <1>8, <2>1
  <2> QED
    BY <2>2 DEF a, b, c

(* The frames of the tables of a directory.                                *)
TablesOf(mem, pd) == {mem.page[pd][i] : i \in Present(mem, pd)}

(* vmm_destroy_pd frees the tables of the directory, each once.            *)
LEMMA TablesFreedAll ==
  ASSUME NEW mem, Counted(mem), NEW pd \in Frames
  PROVE  TablesFreed(mem, pd) = FreedAll(mem, TablesOf(mem, pd))
<1> DEFINE S == Present(mem, pd)
           F(g) == [s \in SUBSET S |->
                      IF s = {} THEN mem
                      ELSE Freed(g[s \ {CHOOSE x \in s : TRUE}],
                                 mem.page[pd][CHOOSE x \in s : TRUE])]
           f == CHOOSE g : g = F(g)
           T(s) == {mem.page[pd][i] : i \in s}
           G == [s \in SUBSET S |-> FreedAll(mem, T(s))]
<1>1. IsFiniteSet(S) /\ S \subseteq Indices
  <2>1. S \subseteq Indices
    BY DEF Present
  <2> QED
    BY <2>1, Constants, FS_Subset
<1>2. TablesFreed(mem, pd) = f[S]
  <2> HIDE DEF S
  <2>1. TablesFreed(mem, pd) = FoldSet(LAMBDA i, rest : Freed(rest, mem.page[pd][i]), mem, S)
    BY DEF TablesFreed, S
  <2> QED
    BY <2>1, Zenon DEF FoldSet, MapThenFoldSet
<1>3. ASSUME NEW s \in SUBSET S, NEW x \in s
      PROVE  G[s] = Freed(G[s \ {x}], mem.page[pd][x])
  <2>1. mem.page[pd][x] \in Frames
    BY <1>1, Fields DEF Counted
  <2>2. T(s) = T(s \ {x}) \cup {mem.page[pd][x]}
    OBVIOUS
  <2>3. G[s] = FreedAll(mem, T(s)) /\ G[s \ {x}] = FreedAll(mem, T(s \ {x}))
    <3>1. s \ {x} \in SUBSET S
      OBVIOUS
    <3> HIDE DEF S, T
    <3> QED
      BY <3>1
  <2> HIDE DEF T, G
  <2> QED
    BY <2>1, <2>2, <2>3, FreedOneMore
<1>4. G[{}] = mem
  <2>1. T({}) = {}
    OBVIOUS
  <2> HIDE DEF T
  <2> QED
    BY <2>1, FreedNone
<1>5. G = F(G)
  <2>1. \A s \in SUBSET S : s # {} => (CHOOSE x \in s : TRUE) \in s
    OBVIOUS
  <2>2. \A s \in SUBSET S :
          G[s] = IF s = {} THEN mem
                 ELSE Freed(G[s \ {CHOOSE x \in s : TRUE}], mem.page[pd][CHOOSE x \in s : TRUE])
    <3> HIDE DEF G, S
    <3> QED
      BY <1>3, <1>4, <2>1
  <2>3. G = [s \in SUBSET S |-> G[s]]
    OBVIOUS
  <2> HIDE DEF G, S
  <2> QED
    BY <2>2, <2>3
<1> HIDE DEF G, S
<1>6. f = F(f)
  <2> HIDE DEF F
  <2> QED
    BY <1>5
<1>7. f[S] = G[S]
  <2> HIDE DEF f
  <2>1. f[{}] = G[{}]
    BY <1>4, <1>6
  <2>2. ASSUME NEW s \in SUBSET S, s # {}
        PROVE  \E x \in s : f[s \ {x}] = G[s \ {x}] => f[s] = G[s]
    <3> DEFINE x == CHOOSE x \in s : TRUE
    <3>1. x \in s
      BY <2>2
    <3>2. f[s] = Freed(f[s \ {x}], mem.page[pd][x])
      BY <1>6, <2>2
    <3>3. G[s] = Freed(G[s \ {x}], mem.page[pd][x])
      BY <1>3, <3>1
    <3> HIDE DEF x
    <3> QED
      BY <3>1, <3>2, <3>3
  <2>3. AgreeStepwise(S, f, G)
    BY <2>1, <2>2 DEF AgreeStepwise
  <2> QED
    BY <1>1, <2>3, SameOnFiniteSets
<1>8. G[S] = FreedAll(mem, TablesOf(mem, pd))
  BY DEF G, TablesOf, S
<1> QED
  BY <1>2, <1>7, <1>8

(* A directory and its tables freed.                                       *)
LEMMA DirectoryFreed ==
  ASSUME NEW mem, Counted(mem), NEW pd \in Frames
  PROVE  LET n == Freed(TablesFreed(mem, pd), pd)
         IN  /\ Counted(n)
             /\ n.used = mem.used \ (TablesOf(mem, pd) \cup {pd})
             /\ \A f \in Frames : f \notin TablesOf(mem, pd) \cup {pd} => n.page[f] = mem.page[f]
<1> DEFINE a == TablesFreed(mem, pd)
<1>1. /\ Counted(a) /\ a.used = mem.used \ TablesOf(mem, pd)
      /\ \A f \in Frames : f \notin TablesOf(mem, pd) => a.page[f] = mem.page[f]
  BY TablesFreedAll, FreedAllFields
<1> HIDE DEF a
<1>2. /\ Counted(Freed(a, pd)) /\ Freed(a, pd).used = a.used \ {pd}
      /\ \A f \in Frames : f # pd => Freed(a, pd).page[f] = a.page[f]
  BY <1>1, FreedFrame
<1>3. Freed(a, pd).used = mem.used \ (TablesOf(mem, pd) \cup {pd})
  BY <1>1, <1>2
<1> QED
  BY <1>1, <1>2, <1>3 DEF a

(***************************************************************************)
(* The loop of vmm_create_pd.                                              *)
(***************************************************************************)
FirstCopy(mem) == [mem |-> Filled(mem, Empty), pd |-> NextFrame(mem)]

(* The memory and the directory after each turn, up to the turn before k.  *)
IsLoop(t, mem, k) ==
  t = [i \in 0 .. k |-> IF i = 0 THEN FirstCopy(mem) ELSE CopyTable(t[i - 1], i - 1)]

(* The loop has a run of every length.                                     *)
LEMMA LoopRuns ==
  ASSUME NEW mem, NEW k \in Nat
  PROVE  \E t : IsLoop(t, mem, k)
<1> DEFINE Stuck == {j \in Nat : ~ \E t : IsLoop(t, mem, j)}
           j == Min(Stuck)
<1>1. ASSUME Stuck # {} PROVE FALSE
  <2>1. j \in Stuck /\ \A l \in Stuck : j <= l
    BY <1>1, MinInSet
  <2>2. j \in Nat /\ ~ \E t : IsLoop(t, mem, j)
    BY <2>1
  <2> HIDE DEF j
  <2>3. j # 0
    <3> DEFINE t == [i \in 0 .. 0 |-> FirstCopy(mem)]
    <3>1. t = [i \in 0 .. 0 |-> IF i = 0 THEN FirstCopy(mem) ELSE CopyTable(t[i - 1], i - 1)]
      OBVIOUS
    <3> HIDE DEF t
    <3>2. IsLoop(t, mem, 0)
      BY <3>1 DEF IsLoop
    <3> QED
      BY <2>2, <3>2
  <2>4. PICK t : IsLoop(t, mem, j - 1)
    <3>1. j - 1 \in Nat /\ j - 1 < j
      BY <2>2, <2>3
    <3> QED
      BY <2>1, <3>1
  <2> DEFINE last == CopyTable(t[j - 1], j - 1)
             u == [i \in 0 .. j |-> IF i = j THEN last ELSE t[i]]
  <2>5. \A i \in 0 .. j - 1 :
          t[i] = IF i = 0 THEN FirstCopy(mem) ELSE CopyTable(t[i - 1], i - 1)
    BY <2>4 DEF IsLoop
  <2>6. \A i \in 0 .. j :
          u[i] = IF i = 0 THEN FirstCopy(mem) ELSE CopyTable(u[i - 1], i - 1)
    <3> SUFFICES ASSUME NEW i \in 0 .. j
                 PROVE  u[i] = IF i = 0 THEN FirstCopy(mem) ELSE CopyTable(u[i - 1], i - 1)
      OBVIOUS
    <3>1. i = 0 => u[i] = t[0] /\ 0 \in 0 .. j - 1
      BY <2>2, <2>3
    <3>2. i # 0 => i - 1 \in 0 .. j /\ i - 1 # j /\ u[i - 1] = t[i - 1]
      BY <2>2
    <3>3. i # 0 /\ i # j => i \in 0 .. j - 1 /\ u[i] = t[i]
      BY <2>2
    <3>4. i = j => u[i] = last
      BY <2>2
    <3> HIDE DEF u
    <3>5. CASE i = 0
      BY <2>5, <3>1, <3>5
    <3>6. CASE i = j
      BY <2>3, <3>2, <3>4, <3>6
    <3>7. CASE i # 0 /\ i # j
      BY <2>5, <3>2, <3>3, <3>7
    <3> QED
      BY <3>5, <3>6, <3>7
  <2>7. u = [i \in 0 .. j |-> u[i]]
    OBVIOUS
  <2> HIDE DEF u
  <2>8. IsLoop(u, mem, j)
    BY <2>6, <2>7 DEF IsLoop
  <2> QED
    BY <2>2, <2>8
<1> QED
  BY <1>1

(* What vmm_create_pd leaves is the last of the turns of its loop.         *)
LEMMA CreatedByLoop ==
  ASSUME NEW mem, NextFrame(mem) # 0
  PROVE  \E t : /\ Created(mem) = t[Entries]
                /\ t[0] = FirstCopy(mem)
                /\ \A i \in Indices : t[i + 1] = CopyTable(t[i], i)
<1> DEFINE t == CHOOSE t : IsLoop(t, mem, Entries)
<1>1. Entries \in Nat \ {0} /\ Indices = 0 .. Entries - 1
  BY Constants DEF Indices
<1>2. IsLoop(t, mem, Entries)
  BY <1>1, LoopRuns
<1>3. Created(mem) = t[Entries]
  BY Zenon DEF Created, IsLoop, FirstCopy
<1> HIDE DEF t
<1>4. \A i \in 0 .. Entries :
        t[i] = IF i = 0 THEN FirstCopy(mem) ELSE CopyTable(t[i - 1], i - 1)
  BY <1>2 DEF IsLoop
<1>5. t[0] = FirstCopy(mem)
  BY <1>1, <1>4
<1>6. ASSUME NEW i \in Indices PROVE t[i + 1] = CopyTable(t[i], i)
  <2>1. i + 1 \in 0 .. Entries /\ i + 1 # 0 /\ (i + 1) - 1 = i
    BY <1>1
  <2> QED
    BY <1>4, <2>1
<1> QED
  BY <1>3, <1>5, <1>6

(***************************************************************************)
(* Who holds which frame: the directories D; their tables, each the table  *)
(* of one entry; and K, the frames held otherwise.                         *)
(***************************************************************************)
Sound(mem, D, K) ==
  /\ D \subseteq mem.used /\ K \subseteq mem.used /\ D \cap K = {} /\ 0 \in K
  /\ \A pd \in D, i \in Indices :
       mem.page[pd][i] # 0 => mem.page[pd][i] \in mem.used \ (D \cup K)
  /\ \A f \in mem.used \ (D \cup K) : \E pd \in D, i \in Indices : mem.page[pd][i] = f
  /\ \A pd, qd \in D, i, j \in Indices :
       mem.page[pd][i] # 0 /\ mem.page[pd][i] = mem.page[qd][j] => pd = qd /\ i = j

(* A frame that was free becomes an empty directory.                       *)
LEMMA DirectoryAdded ==
  ASSUME NEW a, NEW D, NEW K, Sound(a, D, K), NEW b, NEW d, d \notin a.used,
         b.used = a.used \cup {d}, \A f \in D : b.page[f] = a.page[f],
         \A i \in Indices : b.page[d][i] = 0
  PROVE  Sound(b, D \cup {d}, K)
<1>1. D \subseteq a.used /\ K \subseteq a.used /\ d \notin D /\ d \notin K /\ 0 \in K
  BY DEF Sound
<1>2. \A pd \in D \cup {d}, i \in Indices :
        b.page[pd][i] # 0 => pd \in D /\ b.page[pd][i] = a.page[pd][i]
  OBVIOUS
<1>3. \A pd \in D, i \in Indices : b.page[pd][i] = a.page[pd][i]
  OBVIOUS
<1> QED
  BY <1>1, <1>2, <1>3 DEF Sound

(* A frame that was free becomes the table of an entry that had none.      *)
LEMMA TableAdded ==
  ASSUME NEW a, NEW D, NEW K, Sound(a, D, K), NEW b, NEW d \in D, NEW i \in Indices,
         NEW t, a.page[d][i] = 0, t \notin a.used, b.used = a.used \cup {t},
         \A f \in D : f # d => b.page[f] = a.page[f],
         b.page[d][i] = t, \A j \in Indices : j # i => b.page[d][j] = a.page[d][j]
  PROVE  Sound(b, D, K)
<1>1. D \subseteq a.used /\ K \subseteq a.used /\ t \notin D /\ t \notin K /\ 0 \in K /\ t # 0
  BY DEF Sound
<1>2. \A pd \in D, j \in Indices :
        b.page[pd][j] = IF pd = d /\ j = i THEN t ELSE a.page[pd][j]
  OBVIOUS
<1>3. \A pd \in D, j \in Indices : a.page[pd][j] # 0 => a.page[pd][j] # t
  BY DEF Sound
<1>4. \A pd \in D, j \in Indices :
        b.page[pd][j] # 0 => b.page[pd][j] \in b.used \ (D \cup K)
  BY <1>1, <1>2 DEF Sound
<1>5. ASSUME NEW f \in b.used \ (D \cup K)
      PROVE  \E pd \in D, j \in Indices : b.page[pd][j] = f
  <2>1. CASE f = t
    BY <1>2, <2>1
  <2>2. CASE f # t
    <3>1. f \in a.used \ (D \cup K)
      BY <2>2
    <3>2. PICK pd \in D, j \in Indices : a.page[pd][j] = f
      BY <3>1 DEF Sound
    <3>3. f # 0
      BY <1>1
    <3>4. ~(pd = d /\ j = i)
      BY <3>2, <3>3
    <3> QED
      BY <1>2, <3>2, <3>4
  <2> QED
    BY <2>1, <2>2
<1>6. ASSUME NEW pd \in D, NEW qd \in D, NEW j \in Indices, NEW k \in Indices,
             b.page[pd][j] # 0, b.page[pd][j] = b.page[qd][k]
      PROVE  pd = qd /\ j = k
  <2>1. CASE pd = d /\ j = i
    BY <1>1, <1>2, <1>3, <1>6, <2>1
  <2>2. CASE qd = d /\ k = i
    BY <1>1, <1>2, <1>3, <1>6, <2>2
  <2>3. CASE ~(pd = d /\ j = i) /\ ~(qd = d /\ k = i)
    <3>1. b.page[pd][j] = a.page[pd][j] /\ b.page[qd][k] = a.page[qd][k]
      BY <1>2, <2>3
    <3>2. a.page[pd][j] # 0 /\ a.page[pd][j] = a.page[qd][k]
      BY <1>6, <3>1
    <3> QED
      BY <3>2 DEF Sound
  <2> QED
    BY <2>1, <2>2, <2>3
<1>7. D \subseteq b.used /\ K \subseteq b.used /\ D \cap K = {}
  BY <1>1 DEF Sound
<1> QED
  BY <1>1, <1>4, <1>5, <1>6, <1>7 DEF Sound

(* What is written elsewhere.                                              *)
LEMMA DirectoriesKept ==
  ASSUME NEW a, NEW D, NEW K, Sound(a, D, K), NEW b,
         b.used = a.used, \A f \in D : b.page[f] = a.page[f]
  PROVE  Sound(b, D, K)
<1>1. \A pd \in D, i \in Indices : b.page[pd][i] = a.page[pd][i]
  OBVIOUS
<1> QED
  BY <1>1 DEF Sound

(* A frame taken or freed by itself.                                       *)
LEMMA FrameAdded ==
  ASSUME NEW a, NEW D, NEW K, Sound(a, D, K), NEW b, NEW t, t \notin a.used,
         b.used = a.used \cup {t}, \A f \in D : b.page[f] = a.page[f]
  PROVE  Sound(b, D, K \cup {t})
<1>1. \A pd \in D, i \in Indices : b.page[pd][i] = a.page[pd][i]
  OBVIOUS
<1>2. D \subseteq a.used /\ K \subseteq a.used /\ D \cap K = {} /\ t \notin D
  BY DEF Sound
<1>3. b.used \ (D \cup (K \cup {t})) = a.used \ (D \cup K)
  BY <1>2
<1> QED
  BY <1>1, <1>2, <1>3 DEF Sound

(* A frame held otherwise is freed.                                        *)
LEMMA FrameGone ==
  ASSUME NEW a, NEW D, NEW K, Sound(a, D, K), NEW b, NEW t \in K, t # 0,
         b.used = a.used \ {t}, \A f \in D : b.page[f] = a.page[f]
  PROVE  Sound(b, D, K \ {t})
<1>1. \A pd \in D, i \in Indices : b.page[pd][i] = a.page[pd][i]
  OBVIOUS
<1>2. D \subseteq a.used /\ K \subseteq a.used /\ D \cap K = {} /\ t \notin D
  BY DEF Sound
<1>3. b.used \ (D \cup (K \ {t})) = a.used \ (D \cup K)
  BY <1>2
<1> QED
  BY <1>1, <1>2, <1>3 DEF Sound

(* A directory freed with its tables.                                      *)
LEMMA DirectoryGone ==
  ASSUME NEW a, NEW D, NEW K, Sound(a, D, K), NEW b, NEW d \in D,
         b.used = a.used \ (TablesOf(a, d) \cup {d}),
         \A f \in D : f # d => b.page[f] = a.page[f]
  PROVE  Sound(b, D \ {d}, K)
<1> DEFINE E == D \ {d}
           T == TablesOf(a, d)
<1>1. \A pd \in E, i \in Indices : b.page[pd][i] = a.page[pd][i]
  OBVIOUS
<1>2. \A f : f \in T <=> \E i \in Indices : a.page[d][i] # 0 /\ f = a.page[d][i]
  BY DEF TablesOf, Present
<1>3. T \cap (D \cup K) = {}
  BY <1>2 DEF Sound
<1>4. \A pd \in E, i \in Indices : a.page[pd][i] # 0 => a.page[pd][i] \notin T
  BY <1>2 DEF Sound
<1> HIDE DEF T
<1>5. /\ E \subseteq b.used /\ K \subseteq b.used /\ E \cap K = {} /\ 0 \in K
  BY <1>3 DEF Sound, T
<1>6. ASSUME NEW pd \in E, NEW i \in Indices, b.page[pd][i] # 0
      PROVE  b.page[pd][i] \in b.used \ (E \cup K)
  <2>1. a.page[pd][i] \in a.used \ (D \cup K)
    BY <1>1, <1>6 DEF Sound
  <2> QED
    BY <1>1, <1>4, <1>6, <2>1 DEF T
<1>7. ASSUME NEW f \in b.used \ (E \cup K)
      PROVE  \E pd \in E, i \in Indices : b.page[pd][i] = f
  <2>1. f \in a.used \ (D \cup K) /\ f \notin T
    BY DEF T
  <2>2. PICK pd \in D, i \in Indices : a.page[pd][i] = f
    BY <2>1 DEF Sound
  <2>3. f # 0
    BY <1>5
  <2>4. pd # d
    BY <1>2, <2>1, <2>2, <2>3
  <2> QED
    BY <1>1, <2>2, <2>4
<1>8. \A pd, qd \in E, i, j \in Indices :
        b.page[pd][i] # 0 /\ b.page[pd][i] = b.page[qd][j] => pd = qd /\ i = j
  BY <1>1 DEF Sound
<1> QED
  BY <1>5, <1>6, <1>7, <1>8 DEF Sound

(* A table freed and taken out of its directory.                           *)
LEMMA TableGone ==
  ASSUME NEW a, NEW D, NEW K, Sound(a, D, K), NEW b, NEW d \in D, NEW i \in Indices,
         a.page[d][i] # 0, b.used = a.used \ {a.page[d][i]},
         \A f \in D : f # d => b.page[f] = a.page[f],
         b.page[d][i] = 0, \A j \in Indices : j # i => b.page[d][j] = a.page[d][j]
  PROVE  Sound(b, D, K)
<1> DEFINE t == a.page[d][i]
<1>1. D \subseteq a.used /\ K \subseteq a.used /\ D \cap K = {} /\ 0 \in K
      /\ t \in a.used \ (D \cup K)
  BY DEF Sound
<1>2. \A pd \in D, j \in Indices :
        b.page[pd][j] = IF pd = d /\ j = i THEN 0 ELSE a.page[pd][j]
  OBVIOUS
<1>3. \A pd \in D, j \in Indices :
        b.page[pd][j] # 0 => b.page[pd][j] = a.page[pd][j] /\ a.page[pd][j] # t
  <2>1. \A pd \in D, j \in Indices : a.page[pd][j] = t => pd = d /\ j = i
    BY DEF Sound
  <2> HIDE DEF t
  <2> QED
    BY <1>2, <2>1
<1>4. \A pd \in D, j \in Indices :
        b.page[pd][j] # 0 => b.page[pd][j] \in b.used \ (D \cup K)
  BY <1>1, <1>3 DEF Sound
<1>5. ASSUME NEW f \in b.used \ (D \cup K)
      PROVE  \E pd \in D, j \in Indices : b.page[pd][j] = f
  <2>1. f \in a.used \ (D \cup K) /\ f # t
    OBVIOUS
  <2>2. PICK pd \in D, j \in Indices : a.page[pd][j] = f
    BY <2>1 DEF Sound
  <2>3. ~(pd = d /\ j = i)
    BY <2>1, <2>2
  <2> QED
    BY <1>2, <2>2, <2>3
<1>6. ASSUME NEW pd \in D, NEW qd \in D, NEW j \in Indices, NEW k \in Indices,
             b.page[pd][j] # 0, b.page[pd][j] = b.page[qd][k]
      PROVE  pd = qd /\ j = k
  <2>1. b.page[pd][j] = a.page[pd][j] /\ b.page[qd][k] = a.page[qd][k]
    BY <1>3, <1>6
  <2>2. a.page[pd][j] # 0 /\ a.page[pd][j] = a.page[qd][k]
    BY <1>6, <2>1
  <2> QED
    BY <2>2 DEF Sound
<1>7. D \subseteq b.used /\ K \subseteq b.used
  BY <1>1
<1> QED
  BY <1>1, <1>4, <1>5, <1>6, <1>7 DEF Sound

(* A directory that is given up with its tables, not freed.                *)
LEMMA DirectoryLost ==
  ASSUME NEW a, NEW D, NEW K, Sound(a, D, K), NEW d \in D
  PROVE  Sound(a, D \ {d}, K \cup ({d} \cup TablesOf(a, d)))
<1> DEFINE E == D \ {d}
           T == TablesOf(a, d)
           L == K \cup ({d} \cup T)
<1>1. \A f : f \in T <=> \E i \in Indices : a.page[d][i] # 0 /\ f = a.page[d][i]
  BY DEF TablesOf, Present
<1>2. T \subseteq a.used \ (D \cup K)
  BY <1>1 DEF Sound
<1>3. \A pd \in E, i \in Indices : a.page[pd][i] # 0 => a.page[pd][i] \notin T
  BY <1>1 DEF Sound
<1> HIDE DEF T
<1>4. E \subseteq a.used /\ L \subseteq a.used /\ E \cap L = {} /\ 0 \in L
  BY <1>2 DEF Sound
<1>5. \A pd \in E, i \in Indices :
        a.page[pd][i] # 0 => a.page[pd][i] \in a.used \ (E \cup L)
  BY <1>3 DEF Sound
<1>6. ASSUME NEW f \in a.used \ (E \cup L)
      PROVE  \E pd \in E, i \in Indices : a.page[pd][i] = f
  <2>1. f \in a.used \ (D \cup K) /\ f \notin T
    OBVIOUS
  <2>2. PICK pd \in D, i \in Indices : a.page[pd][i] = f
    BY <2>1 DEF Sound
  <2>3. pd # d
    BY <1>1, <1>4, <2>1, <2>2
  <2> QED
    BY <2>2, <2>3
<1>7. \A pd, qd \in E, i, j \in Indices :
        a.page[pd][i] # 0 /\ a.page[pd][i] = a.page[qd][j] => pd = qd /\ i = j
  BY DEF Sound
<1> HIDE DEF L, E
<1>8. Sound(a, E, L)
  BY <1>4, <1>5, <1>6, <1>7 DEF Sound
<1> QED
  BY <1>8 DEF E, L, T

(* The frames F have the same contents in a and in b.                      *)
Kept(a, b, F) == \A f \in F : b.page[f] = a.page[f]

(* The tables of a directory that was added lie in frames that were free.  *)
LEMMA NewTablesApart ==
  ASSUME NEW a, NEW D, NEW K, Sound(a, D, K), NEW b, NEW d, d \notin a.used,
         Sound(b, D \cup {d}, K), Kept(a, b, a.used)
  PROVE  TablesOf(b, d) \cap a.used = {}
<1> SUFFICES ASSUME NEW f \in TablesOf(b, d), f \in a.used PROVE FALSE
  OBVIOUS
<1>1. PICK i \in Indices : b.page[d][i] # 0 /\ f = b.page[d][i]
  BY DEF TablesOf, Present
<1>2. D \subseteq a.used /\ d \notin D
  BY DEF Sound
<1>3. f \notin D /\ f \notin K
  BY <1>1 DEF Sound
<1>4. PICK pd \in D, j \in Indices : a.page[pd][j] = f
  BY <1>3 DEF Sound
<1>5. b.page[pd][j] = f
  BY <1>2, <1>4 DEF Kept
<1>6. pd # d
  BY <1>2
<1> QED
  BY <1>1, <1>5, <1>6 DEF Sound

(* An entry written, and nothing else.                                     *)
Put(a, f, i, v) == [a EXCEPT !.page[f][i] = v]

Differs(a, b, f, i, v) ==
  /\ b.used = a.used
  /\ \A g \in Frames : g # f => b.page[g] = a.page[g]
  /\ b.page[f][i] = v
  /\ \A j \in Indices : j # i => b.page[f][j] = a.page[f][j]

(* An entry written.                                                       *)
LEMMA PutEntry ==
  ASSUME NEW a, Counted(a), NEW f \in Frames, NEW i \in Indices, NEW v \in Frames
  PROVE  Counted(Put(a, f, i, v)) /\ Differs(a, Put(a, f, i, v), f, i, v)
<1> DEFINE n == Put(a, f, i, v)
           c == [a.page[f] EXCEPT ![i] = v]
           p == [a.page EXCEPT ![f] = c]
<1>1. a \in Memories /\ a.used_frames = Cardinality(a.used)
  BY DEF Counted
<1>2. a.page \in [Frames -> Contents] /\ a.page[f] \in Contents
  BY <1>1, Fields
<1>3. /\ c \in Contents /\ c[i] = v
      /\ \A j \in Indices : j # i => c[j] = a.page[f][j]
  BY <1>2 DEF Contents
<1>4. n = [a EXCEPT !.page = p]
  BY DEF Put
<1> HIDE DEF c
<1>5. /\ p \in [Frames -> Contents] /\ p[f] = c
      /\ \A g \in Frames : g # f => p[g] = a.page[g]
  BY <1>2, <1>3
<1> HIDE DEF p, n
<1>6. /\ n.used = a.used /\ n.used_frames = a.used_frames /\ n.page = p /\ n \in Memories
  BY <1>1, <1>4, <1>5 DEF Memories, Contents
<1> QED
  BY <1>1, <1>3, <1>5, <1>6 DEF Counted, Differs, n

(***************************************************************************)
(* vmm_create_pd.                                                          *)
(***************************************************************************)
LEMMA CopyTableCounted ==
  ASSUME NEW c, Counted(c.mem), c.pd \in Frames, NEW i \in Indices
  PROVE  Counted(CopyTable(c, i).mem) /\ CopyTable(c, i).pd \in Frames
<1> DEFINE old == c.mem.page[kernel_pd][i]
           new == NextFrame(c.mem)
           content == c.mem.page[old]
<1>1. c.mem \in Memories
  BY DEF Counted
<1>2. old \in Frames /\ new \in Frames /\ content \in Contents
  BY <1>1, Fields, Constants, NextFrameIsFree
<1>3. CASE c.pd = 0 \/ old = 0
  BY <1>3 DEF CopyTable
<1>4. CASE ~(c.pd = 0 \/ old = 0) /\ new = 0
  <2>1. CopyTable(c, i) = [mem |-> Freed(TablesFreed(c.mem, c.pd), c.pd), pd |-> 0]
    BY <1>4 DEF CopyTable
  <2> QED
    BY <2>1, DirectoryFreed, Constants
<1>5. CASE ~(c.pd = 0 \/ old = 0) /\ new # 0
  <2> DEFINE filled == Filled(c.mem, content)
  <2>1. CopyTable(c, i) = [mem |-> Put(filled, c.pd, i, new), pd |-> c.pd]
    BY <1>5 DEF CopyTable, Put
  <2>2. new \notin c.mem.used
    BY <1>1, <1>5, NextFrameIsFree
  <2>3. Counted(filled)
    <3> HIDE DEF content
    <3> QED
      BY <1>2, <2>2, FilledFrame
  <2> HIDE DEF filled, new
  <2>4. Counted(Put(filled, c.pd, i, new))
    BY <1>2, <2>3, PutEntry
  <2> QED
    BY <2>1, <2>4
<1> QED
  BY <1>3, <1>4, <1>5

(* The copy before turn k.                                                 *)
Copying(mem, D, K, c, k) ==
  /\ c.pd = 0 => Sound(c.mem, D, K)
  /\ c.pd # 0 => /\ c.pd \notin mem.used /\ Sound(c.mem, D \cup {c.pd}, K)
                 /\ \A j \in Indices : j >= k => c.mem.page[c.pd][j] = 0
  /\ mem.used \subseteq c.mem.used /\ Kept(mem, c.mem, mem.used)

(* A turn of the loop keeps the use of the frames sound, also the one that *)
(* finds no frame and gives everything back.                               *)
LEMMA CopyTableSound ==
  ASSUME NEW mem, Counted(mem), NEW D, NEW K, Sound(mem, D, K),
         NEW c, Counted(c.mem), c.pd \in Frames, NEW i \in Indices,
         Copying(mem, D, K, c, i)
  PROVE  Copying(mem, D, K, CopyTable(c, i), i + 1)
<1> DEFINE pd == c.pd
           a == c.mem
           old == a.page[kernel_pd][i]
           new == NextFrame(a)
           content == a.page[old]
<1>1. a \in Memories /\ mem.used \subseteq Frames /\ i \in Nat /\ pd \in Frames
  BY Fields, Constants DEF Counted
<1>2. old \in Frames /\ new \in Frames /\ content \in Contents
  BY <1>1, Fields, Constants, NextFrameIsFree
<1>3. \A j \in Indices : j >= i + 1 => j >= i /\ j # i
  BY Constants
<1>4. CASE pd = 0 \/ old = 0
  <2>1. CopyTable(c, i) = c
    BY <1>4 DEF CopyTable
  <2> QED
    BY <1>3, <2>1 DEF Copying
<1>5. CASE ~(pd = 0 \/ old = 0) /\ new = 0
  <2> DEFINE n == Freed(TablesFreed(a, pd), pd)
             T == TablesOf(a, pd)
  <2>1. CopyTable(c, i) = [mem |-> n, pd |-> 0]
    BY <1>5 DEF CopyTable
  <2>2. /\ pd \notin mem.used /\ Sound(a, D \cup {pd}, K)
        /\ mem.used \subseteq a.used /\ Kept(mem, a, mem.used)
    BY <1>5 DEF Copying
  <2>3. /\ n.used = a.used \ (T \cup {pd})
        /\ \A f \in Frames : f \notin T \cup {pd} => n.page[f] = a.page[f]
    BY <1>1, DirectoryFreed
  <2>4. T \cap mem.used = {}
    BY <2>2, NewTablesApart
  <2>5. D \subseteq mem.used /\ (D \cup {pd}) \ {pd} = D
    BY <2>2 DEF Sound
  <2> HIDE DEF n, T, a, pd
  <2>6. \A f \in mem.used : n.page[f] = a.page[f]
    BY <1>1, <2>2, <2>3, <2>4
  <2>7. \A f \in D \cup {pd} : f # pd => n.page[f] = a.page[f]
    BY <2>5, <2>6
  <2>8. Sound(n, (D \cup {pd}) \ {pd}, K)
    BY <2>2, <2>3, <2>7, DirectoryGone DEF T
  <2>9. Sound(n, D, K)
    BY <2>5, <2>8
  <2>10. mem.used \subseteq n.used /\ Kept(mem, n, mem.used)
    BY <2>2, <2>3, <2>4, <2>6 DEF Kept
  <2> QED
    BY <2>1, <2>9, <2>10 DEF Copying
<1>6. CASE ~(pd = 0 \/ old = 0) /\ new # 0
  <2> DEFINE filled == Filled(a, content)
             n == Put(filled, pd, i, new)
  <2>1. CopyTable(c, i) = [mem |-> n, pd |-> pd]
    BY <1>6 DEF CopyTable, Put
  <2>2. /\ pd \notin mem.used /\ Sound(a, D \cup {pd}, K)
        /\ mem.used \subseteq a.used /\ Kept(mem, a, mem.used)
        /\ \A j \in Indices : j >= i => a.page[pd][j] = 0
    BY <1>6 DEF Copying
  <2>3. new \notin a.used
    BY <1>1, <1>6, NextFrameIsFree
  <2>4. /\ Counted(filled) /\ filled.used = a.used \cup {new}
        /\ \A f \in Frames : f # new => filled.page[f] = a.page[f]
    <3> HIDE DEF content
    <3> QED
      BY <1>2, <2>3, FilledFrame
  <2>5. D \subseteq mem.used /\ pd \in a.used /\ D \subseteq a.used /\ a.used \subseteq Frames
    BY <1>1, <2>2, Fields DEF Sound
  <2> HIDE DEF filled, new, a, pd
  <2>6. /\ n.used = filled.used
        /\ \A f \in Frames : f # pd => n.page[f] = filled.page[f]
        /\ n.page[pd][i] = new
        /\ \A j \in Indices : j # i => n.page[pd][j] = filled.page[pd][j]
    <3>1. Counted(filled) /\ pd \in Frames /\ new \in Frames
      BY <1>1, <1>2, <2>4
    <3>2. Differs(filled, n, pd, i, new)
      BY <3>1, PutEntry
    <3> HIDE DEF n
    <3> QED
      BY <3>2 DEF Differs
  <2> HIDE DEF n
  <2>7. pd # new
    BY <2>3, <2>5
  <2>8. \A j \in Indices : j # i => n.page[pd][j] = a.page[pd][j]
    BY <1>1, <2>4, <2>6, <2>7
  <2>9. \A f \in a.used : f # pd => n.page[f] = a.page[f]
    BY <2>3, <2>4, <2>5, <2>6
  <2>10. n.used = a.used \cup {new}
    BY <2>4, <2>6
  <2>11. a.page[pd][i] = 0
    BY <1>1, <2>2
  <2>12. \A f \in D \cup {pd} : f # pd => n.page[f] = a.page[f]
    BY <2>5, <2>9
  <2>13. Sound(n, D \cup {pd}, K)
    <3>1. pd \in D \cup {pd}
      OBVIOUS
    <3> QED
      BY <2>2, <2>3, <2>6, <2>8, <2>10, <2>11, <2>12, <3>1, TableAdded
  <2>14. \A j \in Indices : j >= i + 1 => n.page[pd][j] = 0
    BY <1>3, <2>2, <2>8
  <2>15. mem.used \subseteq n.used /\ Kept(mem, n, mem.used)
    BY <2>2, <2>9, <2>10 DEF Kept
  <2> QED
    BY <1>6, <2>1, <2>2, <2>13, <2>14, <2>15 DEF Copying, pd
<1> QED
  BY <1>4, <1>5, <1>6

(* After vmm_create_pd the count of frames in use is right.                *)
LEMMA CreatedCounted ==
  ASSUME NEW mem, Counted(mem)
  PROVE  Counted(Created(mem).mem) /\ Created(mem).pd \in Frames
<1>1. CASE NextFrame(mem) = 0
  <2>1. Created(mem) = [mem |-> mem, pd |-> 0]
    BY <1>1 DEF Created
  <2> QED
    BY <2>1, Constants
<1>2. CASE NextFrame(mem) # 0
  <2>1. PICK t : /\ Created(mem) = t[Entries] /\ t[0] = FirstCopy(mem)
                 /\ \A i \in Indices : t[i + 1] = CopyTable(t[i], i)
    BY <1>2, CreatedByLoop
  <2> DEFINE OK(k) == Counted(t[k].mem) /\ t[k].pd \in Frames
             Bad == {k \in 0 .. Entries : ~OK(k)}
             j == Min(Bad)
  <2>2. OK(0)
    <3>1. NextFrame(mem) \in Frames /\ NextFrame(mem) \notin mem.used
      BY <1>2, NextFrameIsFree DEF Counted
    <3>2. Counted(Filled(mem, Empty))
      BY <3>1, FilledFrame, Constants
    <3> QED
      BY <2>1, <3>1, <3>2 DEF FirstCopy
  <2>3. \A i \in Indices : OK(i) => OK(i + 1)
    BY <2>1, CopyTableCounted
  <2>4. ASSUME Bad # {} PROVE FALSE
    <3>1. j \in Bad /\ \A l \in Bad : j <= l
      <4>1. Bad \subseteq Nat
        BY Constants
      <4> HIDE DEF Bad
      <4> QED
        BY <2>4, <4>1, MinInSet
    <3>2. j \in 0 .. Entries /\ ~OK(j)
      BY <3>1
    <3> HIDE DEF j, OK
    <3>3. j # 0
      BY <2>2, <3>2
    <3>4. j - 1 \in Indices /\ (j - 1) + 1 = j /\ j - 1 \in 0 .. Entries /\ ~(j <= j - 1)
      BY <3>2, <3>3, Constants DEF Indices
    <3>5. OK(j - 1)
      BY <3>1, <3>4
    <3> QED
      BY <2>3, <3>2, <3>4, <3>5
  <2>5. OK(Entries)
    <3>1. Entries \in 0 .. Entries
      BY Constants
    <3> HIDE DEF OK
    <3> QED
      BY <2>4, <3>1
  <2> QED
    BY <2>1, <2>5
<1> QED
  BY <1>1, <1>2

(* vmm_create_pd: a directory with tables of its own, or nothing taken;    *)
(* what is in frames in use stays.                                         *)
LEMMA CreatedSound ==
  ASSUME NEW mem, Counted(mem), NEW D, NEW K, Sound(mem, D, K)
  PROVE  LET new == Created(mem)
         IN  /\ new.pd = 0 => Sound(new.mem, D, K)
             /\ new.pd # 0 => new.pd \notin mem.used /\ Sound(new.mem, D \cup {new.pd}, K)
             /\ mem.used \subseteq new.mem.used /\ Kept(mem, new.mem, mem.used)
<1>1. CASE NextFrame(mem) = 0
  <2>1. Created(mem) = [mem |-> mem, pd |-> 0]
    BY <1>1 DEF Created
  <2> QED
    BY <2>1 DEF Kept
<1>2. CASE NextFrame(mem) # 0
  <2>1. PICK t : /\ Created(mem) = t[Entries] /\ t[0] = FirstCopy(mem)
                 /\ \A i \in Indices : t[i + 1] = CopyTable(t[i], i)
    BY <1>2, CreatedByLoop
  <2> DEFINE OK(k) == Counted(t[k].mem) /\ t[k].pd \in Frames /\ Copying(mem, D, K, t[k], k)
             Bad == {k \in 0 .. Entries : ~OK(k)}
             j == Min(Bad)
  <2>2. OK(0)
    <3> DEFINE d == NextFrame(mem)
               n == Filled(mem, Empty)
    <3>1. d \in Frames /\ d \notin mem.used /\ mem.used \subseteq Frames
      BY <1>2, NextFrameIsFree, Fields DEF Counted
    <3>2. /\ Counted(n) /\ n.used = mem.used \cup {d} /\ n.page[d] = Empty
          /\ \A f \in Frames : f # d => n.page[f] = mem.page[f]
      BY <3>1, FilledFrame, Constants
    <3>3. t[0] = [mem |-> n, pd |-> d]
      BY <2>1 DEF FirstCopy
    <3> HIDE DEF n, d
    <3>4. D \subseteq mem.used
      BY DEF Sound
    <3>5. Kept(mem, n, mem.used) /\ \A f \in D : n.page[f] = mem.page[f]
      BY <3>1, <3>2, <3>4 DEF Kept
    <3>6. \A i \in Indices : n.page[d][i] = 0
      BY <3>2 DEF Empty
    <3>7. Sound(n, D \cup {d}, K)
      BY <3>1, <3>2, <3>5, <3>6, DirectoryAdded
    <3>8. d # 0
      BY <1>2 DEF d
    <3> QED
      BY <3>1, <3>2, <3>3, <3>5, <3>6, <3>7, <3>8 DEF Copying
  <2>3. \A i \in Indices : OK(i) => OK(i + 1)
    BY <2>1, CopyTableCounted, CopyTableSound
  <2>4. ASSUME Bad # {} PROVE FALSE
    <3>1. j \in Bad /\ \A l \in Bad : j <= l
      <4>1. Bad \subseteq Nat
        BY Constants
      <4> HIDE DEF Bad
      <4> QED
        BY <2>4, <4>1, MinInSet
    <3>2. j \in 0 .. Entries /\ ~OK(j)
      BY <3>1
    <3> HIDE DEF j, OK
    <3>3. j # 0
      BY <2>2, <3>2
    <3>4. j - 1 \in Indices /\ (j - 1) + 1 = j /\ j - 1 \in 0 .. Entries /\ ~(j <= j - 1)
      BY <3>2, <3>3, Constants DEF Indices
    <3>5. OK(j - 1)
      BY <3>1, <3>4
    <3> QED
      BY <2>3, <3>2, <3>4, <3>5
  <2>5. OK(Entries)
    <3>1. Entries \in 0 .. Entries
      BY Constants
    <3> HIDE DEF OK
    <3> QED
      BY <2>4, <3>1
  <2> QED
    BY <2>1, <2>5 DEF Copying
<1> QED
  BY <1>1, <1>2

(***************************************************************************)
(* vmm_map_page and vmm_unmap_page.                                        *)
(***************************************************************************)
LEMMA MappedCounted ==
  ASSUME NEW mem, Counted(mem), NEW pd \in Frames, NEW page \in Indices \X Indices,
         NEW f \in Frames
  PROVE  /\ Counted(WithTable(mem, pd, page[1])) /\ Counted(Mapped(mem, pd, page, f))
<1> DEFINE i == page[1]
           j == page[2]
           a == WithTable(mem, pd, i)
           new == NextFrame(mem)
           filled == Filled(mem, Empty)
           pt == a.page[pd][i]
<1>1. i \in Indices /\ j \in Indices
  OBVIOUS
<1>2. Counted(a)
  <2>1. CASE mem.page[pd][i] # 0 \/ new = 0
    BY <2>1 DEF WithTable
  <2>2. CASE ~(mem.page[pd][i] # 0 \/ new = 0)
    <3>1. new \in Frames /\ new \notin mem.used
      BY <2>2, NextFrameIsFree DEF Counted
    <3>2. Counted(filled)
      BY <3>1, FilledFrame, Constants
    <3>3. a = Put(filled, pd, i, new)
      BY <2>2 DEF WithTable, Put
    <3> HIDE DEF a, filled, new, i
    <3> QED
      BY <1>1, <3>1, <3>2, <3>3, PutEntry
  <2> QED
    BY <2>1, <2>2
<1>3. Mapped(mem, pd, page, f) = IF pt = 0 THEN a ELSE Put(a, pt, j, f)
  BY DEF Mapped, Put
<1>4. pt \in Frames
  <2> HIDE DEF a, i
  <2> QED
    BY <1>1, <1>2, Fields DEF Counted
<1> HIDE DEF a, pt, j
<1>5. Counted(Put(a, pt, j, f))
  BY <1>1, <1>2, <1>4, PutEntry
<1> QED
  BY <1>2, <1>3, <1>5 DEF a

(* Only the directory, its tables and a frame that was free are changed.   *)
LEMMA MappedSound ==
  ASSUME NEW mem, Counted(mem), NEW D, NEW K, Sound(mem, D, K), NEW pd \in D,
         NEW page \in Indices \X Indices, NEW f \in Frames
  PROVE  LET n == Mapped(mem, pd, page, f)
         IN  /\ Sound(n, D, K) /\ mem.used \subseteq n.used
             /\ Kept(mem, n, mem.used \ ({pd} \cup TablesOf(mem, pd)))
<1> DEFINE i == page[1]
           j == page[2]
           a == WithTable(mem, pd, i)
           new == NextFrame(mem)
           filled == Filled(mem, Empty)
           pt == a.page[pd][i]
           n == Mapped(mem, pd, page, f)
<1>1. /\ i \in Indices /\ j \in Indices /\ D \subseteq mem.used /\ mem.used \subseteq Frames
      /\ pd \in Frames
  BY Fields DEF Sound, Counted
<1>2. Counted(a)
  BY <1>1, MappedCounted
<1>3. /\ Sound(a, D, K) /\ mem.used \subseteq a.used
      /\ Kept(mem, a, mem.used \ {pd})
      /\ pt # 0 => pt \in TablesOf(mem, pd) \/ pt \notin mem.used
  <2>1. CASE mem.page[pd][i] # 0 \/ new = 0
    <3>1. a = mem
      BY <2>1 DEF WithTable
    <3> QED
      BY <1>1, <3>1 DEF Kept, TablesOf, Present
  <2>2. CASE ~(mem.page[pd][i] # 0 \/ new = 0)
    <3>1. new \in Frames /\ new \notin mem.used
      BY <2>2, NextFrameIsFree DEF Counted
    <3>2. /\ Counted(filled) /\ filled.used = mem.used \cup {new}
          /\ \A g \in Frames : g # new => filled.page[g] = mem.page[g]
      BY <3>1, FilledFrame, Constants
    <3>3. a = Put(filled, pd, i, new)
      BY <2>2 DEF WithTable, Put
    <3> HIDE DEF filled, new, a, i
    <3>4. /\ a.used = filled.used
          /\ \A g \in Frames : g # pd => a.page[g] = filled.page[g]
          /\ a.page[pd][i] = new
          /\ \A k \in Indices : k # i => a.page[pd][k] = filled.page[pd][k]
      <4>1. Counted(filled) /\ pd \in Frames /\ i \in Indices /\ new \in Frames
        BY <1>1, <3>1, <3>2
      <4>2. Differs(filled, a, pd, i, new)
        BY <3>3, <4>1, PutEntry
      <4> QED
        BY <4>2 DEF Differs
    <3>5. pd # new /\ mem.page[pd][i] = 0
      BY <1>1, <2>2, <3>1
    <3>6. \A g \in mem.used : g # pd => a.page[g] = mem.page[g]
      BY <1>1, <3>1, <3>2, <3>4
    <3>7. \A k \in Indices : k # i => a.page[pd][k] = mem.page[pd][k]
      BY <1>1, <3>2, <3>4, <3>5
    <3>8. a.used = mem.used \cup {new}
      BY <3>2, <3>4
    <3>9. \A g \in D : g # pd => a.page[g] = mem.page[g]
      BY <1>1, <3>6
    <3>10. Sound(a, D, K)
      BY <1>1, <3>1, <3>4, <3>5, <3>7, <3>8, <3>9, TableAdded
    <3> QED
      BY <3>1, <3>4, <3>6, <3>8, <3>10 DEF Kept
  <2> QED
    BY <2>1, <2>2
<1>4. n = IF pt = 0 THEN a ELSE Put(a, pt, j, f)
  BY DEF Mapped, Put
<1>5. CASE pt = 0
  BY <1>3, <1>4, <1>5 DEF Kept
<1>6. CASE pt # 0
  <2>1. pt \in Frames /\ pt \notin D
    <3>1. a.page[pd][i] \in a.used \ (D \cup K)
      <4> HIDE DEF a, i
      <4> QED
        BY <1>1, <1>3, <1>6 DEF Sound
    <3> HIDE DEF a, i
    <3> QED
      BY <1>2, <3>1, Fields DEF Counted
  <2> HIDE DEF a, pt, j
  <2>2. /\ n.used = a.used
        /\ \A g \in Frames : g # pt => n.page[g] = a.page[g]
    <3>1. n = Put(a, pt, j, f)
      BY <1>4, <1>6
    <3>2. Counted(a) /\ pt \in Frames /\ j \in Indices
      BY <1>1, <1>2, <2>1
    <3> HIDE DEF n
    <3>3. Differs(a, n, pt, j, f)
      BY <3>1, <3>2, PutEntry
    <3> QED
      BY <3>3 DEF Differs
  <2> HIDE DEF n
  <2>3. Sound(n, D, K)
    <3>1. \A g \in D : n.page[g] = a.page[g]
      BY <1>1, <2>1, <2>2
    <3> QED
      BY <1>3, <2>2, <3>1, DirectoriesKept
  <2>4. Kept(mem, n, mem.used \ ({pd} \cup TablesOf(mem, pd)))
    BY <1>1, <1>3, <1>6, <2>2 DEF Kept
  <2> QED
    BY <1>3, <2>2, <2>3, <2>4 DEF n
<1> QED
  BY <1>5, <1>6

(* After vmm_unmap_page the count of frames in use is right.               *)
LEMMA UnmappedCounted ==
  ASSUME NEW mem, Counted(mem), NEW pd \in Frames, NEW page \in Indices \X Indices
  PROVE  Counted(Unmapped(mem, pd, page))
<1> DEFINE i == page[1]
           j == page[2]
           pt == mem.page[pd][i]
           less == Put(mem, pt, j, 0)
           gone == Freed(less, pt)
<1>1. i \in Indices /\ j \in Indices /\ 0 \in Frames
  BY Constants
<1>2. pt \in Frames
  <2> HIDE DEF i
  <2> QED
    BY <1>1, Fields DEF Counted
<1>3. Unmapped(mem, pd, page)
        = IF pt = 0 THEN mem
          ELSE IF less.page[pt] = Empty THEN Put(gone, pd, i, 0) ELSE less
  BY DEF Unmapped, Put
<1> HIDE DEF i, j, pt
<1>4. Counted(less)
  BY <1>1, <1>2, PutEntry
<1> HIDE DEF less
<1>5. Counted(gone)
  BY <1>2, <1>4, FreedFrame
<1> HIDE DEF gone
<1>6. Counted(Put(gone, pd, i, 0))
  BY <1>1, <1>5, PutEntry
<1> QED
  BY <1>3, <1>4, <1>6

(* vmm_unmap_page touches nothing but the directory and its tables, and    *)
(* the table it empties is freed and forgotten.                            *)
LEMMA UnmappedSound ==
  ASSUME NEW mem, Counted(mem), NEW D, NEW K, Sound(mem, D, K), NEW pd \in D,
         NEW page \in Indices \X Indices
  PROVE  LET n == Unmapped(mem, pd, page)
         IN  /\ Sound(n, D, K)
             /\ Kept(mem, n, mem.used \ ({pd} \cup TablesOf(mem, pd)))
<1> DEFINE i == page[1]
           j == page[2]
           pt == mem.page[pd][i]
           less == Put(mem, pt, j, 0)
           gone == Freed(less, pt)
           n == Unmapped(mem, pd, page)
           F == mem.used \ ({pd} \cup TablesOf(mem, pd))
<1>1. /\ i \in Indices /\ j \in Indices /\ 0 \in Frames
      /\ D \subseteq mem.used /\ mem.used \subseteq Frames /\ pd \in Frames
  BY Constants, Fields DEF Sound, Counted
<1>2. pt \in Frames
  <2> HIDE DEF i
  <2> QED
    BY <1>1, Fields DEF Counted
<1>3. n = IF pt = 0 THEN mem
          ELSE IF less.page[pt] = Empty THEN Put(gone, pd, i, 0) ELSE less
  BY DEF Unmapped, Put
<1>4. CASE pt = 0
  BY <1>3, <1>4 DEF Kept
<1>5. CASE pt # 0
  <2>1. pt \in mem.used \ (D \cup K) /\ pt \in TablesOf(mem, pd)
    <3>1. mem.page[pd][i] \in mem.used \ (D \cup K)
      <4> HIDE DEF i
      <4> QED
        BY <1>1, <1>5 DEF Sound, pt
    <3> QED
      BY <1>1, <1>5, <3>1 DEF TablesOf, Present
  <2> HIDE DEF n, i, j, pt
  <2>2. Counted(less) /\ Differs(mem, less, pt, j, 0)
    BY <1>1, <1>2, PutEntry
  <2> HIDE DEF less
  <2>3. less.used = mem.used /\ \A g \in Frames : g # pt => less.page[g] = mem.page[g]
    BY <2>2 DEF Differs
  <2>4. Kept(mem, less, F)
    BY <1>1, <2>1, <2>3 DEF Kept
  <2>5. \A g \in D : less.page[g] = mem.page[g]
    BY <1>1, <2>1, <2>3
  <2>6. Sound(less, D, K)
    BY <2>3, <2>5, DirectoriesKept
  <2>7. CASE less.page[pt] # Empty
    BY <1>3, <1>5, <2>4, <2>6, <2>7 DEF n
  <2>8. CASE less.page[pt] = Empty
    <3>1. n = Put(gone, pd, i, 0)
      BY <1>3, <1>5, <2>8
    <3>2. /\ Counted(gone) /\ gone.used = less.used \ {pt}
          /\ \A g \in Frames : g # pt => gone.page[g] = less.page[g]
      BY <1>2, <2>2, FreedFrame
    <3> HIDE DEF gone
    <3>3. Differs(gone, n, pd, i, 0)
      BY <1>1, <3>1, <3>2, PutEntry
    <3>4. /\ n.used = gone.used /\ \A g \in Frames : g # pd => n.page[g] = gone.page[g]
          /\ n.page[pd][i] = 0
          /\ \A k \in Indices : k # i => n.page[pd][k] = gone.page[pd][k]
      BY <3>3 DEF Differs
    <3>5. pd # pt
      BY <2>1
    <3>6. \A k \in Indices : k # i => n.page[pd][k] = less.page[pd][k]
      BY <1>1, <3>2, <3>4, <3>5
    <3>7. \A g \in D : g # pd => n.page[g] = less.page[g]
      BY <1>1, <2>1, <3>2, <3>4
    <3>8. less.page[pd][i] = pt
      BY <2>5 DEF pt
    <3>9. n.used = less.used \ {less.page[pd][i]}
      BY <3>2, <3>4, <3>8
    <3>10. less.page[pd][i] # 0
      BY <1>5, <3>8
    <3>11. Sound(n, D, K)
      BY <1>1, <2>6, <3>4, <3>6, <3>7, <3>9, <3>10, TableGone
    <3>12. Kept(mem, n, F)
      BY <1>1, <2>1, <2>3, <3>2, <3>4 DEF Kept
    <3> QED
      BY <3>11, <3>12 DEF n
  <2> QED
    BY <2>7, <2>8
<1> QED
  BY <1>4, <1>5

(***************************************************************************)
(* What two directories hold is apart, and a translation is what lies in a *)
(* directory and its tables.                                               *)
(***************************************************************************)
Holds(mem, pd) == {pd} \cup TablesOf(mem, pd)

(* No two directories share a table.                                       *)
LEMMA HoldsApart ==
  ASSUME NEW mem, NEW D, NEW K, Sound(mem, D, K), NEW pd \in D
  PROVE  /\ Holds(mem, pd) \subseteq mem.used \ K
         /\ \A qd \in D : qd # pd => Holds(mem, pd) \cap Holds(mem, qd) = {}
<1>1. \A qd : \A f : f \in TablesOf(mem, qd)
        <=> \E i \in Indices : mem.page[qd][i] # 0 /\ f = mem.page[qd][i]
  BY DEF TablesOf, Present
<1>2. \A qd \in D : TablesOf(mem, qd) \subseteq mem.used \ (D \cup K)
  BY <1>1 DEF Sound
<1>3. \A qd \in D : qd # pd => TablesOf(mem, pd) \cap TablesOf(mem, qd) = {}
  BY <1>1 DEF Sound
<1>4. D \subseteq mem.used /\ D \cap K = {}
  BY DEF Sound
<1> QED
  BY <1>2, <1>3, <1>4 DEF Holds

(* A translation changes only if something its directory holds changes.    *)
LEMMA TranslationKept ==
  ASSUME NEW a, NEW b, NEW pd, Kept(a, b, Holds(a, pd)), NEW page \in Indices \X Indices
  PROVE  Translated(b, pd, page) = Translated(a, pd, page)
<1> DEFINE i == page[1]
<1>1. i \in Indices
  OBVIOUS
<1>2. b.page[pd] = a.page[pd]
  BY DEF Kept, Holds
<1>3. a.page[pd][i] # 0 => b.page[a.page[pd][i]] = a.page[a.page[pd][i]]
  <2> HIDE DEF i
  <2>1. a.page[pd][i] # 0 => a.page[pd][i] \in Holds(a, pd)
    BY <1>1 DEF Holds, TablesOf, Present
  <2> QED
    BY <2>1 DEF Kept
<1> QED
  BY <1>2, <1>3 DEF Translated

(***************************************************************************)
(* The invariant.                                                          *)
(***************************************************************************)
Low == 0 .. first_free - 1

(* Memory mem, with directories S, stacks T and lost frames L.             *)
Clean(mem, S, T, L) ==
  /\ Sound(mem, S \cup {kernel_pd}, Low \cup T \cup L)
  /\ kernel_pd \notin S
  /\ T \cap Low = {} /\ L \cap Low = {} /\ T \cap L = {}

PagingSound ==
  /\ Counted(m) /\ loaded \subseteq ImagePages
  /\ spaces \subseteq Frames /\ stacks \subseteq Frames
  /\ lost \subseteq Frames /\ overrun \subseteq Frames
  /\ overrun = {} => Clean(m, spaces, stacks, lost)

(* Nothing that a directory holds before and after a step has changed.     *)
HoldsKept ==
  \A pd \in (spaces \cap spaces') \cup {kernel_pd} : Kept(m, m', Holds(m, pd))

(* What is in frames in use stays.                                         *)
LEMMA UsedKept ==
  ASSUME Clean(m, spaces, stacks, lost), Kept(m, m', m.used)
  PROVE  HoldsKept
<1> SUFFICES ASSUME NEW pd \in (spaces \cap spaces') \cup {kernel_pd}
             PROVE  Kept(m, m', Holds(m, pd))
  BY DEF HoldsKept
<1>1. Holds(m, pd) \subseteq m.used
  BY HoldsApart DEF Clean
<1> QED
  BY <1>1 DEF Kept

(* A step that touches only one directory leaves the others.               *)
LEMMA OthersKept ==
  ASSUME Clean(m, spaces, stacks, lost), NEW qd \in spaces,
         Kept(m, m', m.used \ Holds(m, qd)),
         NEW pd \in spaces \cup {kernel_pd}, pd # qd
  PROVE  Kept(m, m', Holds(m, pd))
<1>1. Holds(m, pd) \subseteq m.used /\ Holds(m, pd) \cap Holds(m, qd) = {}
  BY HoldsApart DEF Clean
<1> QED
  BY <1>1 DEF Kept

(* vmm_create_pd keeps the invariant and what every space holds.           *)
LEMMA CreatePdStep ==
  ASSUME PagingSound, CreatePd
  PROVE  PagingSound' /\ (overrun' = {} => HoldsKept)
<1> DEFINE new == Created(m)
           D == spaces \cup {kernel_pd}
           K == Low \cup stacks \cup lost
<1>1. /\ m' = new.mem /\ spaces' = spaces \cup ({new.pd} \ {0})
      /\ stacks' = stacks /\ lost' = lost /\ loaded' = loaded /\ overrun' = overrun
  BY DEF CreatePd, programs
<1>2. Counted(new.mem) /\ new.pd \in Frames
  BY CreatedCounted DEF PagingSound
<1>3. ASSUME overrun = {}
      PROVE  Clean(m', spaces', stacks', lost') /\ HoldsKept
  <2>1. Counted(m) /\ Clean(m, spaces, stacks, lost) /\ Sound(m, D, K)
    BY <1>3 DEF PagingSound, Clean
  <2> HIDE DEF D, K
  <2>2. /\ new.pd = 0 => Sound(new.mem, D, K)
        /\ new.pd # 0 => new.pd \notin m.used /\ Sound(new.mem, D \cup {new.pd}, K)
        /\ m.used \subseteq new.mem.used /\ Kept(m, new.mem, m.used)
    BY <2>1, CreatedSound
  <2> HIDE DEF new
  <2>3. HoldsKept
    BY <1>1, <2>1, <2>2, UsedKept
  <2>4. CASE new.pd = 0
    <3>1. spaces' = spaces
      BY <1>1, <2>4
    <3> QED
      BY <1>1, <2>1, <2>2, <2>3, <2>4, <3>1 DEF Clean, D, K
  <2>5. CASE new.pd # 0
    <3>1. spaces' = spaces \cup {new.pd} /\ D \cup {new.pd} = spaces' \cup {kernel_pd}
      BY <1>1, <2>5 DEF D
    <3>2. kernel_pd \notin spaces'
      BY <2>1, <2>2, <2>5, <3>1 DEF Clean, Sound, D
    <3> QED
      BY <1>1, <2>1, <2>2, <2>3, <2>5, <3>1, <3>2 DEF Clean, K
  <2> QED
    BY <2>4, <2>5
<1> HIDE DEF new
<1> QED
  BY <1>1, <1>2, <1>3 DEF PagingSound

(* So does vmm_destroy_pd, for the spaces that are left;                   *)
LEMMA DestroyPdStep ==
  ASSUME PagingSound, NEW pd \in spaces, DestroyPd(pd)
  PROVE  PagingSound' /\ (overrun' = {} => HoldsKept)
<1> DEFINE n == Freed(TablesFreed(m, pd), pd)
           D == spaces \cup {kernel_pd}
           K == Low \cup stacks \cup lost
<1>1. /\ m' = n /\ spaces' = spaces \ {pd}
      /\ stacks' = stacks /\ lost' = lost /\ loaded' = loaded /\ overrun' = overrun
  BY DEF DestroyPd, programs
<1>2. Counted(m) /\ pd \in Frames
  BY DEF PagingSound
<1>3. /\ Counted(n) /\ n.used = m.used \ (TablesOf(m, pd) \cup {pd})
      /\ \A f \in Frames : f \notin TablesOf(m, pd) \cup {pd} => n.page[f] = m.page[f]
  BY <1>2, DirectoryFreed
<1> HIDE DEF n
<1>4. ASSUME overrun = {}
      PROVE  Clean(m', spaces', stacks', lost') /\ HoldsKept
  <2>1. Clean(m, spaces, stacks, lost) /\ Sound(m, D, K) /\ m.used \subseteq Frames
    BY <1>4, Fields DEF PagingSound, Clean, Counted
  <2>2. pd \in D /\ D \subseteq m.used /\ D \ {pd} = spaces' \cup {kernel_pd}
    BY <1>1, <2>1 DEF Clean, Sound
  <2> HIDE DEF D, K
  <2>3. \A f \in D : f # pd => n.page[f] = m.page[f]
    <3>1. \A f \in D : f \notin TablesOf(m, pd)
      BY <2>1, <2>2 DEF Sound, TablesOf, Present
    <3> QED
      BY <1>3, <2>1, <2>2, <3>1
  <2>4. Sound(n, D \ {pd}, K)
    BY <1>3, <2>1, <2>2, <2>3, DirectoryGone
  <2>5. Kept(m, m', m.used \ Holds(m, pd))
    BY <1>1, <1>3, <2>1 DEF Kept, Holds
  <2>6. HoldsKept
    <3> SUFFICES ASSUME NEW qd \in (spaces \cap spaces') \cup {kernel_pd}
                 PROVE  Kept(m, m', Holds(m, qd))
      BY DEF HoldsKept
    <3>1. qd # pd /\ qd \in spaces \cup {kernel_pd}
      BY <1>1, <2>1 DEF Clean
    <3> QED
      BY <2>1, <2>5, <3>1, OthersKept
  <2>7. Clean(m', spaces', stacks', lost')
    <3>1. kernel_pd \notin spaces'
      BY <1>1, <2>1 DEF Clean
    <3>2. Sound(m', spaces' \cup {kernel_pd}, Low \cup stacks' \cup lost')
      BY <1>1, <2>2, <2>4 DEF K
    <3> QED
      BY <1>1, <2>1, <3>1, <3>2 DEF Clean
  <2> QED
    BY <2>6, <2>7
<1> QED
  BY <1>1, <1>3, <1>4 DEF PagingSound

(* and vmm_map_page and vmm_unmap_page, for the other spaces;              *)
LEMMA MapPageStep ==
  ASSUME PagingSound, NEW pd \in spaces, NEW page \in Pages,
         MapPage(pd, page) \/ UnmapPage(pd, page)
  PROVE  /\ PagingSound'
         /\ overrun' = {} =>
              \A qd \in (spaces \cap spaces') \cup {kernel_pd} :
                qd # pd => Kept(m, m', Holds(m, qd))
<1> DEFINE D == spaces \cup {kernel_pd}
           K == Low \cup stacks \cup lost
<1>1. /\ m' = Mapped(m, pd, page, 1) \/ m' = Unmapped(m, pd, page)
      /\ spaces' = spaces
      /\ stacks' = stacks /\ lost' = lost /\ loaded' = loaded /\ overrun' = overrun
  BY DEF MapPage, UnmapPage, programs
<1>2. Counted(m) /\ pd \in Frames /\ page \in Indices \X Indices
  BY PagingAssumption DEF PagingSound
<1>3. 1 \in Frames
  BY Constants DEF Frames
<1>4. Counted(m')
  BY <1>1, <1>2, <1>3, MappedCounted, UnmappedCounted
<1>5. ASSUME overrun = {}
      PROVE  /\ Clean(m', spaces', stacks', lost')
             /\ \A qd \in (spaces \cap spaces') \cup {kernel_pd} :
                  qd # pd => Kept(m, m', Holds(m, qd))
  <2>1. Clean(m, spaces, stacks, lost) /\ Sound(m, D, K) /\ pd \in D
    BY <1>5 DEF PagingSound, Clean
  <2> HIDE DEF D, K
  <2>2. Sound(m', D, K) /\ Kept(m, m', m.used \ ({pd} \cup TablesOf(m, pd)))
    <3>1. CASE m' = Mapped(m, pd, page, 1)
      BY <1>2, <1>3, <2>1, <3>1, MappedSound
    <3>2. CASE m' = Unmapped(m, pd, page)
      BY <1>2, <2>1, <3>2, UnmappedSound
    <3> QED
      BY <1>1, <3>1, <3>2
  <2>3. Kept(m, m', m.used \ Holds(m, pd))
    BY <2>2 DEF Holds
  <2>4. \A qd \in (spaces \cap spaces') \cup {kernel_pd} :
          qd # pd => Kept(m, m', Holds(m, qd))
    BY <1>1, <2>1, <2>3, OthersKept
  <2>5. Clean(m', spaces', stacks', lost')
    BY <1>1, <2>1, <2>2 DEF Clean, D, K
  <2> QED
    BY <2>4, <2>5
<1> QED
  BY <1>1, <1>4, <1>5 DEF PagingSound

(* and pmm_alloc_frame;                                                    *)
LEMMA AllocFrameStep ==
  ASSUME PagingSound, AllocFrame
  PROVE  PagingSound' /\ (overrun' = {} => HoldsKept)
<1> DEFINE f == NextFrame(m)
           n == Taken(m)
<1>1. /\ m' = n /\ spaces' = spaces /\ stacks' = stacks \cup {f}
      /\ lost' = lost /\ loaded' = loaded /\ overrun' = overrun
  BY DEF AllocFrame, programs
<1>2. Counted(m) /\ f \in Frames /\ f \notin m.used
  BY NextFrameIsFree DEF PagingSound, AllocFrame, Counted
<1>3. Counted(n) /\ n.used = m.used \cup {f} /\ n.page = m.page
  BY <1>2, TakenFrame
<1> HIDE DEF n, f
<1>4. ASSUME overrun = {}
      PROVE  Clean(m', spaces', stacks', lost') /\ HoldsKept
  <2> DEFINE D == spaces \cup {kernel_pd}
             K == Low \cup stacks \cup lost
  <2>1. Clean(m, spaces, stacks, lost) /\ Sound(m, D, K)
    BY <1>4 DEF PagingSound, Clean
  <2>2. f \notin K
    BY <1>2, <2>1 DEF Sound
  <2>3. K \cup {f} = Low \cup stacks' \cup lost'
    BY <1>1
  <2>4. Kept(m, m', m.used)
    BY <1>1, <1>3 DEF Kept
  <2>5. HoldsKept
    BY <2>1, <2>4, UsedKept
  <2>6. Sound(n, D, K \cup {f})
    <3> HIDE DEF D, K
    <3>1. \A g \in D : n.page[g] = m.page[g]
      BY <1>3
    <3> QED
      BY <1>2, <1>3, <2>1, <3>1, FrameAdded
  <2> QED
    BY <1>1, <2>1, <2>2, <2>3, <2>5, <2>6 DEF Clean
<1> QED
  BY <1>1, <1>2, <1>3, <1>4 DEF PagingSound

(* and pmm_free_frame.                                                     *)
LEMMA FreeFrameStep ==
  ASSUME PagingSound, NEW f \in stacks, FreeFrame(f)
  PROVE  PagingSound' /\ (overrun' = {} => HoldsKept)
<1> DEFINE n == Freed(m, f)
<1>1. /\ m' = n /\ spaces' = spaces /\ stacks' = stacks \ {f}
      /\ lost' = lost /\ loaded' = loaded /\ overrun' = overrun
  BY DEF FreeFrame, programs
<1>2. Counted(m) /\ f \in Frames
  BY DEF PagingSound
<1>3. /\ Counted(n) /\ n.used = m.used \ {f}
      /\ \A g \in Frames : g # f => n.page[g] = m.page[g]
  BY <1>2, FreedFrame
<1> HIDE DEF n
<1>4. ASSUME overrun = {}
      PROVE  Clean(m', spaces', stacks', lost') /\ HoldsKept
  <2> DEFINE D == spaces \cup {kernel_pd}
             K == Low \cup stacks \cup lost
  <2>1. Clean(m, spaces, stacks, lost) /\ Sound(m, D, K) /\ m.used \subseteq Frames
    BY <1>4, Fields DEF PagingSound, Clean, Counted
  <2>2. f \in K /\ f # 0 /\ K \ {f} = Low \cup stacks' \cup lost'
    <3>1. f \notin Low /\ f \notin lost /\ 0 \in Low
      BY <2>1, Constants DEF Clean, Low
    <3> QED
      BY <1>1, <3>1
  <2>3. HoldsKept
    <3> SUFFICES ASSUME NEW pd \in (spaces \cap spaces') \cup {kernel_pd}
                 PROVE  Kept(m, m', Holds(m, pd))
      BY DEF HoldsKept
    <3>1. pd \in D
      OBVIOUS
    <3> HIDE DEF D, K
    <3>2. Holds(m, pd) \subseteq m.used \ K
      BY <2>1, <3>1, HoldsApart
    <3> QED
      BY <1>1, <1>3, <2>1, <2>2, <3>2 DEF Kept
  <2>4. Sound(n, D, K \ {f})
    <3> HIDE DEF D, K
    <3>1. D \subseteq m.used /\ f \notin D
      BY <2>1, <2>2 DEF Sound
    <3>2. \A g \in D : n.page[g] = m.page[g]
      BY <1>3, <2>1, <3>1
    <3> QED
      BY <1>3, <2>1, <2>2, <3>2, FrameGone
  <2> QED
    BY <1>1, <2>1, <2>2, <2>3, <2>4 DEF Clean
<1> QED
  BY <1>1, <1>2, <1>3, <1>4 DEF PagingSound

(***************************************************************************)
(* The loaders.                                                            *)
(***************************************************************************)
LEMMA CopiedProgram ==
  ASSUME NEW mem, Counted(mem), NEW page \in ImagePages
  PROVE  /\ Counted(Copied(mem, page)) /\ Copied(mem, page).used = mem.used
         /\ \A f \in Frames : f # PageNumber(page) => Copied(mem, page).page[f] = mem.page[f]
<1> DEFINE f == PageNumber(page)
           p == [mem.page EXCEPT ![f] = Image]
           n == Copied(mem, page)
<1>1. mem \in Memories /\ mem.used_frames = Cardinality(mem.used)
  BY DEF Counted
<1>2. f \in Frames
  BY PagingAssumption
<1>3. n = [mem EXCEPT !.page = p]
  BY DEF Copied
<1> HIDE DEF f
<1>4. p \in [Frames -> Contents] /\ \A g \in Frames : g # f => p[g] = mem.page[g]
  BY <1>1, <1>2, Fields, Constants
<1> HIDE DEF p, n
<1>5. n.used = mem.used /\ n.used_frames = mem.used_frames /\ n.page = p /\ n \in Memories
  BY <1>1, <1>3, <1>4 DEF Memories, Contents
<1> QED
  BY <1>1, <1>4, <1>5 DEF Counted, n, f

(* A program copied to a frame that is not in use changes nothing held.    *)
LEMMA CopiedSound ==
  ASSUME NEW mem, Counted(mem), NEW D, NEW K, Sound(mem, D, K), NEW page \in ImagePages,
         PageNumber(page) \notin mem.used
  PROVE  /\ Sound(Copied(mem, page), D, K)
         /\ Kept(mem, Copied(mem, page), mem.used)
<1> DEFINE n == Copied(mem, page)
<1>1. /\ n.used = mem.used
      /\ \A f \in Frames : f # PageNumber(page) => n.page[f] = mem.page[f]
  BY CopiedProgram
<1>2. D \subseteq mem.used /\ mem.used \subseteq Frames
  BY Fields DEF Sound, Counted
<1> HIDE DEF n
<1>3. \A f \in mem.used : n.page[f] = mem.page[f]
  BY <1>1, <1>2
<1>4. Sound(n, D, K)
  <2>1. \A f \in D : n.page[f] = mem.page[f]
    BY <1>2, <1>3
  <2> QED
    BY <1>1, <2>1, DirectoriesKept
<1> QED
  BY <1>3, <1>4 DEF Kept, n

(* Pages mapped in a directory that was just made: what was in use before  *)
(* it was made stays.                                                      *)
LEMMA MappedInNew ==
  ASSUME NEW mem, NEW D, NEW K, Sound(mem, D, K),
         NEW a, Counted(a), NEW d, d \notin mem.used, NEW L, Sound(a, D \cup {d}, L), K \subseteq L,
         L \cap mem.used \subseteq K,
         mem.used \subseteq a.used, Kept(mem, a, mem.used),
         NEW page \in Indices \X Indices, NEW f \in Frames
  PROVE  LET n == Mapped(a, d, page, f)
         IN  /\ Sound(n, D \cup {d}, L) /\ a.used \subseteq n.used
             /\ Kept(mem, n, mem.used)
<1> DEFINE n == Mapped(a, d, page, f)
<1>1. /\ Sound(n, D \cup {d}, L) /\ a.used \subseteq n.used
      /\ Kept(a, n, a.used \ ({d} \cup TablesOf(a, d)))
  <2>1. d \in D \cup {d}
    OBVIOUS
  <2> QED
    BY <2>1, MappedSound
<1>2. TablesOf(a, d) \cap mem.used = {}
  <2> SUFFICES ASSUME NEW g \in TablesOf(a, d), g \in mem.used PROVE FALSE
    OBVIOUS
  <2>1. PICK i \in Indices : a.page[d][i] # 0 /\ g = a.page[d][i]
    BY DEF TablesOf, Present
  <2>2. D \subseteq mem.used
    BY DEF Sound
  <2>3. g \notin D /\ g \notin L
    BY <2>1 DEF Sound
  <2>4. PICK pd \in D, j \in Indices : mem.page[pd][j] = g
    BY <2>3 DEF Sound
  <2>5. a.page[pd][j] = g /\ pd # d
    BY <2>2, <2>4 DEF Kept
  <2> QED
    BY <2>1, <2>5 DEF Sound
<1> HIDE DEF n
<1>3. Kept(mem, n, mem.used)
  BY <1>1, <1>2 DEF Kept
<1> QED
  BY <1>1, <1>3 DEF n

(* spawn_pipeline_process keeps the invariant: what it loses when there is *)
(* no frame for the stack stays in use and is nobody's.                    *)
LEMMA SpawnStep ==
  ASSUME PagingSound, NEW page \in ImagePages, Spawn(page)
  PROVE  PagingSound' /\ (overrun' = {} => HoldsKept)
<1> DEFINE new == Created(m)
           pd == new.pd
           copied == Copied(new.mem, page)
           image == Mapped(copied, pd, page, PageNumber(page))
           stack == NextFrame(image)
           taken == Taken(image)
           final == Mapped(taken, pd, StackPage, stack)
           T == TablesOf(image, pd)
           D == spaces \cup {kernel_pd}
           K == Low \cup stacks \cup lost
           over == Overrun(new.mem, page)
<1>1. \/ /\ pd = 0 /\ m' = new.mem
         /\ spaces' = spaces /\ stacks' = stacks /\ lost' = lost
         /\ loaded' = loaded /\ overrun' = overrun
      \/ /\ pd # 0 /\ stack = 0 /\ m' = image /\ lost' = lost \cup ({pd} \cup T)
         /\ spaces' = spaces /\ stacks' = stacks /\ loaded' = loaded /\ overrun' = over
      \/ /\ pd # 0 /\ stack # 0 /\ m' = final /\ spaces' = spaces \cup {pd}
         /\ stacks' = stacks \cup {stack} /\ loaded' = loaded \cup {page}
         /\ overrun' = over /\ lost' = lost
  BY DEF Spawn, programs, TablesOf
<1>2. /\ page \in Indices \X Indices /\ StackPage \in Indices \X Indices
      /\ PageNumber(page) \in Frames
  BY PagingAssumption
<1>3. Counted(m) /\ Counted(new.mem) /\ pd \in Frames
  BY CreatedCounted DEF PagingSound
<1>4. Counted(copied) /\ copied.used = new.mem.used
  BY <1>3, CopiedProgram
<1>5. Counted(image) /\ T \subseteq Frames
  <2>1. Counted(image)
    <3> HIDE DEF copied, pd
    <3> QED
      BY <1>2, <1>3, <1>4, MappedCounted
  <2>2. T \subseteq Frames
    <3> HIDE DEF image, pd
    <3> QED
      BY <1>3, <2>1, Fields DEF TablesOf, Present, Counted, T
  <2> QED
    BY <2>1, <2>2
<1>6. stack \in Frames /\ (stack # 0 => stack \notin image.used)
  <2> HIDE DEF image
  <2> QED
    BY <1>5, NextFrameIsFree DEF Counted
<1>7. stack # 0 => Counted(taken) /\ taken.used = image.used \cup {stack} /\ taken.page = image.page
  <2> HIDE DEF image
  <2> QED
    BY <1>5, <1>6, TakenFrame
<1>8. stack # 0 => Counted(final)
  <2> HIDE DEF taken, stack, pd
  <2> QED
    BY <1>2, <1>3, <1>6, <1>7, MappedCounted
<1>9. /\ over \subseteq Frames
      /\ over = {} => overrun = {} /\ PageNumber(page) \notin new.mem.used
  <2> HIDE DEF new
  <2> QED
    BY <1>2 DEF Overrun, PagingSound
<1> HIDE DEF image, final, taken, stack, copied, T, over
<1>10. /\ Counted(m') /\ loaded' \subseteq ImagePages
       /\ spaces' \subseteq Frames /\ stacks' \subseteq Frames
       /\ lost' \subseteq Frames /\ overrun' \subseteq Frames
  <2> HIDE DEF new, pd
  <2> QED
    BY <1>1, <1>3, <1>5, <1>6, <1>8, <1>9 DEF PagingSound, new
<1>11. ASSUME overrun' = {}
       PROVE  Clean(m', spaces', stacks', lost') /\ HoldsKept
  <2>1. overrun = {} /\ (pd # 0 => PageNumber(page) \notin new.mem.used)
    BY <1>1, <1>9, <1>11
  <2>2. Clean(m, spaces, stacks, lost) /\ Sound(m, D, K)
    BY <2>1 DEF PagingSound, Clean
  <2> HIDE DEF D, K
  <2>3. /\ pd = 0 => Sound(new.mem, D, K)
        /\ pd # 0 => pd \notin m.used /\ Sound(new.mem, D \cup {pd}, K)
        /\ m.used \subseteq new.mem.used /\ Kept(m, new.mem, m.used)
    BY <1>3, <2>2, CreatedSound
  <2> HIDE DEF pd, new
  <2>4. CASE pd = 0
    <3>1. m' = new.mem /\ spaces' = spaces /\ stacks' = stacks /\ lost' = lost
      BY <1>1, <2>4
    <3>2. HoldsKept
      BY <2>2, <2>3, <3>1, UsedKept
    <3> QED
      BY <2>2, <2>3, <2>4, <3>1, <3>2 DEF Clean, D, K
  <2>5. CASE pd # 0
    <3>1. /\ Sound(copied, D \cup {pd}, K) /\ Kept(new.mem, copied, new.mem.used)
      BY <1>3, <2>1, <2>3, <2>5, CopiedSound DEF copied
    <3>2. m.used \subseteq copied.used /\ Kept(m, copied, m.used) /\ pd \notin m.used
      BY <1>4, <2>3, <2>5, <3>1 DEF Kept
    <3>3. /\ Sound(image, D \cup {pd}, K) /\ copied.used \subseteq image.used
          /\ Kept(m, image, m.used)
      <4>1. K \cap m.used \subseteq K /\ K \subseteq K
        OBVIOUS
      <4> QED
        BY <1>2, <1>4, <2>2, <3>1, <3>2, <4>1, MappedInNew DEF image
    <3>4. /\ D \cap K = {} /\ pd \notin K /\ T \cap K = {} /\ T \cap D = {} /\ pd \notin D
          /\ kernel_pd \in D /\ D \subseteq m.used
      BY <2>2, <3>2, <3>3 DEF Sound, T, TablesOf, Present, D
    <3>5. (D \cup {pd}) \ {pd} = D
      BY <3>4
    <3>6. CASE stack = 0
      <4>1. m' = image /\ spaces' = spaces /\ stacks' = stacks /\ lost' = lost \cup ({pd} \cup T)
        BY <1>1, <2>5, <3>6
      <4>2. Sound(image, D, K \cup ({pd} \cup T))
        <5>1. pd \in D \cup {pd}
          OBVIOUS
        <5>2. Sound(image, (D \cup {pd}) \ {pd}, K \cup ({pd} \cup TablesOf(image, pd)))
          BY <3>3, <5>1, DirectoryLost
        <5> QED
          BY <3>5, <5>2 DEF T
      <4>3. K \cup ({pd} \cup T) = Low \cup stacks' \cup lost'
        BY <4>1 DEF K
      <4>4. HoldsKept
        BY <2>2, <3>3, <4>1, UsedKept
      <4>5. lost' \cap Low = {} /\ stacks' \cap lost' = {}
        BY <2>2, <3>4, <4>1 DEF Clean, K
      <4>6. Sound(m', spaces' \cup {kernel_pd}, Low \cup stacks' \cup lost')
        BY <4>1, <4>2, <4>3 DEF D
      <4> QED
        BY <2>2, <4>1, <4>4, <4>5, <4>6 DEF Clean
    <3>7. CASE stack # 0
      <4> DEFINE L == K \cup {stack}
      <4>1. /\ m' = final /\ spaces' = spaces \cup {pd} /\ stacks' = stacks \cup {stack}
            /\ lost' = lost
        BY <1>1, <2>5, <3>7
      <4>2. Sound(taken, D \cup {pd}, L)
        BY <1>6, <1>7, <3>3, <3>7, FrameAdded
      <4>3. stack \notin m.used /\ stack \notin K
        BY <1>6, <3>2, <3>3, <3>7 DEF Sound
      <4>4. K \subseteq L /\ L \cap m.used \subseteq K
        BY <4>3
      <4>5. m.used \subseteq taken.used /\ Kept(m, taken, m.used)
        BY <1>7, <3>2, <3>3, <3>7 DEF Kept
      <4> HIDE DEF L
      <4>6. Sound(final, D \cup {pd}, L) /\ Kept(m, final, m.used)
        BY <1>2, <1>6, <1>7, <2>2, <3>2, <3>7, <4>2, <4>4, <4>5, MappedInNew DEF final
      <4>7. HoldsKept
        BY <2>2, <4>1, <4>6, UsedKept
      <4>8. /\ L = Low \cup stacks' \cup lost'
            /\ D \cup {pd} = spaces' \cup {kernel_pd}
        BY <4>1 DEF L, K, D
      <4>9. /\ kernel_pd \notin spaces' /\ stacks' \cap Low = {} /\ lost' \cap Low = {}
            /\ stacks' \cap lost' = {}
        BY <2>2, <3>4, <4>1, <4>3 DEF Clean, K
      <4> QED
        BY <4>1, <4>6, <4>7, <4>8, <4>9 DEF Clean
    <3> QED
      BY <3>6, <3>7
  <2> QED
    BY <2>4, <2>5
<1> QED
  BY <1>10, <1>11 DEF PagingSound

(* load_and_run keeps the invariant.                                       *)
LEMMA LoadAndRunStep ==
  ASSUME PagingSound, NEW page \in ImagePages, LoadAndRun(page)
  PROVE  PagingSound' /\ (overrun' = {} => HoldsKept)
<1> DEFINE n == Copied(m, page)
           D == spaces \cup {kernel_pd}
           K == Low \cup stacks \cup lost
<1>1. /\ m' = n /\ loaded' \in {loaded, loaded \cup {page}} /\ overrun' = Overrun(m, page)
      /\ spaces' = spaces /\ stacks' = stacks /\ lost' = lost
  BY DEF LoadAndRun
<1>2. Counted(m) /\ Counted(n) /\ PageNumber(page) \in Frames
  BY CopiedProgram, PagingAssumption DEF PagingSound
<1>3. overrun' \subseteq Frames /\ (overrun' = {} => overrun = {} /\ PageNumber(page) \notin m.used)
  BY <1>1, <1>2 DEF Overrun, PagingSound
<1>4. ASSUME overrun' = {}
      PROVE  Clean(m', spaces', stacks', lost') /\ HoldsKept
  <2>1. overrun = {} /\ PageNumber(page) \notin m.used
    BY <1>3, <1>4
  <2>2. Clean(m, spaces, stacks, lost) /\ Sound(m, D, K)
    BY <2>1 DEF PagingSound, Clean
  <2>3. Sound(n, D, K) /\ Kept(m, n, m.used)
    <3> HIDE DEF D, K
    <3> QED
      BY <1>2, <2>1, <2>2, CopiedSound
  <2> HIDE DEF n
  <2>4. HoldsKept
    BY <1>1, <2>2, <2>3, UsedKept
  <2> QED
    BY <1>1, <2>2, <2>3, <2>4 DEF Clean
<1> HIDE DEF n
<1> QED
  BY <1>1, <1>2, <1>3, <1>4 DEF PagingSound

LEMMA UnchangedStep ==
  ASSUME PagingSound, UNCHANGED <<m, spaces, stacks, lost, overrun>>, loaded' \subseteq loaded
  PROVE  PagingSound' /\ HoldsKept
<1>1. /\ m' = m /\ spaces' = spaces /\ stacks' = stacks /\ lost' = lost /\ overrun' = overrun
  OBVIOUS
<1>2. HoldsKept
  BY <1>1 DEF HoldsKept, Kept
<1> QED
  BY <1>1, <1>2 DEF PagingSound

(***************************************************************************)
(* The theorems.                                                           *)
(***************************************************************************)
LEMMA PagingInit == Init => PagingSound
<1> SUFFICES ASSUME Init PROVE PagingSound
  OBVIOUS
<1> DEFINE top == first_free + KernelTables
           dir == [i \in Indices |-> IF i < KernelTables THEN kernel_pd + 1 + i ELSE 0]
           table(f) == [j \in Indices |->
                          LET mapped == (f - kernel_pd - 1) * Entries + j
                          IN  IF mapped \in Frames THEN Identity(mapped) ELSE 0]
           page == [f \in Frames |->
                      IF f = kernel_pd THEN dir
                      ELSE IF f \in kernel_pd + 1 .. kernel_pd + KernelTables THEN table(f)
                      ELSE Empty]
<1>1. /\ m = [used |-> 0 .. top, used_frames |-> first_free + 1 + KernelTables, page |-> page]
      /\ spaces = {} /\ stacks = {} /\ lost = {} /\ loaded = {} /\ overrun = {}
  BY DEF Init
<1>2. /\ first_free \in Nat \ {0} /\ KernelTables \in Nat /\ top \in Nat /\ top < total_frames
      /\ total_frames \in Nat /\ Entries \in Nat /\ KernelTables < Entries /\ kernel_pd = first_free
  BY Constants DEF kernel_pd
<1>3. /\ dir \in Contents /\ \A f : table(f) \in Contents
  <2>1. \A i \in Indices : i < KernelTables => kernel_pd + 1 + i \in Frames
    BY <1>2 DEF Indices, Frames
  <2>2. dir \in Contents
    BY <2>1, Constants DEF Contents
  <2>3. \A f : table(f) \in Contents
    BY Constants DEF Contents, Identity
  <2> QED
    BY <2>2, <2>3
<1> HIDE DEF dir, table
<1>4. page \in [Frames -> Contents] /\ page[kernel_pd] = dir
  BY <1>3, Constants
<1> HIDE DEF page
<1>5. m.used = 0 .. top /\ m.used_frames = top + 1 /\ m.page = page
  BY <1>1, <1>2
<1>6. Counted(m)
  <2>1. 0 .. top \subseteq Frames
    BY <1>2 DEF Frames
  <2>2. Cardinality(0 .. top) = top + 1
    <3>1. Cardinality(0 .. top) = IF 0 > top THEN 0 ELSE top - 0 + 1
      BY <1>2, FS_Interval
    <3> QED
      BY <1>2, <3>1
  <2>3. first_free + 1 + KernelTables \in Nat
    BY <1>2
  <2>4. m \in Memories
    BY <1>1, <1>4, <2>1, <2>3 DEF Memories, Contents
  <2> QED
    BY <1>5, <2>2, <2>4 DEF Counted
<1>7. Sound(m, {kernel_pd}, Low)
  <2>1. \A i \in Indices :
          m.page[kernel_pd][i] = IF i < KernelTables THEN kernel_pd + 1 + i ELSE 0
    BY <1>4, <1>5 DEF dir
  <2>2. Indices = 0 .. Entries - 1 /\ Low = 0 .. first_free - 1
    BY DEF Indices, Low
  <2>3. {kernel_pd} \subseteq m.used /\ Low \subseteq m.used /\ {kernel_pd} \cap Low = {} /\ 0 \in Low
    BY <1>2, <1>5, <2>2
  <2>4. \A i \in Indices : m.page[kernel_pd][i] # 0 =>
          m.page[kernel_pd][i] \in m.used \ ({kernel_pd} \cup Low)
    BY <1>2, <1>5, <2>1, <2>2
  <2>5. ASSUME NEW f \in m.used \ ({kernel_pd} \cup Low)
        PROVE  \E i \in Indices : m.page[kernel_pd][i] = f
    <3>1. f \in Nat /\ f > first_free /\ f <= top
      BY <1>2, <1>5, <2>2
    <3>2. f - kernel_pd - 1 \in Indices /\ f - kernel_pd - 1 < KernelTables
          /\ kernel_pd + 1 + (f - kernel_pd - 1) = f
      BY <1>2, <2>2, <3>1
    <3> QED
      BY <2>1, <3>2
  <2>6. \A i, j \in Indices :
          m.page[kernel_pd][i] # 0 /\ m.page[kernel_pd][i] = m.page[kernel_pd][j] => i = j
    BY <1>2, <2>1, <2>2
  <2> QED
    BY <2>3, <2>4, <2>5, <2>6 DEF Sound
<1>8. Clean(m, {}, {}, {})
  BY <1>7 DEF Clean
<1> QED
  BY <1>1, <1>6, <1>8 DEF PagingSound

(* Every step keeps the invariant, and what every space holds but the one  *)
(* that is mapped or unmapped.                                             *)
LEMMA PagingStep ==
  ASSUME PagingSound, [Next \/ LoaderNext]_vars
  PROVE  /\ PagingSound'
         /\ overrun' = {} =>
              \A pd \in (spaces \cap spaces') \cup {kernel_pd} :
                \/ Kept(m, m', Holds(m, pd))
                \/ \E p \in Pages : MapPage(pd, p) \/ UnmapPage(pd, p)
<1>1. CASE CreatePd
  BY <1>1, CreatePdStep DEF HoldsKept
<1>2. CASE AllocFrame
  BY <1>2, AllocFrameStep DEF HoldsKept
<1>3. CASE \E page \in ImagePages : Spawn(page)
  BY <1>3, SpawnStep DEF HoldsKept
<1>4. CASE \E f \in stacks : FreeFrame(f)
  BY <1>4, FreeFrameStep DEF HoldsKept
<1>5. CASE \E pd \in spaces : DestroyPd(pd)
  BY <1>5, DestroyPdStep DEF HoldsKept
<1>6. CASE \E qd \in spaces, page \in Pages : MapPage(qd, page) \/ UnmapPage(qd, page)
  BY <1>6, MapPageStep
<1>7. CASE \E page \in ImagePages : LoadAndRun(page)
  BY <1>7, LoadAndRunStep DEF HoldsKept
<1>8. CASE \E page \in loaded : Leave(page)
  BY <1>8, UnchangedStep DEF Leave, HoldsKept
<1>9. CASE UNCHANGED vars
  BY <1>9, UnchangedStep DEF vars, programs, HoldsKept
<1> QED
  BY <1>1, <1>2, <1>3, <1>4, <1>5, <1>6, <1>7, <1>8, <1>9 DEF Next, LoaderNext

(* PagingSound is an invariant of both specifications: of any callers, and *)
(* of the kernel's own loaders.                                            *)
THEOREM FramesStaySound == (Spec => []PagingSound) /\ (LoaderSpec => []PagingSound)
<1>1. Init => PagingSound
  BY PagingInit
<1>2. PagingSound /\ [Next]_vars => PagingSound'
  BY PagingStep
<1>3. PagingSound /\ [LoaderNext]_vars => PagingSound'
  BY PagingStep
<1> QED
  BY <1>1, <1>2, <1>3, PTL DEF Spec, LoaderSpec

(* TypeOK: whatever happens to memory, also when a program is copied over  *)
(* a directory or a table, every entry holds the number of a frame.        *)
THEOREM PagingTyped == (Spec => []TypeOK) /\ (LoaderSpec => []TypeOK)
<1>1. PagingSound => TypeOK
  BY Fields DEF PagingSound, TypeOK, Counted, Contents
<1> QED
  BY <1>1, FramesStaySound, PTL

(* FramesAccounted: every frame in use has one use, every other one is     *)
(* free, and the count is right, however calls that fail give back what    *)
(* they took.                                                              *)
THEOREM FramesStayAccounted == (Spec => []FramesAccounted) /\ (LoaderSpec => []FramesAccounted)
<1>1. PagingSound => FramesAccounted
  <2> SUFFICES ASSUME PagingSound, overrun = {} PROVE FramesAccounted
    BY DEF FramesAccounted
  <2> DEFINE D == spaces \cup {kernel_pd}
             K == Low \cup stacks \cup lost
             parts == <<0 .. first_free - 1, {kernel_pd}, spaces, TableFrames, stacks, lost>>
  <2>1. /\ Counted(m) /\ Clean(m, spaces, stacks, lost) /\ Sound(m, D, K)
        /\ m.used \subseteq Frames /\ D \subseteq Frames
    BY Fields DEF PagingSound, Clean, Counted, Sound
  <2>2. \A u \in TableUses :
          /\ u[1] \in D /\ u[2] \in Indices /\ u = <<u[1], u[2]>> /\ m.page[u[1]][u[2]] # 0
    BY DEF TableUses
  <2>3. \A pd \in D, i \in Indices : m.page[pd][i] # 0 =>
          <<pd, i>> \in TableUses /\ <<pd, i>>[1] = pd /\ <<pd, i>>[2] = i
    BY DEF TableUses
  <2>4. TableFrames = m.used \ (D \cup K)
    <3> HIDE DEF D, K
    <3>1. ASSUME NEW u \in TableUses PROVE m.page[u[1]][u[2]] \in m.used \ (D \cup K)
      BY <2>1, <2>2 DEF Sound
    <3>2. ASSUME NEW f \in m.used \ (D \cup K) PROVE f \in TableFrames
      <4>1. PICK pd \in D, i \in Indices : m.page[pd][i] = f
        BY <2>1 DEF Sound
      <4>2. f # 0
        BY <2>1 DEF Sound
      <4>3. <<pd, i>> \in TableUses /\ <<pd, i>>[1] = pd /\ <<pd, i>>[2] = i
        BY <2>3, <4>1, <4>2
      <4> QED
        BY <4>1, <4>3 DEF TableFrames
    <3> QED
      BY <3>1, <3>2 DEF TableFrames
  <2>5. Cardinality(TableFrames) = Cardinality(TableUses)
    <3> DEFINE f == [u \in TableUses |-> m.page[u[1]][u[2]]]
    <3>1. IsFiniteSet(TableUses)
      <4>1. IsFiniteSet(D)
        <5> HIDE DEF D
        <5> QED
          BY <2>1, Constants, FS_Subset
      <4>2. IsFiniteSet(D \X Indices)
        <5> HIDE DEF D
        <5> QED
          BY <4>1, Constants, FS_Product
      <4>3. TableUses \subseteq D \X Indices
        BY DEF TableUses
      <4> HIDE DEF D
      <4> QED
        BY <4>2, <4>3, FS_Subset
    <3>2. f \in Bijection(TableUses, TableFrames)
      <4> HIDE DEF D, K
      <4>1. f \in [TableUses -> TableFrames] /\ \A t \in TableFrames : \E u \in TableUses : f[u] = t
        BY DEF TableFrames
      <4>2. ASSUME NEW u \in TableUses, NEW v \in TableUses, f[u] = f[v] PROVE u = v
        <5>1. m.page[u[1]][u[2]] = m.page[v[1]][v[2]]
          BY <4>2
        <5>2. u[1] = v[1] /\ u[2] = v[2]
          BY <2>1, <2>2, <5>1 DEF Sound
        <5> QED
          BY <2>2, <5>2
      <4> HIDE DEF f
      <4> QED
        BY <4>1, <4>2 DEF Bijection, Injection, Surjection, IsInjective
    <3> HIDE DEF f
    <3> QED
      BY <3>1, <3>2, FS_Bijection DEF ExistsBijection
  <2>6. /\ m.used = Low \cup {kernel_pd} \cup spaces \cup TableFrames \cup stacks \cup lost
        /\ TableFrames \cap D = {} /\ TableFrames \cap K = {} /\ D \cap K = {}
    BY <2>1, <2>4 DEF Sound
  <2>7. /\ parts[1] = Low /\ parts[2] = {kernel_pd} /\ parts[3] = spaces
        /\ parts[4] = TableFrames /\ parts[5] = stacks /\ parts[6] = lost
    BY DEF Low
  <2>8. \A i \in 1 .. 6 : i \in {1, 2, 3, 4, 5, 6}
    OBVIOUS
  <2>9. m.used = UNION {parts[i] : i \in 1 .. 6}
    <3> HIDE DEF parts, D, K
    <3>1. \A f : f \in UNION {parts[i] : i \in 1 .. 6} <=> \E i \in 1 .. 6 : f \in parts[i]
      OBVIOUS
    <3>2. {1, 2, 3, 4, 5, 6} \subseteq 1 .. 6
      OBVIOUS
    <3>3. \A f : f \in UNION {parts[i] : i \in 1 .. 6} <=> f \in m.used
      BY <2>6, <2>7, <2>8, <3>1, <3>2
    <3> QED
      BY <3>3
  <2>10. \A i, j \in 1 .. 6 : i # j => parts[i] \cap parts[j] = {}
    <3>1. /\ Low \cap {kernel_pd} = {} /\ Low \cap spaces = {} /\ Low \cap TableFrames = {}
          /\ Low \cap stacks = {} /\ Low \cap lost = {}
          /\ {kernel_pd} \cap spaces = {} /\ {kernel_pd} \cap TableFrames = {}
          /\ {kernel_pd} \cap stacks = {} /\ {kernel_pd} \cap lost = {}
          /\ spaces \cap TableFrames = {} /\ spaces \cap stacks = {} /\ spaces \cap lost = {}
          /\ TableFrames \cap stacks = {} /\ TableFrames \cap lost = {} /\ stacks \cap lost = {}
      BY <2>1, <2>6 DEF Clean
    <3> HIDE DEF parts, D, K
    <3> QED
      BY <2>7, <2>8, <3>1
  <2>11. m.used_frames = Cardinality(m.used)
    BY <2>1 DEF Counted
  <2>12. DOMAIN parts = 1 .. 6
    OBVIOUS
  <2>13. /\ m.used = UNION {parts[i] : i \in DOMAIN parts}
         /\ \A i, j \in DOMAIN parts : i # j => parts[i] \cap parts[j] = {}
    <3> HIDE DEF parts
    <3> QED
      BY <2>9, <2>10, <2>12
  <2> QED
    BY <2>5, <2>11, <2>13, Zenon DEF FramesAccounted
<1> QED
  BY <1>1, FramesStaySound, PTL

(* SpacesIsolated: no call changes what another space maps a page to.      *)
THEOREM SpacesStayIsolated == Spec => SpacesIsolated
<1>1. PagingSound /\ [Next]_vars =>
        [overrun' = {} =>
           \A pd \in (spaces \cap spaces') \cup {kernel_pd}, page \in Indices \X Indices :
             Translated(m', pd, page) # Translated(m, pd, page)
               => \E p \in Pages : MapPage(pd, p) \/ UnmapPage(pd, p)]_vars
  BY PagingStep, TranslationKept
<1> QED
  BY <1>1, FramesStaySound, PTL DEF Spec, SpacesIsolated

=============================================================================
