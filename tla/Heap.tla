-------------------------------- MODULE Heap --------------------------------
(***************************************************************************)
(* The kernel heap (heap.c): kmalloc takes the first block of the free     *)
(* list that is long enough, and splits it, or advances heap_bump; kfree   *)
(* puts a block back in its place in the list, which is kept by address,   *)
(* and joins it to its neighbours if they touch.                           *)
(*                                                                         *)
(* The list is a sequence of blocks [addr, size]: addr is the address of   *)
(* the header, size that of the payload, as the header says.  The header's *)
(* field free is written and never read, and left out.  kmalloc(0) and     *)
(* kfree(NULL) return at once.  No program of the repository makes system  *)
(* call 4, so that no tick comes between two steps of an operation that    *)
(* matters to another one.                                                 *)
(***************************************************************************)
EXTENDS Integers, Sequences, SequencesExt

CONSTANTS
  HeaderSize,  \* sizeof(block_header_t) (12)
  ALIGN,       \* (8)
  HeapSize,    \* bytes managed, from address 0 (102400 from 0x200000)
  Lengths      \* bytes the callers ask for (far from 2^32: no sum wraps)

ASSUME HeapAssumption ==
  /\ {HeaderSize, ALIGN, HeapSize} \subseteq Nat \ {0}
  /\ Lengths \subseteq Nat \ {0}

VARIABLES
  free_list,    \* the blocks of the free list, in its order
  heap_bump,    \* where memory begins that was never handed out
  alloc_count,  \* what kheap_alloc_count returns
  live          \* the pointers callers hold: the length asked for, and the
                \* size in the header of the block

vars == <<free_list, heap_bump, alloc_count, live>>

ALIGN_UP(x) == ((x + ALIGN - 1) \div ALIGN) * ALIGN

Payload(b) == b.addr + HeaderSize
End(b) == b.addr + HeaderSize + b.size

Init ==
  /\ free_list = <<>> /\ heap_bump = 0 /\ alloc_count = 0
  /\ live = [p \in {} |-> 0]

Gives(n, b) ==
  /\ live' = [p \in DOMAIN live \cup {Payload(b)} |->
                IF p = Payload(b) THEN [asked |-> n, size |-> b.size] ELSE live[p]]
  /\ alloc_count' = alloc_count + 1

(* find_free_block: the place in the list of the first block that has size *)
(* bytes, 0 if none has.                                                   *)
FindFreeBlock(size) == SelectInSeq(free_list, LAMBDA b : b.size >= size)

(* split_block: what becomes of block b, shortened to size if the rest can *)
(* hold a block, and of the list.  The rest takes b's place in the list if *)
(* b is there; kmalloc has already taken it out.                           *)
CanSplit(b, size) == b.size - size >= HeaderSize + ALIGN

Shortened(b, size) == IF CanSplit(b, size) THEN [b EXCEPT !.size = size] ELSE b

SplitList(list, b, size) ==
  LET place == SelectInSeq(list, LAMBDA c : c = b)
      rest  == [addr |-> Payload(b) + size, size |-> b.size - size - HeaderSize]
  IN  IF place = 0 THEN list
      ELSE IF CanSplit(b, size) THEN [list EXCEPT ![place] = rest]
      ELSE RemoveAt(list, place)

(* Mutant: the block is not taken out of the list.                         *)
MallocFromList_KeepsBlock(n) ==
  LET i == FindFreeBlock(ALIGN_UP(n))
  IN  /\ i # 0
      /\ Gives(n, Shortened(free_list[i], ALIGN_UP(n)))
      /\ UNCHANGED <<free_list, heap_bump>>

MallocFromList(n) ==
  LET i    == FindFreeBlock(ALIGN_UP(n))
      list == RemoveAt(free_list, i)
  IN  /\ i # 0
      /\ free_list' = SplitList(list, free_list[i], ALIGN_UP(n))
      /\ Gives(n, Shortened(free_list[i], ALIGN_UP(n)))
      /\ UNCHANGED heap_bump

FromBump(n) == [addr |-> ALIGN_UP(heap_bump), size |-> ALIGN_UP(n)]

(* Mutant: the limit is tested without the header.                         *)
MallocFromBump_TestsPayload(n) ==
  /\ FindFreeBlock(ALIGN_UP(n)) = 0
  /\ End(FromBump(n)) - HeaderSize <= HeapSize
  /\ heap_bump' = End(FromBump(n))
  /\ Gives(n, FromBump(n))
  /\ UNCHANGED free_list

MallocFromBump(n) ==
  /\ FindFreeBlock(ALIGN_UP(n)) = 0
  /\ End(FromBump(n)) <= HeapSize
  /\ heap_bump' = End(FromBump(n))
  /\ Gives(n, FromBump(n))
  /\ UNCHANGED free_list

(* NULL is returned.                                                       *)
MallocFails(n) ==
  /\ FindFreeBlock(ALIGN_UP(n)) = 0
  /\ End(FromBump(n)) > HeapSize
  /\ UNCHANGED vars

Joined(b, next) == [b EXCEPT !.size = @ + HeaderSize + next.size]

(* Mutant: the block is put in front.                                      *)
InsertAndCoalesce_AtFront(list, b) == <<b>> \o list

(* insert_and_coalesce: before the first block of a higher address, then   *)
(* joined to the next block and to the one before.                         *)
InsertAndCoalesce(list, b) ==
  LET place  == SelectInSeq(list, LAMBDA c : c.addr >= b.addr)
      before == IF place = 0 THEN list ELSE SubSeq(list, 1, place - 1)
      after  == IF place = 0 THEN <<>> ELSE SubSeq(list, place, Len(list))
      joins  == after # <<>> /\ End(b) = after[1].addr
      block  == IF joins THEN Joined(b, after[1]) ELSE b
      rest   == IF joins THEN Tail(after) ELSE after
  IN  IF before # <<>> /\ End(Last(before)) = b.addr
      THEN Front(before) \o <<Joined(Last(before), block)>> \o rest
      ELSE before \o <<block>> \o rest

(* Callers free pointers they hold, once.                                  *)
Kfree(p) ==
  /\ p \in DOMAIN live
  /\ free_list' = InsertAndCoalesce(free_list, [addr |-> p - HeaderSize,
                                                size |-> live[p].size])
  /\ live' = [q \in DOMAIN live \ {p} |-> live[q]]
  /\ alloc_count' = IF alloc_count > 0 THEN alloc_count - 1 ELSE 0
  /\ UNCHANGED heap_bump

Next ==
  \/ \E n \in Lengths : MallocFromList(n) \/ MallocFromBump(n) \/ MallocFails(n)
  \/ \E p \in DOMAIN live : Kfree(p)

Spec == Init /\ [][Next]_vars

----------------------------------------------------------------------------
OnList == {free_list[i] : i \in DOMAIN free_list}

TypeOK ==
  /\ OnList \subseteq [addr : 0 .. HeapSize, size : Nat]
  /\ heap_bump \in 0 .. HeapSize
  /\ alloc_count = Cardinality(DOMAIN live)
  /\ DOMAIN live \subseteq 0 .. HeapSize

(* The free list is in the order of addresses, its blocks do not overlap   *)
(* and lie below heap_bump: insert_and_coalesce looks for neighbours in    *)
(* the list only next to each other.                                       *)
FreeListAscending ==
  /\ \A i, j \in DOMAIN free_list : i < j => End(free_list[i]) <= free_list[j].addr
  /\ \A b \in OnList : End(b) <= heap_bump

(* kheap_used_size, computed from the free list and heap_bump alone, is    *)
(* never less than what the callers hold with its headers.                 *)
KheapUsedSize ==
  LET free_sum == FoldSet(LAMBDA b, s : s + b.size + HeaderSize, 0, OnList)
  IN  IF heap_bump > free_sum THEN heap_bump - free_sum ELSE 0

UsedCoversLive ==
  KheapUsedSize >= FoldSet(LAMBDA p, s : s + live[p].size + HeaderSize, 0, DOMAIN live)

(* What the callers are promised: their regions lie in the heap, are as    *)
(* long as they asked for, and never overlap, whatever order blocks are    *)
(* split, freed and handed out again in.                                   *)
Served == INSTANCE Regions WITH
  Memory <- 0 .. HeapSize - 1, owned <- [p \in DOMAIN live |-> live[p].asked]

ServesRegions == Served!Spec

=============================================================================
