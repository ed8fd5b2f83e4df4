----------------------------- MODULE HeapProofs -----------------------------
(***************************************************************************)
(* The theorems of Heap.  The blocks on the free list and the blocks the   *)
(* callers hold are pairwise apart and lie below heap_bump: HeapSound, the *)
(* inductive invariant.  FreeListAscending alone is not inductive, for it  *)
(* does not say that a block that comes back is apart from those on the    *)
(* list.  The lemma InsertSound carries the proof: whatever is apart from  *)
(* the block that is freed and from the blocks of the list is apart from   *)
(* the blocks insert_and_coalesce leaves, joined or not.  The size of the  *)
(* heap, of a header, the alignment and the lengths are arbitrary.         *)
(***************************************************************************)
EXTENDS Heap, NaturalLemmas, SequenceTheorems, FiniteSetTheorems, TLAPS

Block == [addr : Nat, size : Nat]

Elements(s) == {s[i] : i \in DOMAIN s}

(* Two blocks, with their headers, have no byte in common.                 *)
Apart(b, c) == End(b) <= c.addr \/ End(c) <= b.addr

Sorted(s) ==
  /\ s \in Seq(Block)
  /\ \A i, j \in DOMAIN s : i < j => End(s[i]) <= s[j].addr

(* The block of a pointer a caller holds.                                  *)
LiveBlock(p) == [addr |-> p - HeaderSize, size |-> live[p].size]

HeapSound ==
  /\ Sorted(free_list)
  /\ heap_bump \in 0 .. HeapSize
  /\ \A b \in Elements(free_list) : End(b) <= heap_bump
  /\ live \in [DOMAIN live -> [asked : Nat \ {0}, size : Nat]]
  /\ IsFiniteSet(DOMAIN live) /\ alloc_count = Cardinality(DOMAIN live)
  /\ \A p \in DOMAIN live :
       /\ p \in Nat /\ p >= HeaderSize
       /\ live[p].asked <= live[p].size
       /\ End(LiveBlock(p)) <= heap_bump
       /\ \A b \in Elements(free_list) : Apart(LiveBlock(p), b)
  /\ \A p, q \in DOMAIN live : p # q => Apart(LiveBlock(p), LiveBlock(q))

(***************************************************************************)
(* Blocks.                                                                 *)
(***************************************************************************)
LEMMA BlockEnds ==
  ASSUME NEW b \in Block
  PROVE  /\ b.addr \in Nat /\ b.size \in Nat
         /\ End(b) \in Nat /\ End(b) > b.addr /\ End(b) = b.addr + HeaderSize + b.size
         /\ HeaderSize \in Nat \ {0}
BY HeapAssumption DEF Block, End

(* ALIGN_UP never shortens.                                                *)
LEMMA AlignUp ==
  ASSUME NEW x \in Nat
  PROVE  ALIGN_UP(x) \in Nat /\ ALIGN_UP(x) >= x
<1>1. ALIGN \in Nat \ {0}
  BY HeapAssumption
<1> QED
  BY <1>1 DEF ALIGN_UP

(* Two blocks that touch, joined: one block with the bytes of both.        *)
LEMMA JoinedBlock ==
  ASSUME NEW b \in Block, NEW c \in Block, End(b) = c.addr
  PROVE  /\ Joined(b, c) \in Block
         /\ Joined(b, c).addr = b.addr
         /\ End(Joined(b, c)) = End(c)
         /\ \A l \in Block : Apart(l, b) /\ Apart(l, c) => Apart(l, Joined(b, c))
<1> DEFINE n == b.size + HeaderSize + c.size
           j == Joined(b, c)
<1>1. n \in Nat
  BY BlockEnds
<1>2. j = [b EXCEPT !.size = n]
  BY DEF Joined
<1> HIDE DEF n, j
<1>3. j \in Block /\ j.addr = b.addr /\ j.size = n
  BY <1>1, <1>2 DEF Block
<1>4. End(j) = End(c)
  BY <1>3, BlockEnds DEF n
<1>5. ASSUME NEW l \in Block, Apart(l, b), Apart(l, c) PROVE Apart(l, j)
  <2>1. /\ End(l) \in Nat /\ l.addr \in Nat /\ End(l) > l.addr
        /\ End(c) \in Nat /\ b.addr \in Nat /\ End(b) \in Nat /\ c.addr \in Nat
    BY BlockEnds
  <2> QED
    BY <1>3, <1>4, <1>5, <2>1 DEF Apart
<1> QED
  BY <1>3, <1>4, <1>5 DEF j

(***************************************************************************)
(* Lists.                                                                  *)
(***************************************************************************)
LEMMA ElementsAreBlocks ==
  ASSUME NEW s, Sorted(s)
  PROVE  Elements(s) \subseteq Block
BY LenProperties DEF Sorted, Elements

(* A list and another one beyond it.                                       *)
LEMMA Concatenated ==
  ASSUME NEW u, Sorted(u), NEW v, Sorted(v),
         \A c \in Elements(u), d \in Elements(v) : End(c) <= d.addr
  PROVE  Sorted(u \o v) /\ Elements(u \o v) = Elements(u) \cup Elements(v)
<1> DEFINE m == Len(u)
           n == Len(v)
           r == u \o v
<1>1. /\ u \in Seq(Block) /\ v \in Seq(Block) /\ m \in Nat /\ n \in Nat
      /\ DOMAIN u = 1 .. m /\ DOMAIN v = 1 .. n
  BY LenProperties DEF Sorted
<1>2. /\ r \in Seq(Block) /\ Len(r) = m + n
      /\ \A i \in 1 .. m + n : r[i] = IF i <= m THEN u[i] ELSE v[i - m]
  BY <1>1, ConcatProperties, Zenon
<1> HIDE DEF r, m, n
<1>3. DOMAIN r = 1 .. m + n
  BY <1>2, LenProperties
<1>4. /\ \A i \in 1 .. m : i \in DOMAIN r /\ r[i] = u[i]
      /\ \A i \in 1 .. n : m + i \in DOMAIN r /\ r[m + i] = v[i]
  <2>1. ASSUME NEW i \in 1 .. m PROVE i \in 1 .. m + n /\ i <= m
    BY <1>1
  <2>2. ASSUME NEW i \in 1 .. n
        PROVE  m + i \in 1 .. m + n /\ ~(m + i <= m) /\ (m + i) - m = i
    BY <1>1
  <2> QED
    BY <1>2, <1>3, <2>1, <2>2
<1>5. \A i \in DOMAIN r :
        \/ i \in 1 .. m /\ r[i] = u[i]
        \/ i - m \in 1 .. n /\ r[i] = v[i - m]
  <2> TAKE i \in DOMAIN r
  <2>1. i \in 1 .. m + n
    BY <1>3
  <2>2. i \in Int /\ 1 <= i /\ i <= m + n
    BY <1>1, <2>1
  <2>3. i \in 1 .. m \/ (i - m \in 1 .. n /\ ~(i <= m))
    BY <1>1, <2>2
  <2> QED
    BY <1>2, <1>4, <2>1, <2>3, Zenon
<1>6. Elements(r) = Elements(u) \cup Elements(v)
  <2>1. ASSUME NEW e \in Elements(r) PROVE e \in Elements(u) \cup Elements(v)
    <3>1. PICK i \in DOMAIN r : e = r[i]
      BY DEF Elements
    <3> QED
      BY <1>1, <1>5, <3>1 DEF Elements
  <2>2. ASSUME NEW e \in Elements(u) PROVE e \in Elements(r)
    <3>1. PICK i \in 1 .. m : e = u[i]
      BY <1>1 DEF Elements
    <3> QED
      BY <1>4, <3>1 DEF Elements
  <2>3. ASSUME NEW e \in Elements(v) PROVE e \in Elements(r)
    <3>1. PICK i \in 1 .. n : e = v[i]
      BY <1>1 DEF Elements
    <3> QED
      BY <1>4, <3>1 DEF Elements
  <2> QED
    BY <2>1, <2>2, <2>3
<1>7. Sorted(r)
  <2> SUFFICES ASSUME NEW i \in DOMAIN r, NEW j \in DOMAIN r, i < j
               PROVE  End(r[i]) <= r[j].addr
    BY <1>2 DEF Sorted
  <2>1. i \in Nat /\ j \in Nat
    BY <1>1, <1>3
  <2>2. CASE i \in 1 .. m /\ r[i] = u[i] /\ j \in 1 .. m /\ r[j] = u[j]
    BY <1>1, <2>2 DEF Sorted
  <2>3. CASE i \in 1 .. m /\ r[i] = u[i] /\ j - m \in 1 .. n /\ r[j] = v[j - m]
    <3>1. r[i] \in Elements(u) /\ r[j] \in Elements(v)
      BY <1>1, <2>3 DEF Elements
    <3> QED
      BY <3>1
  <2>4. CASE i - m \in 1 .. n /\ r[i] = v[i - m]
    <3> DEFINE x == i - m
               y == j - m
    <3>1. ~(j \in 1 .. m)
      BY <1>1, <2>1, <2>4
    <3>2. /\ y \in 1 .. n /\ r[j] = v[y] /\ r[i] = v[x]
          /\ x < y /\ x \in DOMAIN v /\ y \in DOMAIN v
      BY <1>1, <1>5, <2>1, <2>4, <3>1
    <3> HIDE DEF x, y
    <3> QED
      BY <3>2 DEF Sorted
  <2> QED
    BY <1>5, <2>2, <2>3, <2>4
<1> QED
  BY <1>6, <1>7 DEF r

(* A list put together of a list, a block beyond it and a list beyond the  *)
(* block.                                                                  *)
LEMMA PutTogether ==
  ASSUME NEW u, Sorted(u), NEW v, Sorted(v), NEW b \in Block,
         \A c \in Elements(u) : End(c) <= b.addr,
         \A c \in Elements(v) : End(b) <= c.addr
  PROVE  /\ Sorted(u \o <<b>> \o v)
         /\ Elements(u \o <<b>> \o v) = Elements(u) \cup {b} \cup Elements(v)
<1>1. Sorted(<<b>>) /\ Elements(<<b>>) = {b}
  BY DEF Sorted, Elements
<1>2. Sorted(u \o <<b>>) /\ Elements(u \o <<b>>) = Elements(u) \cup {b}
  BY <1>1, Concatenated
<1>3. ASSUME NEW c \in Elements(u), NEW d \in Elements(v) PROVE End(c) <= d.addr
  <2>1. c \in Block /\ d \in Block
    BY ElementsAreBlocks
  <2> QED
    BY <2>1, BlockEnds
<1>4. \A c \in Elements(u \o <<b>>), d \in Elements(v) : End(c) <= d.addr
  BY <1>2, <1>3
<1> QED
  BY <1>2, <1>4, Concatenated

(* A stretch of a list.                                                    *)
LEMMA Stretch ==
  ASSUME NEW s, Sorted(s), NEW m \in 1 .. Len(s) + 1, NEW n \in 0 .. Len(s)
  PROVE  /\ Sorted(SubSeq(s, m, n))
         /\ Elements(SubSeq(s, m, n)) = {s[i] : i \in m .. n}
<1> DEFINE t == SubSeq(s, m, n)
<1>1. s \in Seq(Block) /\ Len(s) \in Nat /\ DOMAIN s = 1 .. Len(s)
  BY LenProperties DEF Sorted
<1>2. \A i \in m .. n : i \in DOMAIN s /\ s[i] \in Block
  BY <1>1, ElementOfSeq
<1>3. /\ t \in Seq(Block) /\ Len(t) = IF m <= n THEN n - m + 1 ELSE 0
      /\ \A i \in 1 .. n - m + 1 : t[i] = s[m + i - 1]
  BY <1>1, <1>2, SubSeqProperties
<1> HIDE DEF t
<1>4. DOMAIN t = 1 .. n - m + 1
  <2>1. DOMAIN t = 1 .. Len(t)
    BY <1>3, LenProperties
  <2> QED
    BY <1>1, <1>3, <2>1
<1>5. ASSUME NEW i \in DOMAIN t PROVE m + i - 1 \in m .. n /\ t[i] = s[m + i - 1]
  BY <1>1, <1>3, <1>4
<1>6. ASSUME NEW k \in m .. n PROVE k - m + 1 \in DOMAIN t /\ t[k - m + 1] = s[k]
  <2>1. k - m + 1 \in 1 .. n - m + 1 /\ m + (k - m + 1) - 1 = k
    BY <1>1
  <2> QED
    BY <1>3, <1>4, <2>1
<1>7. Elements(t) = {s[i] : i \in m .. n}
  <2>1. \A i \in DOMAIN t : t[i] \in {s[k] : k \in m .. n}
    BY <1>5
  <2>2. \A k \in m .. n : s[k] \in {t[i] : i \in DOMAIN t}
    BY <1>6
  <2> QED
    BY <2>1, <2>2 DEF Elements
<1>8. Sorted(t)
  <2> SUFFICES ASSUME NEW i \in DOMAIN t, NEW j \in DOMAIN t, i < j
               PROVE  End(t[i]) <= t[j].addr
    BY <1>3 DEF Sorted
  <2> DEFINE x == m + i - 1
             y == m + j - 1
  <2>1. x \in DOMAIN s /\ y \in DOMAIN s /\ t[i] = s[x] /\ t[j] = s[y]
    BY <1>2, <1>5
  <2>2. x < y
    BY <1>1, <1>4
  <2> HIDE DEF x, y
  <2> QED
    BY <2>1, <2>2 DEF Sorted
<1> QED
  BY <1>7, <1>8 DEF t

(* A list without its i-th block: the others are apart from it.            *)
LEMMA Removed ==
  ASSUME NEW s, Sorted(s), NEW i \in 1 .. Len(s)
  PROVE  /\ Sorted(RemoveAt(s, i))
         /\ \A c \in Elements(RemoveAt(s, i)) : c \in Elements(s) /\ Apart(s[i], c)
<1> DEFINE u == SubSeq(s, 1, i - 1)
           v == SubSeq(s, i + 1, Len(s))
<1>1. s \in Seq(Block) /\ Len(s) \in Nat /\ DOMAIN s = 1 .. Len(s)
  BY LenProperties DEF Sorted
<1>2. /\ Sorted(u) /\ Elements(u) = {s[k] : k \in 1 .. i - 1}
      /\ Sorted(v) /\ Elements(v) = {s[k] : k \in i + 1 .. Len(s)}
  <2>1. /\ i - 1 \in 0 .. Len(s) /\ 1 \in 1 .. Len(s) + 1
        /\ i + 1 \in 1 .. Len(s) + 1 /\ Len(s) \in 0 .. Len(s)
    BY <1>1
  <2> QED
    BY <2>1, Stretch, Zenon
<1> HIDE DEF u, v
<1>3. ASSUME NEW c \in Elements(u) PROVE c \in Elements(s) /\ End(c) <= s[i].addr
  <2>1. PICK k \in 1 .. i - 1 : c = s[k]
    BY <1>2
  <2> QED
    BY <1>1, <2>1 DEF Sorted, Elements
<1>4. ASSUME NEW c \in Elements(v) PROVE c \in Elements(s) /\ End(s[i]) <= c.addr
  <2>1. PICK k \in i + 1 .. Len(s) : c = s[k]
    BY <1>2
  <2> QED
    BY <1>1, <2>1 DEF Sorted, Elements
<1>5. \A c \in Elements(u), d \in Elements(v) : End(c) <= d.addr
  <2> TAKE c \in Elements(u), d \in Elements(v)
  <2>1. c \in Block /\ d \in Block /\ s[i] \in Block
    BY <1>1, <1>2, ElementsAreBlocks, ElementOfSeq
  <2>2. End(c) \in Nat /\ s[i].addr \in Nat /\ End(s[i]) \in Nat /\ d.addr \in Nat
        /\ s[i].addr < End(s[i])
    BY <2>1, BlockEnds
  <2>3. End(c) <= s[i].addr /\ End(s[i]) <= d.addr
    BY <1>3, <1>4
  <2> QED
    BY <2>2, <2>3
<1>6. Sorted(u \o v) /\ Elements(u \o v) = Elements(u) \cup Elements(v)
  BY <1>2, <1>5, Concatenated
<1>7. RemoveAt(s, i) = u \o v
  BY DEF RemoveAt, u, v
<1> QED
  BY <1>3, <1>4, <1>6, <1>7 DEF Apart

LEMMA FirstAndTail ==
  ASSUME NEW s, Sorted(s), s # <<>>
  PROVE  /\ s[1] \in Elements(s)
         /\ Sorted(Tail(s))
         /\ \A c \in Elements(Tail(s)) : c \in Elements(s) /\ End(s[1]) <= c.addr
<1>1. /\ s \in Seq(Block) /\ Len(s) \in Nat \ {0} /\ DOMAIN s = 1 .. Len(s)
  BY LenProperties, EmptySeq DEF Sorted
<1>2. Tail(s) = SubSeq(s, 2, Len(s))
  BY <1>1, TailIsSubSeq
<1>3. 2 \in 1 .. Len(s) + 1 /\ Len(s) \in 0 .. Len(s)
  BY <1>1
<1>4. Sorted(Tail(s)) /\ Elements(Tail(s)) = {s[i] : i \in 2 .. Len(s)}
  BY <1>2, <1>3, Stretch, Zenon
<1>5. ASSUME NEW i \in 2 .. Len(s)
      PROVE  s[i] \in Elements(s) /\ End(s[1]) <= s[i].addr
  BY <1>1 DEF Sorted, Elements
<1>6. s[1] \in Elements(s)
  BY <1>1 DEF Elements
<1> QED
  BY <1>4, <1>5, <1>6

LEMMA LastAndFront ==
  ASSUME NEW s, Sorted(s), s # <<>>
  PROVE  /\ Last(s) \in Elements(s)
         /\ Sorted(Front(s))
         /\ \A c \in Elements(Front(s)) : c \in Elements(s) /\ End(c) <= Last(s).addr
<1>1. /\ s \in Seq(Block) /\ Len(s) \in Nat \ {0} /\ DOMAIN s = 1 .. Len(s)
  BY LenProperties, EmptySeq DEF Sorted
<1>2. 1 \in 1 .. Len(s) + 1 /\ Len(s) - 1 \in 0 .. Len(s)
  BY <1>1
<1>3. Sorted(Front(s)) /\ Elements(Front(s)) = {s[i] : i \in 1 .. Len(s) - 1}
  BY <1>2, Stretch, Zenon DEF Front
<1>4. ASSUME NEW i \in 1 .. Len(s) - 1
      PROVE  s[i] \in Elements(s) /\ End(s[i]) <= Last(s).addr
  BY <1>1 DEF Sorted, Elements, Last
<1>5. Last(s) \in Elements(s)
  BY <1>1 DEF Elements, Last
<1> QED
  BY <1>3, <1>4, <1>5

(* insert_and_coalesce: a block that is apart from the blocks of a sorted  *)
(* list leaves a sorted list.  What was apart from the block and from all  *)
(* of the list (L: the blocks of the callers) is apart from the new list,  *)
(* and no block ends beyond where one ended before.                        *)
LEMMA InsertSound ==
  ASSUME NEW s, Sorted(s), NEW b \in Block, \A c \in Elements(s) : Apart(b, c),
         NEW limit \in Nat, NEW L \in SUBSET Block,
         \A c \in Elements(s) \cup {b} : End(c) <= limit /\ \A l \in L : Apart(l, c)
  PROVE  /\ Sorted(InsertAndCoalesce(s, b))
         /\ \A c \in Elements(InsertAndCoalesce(s, b)) :
              End(c) <= limit /\ \A l \in L : Apart(l, c)
<1> DEFINE Clear(c) == c \in Block /\ End(c) <= limit /\ \A l \in L : Apart(l, c)
           places == {i \in 1 .. Len(s) : s[i].addr >= b.addr}
           place  == SelectInSeq(s, LAMBDA c : c.addr >= b.addr)
           before == IF place = 0 THEN s ELSE SubSeq(s, 1, place - 1)
           after  == IF place = 0 THEN <<>> ELSE SubSeq(s, place, Len(s))
           joins  == after # <<>> /\ End(b) = after[1].addr
           block  == IF joins THEN Joined(b, after[1]) ELSE b
           rest   == IF joins THEN Tail(after) ELSE after
           backs  == before # <<>> /\ End(Last(before)) = b.addr
           r      == InsertAndCoalesce(s, b)
<1>1. /\ s \in Seq(Block) /\ Len(s) \in Nat /\ DOMAIN s = 1 .. Len(s)
      /\ \A i \in 1 .. Len(s) : s[i] \in Block /\ s[i] \in Elements(s)
  BY LenProperties, ElementOfSeq DEF Sorted, Elements
<1>2. place = IF places # {} THEN Min(places) ELSE 0
  BY DEF SelectInSeq
<1>3. /\ Clear(b)
      /\ \A c \in Elements(s) :
           /\ Clear(c)
           /\ c.addr < b.addr => End(c) <= b.addr
           /\ c.addr >= b.addr => End(b) <= c.addr
  <2>1. ASSUME NEW c \in Elements(s)
        PROVE  /\ Clear(c)
               /\ c.addr < b.addr => End(c) <= b.addr
               /\ c.addr >= b.addr => End(b) <= c.addr
    <3>1. c \in Block /\ Apart(b, c)
      BY ElementsAreBlocks
    <3>2. /\ c.addr \in Nat /\ End(c) \in Nat /\ c.addr < End(c)
          /\ b.addr \in Nat /\ End(b) \in Nat /\ b.addr < End(b)
      BY <3>1, BlockEnds
    <3> QED
      BY <3>1, <3>2 DEF Apart
  <2> QED
    BY <2>1
<1> HIDE DEF Clear
<1>r. r = IF backs THEN Front(before) \o <<Joined(Last(before), block)>> \o rest
          ELSE before \o <<block>> \o rest
  BY DEF InsertAndCoalesce
<1> HIDE DEF r, place
<1>4. /\ Sorted(before) /\ \A c \in Elements(before) : Clear(c) /\ End(c) <= b.addr
      /\ Sorted(after) /\ \A c \in Elements(after) : Clear(c) /\ End(b) <= c.addr
  <2>1. CASE places = {}
    <3>1. place = 0 /\ before = s /\ after = <<>>
      BY <1>2, <2>1
    <3>2. \A c \in Elements(s) : c.addr < b.addr
      <4> TAKE c \in Elements(s)
      <4>1. PICK i \in 1 .. Len(s) : c = s[i]
        BY <1>1 DEF Elements
      <4>2. ~(c.addr >= b.addr) /\ c \in Block
        BY <1>1, <2>1, <4>1
      <4> QED
        BY <4>2, BlockEnds
    <3>3. Sorted(<<>>) /\ Elements(<<>>) = {}
      BY DEF Sorted, Elements
    <3> QED
      BY <1>3, <3>1, <3>2, <3>3
  <2>2. CASE places # {}
    <3>0. places \subseteq Nat
      BY <1>1
    <3>1. place \in places /\ \A i \in places : place <= i
      <4> HIDE DEF places
      <4> QED
        BY <1>2, <2>2, <3>0, MinInSet
    <3>2. /\ place \in 1 .. Len(s) /\ s[place].addr >= b.addr
          /\ \A i \in 1 .. Len(s) : s[i].addr >= b.addr => place <= i
      BY <3>1
    <3>3. before = SubSeq(s, 1, place - 1) /\ after = SubSeq(s, place, Len(s))
      BY <1>1, <3>2
    <3>4. /\ 1 \in 1 .. Len(s) + 1 /\ place - 1 \in 0 .. Len(s)
          /\ place \in 1 .. Len(s) + 1 /\ Len(s) \in 0 .. Len(s)
      BY <1>1, <3>2
    <3> HIDE DEF before, after, places
    <3>5. /\ Sorted(before) /\ Elements(before) = {s[i] : i \in 1 .. place - 1}
          /\ Sorted(after) /\ Elements(after) = {s[i] : i \in place .. Len(s)}
      BY <3>3, <3>4, Stretch, Zenon
    <3>6. ASSUME NEW i \in 1 .. place - 1 PROVE Clear(s[i]) /\ End(s[i]) <= b.addr
      <4>1. i \in 1 .. Len(s) /\ ~(place <= i)
        BY <1>1, <3>2
      <4>2. s[i].addr < b.addr
        <5>1. s[i].addr \in Nat /\ b.addr \in Nat
          BY <1>1, <4>1, BlockEnds
        <5> QED
          BY <3>2, <4>1, <5>1
      <4> QED
        BY <1>1, <1>3, <4>1, <4>2
    <3>7. ASSUME NEW i \in place .. Len(s) PROVE Clear(s[i]) /\ End(b) <= s[i].addr
      <4>1. i \in 1 .. Len(s)
        BY <1>1, <3>2
      <4>2. s[i].addr >= b.addr
        <5>1. CASE i = place
          BY <3>2, <5>1
        <5>2. CASE i # place
          <6>1. place < i /\ place \in DOMAIN s /\ i \in DOMAIN s
            BY <1>1, <3>2, <5>2
          <6>2. End(s[place]) <= s[i].addr
            BY <6>1 DEF Sorted
          <6>3. /\ s[place].addr \in Nat /\ End(s[place]) \in Nat /\ s[i].addr \in Nat
                /\ End(s[place]) > s[place].addr /\ b.addr \in Nat
            BY <1>1, <3>2, <4>1, BlockEnds
          <6> QED
            BY <3>2, <6>2, <6>3
        <5> QED
          BY <5>1, <5>2
      <4> QED
        BY <1>1, <1>3, <4>1, <4>2
    <3> QED
      BY <3>5, <3>6, <3>7
  <2> QED
    BY <2>1, <2>2
<1> HIDE DEF before, after, places
<1>5. /\ Clear(block) /\ block.addr = b.addr
      /\ Sorted(rest) /\ \A c \in Elements(rest) : Clear(c) /\ End(block) <= c.addr
  <2>1. CASE joins
    <3>1. /\ after[1] \in Elements(after) /\ Sorted(Tail(after))
          /\ \A c \in Elements(Tail(after)) : c \in Elements(after) /\ End(after[1]) <= c.addr
      BY <1>4, <2>1, FirstAndTail
    <3>2. Clear(after[1]) /\ End(b) = after[1].addr
      BY <1>4, <2>1, <3>1
    <3>3. /\ Joined(b, after[1]) \in Block /\ Joined(b, after[1]).addr = b.addr
          /\ End(Joined(b, after[1])) = End(after[1])
          /\ \A l \in Block : Apart(l, b) /\ Apart(l, after[1]) => Apart(l, Joined(b, after[1]))
      BY <3>2, JoinedBlock DEF Clear
    <3>4. Clear(Joined(b, after[1]))
      BY <1>3, <3>2, <3>3 DEF Clear
    <3>5. block = Joined(b, after[1]) /\ rest = Tail(after)
      BY <2>1
    <3> HIDE DEF block, rest
    <3> QED
      BY <1>4, <3>1, <3>3, <3>4, <3>5
  <2>2. CASE ~joins
    BY <1>3, <1>4, <2>2
  <2> QED
    BY <2>1, <2>2
<1> HIDE DEF block, rest, joins
<1>6. CASE backs
  <2> DEFINE l == Last(before)
             f == Front(before)
             j == Joined(l, block)
  <2>1. /\ l \in Elements(before) /\ Sorted(f)
        /\ \A c \in Elements(f) : c \in Elements(before) /\ End(c) <= l.addr
    BY <1>4, <1>6, LastAndFront
  <2>2. Clear(l) /\ End(l) = block.addr
    BY <1>4, <1>5, <1>6, <2>1
  <2> HIDE DEF l, f
  <2>3. /\ j \in Block /\ j.addr = l.addr /\ End(j) = End(block)
        /\ \A x \in Block : Apart(x, l) /\ Apart(x, block) => Apart(x, j)
    BY <1>5, <2>2, JoinedBlock DEF Clear
  <2>4. r = f \o <<j>> \o rest
    BY <1>6, <1>r DEF l, f
  <2> HIDE DEF j
  <2>5. Clear(j)
    BY <1>5, <2>2, <2>3 DEF Clear
  <2>6. /\ \A c \in Elements(f) : End(c) <= j.addr
        /\ \A c \in Elements(rest) : End(j) <= c.addr
    BY <1>5, <2>1, <2>3
  <2>7. Sorted(r) /\ Elements(r) = Elements(f) \cup {j} \cup Elements(rest)
    BY <1>5, <2>1, <2>3, <2>4, <2>6, PutTogether
  <2>8. \A c \in Elements(r) : Clear(c)
    BY <1>4, <1>5, <2>1, <2>5, <2>7
  <2> QED
    BY <2>7, <2>8 DEF Clear, r
<1>7. CASE ~backs
  <2>1. r = before \o <<block>> \o rest
    BY <1>7, <1>r
  <2>2. Sorted(r) /\ Elements(r) = Elements(before) \cup {block} \cup Elements(rest)
    BY <1>4, <1>5, <2>1, PutTogether DEF Clear
  <2>3. \A c \in Elements(r) : Clear(c)
    BY <1>4, <1>5, <2>2
  <2> QED
    BY <2>2, <2>3 DEF Clear, r
<1> QED
  BY <1>6, <1>7

(***************************************************************************)
(* The steps.                                                              *)
(***************************************************************************)
LEMMA BlockFound ==
  ASSUME NEW size, Sorted(free_list), FindFreeBlock(size) # 0
  PROVE  /\ FindFreeBlock(size) \in 1 .. Len(free_list)
         /\ free_list[FindFreeBlock(size)].size >= size
<1> DEFINE S == {i \in 1 .. Len(free_list) : free_list[i].size >= size}
<1>1. FindFreeBlock(size) = IF S # {} THEN Min(S) ELSE 0
  BY DEF FindFreeBlock, SelectInSeq
<1>2. S # {} /\ S \subseteq Nat
  BY <1>1
<1> HIDE DEF S
<1>3. FindFreeBlock(size) \in S
  BY <1>1, <1>2, MinInSet
<1> QED
  BY <1>3 DEF S

(* kmalloc splits a block that it has already taken out of the list: the   *)
(* list stays as it is.                                                    *)
LEMMA SplitAbsent ==
  ASSUME NEW s, Sorted(s), NEW b, b \notin Elements(s), NEW size
  PROVE  SplitList(s, b, size) = s
<1>1. DOMAIN s = 1 .. Len(s)
  BY LenProperties DEF Sorted
<1>2. {i \in 1 .. Len(s) : s[i] = b} = {}
  BY <1>1 DEF Elements
<1>3. SelectInSeq(s, LAMBDA c : c = b) = 0
  BY <1>2 DEF SelectInSeq
<1> QED
  BY <1>3 DEF SplitList

LEMMA ShortenedBlock ==
  ASSUME NEW b \in Block, NEW size \in Nat, b.size >= size
  PROVE  /\ Shortened(b, size) \in Block
         /\ Shortened(b, size).addr = b.addr
         /\ Shortened(b, size).size >= size
         /\ End(Shortened(b, size)) <= End(b)
<1> DEFINE t == [b EXCEPT !.size = size]
<1>1. t \in Block /\ t.addr = b.addr /\ t.size = size
  BY DEF Block
<1> HIDE DEF t
<1>2. End(t) <= End(b)
  BY <1>1, BlockEnds
<1>3. Shortened(b, size) = t \/ Shortened(b, size) = b
  BY DEF Shortened, t
<1>4. size <= size /\ End(b) <= End(b)
  BY BlockEnds
<1> QED
  BY <1>1, <1>2, <1>3, <1>4

(* The block of a pointer that is held.                                    *)
LEMMA BlocksHeld ==
  ASSUME HeapSound, NEW p \in DOMAIN live
  PROVE  /\ LiveBlock(p) \in Block
         /\ LiveBlock(p).addr = p - HeaderSize /\ LiveBlock(p).size = live[p].size
         /\ End(LiveBlock(p)) = p + live[p].size
         /\ p \in Nat /\ live[p].asked \in Nat \ {0} /\ live[p].size \in Nat
<1>1. HeaderSize \in Nat
  BY HeapAssumption
<1>2. p \in Nat /\ p >= HeaderSize /\ live[p].asked \in Nat \ {0} /\ live[p].size \in Nat
  BY DEF HeapSound
<1>3. /\ LiveBlock(p) \in Block
      /\ LiveBlock(p).addr = p - HeaderSize /\ LiveBlock(p).size = live[p].size
  BY <1>1, <1>2 DEF LiveBlock, Block
<1>4. End(LiveBlock(p)) = p + live[p].size
  BY <1>1, <1>2, <1>3 DEF End
<1> QED
  BY <1>2, <1>3, <1>4

(* What is handed out: a block that is apart from all others, below        *)
(* heap_bump, as it is after the call.                                     *)
LEMMA GiveStep ==
  ASSUME HeapSound, NEW b \in Block, NEW n \in Nat \ {0}, b.size >= n,
         Gives(n, b),
         Sorted(free_list'), heap_bump' \in 0 .. HeapSize, heap_bump <= heap_bump',
         End(b) <= heap_bump',
         \A c \in Elements(free_list') :
           /\ End(c) <= heap_bump' /\ Apart(b, c)
           /\ \A p \in DOMAIN live : Apart(LiveBlock(p), c),
         \A p \in DOMAIN live : Apart(LiveBlock(p), b)
  PROVE  HeapSound' /\ Payload(b) \notin DOMAIN live
<1> DEFINE a == Payload(b)
           e == [asked |-> n, size |-> b.size]
<1>1. /\ b.addr \in Nat /\ b.size \in Nat /\ HeaderSize \in Nat /\ heap_bump \in Nat
      /\ a = b.addr + HeaderSize /\ End(b) = b.addr + HeaderSize + b.size
  BY BlockEnds DEF HeapSound, Payload
<1> HIDE DEF a
<1>2. a \notin DOMAIN live
  <2> SUFFICES ASSUME a \in DOMAIN live PROVE FALSE
    OBVIOUS
  <2>1. /\ LiveBlock(a).addr = b.addr /\ LiveBlock(a) \in Block /\ Apart(LiveBlock(a), b)
    BY <1>1, BlocksHeld
  <2> QED
    BY <1>1, <2>1, BlockEnds DEF Apart
<1>3. e \in [asked : Nat \ {0}, size : Nat] /\ e.asked = n /\ e.size = b.size
  BY <1>1
<1>4. /\ live' = [p \in DOMAIN live \cup {a} |-> IF p = a THEN e ELSE live[p]]
      /\ alloc_count' = alloc_count + 1
  BY DEF Gives, a
<1> HIDE DEF e
<1>5. /\ DOMAIN live' = DOMAIN live \cup {a}
      /\ live'[a] = e /\ \A p \in DOMAIN live : live'[p] = live[p]
      /\ live' \in [DOMAIN live' -> [asked : Nat \ {0}, size : Nat]]
  BY <1>2, <1>3, <1>4 DEF HeapSound
<1>6. /\ LiveBlock(a)' = b
      /\ \A p \in DOMAIN live : LiveBlock(p)' = LiveBlock(p)
  <2>1. LiveBlock(a)' = [addr |-> b.addr, size |-> b.size]
    BY <1>1, <1>3, <1>5 DEF LiveBlock
  <2> QED
    BY <1>5, <2>1 DEF LiveBlock, Block
<1>7. IsFiniteSet(DOMAIN live') /\ alloc_count' = Cardinality(DOMAIN live')
  BY <1>2, <1>4, <1>5, FS_AddElement DEF HeapSound
<1>8. ASSUME NEW p \in DOMAIN live'
      PROVE  /\ p \in Nat /\ p >= HeaderSize
             /\ live'[p].asked <= live'[p].size
             /\ End(LiveBlock(p)') <= heap_bump'
             /\ \A c \in Elements(free_list') : Apart(LiveBlock(p)', c)
  <2>1. CASE p = a
    BY <1>1, <1>3, <1>5, <1>6, <2>1
  <2>2. CASE p \in DOMAIN live
    <3>1. p \in Nat /\ p >= HeaderSize /\ live[p].asked <= live[p].size /\ End(LiveBlock(p)) <= heap_bump
      BY <2>2 DEF HeapSound
    <3>2. End(LiveBlock(p)) \in Nat
      BY <2>2, BlocksHeld, BlockEnds
    <3> QED
      BY <1>1, <1>5, <1>6, <2>2, <3>1, <3>2
  <2> QED
    BY <1>5, <2>1, <2>2
<1>9. ASSUME NEW p \in DOMAIN live', NEW q \in DOMAIN live', p # q
      PROVE  Apart(LiveBlock(p)', LiveBlock(q)')
  <2>1. CASE p \in DOMAIN live /\ q \in DOMAIN live
    BY <1>6, <1>9, <2>1 DEF HeapSound
  <2>2. CASE p = a /\ q \in DOMAIN live
    BY <1>6, <2>2 DEF Apart
  <2>3. CASE p \in DOMAIN live /\ q = a
    BY <1>6, <2>3
  <2> QED
    BY <1>5, <1>9, <2>1, <2>2, <2>3
<1>10. /\ \A p \in DOMAIN live' :
            /\ p \in Nat /\ p >= HeaderSize
            /\ live'[p].asked <= live'[p].size
            /\ (End(LiveBlock(p)) <= heap_bump)'
            /\ \A c \in Elements(free_list') : (Apart(LiveBlock(p), c))'
       /\ \A p, q \in DOMAIN live' : p # q => (Apart(LiveBlock(p), LiveBlock(q)))'
  BY <1>8, <1>9 DEF Apart, End
<1> QED
  BY <1>2, <1>5, <1>7, <1>10 DEF HeapSound, a, Elements, Apart, End, Sorted

(* ... and it is a region as Regions allocates them.                       *)
Owned == [p \in DOMAIN live |-> live[p].asked]

LEMMA RegionGiven ==
  ASSUME HeapSound, NEW b \in Block, NEW n \in Nat \ {0}, b.size >= n,
         Gives(n, b), End(b) <= HeapSize, Payload(b) \notin DOMAIN live,
         \A p \in DOMAIN live : Apart(LiveBlock(p), b)
  PROVE  Served!Allocate(n)
<1> DEFINE a == Payload(b)
<1>1. /\ b.addr \in Nat /\ b.size \in Nat /\ HeaderSize \in Nat \ {0} /\ HeapSize \in Nat
      /\ a = b.addr + HeaderSize /\ End(b) = a + b.size
  BY BlockEnds, HeapAssumption DEF Payload
<1>2. a \notin DOMAIN live
  OBVIOUS
<1>3. live' = [p \in DOMAIN live \cup {a} |-> IF p = a THEN [asked |-> n, size |-> b.size]
                                             ELSE live[p]]
  BY DEF Gives
<1> HIDE DEF a
<1>4. DOMAIN Owned = DOMAIN live /\ \A p \in DOMAIN live : Owned[p] = live[p].asked
  BY DEF Owned
<1>5. Owned' = [p \in DOMAIN Owned \cup {a} |-> IF p = a THEN n ELSE Owned[p]]
  <2>1. DOMAIN live' = DOMAIN live \cup {a}
    BY <1>3
  <2>2. \A p \in DOMAIN live' : live'[p].asked = IF p = a THEN n ELSE live[p].asked
    BY <1>3
  <2>3. Owned' = [p \in DOMAIN live' |-> live'[p].asked]
    BY DEF Owned
  <2> QED
    BY <1>4, <2>1, <2>2, <2>3
<1>6. a \in 0 .. HeapSize - 1 /\ a .. a + n - 1 \subseteq 0 .. HeapSize - 1
  BY <1>1
<1>7. ASSUME NEW p \in DOMAIN live
      PROVE  (a .. a + n - 1) \cap (p .. p + Owned[p] - 1) = {}
  <2>1. /\ LiveBlock(p).addr = p - HeaderSize /\ End(LiveBlock(p)) = p + live[p].size
        /\ p \in Nat /\ live[p].asked \in Nat \ {0} /\ live[p].size \in Nat
    BY BlocksHeld
  <2>2. live[p].asked <= live[p].size /\ Owned[p] = live[p].asked
    BY <1>4 DEF HeapSound
  <2>3. End(LiveBlock(p)) <= b.addr \/ End(b) <= LiveBlock(p).addr
    BY DEF Apart
  <2>4. p + live[p].size <= b.addr \/ a + b.size <= p - HeaderSize
    BY <1>1, <2>1, <2>3
  <2>5. p + Owned[p] - 1 < a \/ a + n - 1 < p
    BY <1>1, <2>1, <2>2, <2>4
  <2> QED
    BY <1>1, <2>1, <2>2, <2>5
<1>8. /\ a \in 0 .. HeapSize - 1 /\ a \notin DOMAIN Owned
      /\ Served!Region(a, n) \subseteq 0 .. HeapSize - 1
      /\ \A p \in DOMAIN Owned : Served!Region(a, n) \cap Served!Region(p, Owned[p]) = {}
      /\ Owned' = [p \in DOMAIN Owned \cup {a} |-> IF p = a THEN n ELSE Owned[p]]
  BY <1>2, <1>4, <1>5, <1>6, <1>7 DEF Served!Region
<1> QED
  BY <1>8 DEF Served!Allocate, Owned

LEMMA MallocFromListStep ==
  ASSUME HeapSound, NEW n \in Lengths, MallocFromList(n)
  PROVE  HeapSound' /\ Served!Allocate(n)
<1> DEFINE size == ALIGN_UP(n)
           i == FindFreeBlock(size)
           f == free_list[i]
           t == Shortened(f, size)
           list == RemoveAt(free_list, i)
<1>1. n \in Nat \ {0} /\ size \in Nat /\ size >= n
  BY HeapAssumption, AlignUp
<1>2. Sorted(free_list) /\ DOMAIN free_list = 1 .. Len(free_list) /\ heap_bump \in 0 .. HeapSize
  BY LenProperties DEF HeapSound, Sorted
<1>3. /\ i # 0 /\ free_list' = SplitList(list, f, size) /\ Gives(n, t)
      /\ heap_bump' = heap_bump
  BY DEF MallocFromList
<1> HIDE DEF size
<1>4. i \in 1 .. Len(free_list) /\ f.size >= size
  BY <1>2, <1>3, BlockFound
<1> HIDE DEF i
<1>5. f \in Elements(free_list) /\ f \in Block
  BY <1>2, <1>4, ElementsAreBlocks DEF Elements
<1>6. /\ Sorted(list)
      /\ \A c \in Elements(list) : c \in Elements(free_list) /\ Apart(f, c)
  BY <1>2, <1>4, Removed
<1> HIDE DEF f, list
<1>7. f \notin Elements(list)
  BY <1>5, <1>6, BlockEnds DEF Apart
<1>8. free_list' = list
  BY <1>3, <1>6, <1>7, SplitAbsent
<1>9. /\ t \in Block /\ t.addr = f.addr /\ t.size >= size /\ End(t) <= End(f)
  BY <1>1, <1>4, <1>5, ShortenedBlock
<1> HIDE DEF t
<1>10. /\ f.addr \in Nat /\ End(f) \in Nat /\ End(t) \in Nat /\ End(f) <= heap_bump
       /\ heap_bump \in Nat /\ HeapSize \in Nat /\ heap_bump <= HeapSize /\ t.size \in Nat
  BY <1>2, <1>5, <1>9, BlockEnds, HeapAssumption DEF HeapSound
<1>11. \A c \in Elements(list) :
         /\ End(c) <= heap_bump /\ Apart(t, c)
         /\ \A p \in DOMAIN live : Apart(LiveBlock(p), c)
  <2> TAKE c \in Elements(list)
  <2>1. c \in Elements(free_list) /\ Apart(f, c) /\ c \in Block
    BY <1>2, <1>6, ElementsAreBlocks
  <2>2. Apart(t, c)
    BY <1>9, <1>10, <2>1, BlockEnds DEF Apart
  <2> QED
    BY <2>1, <2>2 DEF HeapSound
<1>12. \A p \in DOMAIN live : Apart(LiveBlock(p), t)
  <2> TAKE p \in DOMAIN live
  <2>1. Apart(LiveBlock(p), f) /\ LiveBlock(p) \in Block
    BY <1>5, BlocksHeld DEF HeapSound
  <2>2. LiveBlock(p).addr \in Nat /\ End(LiveBlock(p)) \in Nat
    BY <2>1, BlockEnds
  <2> QED
    BY <1>9, <1>10, <2>1, <2>2 DEF Apart
<1>13. /\ t.size >= n /\ End(t) <= HeapSize /\ End(t) <= heap_bump' /\ heap_bump <= heap_bump'
       /\ heap_bump' \in 0 .. HeapSize
  BY <1>1, <1>2, <1>3, <1>9, <1>10
<1>14. HeapSound' /\ Payload(t) \notin DOMAIN live
  BY <1>1, <1>3, <1>6, <1>8, <1>9, <1>11, <1>12, <1>13, GiveStep
<1> QED
  BY <1>1, <1>3, <1>9, <1>12, <1>13, <1>14, RegionGiven

LEMMA MallocFromBumpStep ==
  ASSUME HeapSound, NEW n \in Lengths, MallocFromBump(n)
  PROVE  HeapSound' /\ Served!Allocate(n)
<1> DEFINE b == FromBump(n)
<1>1. /\ n \in Nat \ {0} /\ ALIGN_UP(n) \in Nat /\ ALIGN_UP(n) >= n
      /\ heap_bump \in Nat /\ ALIGN_UP(heap_bump) \in Nat /\ ALIGN_UP(heap_bump) >= heap_bump
      /\ HeapSize \in Nat
  BY HeapAssumption, AlignUp DEF HeapSound
<1>2. /\ b \in Block /\ b.addr = ALIGN_UP(heap_bump) /\ b.size = ALIGN_UP(n)
  BY <1>1 DEF FromBump, Block
<1>3. /\ End(b) <= HeapSize /\ heap_bump' = End(b) /\ Gives(n, b) /\ free_list' = free_list
  BY DEF MallocFromBump
<1> HIDE DEF b
<1>4. End(b) \in Nat /\ b.addr < End(b)
  BY <1>2, BlockEnds
<1>5. Sorted(free_list) /\ \A c \in Elements(free_list) : c \in Block /\ End(c) <= heap_bump
  BY ElementsAreBlocks DEF HeapSound
<1>6. \A c \in Elements(free_list') :
         /\ End(c) <= heap_bump' /\ Apart(b, c)
         /\ \A p \in DOMAIN live : Apart(LiveBlock(p), c)
  <2> TAKE c \in Elements(free_list')
  <2>1. c \in Elements(free_list) /\ c \in Block /\ End(c) <= heap_bump /\ End(c) \in Nat
    BY <1>3, <1>5, BlockEnds
  <2>2. End(c) <= b.addr /\ End(c) <= heap_bump'
    BY <1>1, <1>2, <1>3, <1>4, <2>1
  <2> QED
    BY <2>1, <2>2 DEF HeapSound, Apart
<1>7. \A p \in DOMAIN live : Apart(LiveBlock(p), b)
  <2> TAKE p \in DOMAIN live
  <2>1. End(LiveBlock(p)) <= heap_bump /\ End(LiveBlock(p)) \in Nat
    BY BlocksHeld, BlockEnds DEF HeapSound
  <2> QED
    BY <1>1, <1>2, <2>1 DEF Apart
<1>8. /\ heap_bump' \in 0 .. HeapSize /\ heap_bump <= heap_bump' /\ End(b) <= heap_bump'
      /\ b.size >= n /\ Sorted(free_list')
  BY <1>1, <1>2, <1>3, <1>4, <1>5
<1>9. HeapSound' /\ Payload(b) \notin DOMAIN live
  BY <1>1, <1>2, <1>3, <1>6, <1>7, <1>8, GiveStep
<1> QED
  BY <1>1, <1>2, <1>3, <1>7, <1>8, <1>9, RegionGiven

LEMMA KfreeStep ==
  ASSUME HeapSound, NEW p \in DOMAIN live, Kfree(p)
  PROVE  /\ HeapSound'
         /\ p \in 0 .. HeapSize - 1 /\ Served!Release(p)
<1> DEFINE b == LiveBlock(p)
           L == {LiveBlock(q) : q \in DOMAIN live \ {p}}
<1>1. /\ b \in Block /\ End(b) = p + live[p].size
      /\ p \in Nat /\ live[p].asked \in Nat \ {0} /\ live[p].size \in Nat
  BY BlocksHeld
<1>2. /\ free_list' = InsertAndCoalesce(free_list, b)
      /\ live' = [q \in DOMAIN live \ {p} |-> live[q]]
      /\ alloc_count' = IF alloc_count > 0 THEN alloc_count - 1 ELSE 0
      /\ heap_bump' = heap_bump
  BY DEF Kfree, LiveBlock
<1> HIDE DEF b
<1>3. /\ Sorted(free_list) /\ heap_bump \in Nat /\ heap_bump <= HeapSize /\ HeapSize \in Nat
      /\ \A c \in Elements(free_list) : End(c) <= heap_bump /\ Apart(b, c)
      /\ End(b) <= heap_bump /\ live[p].asked <= live[p].size
  BY HeapAssumption DEF HeapSound, b
<1>4. L \in SUBSET Block
  BY BlocksHeld
<1>5. \A l \in L : Apart(l, b) /\ \A c \in Elements(free_list) : Apart(l, c)
  BY DEF HeapSound, b
<1> HIDE DEF L
<1>6. /\ Sorted(free_list')
      /\ \A c \in Elements(free_list') : End(c) <= heap_bump /\ \A l \in L : Apart(l, c)
  <2>1. \A c \in Elements(free_list) \cup {b} :
          End(c) <= heap_bump /\ \A l \in L : Apart(l, c)
    BY <1>3, <1>5
  <2>2. \A c \in Elements(free_list) : Apart(b, c)
    BY <1>3
  <2> QED
    BY <1>1, <1>2, <1>3, <1>4, <2>1, <2>2, InsertSound
<1>7. /\ DOMAIN live' = DOMAIN live \ {p}
      /\ \A q \in DOMAIN live' : live'[q] = live[q] /\ q \in DOMAIN live
      /\ live' \in [DOMAIN live' -> [asked : Nat \ {0}, size : Nat]]
  BY <1>2 DEF HeapSound
<1>8. \A q \in DOMAIN live' : LiveBlock(q)' = LiveBlock(q) /\ LiveBlock(q) \in L
  BY <1>7 DEF LiveBlock, L
<1>9. IsFiniteSet(DOMAIN live') /\ alloc_count' = Cardinality(DOMAIN live')
  <2>1. /\ IsFiniteSet(DOMAIN live) /\ alloc_count = Cardinality(DOMAIN live)
        /\ Cardinality(DOMAIN live) \in Nat
    BY FS_CardinalityType DEF HeapSound
  <2>2. /\ IsFiniteSet(DOMAIN live \ {p}) /\ Cardinality(DOMAIN live \ {p}) = Cardinality(DOMAIN live) - 1
        /\ Cardinality(DOMAIN live \ {p}) \in Nat
    BY <2>1, FS_RemoveElement, FS_CardinalityType
  <2> QED
    BY <1>2, <1>7, <2>1, <2>2
<1>10. ASSUME NEW q \in DOMAIN live'
       PROVE  /\ q \in Nat /\ q >= HeaderSize
              /\ live'[q].asked <= live'[q].size
              /\ End(LiveBlock(q)') <= heap_bump'
              /\ \A c \in Elements(free_list') : Apart(LiveBlock(q)', c)
  BY <1>2, <1>6, <1>7, <1>8 DEF HeapSound
<1>11. ASSUME NEW q \in DOMAIN live', NEW r \in DOMAIN live', q # r
       PROVE  Apart(LiveBlock(q)', LiveBlock(r)')
  BY <1>7, <1>8, <1>11 DEF HeapSound
<1>12. /\ \A q \in DOMAIN live' :
            /\ q \in Nat /\ q >= HeaderSize
            /\ live'[q].asked <= live'[q].size
            /\ (End(LiveBlock(q)) <= heap_bump)'
            /\ \A c \in Elements(free_list') : (Apart(LiveBlock(q), c))'
       /\ \A q, r \in DOMAIN live' : q # r => (Apart(LiveBlock(q), LiveBlock(r)))'
  BY <1>10, <1>11 DEF Apart, End
<1>13. HeapSound'
  BY <1>2, <1>3, <1>6, <1>7, <1>9, <1>12 DEF HeapSound, Elements, Apart, End, Sorted
<1>14. p \in 0 .. HeapSize - 1
  BY <1>1, <1>3
<1>15. Served!Release(p)
  <2>1. DOMAIN Owned = DOMAIN live /\ \A q \in DOMAIN live : Owned[q] = live[q].asked
    BY DEF Owned
  <2>2. Owned' = [q \in DOMAIN live' |-> live'[q].asked]
    BY DEF Owned
  <2>3. Owned' = [q \in DOMAIN Owned \ {p} |-> Owned[q]]
    BY <1>7, <2>1, <2>2
  <2>4. p \in DOMAIN Owned
    BY <2>1
  <2> QED
    BY <2>3, <2>4 DEF Served!Release, Owned
<1> QED
  BY <1>13, <1>14, <1>15

(***************************************************************************)
(* Sums of sizes.  A fold is the only function that solves its recursive   *)
(* equation; counting bytes solves it, for blocks that are apart.          *)
(***************************************************************************)
(* The bytes of a block and its header.                                    *)
Bytes(b) == b.addr .. End(b) - 1

Total(S, w, f) ==
  [s \in SUBSET S |->
     IF s = {} THEN 0
     ELSE f[s \ {CHOOSE x \in s : TRUE}] + w[CHOOSE x \in s : TRUE] + HeaderSize]

(* The bytes of a block, as many as it has with its header.                *)
LEMMA BlockBytes ==
  ASSUME NEW b \in Block
  PROVE  /\ IsFiniteSet(Bytes(b)) /\ Cardinality(Bytes(b)) = b.size + HeaderSize
         /\ \A x : x \in Bytes(b) <=> x \in Nat /\ b.addr <= x /\ x < End(b)
<1>1. /\ b.addr \in Nat /\ b.size \in Nat /\ End(b) \in Nat /\ HeaderSize \in Nat
      /\ End(b) = b.addr + HeaderSize + b.size
  BY BlockEnds
<1>2. /\ IsFiniteSet(Bytes(b))
      /\ Cardinality(Bytes(b)) = IF b.addr > End(b) - 1 THEN 0 ELSE ((End(b) - 1) - b.addr) + 1
  <2>1. End(b) - 1 \in Int /\ b.addr \in Int
    BY <1>1
  <2> QED
    BY <2>1, FS_Interval DEF Bytes
<1>3. \A x : x \in Bytes(b) <=> x \in Nat /\ b.addr <= x /\ x < End(b)
  BY <1>1 DEF Bytes
<1> QED
  BY <1>1, <1>2, <1>3, BlockEnds

(* What is summed: the sizes w of the blocks B, which are apart and end    *)
(* below n.                                                                *)
SizesOf(S, w, B, n) ==
  /\ IsFiniteSet(S) /\ n \in Nat /\ w \in [S -> Nat] /\ B \in [S -> Block]
  /\ \A x \in S : B[x].size = w[x] /\ End(B[x]) <= n
  /\ \A x, y \in S : x # y => Apart(B[x], B[y])

AllBytes(S, B) == UNION {Bytes(B[x]) : x \in S}

(* What a fold adds up over blocks that are apart is the number of their   *)
(* bytes.                                                                  *)
LEMMA TotalCounts ==
  ASSUME NEW S, NEW w, NEW B, NEW n, SizesOf(S, w, B, n)
  PROVE  /\ \E f : f = Total(S, w, f)
         /\ \A f : f = Total(S, w, f) => f[S] = Cardinality(AllBytes(S, B))
         /\ AllBytes(S, B) \subseteq 0 .. n - 1 /\ IsFiniteSet(AllBytes(S, B))
<1> DEFINE Held(s) == UNION {Bytes(B[x]) : x \in s}
           G == [s \in SUBSET S |-> Cardinality(Held(s))]
<1>1. /\ HeaderSize \in Nat
      /\ IsFiniteSet(S) /\ n \in Nat /\ w \in [S -> Nat] /\ B \in [S -> Block]
      /\ \A x \in S : B[x].size = w[x] /\ End(B[x]) <= n
      /\ \A x, y \in S : x # y => Apart(B[x], B[y])
  BY HeapAssumption DEF SizesOf
<1>2. \A s \in SUBSET S : Held(s) \subseteq 0 .. n - 1
  <2> SUFFICES ASSUME NEW x \in S, NEW y \in Bytes(B[x]) PROVE y \in 0 .. n - 1
    OBVIOUS
  <2>1. B[x] \in Block /\ End(B[x]) <= n
    BY <1>1
  <2>2. y \in Nat /\ y < End(B[x]) /\ End(B[x]) \in Nat
    BY <2>1, BlockBytes, BlockEnds
  <2> QED
    BY <1>1, <2>1, <2>2
<1>3. \A s \in SUBSET S : IsFiniteSet(Held(s)) /\ Cardinality(Held(s)) \in Nat
  <2>1. n - 1 \in Int
    BY <1>1
  <2>2. IsFiniteSet(0 .. n - 1)
    BY <2>1, FS_Interval
  <2> HIDE DEF Held
  <2> QED
    BY <1>2, <2>2, FS_Subset, FS_CardinalityType
<1>4. ASSUME NEW s \in SUBSET S, NEW x \in s
      PROVE  G[s] = G[s \ {x}] + w[x] + HeaderSize
  <2> DEFINE rest == Held(s \ {x})
             own == Bytes(B[x])
  <2>1. B[x] \in Block /\ w[x] \in Nat /\ B[x].size = w[x]
    BY <1>1
  <2>2. IsFiniteSet(own) /\ Cardinality(own) = w[x] + HeaderSize
    BY <2>1, BlockBytes
  <2>3. Held(s) = rest \cup own
    <3> HIDE DEF own
    <3>1. \A y : y \in Held(s) <=> \E z \in s : y \in Bytes(B[z])
      OBVIOUS
    <3>2. \A y : y \in rest <=> \E z \in s \ {x} : y \in Bytes(B[z])
      OBVIOUS
    <3> HIDE DEF Held, rest
    <3> QED
      BY <3>1, <3>2 DEF own
  <2>4. rest \cap own = {}
    <3> SUFFICES ASSUME NEW z \in s \ {x}, NEW y \in Bytes(B[z]), y \in Bytes(B[x])
                 PROVE  FALSE
      OBVIOUS
    <3>1. B[z] \in Block /\ Apart(B[z], B[x])
      BY <1>1
    <3>2. /\ y \in Nat /\ B[z].addr <= y /\ y < End(B[z])
          /\ B[x].addr <= y /\ y < End(B[x])
          /\ {B[z].addr, B[x].addr, End(B[z]), End(B[x])} \subseteq Nat
      BY <2>1, <3>1, BlockBytes, BlockEnds
    <3> QED
      BY <3>1, <3>2 DEF Apart
  <2>5. IsFiniteSet(rest) /\ Cardinality(rest) \in Nat
    <3> HIDE DEF Held
    <3> QED
      BY <1>3
  <2>6. Cardinality(rest \cup own) = Cardinality(rest) + Cardinality(own)
    <3> HIDE DEF rest, own
    <3>1. Cardinality(rest \cap own) = 0
      BY <2>4, FS_EmptySet
    <3>2. Cardinality(rest \cup own)
            = Cardinality(rest) + Cardinality(own) - Cardinality(rest \cap own)
      BY <2>2, <2>5, FS_Union, Zenon
    <3> QED
      BY <1>1, <2>1, <2>2, <2>5, <3>1, <3>2
  <2>7. G[s] = Cardinality(rest \cup own) /\ G[s \ {x}] = Cardinality(rest)
    <3>1. s \ {x} \in SUBSET S
      OBVIOUS
    <3> HIDE DEF Held, own
    <3> QED
      BY <2>3, <3>1
  <2> HIDE DEF G, rest, own
  <2> QED
    BY <1>1, <2>1, <2>2, <2>5, <2>6, <2>7
<1>5. G[{}] = 0
  <2>1. Held({}) = {}
    OBVIOUS
  <2> HIDE DEF Held
  <2> QED
    BY <2>1, FS_EmptySet
<1>6. G = Total(S, w, G)
  <2>1. \A s \in SUBSET S : s # {} => (CHOOSE x \in s : TRUE) \in s
    OBVIOUS
  <2>2. \A s \in SUBSET S :
          G[s] = IF s = {} THEN 0
                 ELSE G[s \ {CHOOSE x \in s : TRUE}] + w[CHOOSE x \in s : TRUE] + HeaderSize
    <3> HIDE DEF G
    <3> QED
      BY <1>4, <1>5, <2>1
  <2>3. G = [s \in SUBSET S |-> G[s]]
    OBVIOUS
  <2> HIDE DEF G
  <2> QED
    BY <2>2, <2>3 DEF Total
<1> HIDE DEF G
<1>7. ASSUME NEW f, f = Total(S, w, f) PROVE f[S] = G[S]
  <2>1. f[{}] = G[{}]
    BY <1>5, <1>7 DEF Total
  <2>2. ASSUME NEW s \in SUBSET S, s # {}
        PROVE  \E x \in s : f[s \ {x}] = G[s \ {x}] => f[s] = G[s]
    <3> DEFINE x == CHOOSE x \in s : TRUE
    <3>1. x \in s
      BY <2>2
    <3>2. f[s] = f[s \ {x}] + w[x] + HeaderSize
      BY <1>7, <2>2 DEF Total
    <3>3. G[s] = G[s \ {x}] + w[x] + HeaderSize
      BY <1>4, <3>1
    <3> HIDE DEF x
    <3> QED
      BY <3>1, <3>2, <3>3
  <2>3. AgreeStepwise(S, f, G)
    BY <2>1, <2>2 DEF AgreeStepwise
  <2> QED
    BY <1>1, <2>3, SameOnFiniteSets
<1>8. G[S] = Cardinality(Held(S)) /\ Held(S) = AllBytes(S, B)
  BY DEF G, AllBytes
<1> HIDE DEF Held
<1> QED
  BY <1>2, <1>3, <1>6, <1>7, <1>8

(* kheap_used_size: heap_bump less the bytes of the blocks on the list.    *)
LEMMA UsedSize ==
  ASSUME HeapSound
  PROVE  LET free == UNION {Bytes(b) : b \in OnList}
         IN  /\ IsFiniteSet(free) /\ free \subseteq 0 .. heap_bump - 1
             /\ KheapUsedSize = heap_bump - Cardinality(free)
<1> DEFINE S == OnList
           w == [b \in S |-> b.size]
           B == [b \in S |-> b]
           free == UNION {Bytes(b) : b \in S}
           F(g) == [s \in SUBSET S |->
                      IF s = {} THEN 0
                      ELSE g[s \ {CHOOSE x \in s : TRUE}]
                             + (CHOOSE x \in s : TRUE).size + HeaderSize]
           f == CHOOSE g : g = F(g)
           sum == FoldSet(LAMBDA b, s : s + b.size + HeaderSize, 0, S)
<1>1. S = Elements(free_list) /\ S \subseteq Block /\ heap_bump \in Nat
  BY ElementsAreBlocks, HeapAssumption DEF HeapSound, OnList, Elements
<1>2. IsFiniteSet(S)
  <2>1. free_list \in [1 .. Len(free_list) -> S] /\ Len(free_list) \in Nat
    BY LenProperties DEF HeapSound, Sorted, OnList
  <2>2. free_list \in Surjection(1 .. Len(free_list), S)
    BY <2>1 DEF Surjection, OnList
  <2>3. IsFiniteSet(1 .. Len(free_list))
    BY <2>1, FS_Interval
  <2> HIDE DEF S
  <2> QED
    BY <2>2, <2>3, FS_Surjection
<1>3. \A b \in S : End(b) <= heap_bump
  BY <1>1 DEF HeapSound
<1>4. \A b, c \in S : b # c => Apart(b, c)
  <2> SUFFICES ASSUME NEW i \in DOMAIN free_list, NEW j \in DOMAIN free_list,
                      free_list[i] # free_list[j]
               PROVE  Apart(free_list[i], free_list[j])
    BY DEF OnList
  <2>1. i \in Int /\ j \in Int /\ i # j
    BY LenProperties DEF HeapSound, Sorted
  <2>2. i < j \/ j < i
    BY <2>1
  <2> QED
    BY <2>2 DEF HeapSound, Sorted, Apart
<1>5. sum = f[S]
  <2> HIDE DEF S
  <2> QED
    BY Zenon DEF FoldSet, MapThenFoldSet
<1>6. \A g : Total(S, w, g) = F(g)
  <2>1. \A s \in SUBSET S : s # {} => w[CHOOSE x \in s : TRUE] = (CHOOSE x \in s : TRUE).size
    OBVIOUS
  <2> HIDE DEF S, w
  <2> QED
    BY <2>1 DEF Total
<1>7. AllBytes(S, B) = free
  BY DEF AllBytes
<1>8. SizesOf(S, w, B, heap_bump)
  <2>1. w \in [S -> Nat] /\ B \in [S -> Block]
    BY <1>1, BlockEnds
  <2>2. /\ \A x \in S : B[x].size = w[x] /\ End(B[x]) <= heap_bump
        /\ \A x, y \in S : x # y => Apart(B[x], B[y])
    BY <1>3, <1>4
  <2> HIDE DEF S, w, B
  <2> QED
    BY <1>1, <1>2, <2>1, <2>2 DEF SizesOf
<1>9. sum = Cardinality(free) /\ free \subseteq 0 .. heap_bump - 1 /\ IsFiniteSet(free)
  <2> HIDE DEF S, w, B, F, free, sum
  <2>1. /\ \E g : g = Total(S, w, g)
        /\ \A g : g = Total(S, w, g) => g[S] = Cardinality(free)
        /\ free \subseteq 0 .. heap_bump - 1 /\ IsFiniteSet(free)
    BY <1>7, <1>8, TotalCounts
  <2>2. f = F(f)
    BY <1>6, <2>1
  <2>3. f[S] = Cardinality(free)
    BY <1>6, <2>1, <2>2
  <2> QED
    BY <1>5, <2>1, <2>3
<1>10. KheapUsedSize = IF heap_bump > sum THEN heap_bump - sum ELSE 0
  BY DEF KheapUsedSize
<1>11. Cardinality(free) \in Nat /\ Cardinality(free) <= heap_bump
  <2> HIDE DEF free
  <2> QED
    BY <1>1, <1>9, CountBelow
<1> QED
  <2> HIDE DEF sum, free
  <2>1. KheapUsedSize = heap_bump - Cardinality(free)
    BY <1>1, <1>9, <1>10, <1>11
  <2> QED
    BY <1>9, <2>1 DEF free

(* What the callers hold with its headers: the bytes of their blocks.      *)
LEMMA LiveSize ==
  ASSUME HeapSound
  PROVE  LET held == UNION {Bytes(LiveBlock(p)) : p \in DOMAIN live}
         IN  /\ IsFiniteSet(held) /\ held \subseteq 0 .. heap_bump - 1
             /\ FoldSet(LAMBDA p, s : s + live[p].size + HeaderSize, 0, DOMAIN live)
                  = Cardinality(held)
<1> DEFINE S == DOMAIN live
           w == [p \in S |-> live[p].size]
           B == [p \in S |-> LiveBlock(p)]
           held == UNION {Bytes(LiveBlock(p)) : p \in S}
           F(g) == [s \in SUBSET S |->
                      IF s = {} THEN 0
                      ELSE g[s \ {CHOOSE x \in s : TRUE}]
                             + live[CHOOSE x \in s : TRUE].size + HeaderSize]
           f == CHOOSE g : g = F(g)
           sum == FoldSet(LAMBDA p, s : s + live[p].size + HeaderSize, 0, S)
<1>1. heap_bump \in Nat /\ IsFiniteSet(S)
  BY HeapAssumption DEF HeapSound
<1>2. sum = f[S]
  <2> HIDE DEF S
  <2> QED
    BY Zenon DEF FoldSet, MapThenFoldSet
<1>3. \A g : Total(S, w, g) = F(g)
  <2>1. \A s \in SUBSET S : s # {} => w[CHOOSE x \in s : TRUE] = live[CHOOSE x \in s : TRUE].size
    OBVIOUS
  <2> HIDE DEF S, w
  <2> QED
    BY <2>1 DEF Total
<1>4. AllBytes(S, B) = held
  BY DEF AllBytes
<1>5. SizesOf(S, w, B, heap_bump)
  <2>1. \A p \in S : LiveBlock(p) \in Block /\ live[p].size \in Nat
                       /\ LiveBlock(p).size = live[p].size
    BY BlocksHeld
  <2>2. /\ \A p \in S : End(LiveBlock(p)) <= heap_bump
        /\ \A p, q \in S : p # q => Apart(LiveBlock(p), LiveBlock(q))
    BY DEF HeapSound
  <2>3. w \in [S -> Nat] /\ B \in [S -> Block]
    BY <2>1
  <2>4. \A p \in S : w[p] = live[p].size /\ B[p] = LiveBlock(p)
    OBVIOUS
  <2> HIDE DEF S, w, B
  <2> QED
    BY <1>1, <2>1, <2>2, <2>3, <2>4 DEF SizesOf
<1>6. sum = Cardinality(held) /\ held \subseteq 0 .. heap_bump - 1 /\ IsFiniteSet(held)
  <2> HIDE DEF S, w, B, F, held, sum
  <2>1. /\ \E g : g = Total(S, w, g)
        /\ \A g : g = Total(S, w, g) => g[S] = Cardinality(held)
        /\ held \subseteq 0 .. heap_bump - 1 /\ IsFiniteSet(held)
    BY <1>4, <1>5, TotalCounts
  <2>2. f = F(f)
    BY <1>3, <2>1
  <2>3. f[S] = Cardinality(held)
    BY <1>3, <2>1, <2>2
  <2> QED
    BY <1>2, <2>1, <2>3
<1> QED
  BY <1>6

(***************************************************************************)
(* The theorems.                                                           *)
(***************************************************************************)
LEMMA HeapInit == Init => HeapSound /\ Served!Init
<1> SUFFICES ASSUME Init PROVE HeapSound /\ Served!Init
  OBVIOUS
<1>1. Sorted(<<>>) /\ Elements(<<>>) = {}
  BY DEF Sorted, Elements
<1>2. 0 \in 0 .. HeapSize
  BY HeapAssumption
<1>3. DOMAIN live = {} /\ live \in [{} -> [asked : Nat \ {0}, size : Nat]]
  BY DEF Init
<1>4. HeapSound
  BY <1>1, <1>2, <1>3, FS_EmptySet DEF Init, HeapSound
<1>5. Served!Init
  BY <1>3 DEF Served!Init
<1> QED
  BY <1>4, <1>5

LEMMA HeapStep ==
  ASSUME HeapSound, [Next]_vars
  PROVE  HeapSound' /\ [Served!Next]_Owned
<1>1. ASSUME NEW n \in Lengths, MallocFromList(n) PROVE HeapSound' /\ Served!Next
  BY <1>1, MallocFromListStep DEF Served!Next
<1>2. ASSUME NEW n \in Lengths, MallocFromBump(n) PROVE HeapSound' /\ Served!Next
  BY <1>2, MallocFromBumpStep DEF Served!Next
<1>3. ASSUME NEW p \in DOMAIN live, Kfree(p) PROVE HeapSound' /\ Served!Next
  BY <1>3, KfreeStep DEF Served!Next
<1>4. ASSUME vars' = vars PROVE HeapSound' /\ Owned' = Owned
  BY <1>4 DEF vars, HeapSound, Owned, LiveBlock, Elements, Sorted, Apart, End
<1>5. ASSUME NEW n \in Lengths, MallocFails(n) PROVE HeapSound' /\ Owned' = Owned
  BY <1>4, <1>5 DEF MallocFails
<1> QED
  BY <1>1, <1>2, <1>3, <1>4, <1>5 DEF Next

(* No call of kmalloc or kfree makes two blocks overlap, whether they are  *)
(* on the free list or in a caller's hands.                                *)
THEOREM BlocksStayApart == Spec => []HeapSound
<1>1. Init => HeapSound
  BY HeapInit
<1>2. HeapSound /\ [Next]_vars => HeapSound'
  BY HeapStep
<1> QED
  BY <1>1, <1>2, PTL DEF Spec

(* TypeOK of the heap: kheap_alloc_count counts the pointers held, and     *)
(* every block and every pointer lies in the heap.                         *)
THEOREM HeapTyped == Spec => []TypeOK
<1>1. HeapSound => TypeOK
  <2> SUFFICES ASSUME HeapSound PROVE TypeOK
    OBVIOUS
  <2>1. HeapSize \in Nat /\ heap_bump \in 0 .. HeapSize
    BY HeapAssumption DEF HeapSound
  <2>2. ASSUME NEW b \in OnList PROVE b \in [addr : 0 .. HeapSize, size : Nat]
    <3>1. b \in Block /\ End(b) <= heap_bump
      BY ElementsAreBlocks DEF OnList, Elements, HeapSound
    <3>2. b.addr \in 0 .. HeapSize
      BY <2>1, <3>1, BlockEnds
    <3> QED
      BY <3>1, <3>2 DEF Block
  <2>3. ASSUME NEW p \in DOMAIN live PROVE p \in 0 .. HeapSize
    <3>1. p + live[p].size <= heap_bump /\ p \in Nat /\ live[p].size \in Nat
      BY BlocksHeld DEF HeapSound
    <3> QED
      BY <2>1, <3>1
  <2> QED
    BY <2>1, <2>2, <2>3 DEF HeapSound, TypeOK
<1> QED
  BY <1>1, BlocksStayApart, PTL

(* FreeListAscending: the list is kept by address, its blocks neither      *)
(* overlap nor reach beyond heap_bump, through every split and every       *)
(* coalescing of insert_and_coalesce.                                      *)
THEOREM FreeListStaysAscending == Spec => []FreeListAscending
<1>1. HeapSound => FreeListAscending
  BY DEF HeapSound, Sorted, FreeListAscending, OnList, Elements
<1> QED
  BY <1>1, BlocksStayApart, PTL

(* kmalloc and kfree implement an allocator: the regions handed out lie in *)
(* the heap, have the length asked for and never overlap.                  *)
THEOREM HeapImplementsRegions == Spec => ServesRegions
<1>1. Init => HeapSound /\ Served!Init
  BY HeapInit
<1>2. HeapSound /\ [Next]_vars => HeapSound' /\ [Served!Next]_Owned
  BY HeapStep
<1> QED
  BY <1>1, <1>2, PTL DEF Spec, ServesRegions, Served!Spec, Owned

(* UsedCoversLive: what kheap_used_size computes from the list and         *)
(* heap_bump is never less than the blocks in the callers' hands.          *)
THEOREM UsedSizeCoversLive == Spec => []UsedCoversLive
<1>1. HeapSound => UsedCoversLive
  <2> SUFFICES ASSUME HeapSound PROVE UsedCoversLive
    OBVIOUS
  <2> DEFINE free == UNION {Bytes(b) : b \in OnList}
             held == UNION {Bytes(LiveBlock(p)) : p \in DOMAIN live}
             sum  == FoldSet(LAMBDA p, s : s + live[p].size + HeaderSize, 0, DOMAIN live)
  <2>1. heap_bump \in Nat
    BY HeapAssumption DEF HeapSound
  <2>2. /\ IsFiniteSet(free) /\ free \subseteq 0 .. heap_bump - 1
        /\ KheapUsedSize = heap_bump - Cardinality(free)
    BY UsedSize
  <2>3. /\ IsFiniteSet(held) /\ held \subseteq 0 .. heap_bump - 1
        /\ sum = Cardinality(held)
    BY LiveSize
  <2>4. free \cap held = {}
    <3> SUFFICES ASSUME NEW b \in OnList, NEW p \in DOMAIN live, NEW x \in Bytes(b),
                        x \in Bytes(LiveBlock(p))
                 PROVE  FALSE
      OBVIOUS
    <3>1. b \in Block /\ LiveBlock(p) \in Block /\ Apart(LiveBlock(p), b)
      BY ElementsAreBlocks, BlocksHeld DEF OnList, Elements, HeapSound
    <3>2. /\ x \in Nat /\ b.addr <= x /\ x < End(b)
          /\ LiveBlock(p).addr <= x /\ x < End(LiveBlock(p))
          /\ {b.addr, LiveBlock(p).addr, End(b), End(LiveBlock(p))} \subseteq Nat
      BY <3>1, BlockBytes, BlockEnds
    <3> QED
      BY <3>1, <3>2 DEF Apart
  <2> HIDE DEF free, held, sum
  <2>5. Cardinality(free) \in Nat /\ Cardinality(held) \in Nat
    BY <2>2, <2>3, FS_CardinalityType
  <2>6. Cardinality(free \cup held) = Cardinality(free) + Cardinality(held)
    <3>1. Cardinality(free \cap held) = 0
      BY <2>4, FS_EmptySet
    <3>2. Cardinality(free \cup held)
            = Cardinality(free) + Cardinality(held) - Cardinality(free \cap held)
      BY <2>2, <2>3, FS_Union, Zenon
    <3> QED
      BY <2>5, <3>1, <3>2
  <2>7. Cardinality(free \cup held) <= heap_bump
    BY <2>1, <2>2, <2>3, CountBelow
  <2>8. KheapUsedSize >= sum
    BY <2>1, <2>2, <2>3, <2>5, <2>6, <2>7
  <2> QED
    BY <2>8 DEF UsedCoversLive, sum
<1> QED
  BY <1>1, BlocksStayApart, PTL

=============================================================================
