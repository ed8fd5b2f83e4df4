----------------------------- MODULE PipeProofs -----------------------------
(***************************************************************************)
(* The theorems of PipeRing.  Two lemmas carry them: Filled puts its bytes *)
(* at the end of the queue a ring stands for (FilledPipe), and Drained     *)
(* takes them off its front (DrainedPipe), both only while the positions   *)
(* agree with the count.  PoolSound is the inductive invariant, and each   *)
(* call of pipe.c, from a sound pool, is the call of PipeFifo on the       *)
(* queues: AllocStep, AllocAndFreeStep, WriteStep, ReadStep, CloseStep.    *)
(* The sizes of the pool and of the buffers are arbitrary.                 *)
(***************************************************************************)
EXTENDS PipeRing, NaturalLemmas, SequenceTheorems, TLAPS

Pipe == [used : BOOLEAN, buffer : [Positions -> Bytes],
         read_pos : Positions, write_pos : Positions,
         count : 0 .. PIPE_BUF_SIZE,
         read_open : BOOLEAN, write_open : BOOLEAN]

Agrees(p) == p.write_pos = (p.read_pos + p.count) % PIPE_BUF_SIZE

(* What a pipe is in PipeFifo.                                             *)
Queue(p) == [used |-> p.used, read_open |-> p.read_open,
             write_open |-> p.write_open, content |-> Front(p, p.count)]

(***************************************************************************)
(* The operators of the ring.                                              *)
(***************************************************************************)
(* A position that runs over the end of the ring once wraps.               *)
LEMMA RingWrap ==
  ASSUME NEW a \in Int, 0 <= a, a < 2 * PIPE_BUF_SIZE
  PROVE  a % PIPE_BUF_SIZE = IF a < PIPE_BUF_SIZE THEN a ELSE a - PIPE_BUF_SIZE
<1>1. PIPE_BUF_SIZE \in Nat \ {0}
  BY RingAssumption
<1> QED
  BY <1>1

(* The place of byte j of the ring, from the read position.                *)
LEMMA PlaceInRing ==
  ASSUME NEW p \in Pipe, NEW j \in 1 .. PIPE_BUF_SIZE
  PROVE  /\ (p.read_pos + j - 1) % PIPE_BUF_SIZE \in Positions
         /\ (p.read_pos + j - 1) % PIPE_BUF_SIZE =
              IF p.read_pos + j - 1 < PIPE_BUF_SIZE THEN p.read_pos + j - 1
              ELSE p.read_pos + j - 1 - PIPE_BUF_SIZE
<1>1. p.read_pos \in Positions /\ PIPE_BUF_SIZE \in Nat \ {0}
  BY RingAssumption DEF Pipe
<1> DEFINE a == p.read_pos + j - 1
<1>2. a \in Int /\ 0 <= a /\ a < 2 * PIPE_BUF_SIZE
  BY <1>1 DEF Positions
<1>3. a % PIPE_BUF_SIZE = IF a < PIPE_BUF_SIZE THEN a ELSE a - PIPE_BUF_SIZE
  <2> HIDE DEF a
  <2> QED BY <1>1, <1>2, RingWrap
<1> QED
  BY <1>1, <1>2, <1>3 DEF Positions

(* The bytes at the read position are a sequence of bytes.                 *)
LEMMA FrontIsSequence ==
  ASSUME NEW p \in Pipe, NEW n \in 0 .. PIPE_BUF_SIZE
  PROVE  /\ Front(p, n) \in Seq(Bytes)
         /\ Len(Front(p, n)) = n
         /\ \A j \in 1 .. n :
              Front(p, n)[j] = p.buffer[(p.read_pos + j - 1) % PIPE_BUF_SIZE]
<1>1. n \in Nat /\ PIPE_BUF_SIZE \in Nat
  BY RingAssumption
<1>2. \A j \in 1 .. n : p.buffer[(p.read_pos + j - 1) % PIPE_BUF_SIZE] \in Bytes
  <2> TAKE j \in 1 .. n
  <2>1. j \in 1 .. PIPE_BUF_SIZE
    BY <1>1
  <2>2. (p.read_pos + j - 1) % PIPE_BUF_SIZE \in Positions
    BY <2>1, PlaceInRing
  <2> QED
    BY <2>2 DEF Pipe
<1>3. Front(p, n) \in [1 .. n -> Bytes]
  BY <1>2 DEF Front
<1>4. Front(p, n) \in Seq(Bytes)
  BY <1>1, <1>3, SeqDef
<1>5. DOMAIN Front(p, n) = 1 .. n
  BY DEF Front
<1>6. Len(Front(p, n)) = n
  BY <1>1, <1>4, <1>5, LenProperties
<1> QED
  BY <1>4, <1>6 DEF Front

(* Reading n bytes takes the first n of the queue off it, and leaves the   *)
(* positions in agreement.                                                 *)
LEMMA DrainedPipe ==
  ASSUME NEW p \in Pipe, Agrees(p), NEW n \in 0 .. p.count
  PROVE  /\ Drained(p, n) \in Pipe
         /\ Agrees(Drained(p, n))
         /\ Front(p, n) = SubSeq(Front(p, p.count), 1, n)
         /\ Queue(Drained(p, n)) =
              [Queue(p) EXCEPT !.content = SubSeq(@, n + 1, Len(@))]
<1> DEFINE d == Drained(p, n)
           r == (p.read_pos + n) % PIPE_BUF_SIZE
<1>1. /\ PIPE_BUF_SIZE \in Nat \ {0} /\ p.read_pos \in Positions
      /\ p.write_pos \in Positions /\ p.count \in 0 .. PIPE_BUF_SIZE /\ n \in Nat
  BY RingAssumption DEF Pipe
<1>2. r = IF p.read_pos + n < PIPE_BUF_SIZE THEN p.read_pos + n
          ELSE p.read_pos + n - PIPE_BUF_SIZE
  <2> DEFINE a == p.read_pos + n
  <2>1. a \in Int /\ 0 <= a /\ a < 2 * PIPE_BUF_SIZE
    BY <1>1 DEF Positions
  <2> HIDE DEF a
  <2>2. a % PIPE_BUF_SIZE = IF a < PIPE_BUF_SIZE THEN a ELSE a - PIPE_BUF_SIZE
    BY <1>1, <2>1, RingWrap
  <2> QED
    BY <1>1, <2>2 DEF a, Positions
<1>3. r \in Positions
  BY <1>1, <1>2 DEF Positions
<1>4. /\ d.read_pos = r /\ d.count = p.count - n
      /\ d.buffer = p.buffer /\ d.write_pos = p.write_pos
      /\ d.used = p.used /\ d.read_open = p.read_open /\ d.write_open = p.write_open
  BY DEF Drained, Pipe
<1>5. d \in Pipe
  <2>1. p.count - n \in 0 .. PIPE_BUF_SIZE
    BY <1>1
  <2>2. d = [p EXCEPT !.read_pos = r, !.count = p.count - n]
    BY DEF Drained
  <2> HIDE DEF d, r
  <2> QED
    BY <1>3, <2>1, <2>2 DEF Pipe
<1>6. Agrees(d)
  <2> DEFINE a == r + (p.count - n)
             b == p.read_pos + p.count
  <2>1. a \in Int /\ 0 <= a /\ a < 2 * PIPE_BUF_SIZE /\ (a = b \/ a = b - PIPE_BUF_SIZE)
    BY <1>1, <1>2, <1>3 DEF Positions
  <2>2. b \in Int /\ 0 <= b /\ b < 2 * PIPE_BUF_SIZE
    BY <1>1 DEF Positions
  <2> HIDE DEF a, b
  <2>3. a % PIPE_BUF_SIZE = IF a < PIPE_BUF_SIZE THEN a ELSE a - PIPE_BUF_SIZE
    BY <1>1, <2>1, RingWrap
  <2>4. b % PIPE_BUF_SIZE = IF b < PIPE_BUF_SIZE THEN b ELSE b - PIPE_BUF_SIZE
    BY <1>1, <2>2, RingWrap
  <2>5. a % PIPE_BUF_SIZE = b % PIPE_BUF_SIZE
    BY <1>1, <2>1, <2>2, <2>3, <2>4
  <2> QED
    BY <1>4, <2>5 DEF Agrees, a, b
<1> DEFINE F == Front(p, p.count)
<1>7. /\ F \in Seq(Bytes) /\ Len(F) = p.count
      /\ \A j \in 1 .. p.count :
           F[j] = p.buffer[(p.read_pos + j - 1) % PIPE_BUF_SIZE]
  BY <1>1, FrontIsSequence
<1>8. Front(p, n) = SubSeq(F, 1, n)
  <2>1. n \in 0 .. PIPE_BUF_SIZE
    BY <1>1
  <2>2. /\ Front(p, n) \in Seq(Bytes) /\ Len(Front(p, n)) = n
        /\ \A j \in 1 .. n :
             Front(p, n)[j] = p.buffer[(p.read_pos + j - 1) % PIPE_BUF_SIZE]
    BY <2>1, FrontIsSequence
  <2> HIDE DEF F
  <2>3. \A i \in 1 .. n : F[i] \in Bytes
    BY <1>1, <1>7, ElementOfSeq
  <2>4. /\ SubSeq(F, 1, n) \in Seq(Bytes)
        /\ Len(SubSeq(F, 1, n)) = n
        /\ \A i \in 1 .. n : SubSeq(F, 1, n)[i] = F[i]
    BY <1>1, <2>3, SubSeqProperties
  <2>5. \A i \in 1 .. n : Front(p, n)[i] = SubSeq(F, 1, n)[i]
    <3> TAKE i \in 1 .. n
    <3>1. i \in 1 .. p.count
      BY <1>1
    <3>2. F[i] = p.buffer[(p.read_pos + i - 1) % PIPE_BUF_SIZE]
      BY <1>7, <3>1
    <3> QED
      BY <2>2, <2>4, <3>2
  <2> QED
    BY <2>2, <2>4, <2>5, SeqEqual
<1>9. Front(d, d.count) = SubSeq(F, n + 1, p.count)
  <2> DEFINE m == p.count - n
  <2>1. m \in 0 .. PIPE_BUF_SIZE /\ d.count = m
    BY <1>1, <1>4
  <2>2. /\ Front(d, m) \in Seq(Bytes) /\ Len(Front(d, m)) = m
        /\ \A j \in 1 .. m :
             Front(d, m)[j] = p.buffer[(r + j - 1) % PIPE_BUF_SIZE]
    <3> HIDE DEF d, r, m
    <3> QED BY <1>4, <1>5, <2>1, FrontIsSequence
  <2>3. \A i \in n + 1 .. p.count : F[i] \in Bytes
    <3> HIDE DEF F
    <3> QED BY <1>1, <1>7, ElementOfSeq
  <2>4. /\ SubSeq(F, n + 1, p.count) \in Seq(Bytes)
        /\ Len(SubSeq(F, n + 1, p.count)) = m
        /\ \A i \in 1 .. m : SubSeq(F, n + 1, p.count)[i] = F[n + i]
    <3> DEFINE s == SubSeq(F, n + 1, p.count)
    <3>1. /\ s \in Seq(Bytes)
          /\ Len(s) = IF n + 1 <= p.count THEN p.count - (n + 1) + 1 ELSE 0
          /\ \A i \in 1 .. p.count - (n + 1) + 1 : s[i] = F[n + 1 + i - 1]
      <4> HIDE DEF F
      <4> QED BY <1>1, <2>3, SubSeqProperties
    <3> HIDE DEF s
    <3>2. \A i \in 1 .. m : i \in 1 .. p.count - (n + 1) + 1 /\ n + 1 + i - 1 = n + i
      BY <1>1
    <3>3. Len(s) = m
      BY <1>1, <3>1
    <3>4. \A i \in 1 .. m : s[i] = F[n + i]
      BY <3>1, <3>2
    <3> QED BY <3>1, <3>3, <3>4 DEF s
  <2>5. \A i \in 1 .. m : (r + i - 1) % PIPE_BUF_SIZE
                            = (p.read_pos + (n + i) - 1) % PIPE_BUF_SIZE
    <3> TAKE i \in 1 .. m
    <3> DEFINE a == r + i - 1
               b == p.read_pos + (n + i) - 1
    <3>1. a \in Int /\ 0 <= a /\ a < 2 * PIPE_BUF_SIZE /\ (a = b \/ a = b - PIPE_BUF_SIZE)
      BY <1>1, <1>2, <1>3 DEF Positions
    <3>2. b \in Int /\ 0 <= b /\ b < 2 * PIPE_BUF_SIZE
      BY <1>1 DEF Positions
    <3> HIDE DEF a, b
    <3>3. a % PIPE_BUF_SIZE = IF a < PIPE_BUF_SIZE THEN a ELSE a - PIPE_BUF_SIZE
      BY <1>1, <3>1, RingWrap
    <3>4. b % PIPE_BUF_SIZE = IF b < PIPE_BUF_SIZE THEN b ELSE b - PIPE_BUF_SIZE
      BY <1>1, <3>2, RingWrap
    <3>5. a % PIPE_BUF_SIZE = b % PIPE_BUF_SIZE
      BY <1>1, <3>1, <3>2, <3>3, <3>4
    <3> QED
      BY <3>5 DEF a, b
  <2>6. \A i \in 1 .. m : Front(d, m)[i] = SubSeq(F, n + 1, p.count)[i]
    <3> TAKE i \in 1 .. m
    <3>1. n + i \in 1 .. p.count
      BY <1>1
    <3>2. F[n + i] = p.buffer[(p.read_pos + (n + i) - 1) % PIPE_BUF_SIZE]
      <4> HIDE DEF F
      <4> QED BY <1>7, <3>1
    <3> QED
      BY <2>2, <2>4, <2>5, <3>2
  <2> QED
    <3> HIDE DEF m, d, F
    <3> QED BY <2>1, <2>2, <2>4, <2>6, SeqEqual
<1>10. Queue(d) = [Queue(p) EXCEPT !.content = SubSeq(@, n + 1, Len(@))]
  <2>1. Queue(p) = [used |-> p.used, read_open |-> p.read_open,
                    write_open |-> p.write_open, content |-> F]
    BY DEF Queue
  <2>2. Queue(d) = [used |-> p.used, read_open |-> p.read_open,
                    write_open |-> p.write_open, content |-> SubSeq(F, n + 1, p.count)]
    <3> HIDE DEF d, F
    <3> QED BY <1>4, <1>9 DEF Queue
  <2>3. [Queue(p) EXCEPT !.content = SubSeq(@, n + 1, Len(@))] =
          [used |-> p.used, read_open |-> p.read_open,
           write_open |-> p.write_open, content |-> SubSeq(F, n + 1, p.count)]
    <3>1. Len(F) = p.count
      BY <1>7
    <3>2. Queue(p).content = F
      BY <2>1
    <3>3. SubSeq(Queue(p).content, n + 1, Len(Queue(p).content)) = SubSeq(F, n + 1, p.count)
      BY <3>1, <3>2
    <3> DEFINE c == SubSeq(Queue(p).content, n + 1, Len(Queue(p).content))
    <3>4. [Queue(p) EXCEPT !.content = c] =
            [used |-> p.used, read_open |-> p.read_open,
             write_open |-> p.write_open, content |-> c]
      <4> HIDE DEF c, F
      <4> QED BY <2>1
    <3> HIDE DEF F
    <3> QED BY <3>3, <3>4
  <2> HIDE DEF d, F
  <2> QED
    BY <2>1, <2>2, <2>3
<1> QED
  BY <1>5, <1>6, <1>8, <1>10

(* Byte j of the ring, counted from the read position, is byte             *)
(* j - count of what the next write puts there, if it is beyond count.     *)
LEMMA PlaceFromWritePosition ==
  ASSUME NEW p \in Pipe, Agrees(p), NEW j \in 1 .. PIPE_BUF_SIZE
  PROVE  (((p.read_pos + j - 1) % PIPE_BUF_SIZE) - p.write_pos) % PIPE_BUF_SIZE =
           IF j <= p.count THEN j - 1 - p.count + PIPE_BUF_SIZE ELSE j - 1 - p.count
<1> DEFINE place == (p.read_pos + j - 1) % PIPE_BUF_SIZE
           x == place - p.write_pos
<1>1. /\ PIPE_BUF_SIZE \in Nat \ {0} /\ p.read_pos \in 0 .. PIPE_BUF_SIZE - 1
      /\ p.write_pos \in 0 .. PIPE_BUF_SIZE - 1 /\ p.count \in 0 .. PIPE_BUF_SIZE
  BY RingAssumption DEF Pipe, Positions
<1>2. /\ place \in 0 .. PIPE_BUF_SIZE - 1
      /\ place = IF p.read_pos + j - 1 < PIPE_BUF_SIZE THEN p.read_pos + j - 1
                 ELSE p.read_pos + j - 1 - PIPE_BUF_SIZE
  BY PlaceInRing DEF Positions
<1>3. p.write_pos = IF p.read_pos + p.count < PIPE_BUF_SIZE THEN p.read_pos + p.count
                    ELSE p.read_pos + p.count - PIPE_BUF_SIZE
  <2> DEFINE b == p.read_pos + p.count
  <2>1. b \in Int /\ 0 <= b /\ b < 2 * PIPE_BUF_SIZE
    BY <1>1
  <2> HIDE DEF b
  <2>2. b % PIPE_BUF_SIZE = IF b < PIPE_BUF_SIZE THEN b ELSE b - PIPE_BUF_SIZE
    BY <2>1, RingWrap
  <2> QED
    BY <1>1, <2>2 DEF b, Agrees
<1>4. x \in Int /\ -PIPE_BUF_SIZE < x /\ x < PIPE_BUF_SIZE
  <2> HIDE DEF place
  <2> QED BY <1>1, <1>2
<1>5. x % PIPE_BUF_SIZE = IF x < 0 THEN x + PIPE_BUF_SIZE ELSE x
  <2> HIDE DEF x
  <2>1. CASE x < 0
    BY <1>1, <1>4, <2>1
  <2>2. CASE x >= 0
    BY <1>1, <1>4, <2>2
  <2> QED
    BY <1>4, <2>1, <2>2
<1>6. /\ j <= p.count => \/ x < 0 /\ x = j - 1 - p.count
                         \/ x >= 0 /\ x = j - 1 - p.count + PIPE_BUF_SIZE
      /\ j > p.count => \/ x >= 0 /\ x = j - 1 - p.count
                        \/ x < 0 /\ x = j - 1 - p.count - PIPE_BUF_SIZE
  <2> HIDE DEF place
  <2>1. CASE p.read_pos + j - 1 < PIPE_BUF_SIZE /\ p.read_pos + p.count < PIPE_BUF_SIZE
    <3>1. x = j - 1 - p.count
      BY <1>1, <1>2, <1>3, <2>1
    <3> HIDE DEF x
    <3> QED BY <1>1, <3>1
  <2>2. CASE p.read_pos + j - 1 < PIPE_BUF_SIZE /\ ~(p.read_pos + p.count < PIPE_BUF_SIZE)
    BY <1>1, <1>2, <1>3, <2>2
  <2>3. CASE ~(p.read_pos + j - 1 < PIPE_BUF_SIZE) /\ p.read_pos + p.count < PIPE_BUF_SIZE
    BY <1>1, <1>2, <1>3, <2>3
  <2>4. CASE ~(p.read_pos + j - 1 < PIPE_BUF_SIZE) /\ ~(p.read_pos + p.count < PIPE_BUF_SIZE)
    <3>1. x = j - 1 - p.count
      BY <1>1, <1>2, <1>3, <2>4
    <3> HIDE DEF x
    <3> QED BY <1>1, <3>1
  <2> HIDE DEF x
  <2> QED BY <2>1, <2>2, <2>3, <2>4
<1>7. x % PIPE_BUF_SIZE = IF j <= p.count THEN j - 1 - p.count + PIPE_BUF_SIZE
                          ELSE j - 1 - p.count
  <2> HIDE DEF x
  <2> QED BY <1>1, <1>4, <1>5, <1>6
<1> QED
  BY <1>7

(* Writing n bytes, no more than there is room for, puts them at the end   *)
(* of the queue, and leaves the positions in agreement.                    *)
LEMMA FilledPipe ==
  ASSUME NEW p \in Pipe, Agrees(p), NEW data \in Seq(Bytes),
         NEW n \in 0 .. Len(data), n <= PIPE_BUF_SIZE - p.count
  PROVE  /\ Filled(p, data, n) \in Pipe
         /\ Agrees(Filled(p, data, n))
         /\ Queue(Filled(p, data, n)) =
              [Queue(p) EXCEPT !.content = @ \o SubSeq(data, 1, n)]
<1> DEFINE f == Filled(p, data, n)
           w == (p.write_pos + n) % PIPE_BUF_SIZE
           offset(i) == (i - p.write_pos) % PIPE_BUF_SIZE
           buf == [i \in Positions |-> IF offset(i) < n THEN data[offset(i) + 1]
                                       ELSE p.buffer[i]]
           c == p.count + n
           F == Front(p, p.count)
           D == SubSeq(data, 1, n)
<1>1. /\ PIPE_BUF_SIZE \in Nat \ {0} /\ p.read_pos \in 0 .. PIPE_BUF_SIZE - 1
      /\ p.write_pos \in 0 .. PIPE_BUF_SIZE - 1 /\ p.count \in 0 .. PIPE_BUF_SIZE
      /\ Len(data) \in Nat /\ n \in Nat
  BY RingAssumption, LenProperties DEF Pipe, Positions
<1>2. c \in 0 .. PIPE_BUF_SIZE
  BY <1>1
<1>3. /\ w \in Positions
      /\ w = IF p.write_pos + n < PIPE_BUF_SIZE THEN p.write_pos + n
             ELSE p.write_pos + n - PIPE_BUF_SIZE
  <2> DEFINE a == p.write_pos + n
  <2>1. a \in Int /\ 0 <= a /\ a < 2 * PIPE_BUF_SIZE
    BY <1>1
  <2> HIDE DEF a
  <2>2. a % PIPE_BUF_SIZE = IF a < PIPE_BUF_SIZE THEN a ELSE a - PIPE_BUF_SIZE
    BY <2>1, RingWrap
  <2> QED
    BY SMTT(60), <1>1, <2>1, <2>2 DEF a, Positions
<1>4. buf \in [Positions -> Bytes]
  <2> SUFFICES ASSUME NEW i \in Positions
               PROVE  (IF offset(i) < n THEN data[offset(i) + 1] ELSE p.buffer[i]) \in Bytes
    OBVIOUS
  <2>1. offset(i) \in Nat
    <3> DEFINE x == i - p.write_pos
    <3>1. x \in Int
      BY <1>1 DEF Positions
    <3> HIDE DEF x
    <3>2. x % PIPE_BUF_SIZE \in Nat
      BY <1>1, <3>1
    <3> QED
      BY <3>2 DEF x
  <2> HIDE DEF offset
  <2>2. p.buffer[i] \in Bytes
    BY DEF Pipe
  <2>3. ASSUME offset(i) < n PROVE data[offset(i) + 1] \in Bytes
    <3>1. offset(i) + 1 \in 1 .. Len(data)
      BY <1>1, <2>1, <2>3
    <3> QED
      BY <3>1, ElementOfSeq
  <2> QED
    BY <2>2, <2>3
<1>5. /\ f.buffer = buf /\ f.write_pos = w /\ f.count = c
      /\ f.read_pos = p.read_pos /\ f.used = p.used
      /\ f.read_open = p.read_open /\ f.write_open = p.write_open
  BY DEF Filled, Pipe
<1>6. f \in Pipe
  <2>1. f = [p EXCEPT !.buffer = buf, !.write_pos = w, !.count = c]
    BY DEF Filled
  <2> HIDE DEF f, buf, w, c
  <2> QED
    BY <1>2, <1>3, <1>4, <2>1 DEF Pipe
<1>7. Agrees(f)
  <2> DEFINE a == p.read_pos + p.count
             b == p.read_pos + c
             z == p.write_pos + n
  <2>1. a \in Int /\ 0 <= a /\ a < 2 * PIPE_BUF_SIZE
    BY <1>1
  <2>2. b \in Int /\ 0 <= b /\ b < 2 * PIPE_BUF_SIZE /\ b = a + n
    BY SMTT(60), <1>1
  <2>3. p.write_pos = a % PIPE_BUF_SIZE
    BY DEF Agrees
  <2> HIDE DEF a, b, w
  <2>4. a % PIPE_BUF_SIZE = IF a < PIPE_BUF_SIZE THEN a ELSE a - PIPE_BUF_SIZE
    BY <2>1, RingWrap
  <2>5. b % PIPE_BUF_SIZE = IF b < PIPE_BUF_SIZE THEN b ELSE b - PIPE_BUF_SIZE
    BY <2>2, RingWrap
  <2>6. w = b % PIPE_BUF_SIZE
    <3>1. CASE a < PIPE_BUF_SIZE
      <4>1. p.write_pos = a
        BY <2>3, <2>4, <3>1
      <4>2. w = IF b < PIPE_BUF_SIZE THEN b ELSE b - PIPE_BUF_SIZE
        BY <1>1, <1>3, <2>1, <2>2, <4>1
      <4> QED
        BY <2>5, <4>2
    <3>2. CASE ~(a < PIPE_BUF_SIZE)
      BY <1>1, <1>3, <2>1, <2>2, <2>3, <2>4, <2>5, <3>2
    <3> QED
      BY <3>1, <3>2
  <2> HIDE DEF f, c
  <2> QED
    BY <1>5, <2>6 DEF Agrees, b
<1>8. /\ F \in Seq(Bytes) /\ Len(F) = p.count
      /\ \A j \in 1 .. p.count :
           F[j] = p.buffer[(p.read_pos + j - 1) % PIPE_BUF_SIZE]
  BY <1>1, FrontIsSequence
<1>9. D \in Seq(Bytes) /\ Len(D) = n /\ \A i \in 1 .. n : D[i] = data[i]
  <2>1. \A i \in 1 .. n : data[i] \in Bytes
    BY <1>1, ElementOfSeq
  <2> QED
    BY <1>1, <2>1, SubSeqProperties
<1>10. /\ Front(f, c) \in Seq(Bytes) /\ Len(Front(f, c)) = c
       /\ \A j \in 1 .. c :
            Front(f, c)[j] = buf[(p.read_pos + j - 1) % PIPE_BUF_SIZE]
  <2> HIDE DEF f, buf, c
  <2> QED BY <1>2, <1>5, <1>6, FrontIsSequence
<1>11. /\ F \o D \in Seq(Bytes) /\ Len(F \o D) = c
       /\ \A j \in 1 .. c : (F \o D)[j] = IF j <= p.count THEN F[j] ELSE D[j - p.count]
  <2> HIDE DEF F, D
  <2>1. /\ F \o D \in Seq(Bytes) /\ Len(F \o D) = Len(F) + Len(D)
        /\ \A j \in 1 .. Len(F) + Len(D) :
             (F \o D)[j] = IF j <= Len(F) THEN F[j] ELSE D[j - Len(F)]
    BY <1>8, <1>9, ConcatProperties
  <2>2. Len(F) = p.count /\ Len(D) = n
    BY <1>8, <1>9
  <2> QED BY <2>1, <2>2
<1>12. \A j \in 1 .. c : Front(f, c)[j] = (F \o D)[j]
  <2> TAKE j \in 1 .. c
  <2> DEFINE place == (p.read_pos + j - 1) % PIPE_BUF_SIZE
  <2>1. j \in 1 .. PIPE_BUF_SIZE
    BY <1>1
  <2>2. place \in Positions
    BY <2>1, PlaceInRing
  <2>3. offset(place) = IF j <= p.count THEN j - 1 - p.count + PIPE_BUF_SIZE
                        ELSE j - 1 - p.count
    BY <2>1, PlaceFromWritePosition
  <2>4. buf[place] = IF offset(place) < n THEN data[offset(place) + 1] ELSE p.buffer[place]
    BY <2>2
  <2>5. Front(f, c)[j] = buf[place]
    <3> HIDE DEF f, c, buf
    <3> QED BY <1>10
  <2> HIDE DEF offset, buf, place
  <2>6. CASE j <= p.count
    <3>1. ~(offset(place) < n)
      BY <1>1, <2>3, <2>6
    <3>2. F[j] = p.buffer[place]
      <4> HIDE DEF F
      <4>1. j \in 1 .. p.count
        BY <1>1, <2>1, <2>6
      <4> QED BY <1>8, <4>1 DEF place
    <3>3. (F \o D)[j] = F[j]
      <4> HIDE DEF F, D, c
      <4> QED BY <1>11, <2>6
    <3> QED
      BY <2>4, <2>5, <3>1, <3>2, <3>3
  <2>7. CASE p.count < j
    <3>1. offset(place) < n /\ offset(place) + 1 = j - p.count /\ j - p.count \in 1 .. n
      BY SMTT(60), <1>1, <2>3, <2>7
    <3>2. D[j - p.count] = data[j - p.count]
      <4> HIDE DEF D
      <4> QED BY <1>9, <3>1
    <3>3. (F \o D)[j] = D[j - p.count]
      <4> HIDE DEF F, D, c
      <4> QED BY SMTT(60), <1>1, <1>11, <2>7
    <3> HIDE DEF F, D, f
    <3> QED
      BY <2>4, <2>5, <3>1, <3>2, <3>3
  <2> QED
    <3> HIDE DEF f, F, D
    <3>1. j \in Nat /\ p.count \in Nat
      BY <1>1, <2>1
    <3>2. j <= p.count \/ p.count < j
      BY <3>1
    <3> QED
      BY <2>6, <2>7, <3>2
<1>13. Front(f, c) = F \o D
  <2> HIDE DEF f, c, F, D
  <2> QED BY <1>10, <1>11, <1>12, SeqEqual
<1>14. Queue(f) = [Queue(p) EXCEPT !.content = @ \o D]
  <2>1. Queue(p) = [used |-> p.used, read_open |-> p.read_open,
                    write_open |-> p.write_open, content |-> F]
    BY DEF Queue
  <2>2. Queue(f) = [used |-> p.used, read_open |-> p.read_open,
                    write_open |-> p.write_open, content |-> F \o D]
    <3> HIDE DEF f, F, D, c
    <3> QED BY <1>5, <1>13 DEF Queue
  <2>3. Queue(p).content = F
    BY <2>1
  <2> DEFINE G == Queue(p).content \o D
  <2>4. [Queue(p) EXCEPT !.content = G] =
          [used |-> p.used, read_open |-> p.read_open,
           write_open |-> p.write_open, content |-> G]
    <3> HIDE DEF G, F, D
    <3> QED BY <2>1
  <2> HIDE DEF f, F, D
  <2> QED
    BY <2>2, <2>3, <2>4
<1> QED
  BY <1>6, <1>7, <1>14

----------------------------------------------------------------------------
(***************************************************************************)
(* The pool: the inductive invariant, and the calls.                       *)
(***************************************************************************)
PoolSound ==
  /\ pipes \in [PipeIds -> Pipe]
  /\ \A id \in PipeIds : Agrees(pipes[id])

(* The pool of PipeFifo that the rings stand for.                          *)
Pool == [id \in PipeIds |-> Queue(pipes[id])]

LEMMA PoolIsQueues ==
  Pool = [id \in PipeIds |->
            [used |-> pipes[id].used, read_open |-> pipes[id].read_open,
             write_open |-> pipes[id].write_open,
             content |-> Front(pipes[id], pipes[id].count)]]
BY DEF Pool, Queue

LEMMA SameMin == \A S : Queues!Min(S) = Min(S)
BY DEF Queues!Min, Min

LEMMA PoolSoundIsInvariant ==
  PoolSound /\ reply.n \in Int <=> TypeOK /\ PositionsAgree
BY DEF PoolSound, TypeOK, PositionsAgree, Pipe, Agrees

(* A call that replaces one pipe by a sound one.                           *)
LEMMA OnePipe ==
  ASSUME PoolSound, NEW id \in PipeIds, NEW q \in Pipe, Agrees(q),
         pipes' = [pipes EXCEPT ![id] = q]
  PROVE  PoolSound' /\ Pool' = [Pool EXCEPT ![id] = Queue(q)]
<1>1. pipes' \in [PipeIds -> Pipe]
  BY DEF PoolSound
<1>2. /\ pipes'[id] = q
      /\ \A i \in PipeIds \ {id} : pipes'[i] = pipes[i]
  BY DEF PoolSound
<1>3. \A i \in PipeIds : Agrees(pipes'[i])
  BY <1>2 DEF PoolSound
<1>4. Pool' = [i \in PipeIds |-> Queue(pipes'[i])]
  BY DEF Pool, Queue, Front
<1>5. Pool' = [Pool EXCEPT ![id] = Queue(q)]
  <2>1. \A i \in PipeIds : Queue(pipes'[i]) = IF i = id THEN Queue(q) ELSE Queue(pipes[i])
    BY <1>2
  <2>2. Pool' = [i \in PipeIds |-> IF i = id THEN Queue(q) ELSE Queue(pipes[i])]
    BY <1>4, <2>1, Zenon
  <2>3. [Pool EXCEPT ![id] = Queue(q)]
          = [i \in PipeIds |-> IF i = id THEN Queue(q) ELSE Queue(pipes[i])]
    BY DEF Pool
  <2> QED
    BY <2>2, <2>3
<1> QED
  BY <1>1, <1>3, <1>5 DEF PoolSound

(* An empty ring is the empty queue.                                       *)
LEMMA EmptyFront ==
  ASSUME NEW p \in Pipe
  PROVE  Front(p, 0) = <<>>
<1>1. 0 \in 0 .. PIPE_BUF_SIZE
  BY RingAssumption
<1>2. Front(p, 0) \in Seq(Bytes) /\ Len(Front(p, 0)) = 0
  BY <1>1, FrontIsSequence
<1> QED
  BY <1>2, EmptySeq

(* The pipe pipe_alloc takes is a pipe of the pool that is not used.       *)
LEMMA FirstUnused ==
  ASSUME PoolSound, Unused # {}
  PROVE  Min(Unused) \in PipeIds
<1>1. Unused \subseteq Nat
  BY RingAssumption DEF Unused, PipeIds
<1>2. Min(Unused) \in Unused
  BY <1>1, MinInSet
<1> QED
  BY <1>2 DEF Unused

LEMMA UnusedInPool ==
  ASSUME PoolSound
  PROVE  Unused = Queues!Unused(Pool)
BY DEF Unused, Queues!Unused, Queues!PipeIds, PipeIds, Pool, Queue

(* What pipe_alloc makes of a pipe, and what it stands for.                *)
LEMMA TakenPipe ==
  ASSUME NEW p \in Pipe, NEW u \in BOOLEAN
  PROVE  LET q == [p EXCEPT !.used = u, !.read_pos = 0, !.write_pos = 0, !.count = 0,
                            !.read_open = TRUE, !.write_open = TRUE]
         IN  /\ q \in Pipe /\ Agrees(q)
             /\ Queue(q) = [used |-> u, read_open |-> TRUE, write_open |-> TRUE,
                            content |-> <<>>]
<1> DEFINE q == [p EXCEPT !.used = u, !.read_pos = 0, !.write_pos = 0, !.count = 0,
                          !.read_open = TRUE, !.write_open = TRUE]
<1>1. 0 \in Positions /\ 0 \in 0 .. PIPE_BUF_SIZE /\ 0 % PIPE_BUF_SIZE = 0
  BY RingAssumption DEF Positions
<1>2. q \in Pipe
  BY <1>1 DEF Pipe
<1>3. /\ q.used = u /\ q.read_pos = 0 /\ q.write_pos = 0 /\ q.count = 0
      /\ q.read_open = TRUE /\ q.write_open = TRUE
  BY DEF Pipe
<1> HIDE DEF q
<1>4. Agrees(q)
  BY <1>1, <1>3 DEF Agrees
<1>5. Front(q, 0) = <<>>
  BY <1>2, EmptyFront
<1>6. Queue(q) = [used |-> u, read_open |-> TRUE, write_open |-> TRUE, content |-> <<>>]
  BY <1>3, <1>5 DEF Queue
<1> QED
  BY <1>2, <1>4, <1>6 DEF q

LEMMA AllocStep ==
  ASSUME PoolSound, PipeAlloc
  PROVE  PoolSound' /\ reply'.n \in Int /\ Queues!Alloc
<1>1. CASE Unused # {}
  <2> DEFINE m == Min(Unused)
             q == [pipes[m] EXCEPT !.used = TRUE, !.read_pos = 0, !.write_pos = 0,
                        !.count = 0, !.read_open = TRUE, !.write_open = TRUE]
  <2>1. m \in PipeIds /\ m \in Int
    BY <1>1, FirstUnused, RingAssumption DEF PipeIds
  <2>2. pipes' = [pipes EXCEPT ![m] = q] /\ Returns(m, <<>>)
    BY <1>1 DEF PipeAlloc
  <2>3. pipes[m] \in Pipe
    BY <2>1 DEF PoolSound
  <2> HIDE DEF m
  <2>4. q \in Pipe /\ Agrees(q) /\ Queue(q) = Queues!Emptied
    BY <2>3, TakenPipe DEF Queues!Emptied
  <2> HIDE DEF q
  <2>5. PoolSound' /\ Pool' = [Pool EXCEPT ![m] = Queue(q)]
    BY <2>1, <2>2, <2>4, OnePipe
  <2>6. /\ Queues!Unused(Pool) # {} /\ m = Min(Queues!Unused(Pool))
        /\ Pool' = Queues!Opened(Pool, m)
    BY <1>1, <2>4, <2>5, UnusedInPool DEF Queues!Opened, m
  <2>7. Queues!Alloc
    BY <2>2, <2>6, SameMin DEF Queues!Alloc, Queues!Returns, Returns, Pool, Queue
  <2> QED
    BY <2>1, <2>2, <2>5, <2>7 DEF Returns
<1>2. CASE Unused = {}
  <2>1. pipes' = pipes /\ Returns(-1, <<>>)
    BY <1>2 DEF PipeAlloc
  <2>2. Pool' = Pool /\ PoolSound'
    BY <2>1 DEF Pool, Queue, Front, PoolSound, Agrees
  <2>3. Queues!Unused(Pool) = {}
    BY <1>2, UnusedInPool
  <2>4. Queues!Alloc
    BY <2>1, <2>2, <2>3, PoolIsQueues DEF Queues!Alloc, Queues!Returns, Returns
  <2> QED
    BY <2>1, <2>2, <2>4 DEF Returns
<1> QED
  BY <1>1, <1>2

(* The record of a queue with another first field.                         *)
LEMMA OtherUse ==
  ASSUME NEW t \in BOOLEAN, NEW u \in BOOLEAN
  PROVE  [[used |-> t, read_open |-> t, write_open |-> t, content |-> <<>>] EXCEPT !.used = u]
           = [used |-> u, read_open |-> t, write_open |-> t, content |-> <<>>]
OBVIOUS

LEMMA AllocAndFreeStep ==
  ASSUME PoolSound, PipeAllocAndFree
  PROVE  PoolSound' /\ reply'.n \in Int /\ Queues!AllocAndFree
<1> DEFINE m == Min(Unused)
           q == [pipes[m] EXCEPT !.used = FALSE, !.read_pos = 0, !.write_pos = 0,
                      !.count = 0, !.read_open = TRUE, !.write_open = TRUE]
<1>1. m \in PipeIds
  BY FirstUnused DEF PipeAllocAndFree
<1>2. pipes' = [pipes EXCEPT ![m] = q] /\ Returns(-1, <<>>) /\ Unused # {}
  BY DEF PipeAllocAndFree
<1>3. pipes[m] \in Pipe
  BY <1>1 DEF PoolSound
<1> HIDE DEF m
<1>4. /\ q \in Pipe /\ Agrees(q)
      /\ Queue(q) = [Queues!Emptied EXCEPT !.used = FALSE]
  <2>1. /\ q \in Pipe /\ Agrees(q)
        /\ Queue(q) = [used |-> FALSE, read_open |-> TRUE, write_open |-> TRUE,
                       content |-> <<>>]
    BY <1>3, TakenPipe
  <2>2. [Queues!Emptied EXCEPT !.used = FALSE]
          = [used |-> FALSE, read_open |-> TRUE, write_open |-> TRUE, content |-> <<>>]
    BY OtherUse DEF Queues!Emptied
  <2> HIDE DEF q
  <2> QED
    BY <2>1, <2>2
<1> HIDE DEF q
<1>5. PoolSound' /\ Pool' = [Pool EXCEPT ![m] = Queue(q)]
  BY <1>1, <1>2, <1>4, OnePipe
<1>6. /\ Queues!Unused(Pool) # {} /\ m = Queues!Min(Queues!Unused(Pool))
      /\ m \in Queues!PipeIds
  BY <1>1, <1>2, UnusedInPool, SameMin DEF m, PipeIds, Queues!PipeIds
<1>7. Pool' = Queues!Freed(Queues!Opened(Pool, m), m)
  <2>1. Queues!Opened(Pool, m)[m] = Queues!Emptied
    BY <1>1 DEF Queues!Opened, Pool
  <2>2. Queues!Freed(Queues!Opened(Pool, m), m)
          = [Queues!Opened(Pool, m) EXCEPT ![m] = [Queues!Emptied EXCEPT !.used = FALSE]]
    BY <1>6, <2>1 DEF Queues!Freed
  <2> DEFINE e == Queues!Emptied
             g == [Queues!Emptied EXCEPT !.used = FALSE]
  <2>3. [[Pool EXCEPT ![m] = e] EXCEPT ![m] = g] = [Pool EXCEPT ![m] = g]
    <3> HIDE DEF e, g
    <3> QED BY DEF Pool
  <2> QED
    BY <1>4, <1>5, <2>2, <2>3 DEF Queues!Opened
<1>8. Queues!AllocAndFree
  BY <1>2, <1>6, <1>7 DEF Queues!AllocAndFree, Queues!Returns, Returns, Pool, Queue
<1> QED
  BY <1>2, <1>5, <1>8 DEF Returns

LEMMA WriteStep ==
  ASSUME PoolSound, NEW id \in PipeIds, NEW data \in Transfers, PipeWrite(id, data)
  PROVE  PoolSound' /\ reply'.n \in Int /\ Queues!Write(id, data)
<1> DEFINE p == pipes[id]
           room == PIPE_BUF_SIZE - p.count
           n == Min({Len(data), room})
<1>1. p \in Pipe /\ Agrees(p) /\ Pool[id] = Queue(p) /\ id \in Queues!PipeIds
  BY DEF PoolSound, Pool, PipeIds, Queues!PipeIds
<1>2. data \in Seq(Bytes)
  BY SeqDef, RingAssumption DEF Transfers
<1>3. Len(data) \in Nat /\ room \in Nat /\ p.count \in 0 .. PIPE_BUF_SIZE
  BY <1>1, <1>2, RingAssumption, LenProperties DEF Pipe
<1>4. n = (IF Len(data) <= room THEN Len(data) ELSE room)
  <2> HIDE DEF room
  <2> QED BY <1>3, MinOfTwo
<1> HIDE DEF n
<1>5. n \in 0 .. Len(data) /\ n <= room /\ n \in Nat
  <2> HIDE DEF room
  <2> QED BY <1>3, <1>4
<1>6. /\ Queue(p).used = p.used /\ Queue(p).write_open = p.write_open
      /\ Len(Queue(p).content) = p.count
  BY <1>1, <1>3, FrontIsSequence DEF Queue
<1>7. CASE p.used /\ p.write_open
  <2> DEFINE q == Filled(p, data, n)
  <2>1. pipes' = [pipes EXCEPT ![id] = q] /\ Returns(n, data)
    BY <1>7 DEF PipeWrite, n
  <2>2. /\ q \in Pipe /\ Agrees(q)
        /\ Queue(q) = [Queue(p) EXCEPT !.content = @ \o SubSeq(data, 1, n)]
    BY <1>1, <1>2, <1>5, FilledPipe
  <2> HIDE DEF q, p
  <2>3. PoolSound' /\ Pool' = [Pool EXCEPT ![id] = Queue(q)]
    BY <2>1, <2>2, OnePipe
  <2>4. Queues!WriteResult(Pool, id, data) = n
    BY <1>1, <1>6, <1>7, SameMin DEF Queues!WriteResult, Queues!IsUsed, n
  <2>5. Queues!Written(Pool, id, data)
          = [Pool EXCEPT ![id] = [Queue(p) EXCEPT !.content = @ \o SubSeq(data, 1, n)]]
    BY <1>1, <1>5, <2>4 DEF Queues!Written
  <2>6. Pool' = Queues!Written(Pool, id, data)
    BY <2>2, <2>3, <2>5
  <2>7. Queues!Write(id, data)
    BY <2>1, <2>4, <2>6 DEF Queues!Write, Queues!Returns, Returns, Pool, Queue
  <2> QED
    BY <1>5, <2>1, <2>3, <2>7 DEF Returns
<1>8. CASE ~(p.used /\ p.write_open)
  <2>1. pipes' = pipes /\ Returns(-1, data)
    BY <1>8 DEF PipeWrite
  <2>2. Pool' = Pool /\ PoolSound'
    BY <2>1 DEF Pool, Queue, Front, PoolSound, Agrees
  <2>3. Queues!WriteResult(Pool, id, data) = -1
    BY <1>1, <1>6, <1>8 DEF Queues!WriteResult, Queues!IsUsed
  <2>4. Pool' = Queues!Written(Pool, id, data)
    BY <2>2, <2>3 DEF Queues!Written
  <2>5. Queues!Write(id, data)
    BY <2>1, <2>3, <2>4 DEF Queues!Write, Queues!Returns, Returns, Pool, Queue
  <2> QED
    BY <2>1, <2>2, <2>5 DEF Returns
<1> QED
  BY <1>7, <1>8

LEMMA ReadStep ==
  ASSUME PoolSound, NEW id \in PipeIds, NEW len \in 0 .. MaxTransfer, PipeRead(id, len)
  PROVE  PoolSound' /\ reply'.n \in Int /\ Queues!Read(id, len)
<1> DEFINE p == pipes[id]
           n == Min({len, p.count})
           r == IF n = 0 /\ ~p.write_open THEN -1 ELSE n
           F == Queue(p).content
<1>1. p \in Pipe /\ Agrees(p) /\ Pool[id] = Queue(p) /\ id \in Queues!PipeIds
  BY DEF PoolSound, Pool, PipeIds, Queues!PipeIds
<1>2. len \in Nat /\ p.count \in Nat /\ p.count \in 0 .. PIPE_BUF_SIZE
  BY <1>1, RingAssumption DEF Pipe
<1>3. n = (IF len <= p.count THEN len ELSE p.count)
  BY <1>2, MinOfTwo
<1> HIDE DEF n
<1>4. n \in 0 .. p.count /\ n \in Nat
  BY <1>2, <1>3
<1>5. /\ Queue(p).used = p.used /\ Queue(p).read_open = p.read_open
      /\ Queue(p).write_open = p.write_open
      /\ F = Front(p, p.count) /\ Len(F) = p.count /\ F \in Seq(Bytes)
  BY <1>1, <1>2, FrontIsSequence DEF Queue
<1>6. CASE p.used /\ p.read_open
  <2> DEFINE q == Drained(p, n)
  <2>1. pipes' = [pipes EXCEPT ![id] = q] /\ Returns(r, Front(p, n))
    BY <1>6 DEF PipeRead, n
  <2>2. /\ q \in Pipe /\ Agrees(q)
        /\ Front(p, n) = SubSeq(F, 1, n)
        /\ Queue(q) = [Queue(p) EXCEPT !.content = SubSeq(@, n + 1, Len(@))]
    BY <1>1, <1>4, <1>5, DrainedPipe
  <2>3. n \in 0 .. PIPE_BUF_SIZE
    BY <1>2, <1>4, RingAssumption
  <2>4. Len(Front(p, n)) = n
    BY <1>1, <2>3, FrontIsSequence
  <2> HIDE DEF q, p
  <2>5. PoolSound' /\ Pool' = [Pool EXCEPT ![id] = Queue(q)]
    BY <2>1, <2>2, OnePipe
  <2>6. Queues!ReadData(Pool, id, len) = Front(p, n)
    BY <1>1, <1>5, <1>6, <2>2, SameMin DEF Queues!ReadData, Queues!IsUsed, n
  <2>7. Queues!ReadResult(Pool, id, len) = r
    BY <1>1, <1>5, <1>6, <2>4, <2>6 DEF Queues!ReadResult, Queues!IsUsed
  <2>8. Pool' = Queues!AfterRead(Pool, id, len)
    <3>1. CASE n = 0
      <4>1. SubSeq(F, n + 1, Len(F)) = F
        BY <1>5, <3>1, SubSeqFull
      <4>2. [Queue(p) EXCEPT !.content = F] = Queue(p)
        BY DEF Queue
      <4>3. [Pool EXCEPT ![id] = Pool[id]] = Pool
        BY DEF Pool
      <4>4. Pool' = Pool
        BY <1>1, <2>2, <2>5, <4>1, <4>2, <4>3
      <4> QED
        BY <2>4, <2>6, <3>1, <4>4 DEF Queues!AfterRead
    <3>2. CASE n # 0
      <4>1. Queues!AfterRead(Pool, id, len)
              = [Pool EXCEPT ![id] = [Queue(p) EXCEPT !.content = SubSeq(@, n + 1, Len(@))]]
        BY <1>1, <2>4, <2>6, <3>2 DEF Queues!AfterRead
      <4> QED
        BY <2>2, <2>5, <4>1
    <3> QED
      BY <3>1, <3>2
  <2>9. Queues!Read(id, len)
    BY <2>1, <2>6, <2>7, <2>8 DEF Queues!Read, Queues!Returns, Returns, Pool, Queue
  <2>10. r \in Int
    BY <1>4
  <2> QED
    BY <2>1, <2>5, <2>9, <2>10 DEF Returns
<1>7. CASE ~(p.used /\ p.read_open)
  <2>1. pipes' = pipes /\ Returns(-1, <<>>)
    BY <1>7 DEF PipeRead
  <2>2. Pool' = Pool /\ PoolSound'
    BY <2>1 DEF Pool, Queue, Front, PoolSound, Agrees
  <2>3. /\ Queues!ReadData(Pool, id, len) = <<>>
        /\ Queues!ReadResult(Pool, id, len) = -1
    BY <1>1, <1>5, <1>7 DEF Queues!ReadData, Queues!ReadResult, Queues!IsUsed
  <2>4. Pool' = Queues!AfterRead(Pool, id, len)
    BY <2>2, <2>3 DEF Queues!AfterRead
  <2>5. Queues!Read(id, len)
    BY <2>1, <2>3, <2>4 DEF Queues!Read, Queues!Returns, Returns, Pool, Queue
  <2> QED
    BY <2>1, <2>2, <2>5 DEF Returns
<1> QED
  BY <1>6, <1>7

LEMMA CloseStep ==
  ASSUME PoolSound, NEW id \in PipeIds, NEW end \in {0, 1}, PipeClose(id, end)
  PROVE  PoolSound' /\ reply'.n \in Int /\ Queues!Close(id, end)
<1> DEFINE p == pipes[id]
           r == p.read_open /\ end # 0
           w == p.write_open /\ end = 0
           u == r \/ w
           q == [p EXCEPT !.read_open = r, !.write_open = w, !.used = u]
<1>1. p \in Pipe /\ Agrees(p) /\ Pool[id] = Queue(p) /\ id \in Queues!PipeIds
  BY DEF PoolSound, Pool, PipeIds, Queues!PipeIds
<1>2. /\ Queue(p).used = p.used /\ Queue(p).read_open = p.read_open
      /\ Queue(p).write_open = p.write_open
  BY DEF Queue
<1>3. Returns(0, <<>>)
  BY DEF PipeClose
<1>4. CASE p.used
  <2> DEFINE c == IF end = 0 THEN [p EXCEPT !.read_open = FALSE]
                  ELSE [p EXCEPT !.write_open = FALSE]
  <2>1. [c EXCEPT !.used = c.read_open \/ c.write_open] = q
    <3>1. CASE end = 0
      <4>1. c = [p EXCEPT !.read_open = FALSE]
        BY <3>1
      <4>2. c.read_open = FALSE /\ c.write_open = p.write_open
        BY <1>1, <4>1 DEF Pipe
      <4> HIDE DEF c, p
      <4>3. r = FALSE /\ w = p.write_open
        BY <1>1, <3>1 DEF Pipe
      <4> QED
        BY <1>1, <4>1, <4>2, <4>3 DEF Pipe
    <3>2. CASE end # 0
      <4>1. c = [p EXCEPT !.write_open = FALSE]
        BY <3>2
      <4>2. c.write_open = FALSE /\ c.read_open = p.read_open
        BY <1>1, <4>1 DEF Pipe
      <4> HIDE DEF c, p
      <4>3. w = FALSE /\ r = p.read_open
        BY <1>1, <3>2 DEF Pipe
      <4> QED
        BY <1>1, <4>1, <4>2, <4>3 DEF Pipe
    <3> QED
      BY <3>1, <3>2
  <2>2. pipes' = [pipes EXCEPT ![id] = q]
    BY <1>4, <2>1 DEF PipeClose
  <2> HIDE DEF p
  <2>3. r \in BOOLEAN /\ w \in BOOLEAN /\ u \in BOOLEAN
    OBVIOUS
  <2> HIDE DEF r, w, u
  <2>4. q \in Pipe
    BY <1>1, <2>3 DEF Pipe
  <2>5. /\ q.read_pos = p.read_pos /\ q.count = p.count /\ q.buffer = p.buffer
        /\ q.write_pos = p.write_pos
        /\ q.used = u /\ q.read_open = r /\ q.write_open = w
    BY <1>1, <2>3 DEF Pipe
  <2> HIDE DEF q
  <2>6. Agrees(q)
    BY <1>1, <2>5 DEF Agrees
  <2>7. Front(q, q.count) = Front(p, p.count)
    BY <2>5 DEF Front
  <2>8. Queue(q) = [Queue(p) EXCEPT !.read_open = r, !.write_open = w, !.used = u]
    <3> DEFINE bytes == Front(p, p.count)
    <3>1. Queue(q) = [used |-> u, read_open |-> r, write_open |-> w, content |-> bytes]
      BY <2>5, <2>7 DEF Queue
    <3>2. Queue(p) = [used |-> p.used, read_open |-> p.read_open,
                      write_open |-> p.write_open, content |-> bytes]
      BY DEF Queue
    <3> HIDE DEF bytes
    <3>3. [Queue(p) EXCEPT !.read_open = r, !.write_open = w, !.used = u]
            = [used |-> u, read_open |-> r, write_open |-> w, content |-> bytes]
      <4> DEFINE e == [Queue(p) EXCEPT !.read_open = r, !.write_open = w, !.used = u]
      <4>1. DOMAIN e = {"used", "read_open", "write_open", "content"}
        BY <3>2
      <4>2. e.used = u /\ e.read_open = r /\ e.write_open = w /\ e.content = bytes
        BY <3>2
      <4>3. e = [i \in DOMAIN e |-> e[i]]
        BY <3>2
      <4> HIDE DEF e
      <4>4. e = [used |-> u, read_open |-> r, write_open |-> w, content |-> bytes]
        BY <4>1, <4>2, <4>3
      <4> QED
        BY <4>4 DEF e
    <3> QED
      BY <3>1, <3>3
  <2>9. PoolSound' /\ Pool' = [Pool EXCEPT ![id] = Queue(q)]
    BY <2>2, <2>4, <2>6, OnePipe
  <2>10. Pool' = Queues!Closed(Pool, id, end)
    BY <1>1, <1>2, <1>4, <2>8, <2>9 DEF Queues!Closed, Queues!IsUsed, Queues!ReadEnd, r, w, u
  <2>11. Queues!Close(id, end)
    BY <1>3, <2>10 DEF Queues!Close, Queues!Returns, Returns, Pool, Queue
  <2> QED
    BY <1>3, <2>9, <2>11 DEF Returns
<1>5. CASE ~p.used
  <2>1. pipes' = pipes
    BY <1>5 DEF PipeClose
  <2>2. Pool' = Pool /\ PoolSound'
    BY <2>1 DEF Pool, Queue, Front, PoolSound, Agrees
  <2>3. Queues!Closed(Pool, id, end) = Pool
    BY <1>1, <1>2, <1>5 DEF Queues!Closed, Queues!IsUsed
  <2>4. Queues!Close(id, end)
    BY <1>3, <2>2, <2>3 DEF Queues!Close, Queues!Returns, Returns, Pool, Queue
  <2> QED
    BY <1>3, <2>2, <2>4 DEF Returns
<1> QED
  BY <1>4, <1>5

----------------------------------------------------------------------------
(***************************************************************************)
(* The theorems.                                                           *)
(***************************************************************************)
LEMMA PoolStep ==
  ASSUME PoolSound, Next
  PROVE  PoolSound' /\ reply'.n \in Int /\ Queues!Next
<1>1. CASE PipeAlloc
  BY <1>1, AllocStep DEF Queues!Next
<1>2. CASE PipeAllocAndFree
  BY <1>2, AllocAndFreeStep DEF Queues!Next
<1>3. ASSUME NEW id \in PipeIds, NEW data \in Transfers, PipeWrite(id, data)
      PROVE  PoolSound' /\ reply'.n \in Int /\ Queues!Next
  <2>1. PoolSound' /\ reply'.n \in Int /\ Queues!Write(id, data)
    BY <1>3, WriteStep
  <2>2. id \in Queues!PipeIds /\ data \in Queues!Transfers
    BY DEF PipeIds, Queues!PipeIds, Transfers, Queues!Transfers
  <2> QED
    BY <2>1, <2>2 DEF Queues!Next
<1>4. ASSUME NEW id \in PipeIds, NEW len \in 0 .. MaxTransfer, PipeRead(id, len)
      PROVE  PoolSound' /\ reply'.n \in Int /\ Queues!Next
  <2>1. PoolSound' /\ reply'.n \in Int /\ Queues!Read(id, len)
    BY <1>4, ReadStep
  <2>2. id \in Queues!PipeIds
    BY DEF PipeIds, Queues!PipeIds
  <2> QED
    BY <2>1, <2>2 DEF Queues!Next
<1>5. ASSUME NEW id \in PipeIds, NEW end \in {0, 1}, PipeClose(id, end)
      PROVE  PoolSound' /\ reply'.n \in Int /\ Queues!Next
  <2>1. PoolSound' /\ reply'.n \in Int /\ Queues!Close(id, end)
    BY <1>5, CloseStep
  <2>2. id \in Queues!PipeIds /\ end \in {Queues!ReadEnd, Queues!WriteEnd}
    BY DEF PipeIds, Queues!PipeIds, Queues!ReadEnd, Queues!WriteEnd
  <2> QED
    BY <2>1, <2>2 DEF Queues!Next
<1> QED
  BY <1>1, <1>2, <1>3, <1>4, <1>5 DEF Next

LEMMA PoolInit ==
  ASSUME Init
  PROVE  PoolSound /\ reply.n \in Int /\ Queues!Init
<1> DEFINE zero == CHOOSE b \in Bytes : TRUE
           z == [used |-> FALSE, buffer |-> [i \in Positions |-> zero],
                 read_pos |-> 0, write_pos |-> 0, count |-> 0,
                 read_open |-> FALSE, write_open |-> FALSE]
<1>1. zero \in Bytes
  BY RingAssumption
<1>2. 0 \in Positions /\ 0 \in 0 .. PIPE_BUF_SIZE /\ 0 % PIPE_BUF_SIZE = 0
  BY RingAssumption DEF Positions
<1>3. pipes = [id \in PipeIds |-> z]
  BY DEF Init
<1> HIDE DEF zero
<1>4. z \in Pipe
  BY <1>1, <1>2 DEF Pipe
<1>5. z.count = 0 /\ Agrees(z)
  BY <1>2 DEF Agrees
<1>6. Front(z, z.count) = <<>>
  <2> HIDE DEF z
  <2> QED BY <1>4, <1>5, EmptyFront
<1>7. Queue(z) = [used |-> FALSE, read_open |-> FALSE, write_open |-> FALSE,
                  content |-> <<>>]
  <2>1. ~z.used /\ ~z.read_open /\ ~z.write_open
    OBVIOUS
  <2>2. z.used = FALSE /\ z.read_open = FALSE /\ z.write_open = FALSE
    OBVIOUS
  <2> HIDE DEF z
  <2> QED BY <1>6, <2>2 DEF Queue
<1>8. PoolSound
  <2> HIDE DEF z
  <2> QED BY <1>3, <1>4, <1>5 DEF PoolSound
<1>9. Pool = [id \in Queues!PipeIds |-> Queue(z)]
  <2> HIDE DEF z
  <2> QED BY <1>3 DEF Pool, PipeIds, Queues!PipeIds
<1>10. Queues!Init
  <2> HIDE DEF z
  <2> QED BY <1>7, <1>9, PoolIsQueues DEF Queues!Init, Init
<1>11. reply.n \in Int
  BY DEF Init
<1> QED
  BY <1>8, <1>10, <1>11

LEMMA SpecPoolSound == Spec => [](PoolSound /\ reply.n \in Int)
<1>1. Init => PoolSound /\ reply.n \in Int
  BY PoolInit
<1>2. PoolSound /\ reply.n \in Int /\ [Next]_vars => (PoolSound /\ reply.n \in Int)'
  <2> SUFFICES ASSUME PoolSound, reply.n \in Int, [Next]_vars
               PROVE  PoolSound' /\ reply'.n \in Int
    OBVIOUS
  <2>1. CASE Next
    BY <2>1, PoolStep
  <2>2. CASE UNCHANGED vars
    BY <2>2 DEF vars, PoolSound, Agrees
  <2> QED
    BY <2>1, <2>2
<1> QED
  BY <1>1, <1>2, PTL DEF Spec

(* Every pipe of the pool keeps the type its declaration in pipe.h gives   *)
(* it: the positions stay inside the buffer and the count within its size. *)
THEOREM PipesTyped == Spec => []TypeOK
<1>1. PoolSound /\ reply.n \in Int => TypeOK
  BY PoolSoundIsInvariant
<1> QED
  BY <1>1, SpecPoolSound, PTL

(* pipe_read and pipe_write, each of which moves its own position, never   *)
(* disagree with count about how many bytes lie in the ring.               *)
THEOREM PositionsStayAgreed == Spec => []PositionsAgree
<1>1. PoolSound /\ reply.n \in Int => PositionsAgree
  BY PoolSoundIsInvariant
<1> QED
  BY <1>1, SpecPoolSound, PTL

(* The rings of pipe.c are queues: for every size of the pool and of the   *)
(* buffer, every call moves and returns what it would on plain queues.     *)
THEOREM RingImplementsQueues == Spec => ImplementsQueues
<1>1. Init => Queues!Init
  BY PoolInit
<1>2. PoolSound /\ [Next]_vars => [Queues!Next]_(Queues!vars)
  <2> SUFFICES ASSUME PoolSound, [Next]_vars
               PROVE  [Queues!Next]_(Queues!vars)
    OBVIOUS
  <2>1. CASE Next
    BY <2>1, PoolStep
  <2>2. CASE UNCHANGED vars
    BY <2>2 DEF vars, Queues!vars, Front
  <2> QED
    BY <2>1, <2>2
<1> QED
  BY <1>1, <1>2, SpecPoolSound, PTL DEF Spec, ImplementsQueues, Queues!Spec

=============================================================================
