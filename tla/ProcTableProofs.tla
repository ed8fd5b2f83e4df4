-------------------------- MODULE ProcTableProofs --------------------------
(***************************************************************************)
(* What the operations of ProcTable do to a table whose blocks are of some *)
(* set B: B stands for the blocks of Scheduler and for those of Shell,     *)
(* which have more fields.  Each operation keeps the table well typed,     *)
(* leaves the blocks above nr_procese alone, moves every other field of a  *)
(* block along (Like), and keeps the table Orderly: no block in use is     *)
(* UNUSED or TERMINATED, and none but the current one is RUNNING.  The     *)
(* last lemmas are about whose turn is next (ToCome).                      *)
(***************************************************************************)
EXTENDS ProcTable, NaturalLemmas, TLAPS

Scheduling == {"state", "remaining", "wait_ticks"}

(* Blocks the scheduling fields of which can be written.                   *)
ControlBlocks(B) ==
  \A b \in B :
    /\ Scheduling \subseteq DOMAIN b
    /\ b.state \in States /\ b.remaining \in Int /\ b.wait_ticks \in Nat
    /\ \A s \in States : [b EXCEPT !.state = s] \in B
    /\ \A r \in Int : [b EXCEPT !.remaining = r] \in B
    /\ \A w \in Nat : [b EXCEPT !.wait_ticks = w] \in B

TablesOf(B) ==
  [proc_table : [Slots -> B], nr_procese : 0 .. MAX_PROCESSES,
   current : -1 .. MAX_PROCESSES - 1, slice : Nat, preemptive_mode : BOOLEAN]

(* Block b is block c but for the scheduling fields.                       *)
Like(b, c) ==
  /\ DOMAIN b = DOMAIN c
  /\ \A f \in DOMAIN c \ Scheduling : b[f] = c[f]

Orderly(k) ==
  \A i \in InUse(k) :
    /\ k.proc_table[i].state \in {"READY", "RUNNING", "WAITING"}
    /\ k.proc_table[i].state = "RUNNING" => i = k.current

(* From k to m, each process keeps its index, and the rest of the table is *)
(* left alone; another of them may be current.                             *)
KeepsBlocks(k, m) ==
  /\ m.nr_procese = k.nr_procese
  /\ m.current \in {k.current} \cup InUse(k)
  /\ \A i \in Slots : Like(m.proc_table[i], k.proc_table[i])
  /\ \A i \in Slots \ InUse(k) : m.proc_table[i] = k.proc_table[i]

(* From k to m, no process loses ticks.                                    *)
KeepsTicks(k, m) ==
  \A i \in Slots : m.proc_table[i].remaining = k.proc_table[i].remaining

(* From k to m, the current process leaves: the others close the gap.      *)
Before(k, i) == IF i < k.current THEN i ELSE i + 1

Compacts(k, m) ==
  /\ m.nr_procese = k.nr_procese - 1
  /\ m.current \in -1 .. m.nr_procese - 1
  /\ \A i \in InUse(m) : /\ Before(k, i) \in InUse(k) \ {k.current}
                         /\ Like(m.proc_table[i], k.proc_table[Before(k, i)])
  /\ m.proc_table[k.nr_procese - 1].state = "UNUSED"
  /\ \A i \in Slots \ InUse(k) : m.proc_table[i] = k.proc_table[i]

----------------------------------------------------------------------------
(***************************************************************************)
(* Blocks.                                                                 *)
(***************************************************************************)
LEMMA LikeItself == ASSUME NEW b PROVE Like(b, b)
BY DEF Like

LEMMA LikeChain ==
  ASSUME NEW a, NEW b, NEW c, Like(a, b), Like(b, c)
  PROVE  Like(a, c)
BY DEF Like

LEMMA StateWritten ==
  ASSUME NEW B, ControlBlocks(B), NEW b \in B, NEW s \in States
  PROVE  LET c == [b EXCEPT !.state = s]
         IN  /\ c \in B /\ Like(c, b)
             /\ c.state = s /\ c.remaining = b.remaining /\ c.wait_ticks = b.wait_ticks
<1> DEFINE c == [b EXCEPT !.state = s]
<1>1. Scheduling \subseteq DOMAIN b /\ c \in B
  BY DEF ControlBlocks
<1>2. DOMAIN c = DOMAIN b /\ \A f \in DOMAIN b : c[f] = IF f = "state" THEN s ELSE b[f]
  OBVIOUS
<1> HIDE DEF c
<1>3. c.state = s /\ c.remaining = b.remaining /\ c.wait_ticks = b.wait_ticks
  BY <1>1, <1>2 DEF Scheduling
<1>4. Like(c, b)
  BY <1>2 DEF Like, Scheduling
<1> QED
  BY <1>1, <1>3, <1>4 DEF c

LEMMA RemainingWritten ==
  ASSUME NEW B, ControlBlocks(B), NEW b \in B, NEW r \in Int
  PROVE  LET c == [b EXCEPT !.remaining = r]
         IN  /\ c \in B /\ Like(c, b)
             /\ c.state = b.state /\ c.remaining = r /\ c.wait_ticks = b.wait_ticks
<1> DEFINE c == [b EXCEPT !.remaining = r]
<1>1. Scheduling \subseteq DOMAIN b /\ c \in B
  BY DEF ControlBlocks
<1>2. DOMAIN c = DOMAIN b /\ \A f \in DOMAIN b : c[f] = IF f = "remaining" THEN r ELSE b[f]
  OBVIOUS
<1> HIDE DEF c
<1>3. c.state = b.state /\ c.remaining = r /\ c.wait_ticks = b.wait_ticks
  BY <1>1, <1>2 DEF Scheduling
<1>4. Like(c, b)
  BY <1>2 DEF Like, Scheduling
<1> QED
  BY <1>1, <1>3, <1>4 DEF c

LEMMA WaitWritten ==
  ASSUME NEW B, ControlBlocks(B), NEW b \in B, NEW w \in Nat
  PROVE  LET c == [b EXCEPT !.wait_ticks = w]
         IN  /\ c \in B /\ Like(c, b)
             /\ c.state = b.state /\ c.remaining = b.remaining /\ c.wait_ticks = w
<1> DEFINE c == [b EXCEPT !.wait_ticks = w]
<1>1. Scheduling \subseteq DOMAIN b /\ c \in B
  BY DEF ControlBlocks
<1>2. DOMAIN c = DOMAIN b /\ \A f \in DOMAIN b : c[f] = IF f = "wait_ticks" THEN w ELSE b[f]
  OBVIOUS
<1> HIDE DEF c
<1>3. c.state = b.state /\ c.remaining = b.remaining /\ c.wait_ticks = w
  BY <1>1, <1>2 DEF Scheduling
<1>4. Like(c, b)
  BY <1>2 DEF Like, Scheduling
<1> QED
  BY <1>1, <1>3, <1>4 DEF c

(* A block that begins to wait.                                            *)
Parked(b, s, w) == [b EXCEPT !.state = s, !.wait_ticks = w]

LEMMA ParkedBlock ==
  ASSUME NEW B, ControlBlocks(B), NEW b \in B, NEW s \in States, NEW w \in Nat
  PROVE  /\ Parked(b, s, w) \in B /\ Like(Parked(b, s, w), b)
         /\ Parked(b, s, w).state = s /\ Parked(b, s, w).remaining = b.remaining
         /\ Parked(b, s, w).wait_ticks = w
<1> DEFINE d == [b EXCEPT !.state = s]
           c == [d EXCEPT !.wait_ticks = w]
<1>1. d \in B /\ Like(d, b) /\ d.state = s /\ d.remaining = b.remaining
  BY StateWritten
<1>2. c = Parked(b, s, w)
  BY DEF Parked
<1> HIDE DEF d
<1>3. c \in B /\ Like(c, d) /\ c.state = s /\ c.remaining = b.remaining /\ c.wait_ticks = w
  BY <1>1, WaitWritten
<1> HIDE DEF c
<1> QED
  BY <1>1, <1>2, <1>3, LikeChain

----------------------------------------------------------------------------
(***************************************************************************)
(* Tables.                                                                 *)
(***************************************************************************)
LEMMA InUseAreSlots ==
  ASSUME NEW B, NEW k \in TablesOf(B)
  PROVE  /\ InUse(k) \subseteq Slots
         /\ \A i \in Slots : k.proc_table[i] \in B
         /\ \A i \in InUse(k) : i \in Nat /\ i < k.nr_procese
         /\ k.nr_procese \in Nat /\ k.nr_procese <= MAX_PROCESSES
BY TableAssumption DEF InUse, Slots, TablesOf

LEMMA KeepsItself == ASSUME NEW k PROVE KeepsBlocks(k, k)
BY LikeItself DEF KeepsBlocks

LEMMA KeepsChain ==
  ASSUME NEW k, NEW l, NEW m, KeepsBlocks(k, l), KeepsBlocks(l, m)
  PROVE  KeepsBlocks(k, m)
<1>1. InUse(l) = InUse(k)
  BY DEF KeepsBlocks, InUse
<1> QED
  BY <1>1, LikeChain DEF KeepsBlocks

LEMMA KeepsThenCompacts ==
  ASSUME NEW k, NEW l, NEW m, KeepsBlocks(k, l), l.current = k.current, Compacts(l, m),
         InUse(k) \subseteq Slots
  PROVE  Compacts(k, m)
<1>1. InUse(l) = InUse(k) /\ \A i : Before(l, i) = Before(k, i)
  BY DEF KeepsBlocks, InUse, Before
<1> QED
  BY <1>1, LikeChain DEF KeepsBlocks, Compacts

(* A block in use is written over with one like it.                        *)
LEMMA OneWritten ==
  ASSUME NEW B, NEW k \in TablesOf(B), NEW i \in InUse(k), NEW b \in B,
         Like(b, k.proc_table[i])
  PROVE  LET m == [k EXCEPT !.proc_table = [k.proc_table EXCEPT ![i] = b]]
         IN  /\ m \in TablesOf(B) /\ KeepsBlocks(k, m)
             /\ m.nr_procese = k.nr_procese /\ m.current = k.current
             /\ m.slice = k.slice /\ m.preemptive_mode = k.preemptive_mode
             /\ m.proc_table[i] = b
             /\ \A j \in Slots \ {i} : m.proc_table[j] = k.proc_table[j]
             /\ InUse(m) = InUse(k)
             /\ b.remaining = k.proc_table[i].remaining => KeepsTicks(k, m)
<1> DEFINE t == [k.proc_table EXCEPT ![i] = b]
           m == [k EXCEPT !.proc_table = t]
<1>1. i \in Slots
  BY InUseAreSlots
<1>2. /\ t \in [Slots -> B] /\ t[i] = b
      /\ \A j \in Slots \ {i} : t[j] = k.proc_table[j]
  BY <1>1 DEF TablesOf
<1> HIDE DEF t
<1>3. /\ m \in TablesOf(B)
      /\ m.nr_procese = k.nr_procese /\ m.current = k.current
      /\ m.slice = k.slice /\ m.preemptive_mode = k.preemptive_mode
      /\ m.proc_table = t
  BY <1>2 DEF TablesOf
<1> HIDE DEF m
<1>4. KeepsBlocks(k, m)
  <2>1. \A j \in Slots : Like(m.proc_table[j], k.proc_table[j])
    <3> TAKE j \in Slots
    <3>1. CASE j = i
      BY <1>2, <1>3, <3>1
    <3>2. CASE j # i
      BY <1>2, <1>3, <3>2, LikeItself
    <3> QED
      BY <3>1, <3>2
  <2> QED
    BY <1>2, <1>3, <2>1 DEF KeepsBlocks
<1>5. InUse(m) = InUse(k)
  BY <1>3 DEF InUse
<1>6. b.remaining = k.proc_table[i].remaining => KeepsTicks(k, m)
  BY <1>2, <1>3 DEF KeepsTicks
<1> QED
  BY <1>2, <1>3, <1>4, <1>5, <1>6 DEF m, t

----------------------------------------------------------------------------
(***************************************************************************)
(* Whose turn it is.                                                       *)
(***************************************************************************)
(* The remainder C computes for the indices of pick_next_ready.            *)
LEMMA CRemRange ==
  ASSUME NEW a \in Int, a >= -1, NEW n \in Nat \ {0}
  PROVE  CRem(a, n) \in -1 .. n - 1
<1>1. CASE a < 0
  <2>1. a = -1 /\ 1 % n \in {0, 1}
    BY <1>1
  <2> QED
    BY <1>1, <2>1 DEF CRem
<1>2. CASE a >= 0
  <2>1. a \in Nat /\ a % n \in 0 .. n - 1
    BY <1>2
  <2> QED
    BY <1>2, <2>1 DEF CRem
<1> QED
  BY <1>1, <1>2

(* pick_next_ready returns -1 or the index of a runnable process in use.   *)
LEMMA PickIsRunnable ==
  ASSUME NEW B, NEW k \in TablesOf(B), NEW from \in -1 .. MAX_PROCESSES - 1
  PROVE  /\ PickNextReady(k, from) \in -1 .. k.nr_procese - 1
         /\ PickNextReady(k, from) >= 0 =>
              /\ PickNextReady(k, from) \in InUse(k)
              /\ Runnable(k.proc_table[PickNextReady(k, from)].state)
<1> DEFINE idx(i) == CRem(from + i, k.nr_procese)
           hits   == {i \in InUse(k) : Runnable(StateAt(k, idx(i)))}
<1>0. k.nr_procese \in Nat /\ from \in Int /\ from >= -1
  BY TableAssumption DEF TablesOf
<1>1. CASE hits = {}
  BY <1>0, <1>1 DEF PickNextReady
<1>2. CASE hits # {}
  <2>1. Min(hits) \in hits
    <3>1. hits \subseteq Nat
      BY <1>0 DEF InUse
    <3> HIDE DEF hits
    <3> QED
      BY <1>2, <3>1, MinInSet
  <2>2. from + Min(hits) >= -1 /\ from + Min(hits) \in Int /\ k.nr_procese \in Nat \ {0}
    BY <1>0, <2>1 DEF InUse
  <2>3. idx(Min(hits)) \in -1 .. k.nr_procese - 1
    BY <2>2, CRemRange
  <2>4. Runnable(StateAt(k, idx(Min(hits))))
    BY <2>1
  <2>5. PickNextReady(k, from) = idx(Min(hits))
    BY <1>2 DEF PickNextReady
  <2> HIDE DEF idx, hits
  <2> QED
    BY <1>0, <2>3, <2>4, <2>5 DEF StateAt, InUse
<1> QED
  BY <1>1, <1>2

(* Starting a turn.                                                        *)
LEMMA Switched ==
  ASSUME NEW B, ControlBlocks(B), NEW k \in TablesOf(B), NEW next \in InUse(k)
  PROVE  LET m == SwitchTo(k, next)
         IN  /\ m \in TablesOf(B) /\ KeepsBlocks(k, m) /\ KeepsTicks(k, m)
             /\ m.current = next /\ m.slice = 0 /\ m.preemptive_mode = k.preemptive_mode
             /\ m.proc_table[next].state = "RUNNING"
             /\ \A i \in Slots \ {next} : m.proc_table[i] = k.proc_table[i]
             /\ CurrentRunning(m)
             /\ Orderly(k) /\ (\A i \in InUse(k) : k.proc_table[i].state = "RUNNING" => i = next)
                  => Orderly(m)
<1> DEFINE b == [k.proc_table[next] EXCEPT !.state = "RUNNING"]
           u == [k EXCEPT !.proc_table = [k.proc_table EXCEPT ![next] = b]]
           m == [u EXCEPT !.current = next, !.slice = 0]
<1>1. next \in Slots /\ k.proc_table[next] \in B /\ next \in -1 .. MAX_PROCESSES - 1
  BY InUseAreSlots, TableAssumption DEF Slots
<1>2. /\ b \in B /\ Like(b, k.proc_table[next]) /\ b.state = "RUNNING"
      /\ b.remaining = k.proc_table[next].remaining
  BY ZenonT(60), <1>1, StateWritten DEF States
<1>3. SwitchTo(k, next) = m
  BY DEF SwitchTo, TablesOf
<1> HIDE DEF b
<1>4. /\ u \in TablesOf(B) /\ KeepsBlocks(k, u) /\ KeepsTicks(k, u) /\ u.nr_procese = k.nr_procese
      /\ u.preemptive_mode = k.preemptive_mode /\ u.proc_table[next] = b
      /\ \A j \in Slots \ {next} : u.proc_table[j] = k.proc_table[j]
      /\ InUse(u) = InUse(k)
  BY <1>2, OneWritten
<1> HIDE DEF u
<1>5. /\ m \in TablesOf(B) /\ m.nr_procese = u.nr_procese /\ m.proc_table = u.proc_table
      /\ m.current = next /\ m.slice = 0 /\ m.preemptive_mode = u.preemptive_mode
  BY <1>1, <1>4 DEF TablesOf
<1> HIDE DEF m
<1>6. KeepsBlocks(k, m) /\ KeepsTicks(k, m) /\ InUse(m) = InUse(k)
  BY <1>4, <1>5 DEF KeepsBlocks, KeepsTicks, InUse
<1>7. CurrentRunning(m)
  BY <1>2, <1>4, <1>5, <1>6 DEF CurrentRunning, CurrentValid
<1>8. ASSUME Orderly(k), \A i \in InUse(k) : k.proc_table[i].state = "RUNNING" => i = next
      PROVE  Orderly(m)
  <2> SUFFICES ASSUME NEW i \in InUse(k)
               PROVE  /\ m.proc_table[i].state \in {"READY", "RUNNING", "WAITING"}
                      /\ m.proc_table[i].state = "RUNNING" => i = m.current
    BY <1>6 DEF Orderly
  <2>1. CASE i = next
    BY <1>2, <1>4, <1>5, <2>1
  <2>2. CASE i # next
    BY <1>4, <1>5, <1>8, <2>2, InUseAreSlots DEF Orderly
  <2> QED
    BY <2>1, <2>2
<1> QED
  BY <1>2, <1>3, <1>4, <1>5, <1>6, <1>7, <1>8

(* update_waiting starts no process.                                       *)
LEMMA Awakened ==
  ASSUME NEW B, ControlBlocks(B), NEW p \in B
  PROVE  /\ Awaken(p) \in B /\ Like(Awaken(p), p) /\ Awaken(p).remaining = p.remaining
         /\ p.state # "WAITING" => Awaken(p) = p
         /\ p.state = "WAITING" => Awaken(p).state \in {"READY", "WAITING"}
         /\ p.state = "WAITING" /\ p.wait_ticks > 1 =>
              Awaken(p).state = "WAITING" /\ Awaken(p).wait_ticks > 0
<1> DEFINE left == IF p.wait_ticks > 0 THEN p.wait_ticks - 1 ELSE p.wait_ticks
           s    == IF left <= 0 THEN "READY" ELSE "WAITING"
<1>1. CASE p.state # "WAITING"
  BY <1>1, LikeItself DEF Awaken
<1>2. CASE p.state = "WAITING"
  <2>1. left \in Nat
    BY DEF ControlBlocks
  <2>2. s \in States /\ s \in {"READY", "WAITING"}
    BY DEF States
  <2>3. Awaken(p) = [p EXCEPT !.wait_ticks = left, !.state = s]
    BY <1>2 DEF Awaken
  <2>4. p.wait_ticks > 1 => s = "WAITING" /\ left > 0
    BY DEF ControlBlocks
  <2> HIDE DEF left, s
  <2>5. Awaken(p) = Parked(p, s, left)
    BY <2>3 DEF Parked
  <2> QED
    BY <1>2, <2>1, <2>2, <2>4, <2>5, ParkedBlock
<1> QED
  BY <1>1, <1>2

LEMMA WaitingUpdated ==
  ASSUME NEW B, ControlBlocks(B), NEW k \in TablesOf(B)
  PROVE  LET m == UpdateWaiting(k)
         IN  /\ m \in TablesOf(B) /\ KeepsBlocks(k, m) /\ KeepsTicks(k, m)
             /\ m.current = k.current /\ m.slice = k.slice
             /\ m.preemptive_mode = k.preemptive_mode
             /\ \A i \in InUse(k) : m.proc_table[i] = Awaken(k.proc_table[i])
             /\ Orderly(k) => Orderly(m)
<1> DEFINE t == [i \in Slots |-> IF i \in InUse(k) THEN Awaken(k.proc_table[i])
                                                  ELSE k.proc_table[i]]
           m == [k EXCEPT !.proc_table = t]
<1>1. \A i \in Slots : k.proc_table[i] \in B
  BY InUseAreSlots
<1>2. /\ t \in [Slots -> B]
      /\ \A i \in InUse(k) : i \in Slots /\ t[i] = Awaken(k.proc_table[i])
      /\ \A i \in Slots \ InUse(k) : t[i] = k.proc_table[i]
  BY <1>1, Awakened, InUseAreSlots
<1> HIDE DEF t
<1>3. /\ m \in TablesOf(B) /\ m.nr_procese = k.nr_procese /\ m.current = k.current
      /\ m.slice = k.slice /\ m.preemptive_mode = k.preemptive_mode /\ m.proc_table = t
  BY <1>2 DEF TablesOf
<1>4. UpdateWaiting(k) = m
  BY DEF UpdateWaiting, t
<1> HIDE DEF m
<1>5. \A i \in Slots : Like(m.proc_table[i], k.proc_table[i])
  BY <1>1, <1>2, <1>3, Awakened, LikeItself
<1>6. KeepsBlocks(k, m) /\ KeepsTicks(k, m) /\ InUse(m) = InUse(k)
  BY <1>1, <1>2, <1>3, <1>5, Awakened DEF KeepsBlocks, KeepsTicks, InUse
<1>7. ASSUME Orderly(k) PROVE Orderly(m)
  BY <1>1, <1>2, <1>3, <1>6, <1>7, Awakened DEF Orderly
<1> QED
  BY <1>2, <1>3, <1>4, <1>6, <1>7

(* The current process stays in its turn, or a runnable one gets its own,  *)
(* or no process is current and none was found.                            *)
LEMMA Dispatched ==
  ASSUME NEW B, ControlBlocks(B), NEW k \in TablesOf(B)
  PROVE  LET m == Dispatch(k)
         IN  /\ m \in TablesOf(B) /\ KeepsBlocks(k, m) /\ KeepsTicks(k, m)
             /\ m.preemptive_mode = k.preemptive_mode
             /\ \A i \in Slots : m.proc_table[i] = k.proc_table[i]
                                 \/ Runnable(k.proc_table[i].state)
             /\ Orderly(k) => Orderly(m)
<1> DEFINE next == PickNextReady(k, k.current)
<1>1. CASE CurrentRunning(k) \/ next < 0
  BY <1>1, KeepsItself DEF Dispatch, KeepsTicks
<1>2. CASE ~(CurrentRunning(k) \/ next < 0)
  <2>1. k.current \in -1 .. MAX_PROCESSES - 1
    BY DEF TablesOf
  <2>2. next \in -1 .. k.nr_procese - 1
    BY <2>1, PickIsRunnable
  <2>3. next \in InUse(k) /\ Runnable(k.proc_table[next].state)
    <3>1. next >= 0
      BY <1>2, <2>2
    <3> QED
      BY <2>1, <3>1, PickIsRunnable
  <2>4. Dispatch(k) = SwitchTo(k, next)
    BY <1>2 DEF Dispatch
  <2>5. Orderly(k) => \A i \in InUse(k) : k.proc_table[i].state # "RUNNING"
    BY <1>2 DEF CurrentRunning, CurrentValid, Orderly
  <2> HIDE DEF next
  <2>6. LET m == SwitchTo(k, next)
        IN  /\ m \in TablesOf(B) /\ KeepsBlocks(k, m) /\ KeepsTicks(k, m)
            /\ m.preemptive_mode = k.preemptive_mode
            /\ \A i \in Slots \ {next} : m.proc_table[i] = k.proc_table[i]
            /\ Orderly(k) /\ (\A i \in InUse(k) : k.proc_table[i].state = "RUNNING" => i = next)
                 => Orderly(m)
    BY <2>3, Switched
  <2> QED
    BY <2>3, <2>4, <2>5, <2>6
<1> QED
  BY <1>1, <1>2

(* With no process RUNNING but next, next may start; without a next, the   *)
(* turn is only counted anew (the end of yield and of Rotate).             *)
LEMMA TurnEnded ==
  ASSUME NEW B, ControlBlocks(B), NEW k \in TablesOf(B), NEW from \in InUse(k)
  PROVE  LET next == PickNextReady(k, from)
             m    == IF next >= 0 THEN SwitchTo(k, next) ELSE [k EXCEPT !.slice = 0]
         IN  /\ m \in TablesOf(B) /\ KeepsBlocks(k, m) /\ KeepsTicks(k, m)
             /\ m.slice = 0 /\ m.preemptive_mode = k.preemptive_mode
             /\ Orderly(k) /\ (\A i \in InUse(k) : k.proc_table[i].state # "RUNNING")
                  => Orderly(m)
<1> DEFINE next == PickNextReady(k, from)
<1>1. from \in -1 .. MAX_PROCESSES - 1
  BY InUseAreSlots DEF Slots
<1>2. next \in -1 .. k.nr_procese - 1 /\ (next >= 0 => next \in InUse(k))
  BY <1>1, PickIsRunnable
<1> HIDE DEF next
<1>3. CASE next >= 0
  BY <1>2, <1>3, Switched DEF next
<1>4. CASE ~(next >= 0)
  <2> DEFINE m == [k EXCEPT !.slice = 0]
  <2>1. /\ m \in TablesOf(B) /\ m.nr_procese = k.nr_procese /\ m.current = k.current
        /\ m.proc_table = k.proc_table /\ m.slice = 0 /\ m.preemptive_mode = k.preemptive_mode
    BY DEF TablesOf
  <2> HIDE DEF m
  <2>2. KeepsBlocks(k, m) /\ KeepsTicks(k, m) /\ (Orderly(k) => Orderly(m))
    BY <2>1, LikeItself DEF KeepsBlocks, KeepsTicks, Orderly, InUse
  <2> QED
    BY <1>4, <2>1, <2>2 DEF m, next
<1> QED
  BY <1>3, <1>4

(* The index after an index in use, cyclically, is in use.                 *)
LEMMA NextIndexInUse ==
  ASSUME NEW B, NEW k \in TablesOf(B), NEW i \in InUse(k)
  PROVE  (i + 1) % k.nr_procese \in InUse(k)
<1>1. k.nr_procese \in Nat \ {0} /\ i + 1 \in Nat
  BY DEF TablesOf, InUse
<1> QED
  BY <1>1 DEF InUse

(* The charge for a tick leaves the states as they are.                    *)
LEMMA Charged ==
  ASSUME NEW B, ControlBlocks(B), NEW k \in TablesOf(B), CurrentRunning(k)
  PROVE  LET m == Charge(k)
         IN  /\ m \in TablesOf(B) /\ KeepsBlocks(k, m)
             /\ m.current = k.current /\ m.preemptive_mode = k.preemptive_mode
             /\ m.slice = k.slice + 1
             /\ \A i \in Slots : m.proc_table[i].state = k.proc_table[i].state
             /\ \A i \in Slots \ {k.current} : m.proc_table[i] = k.proc_table[i]
             /\ m.proc_table[k.current].remaining = k.proc_table[k.current].remaining - 1
             /\ CurrentRunning(m)
             /\ Orderly(k) => Orderly(m)
<1> DEFINE c == k.current
           b == [k.proc_table[c] EXCEPT !.remaining = k.proc_table[c].remaining - 1]
           u == [k EXCEPT !.proc_table = [k.proc_table EXCEPT ![c] = b]]
           m == [u EXCEPT !.slice = k.slice + 1]
<1>1. c \in InUse(k) /\ c \in Slots /\ k.proc_table[c] \in B /\ k.proc_table[c].remaining \in Int
  BY InUseAreSlots DEF CurrentRunning, CurrentValid, ControlBlocks
<1>2. /\ b \in B /\ Like(b, k.proc_table[c]) /\ b.state = k.proc_table[c].state
      /\ b.remaining = k.proc_table[c].remaining - 1
  BY <1>1, RemainingWritten
<1>3. Charge(k) = m
  BY <1>1 DEF Charge, TablesOf, ControlBlocks, Scheduling
<1> HIDE DEF b
<1>4. b \in B /\ Like(b, k.proc_table[c]) /\ c \in InUse(k)
  BY <1>1, <1>2
<1>5. /\ u \in TablesOf(B) /\ KeepsBlocks(k, u) /\ u.nr_procese = k.nr_procese
      /\ u.current = c /\ u.preemptive_mode = k.preemptive_mode
      /\ u.proc_table[c] = b
      /\ \A j \in Slots \ {c} : u.proc_table[j] = k.proc_table[j]
      /\ InUse(u) = InUse(k)
  BY SMTT(60), <1>4, OneWritten
<1> HIDE DEF u
<1>6. /\ m \in TablesOf(B) /\ m.nr_procese = u.nr_procese /\ m.proc_table = u.proc_table
      /\ m.current = c /\ m.slice = k.slice + 1 /\ m.preemptive_mode = u.preemptive_mode
  BY <1>5 DEF TablesOf
<1> HIDE DEF m
<1>7. KeepsBlocks(k, m) /\ InUse(m) = InUse(k)
  BY <1>5, <1>6 DEF KeepsBlocks, InUse
<1>8. \A i \in Slots : m.proc_table[i].state = k.proc_table[i].state
  BY <1>2, <1>5, <1>6
<1>9. CurrentRunning(m)
  BY <1>1, <1>6, <1>7, <1>8 DEF CurrentRunning, CurrentValid
<1>10. Orderly(k) => Orderly(m)
  BY <1>6, <1>7, <1>8, InUseAreSlots DEF Orderly
<1> QED
  BY <1>2, <1>3, <1>5, <1>6, <1>7, <1>8, <1>9, <1>10

(* The end of a full turn.                                                 *)
LEMMA Rotated ==
  ASSUME NEW B, ControlBlocks(B), NEW k \in TablesOf(B), CurrentRunning(k)
  PROVE  LET m == Rotate(k)
         IN  /\ m \in TablesOf(B) /\ KeepsBlocks(k, m) /\ KeepsTicks(k, m)
             /\ m.slice = 0 /\ m.preemptive_mode = k.preemptive_mode
             /\ Orderly(k) => Orderly(m)
<1> DEFINE c == k.current
           b == [k.proc_table[c] EXCEPT !.state = "READY"]
           p == [k EXCEPT !.proc_table = [k.proc_table EXCEPT ![c] = b]]
<1>1. c \in InUse(k) /\ c \in Slots /\ k.proc_table[c] \in B
  BY InUseAreSlots DEF CurrentRunning, CurrentValid
<1>2. /\ b \in B /\ Like(b, k.proc_table[c]) /\ b.state = "READY"
      /\ b.remaining = k.proc_table[c].remaining
  BY ZenonT(60), <1>1, StateWritten DEF States
<1>3. [k EXCEPT !.proc_table[k.current].state = "READY"] = p
  OBVIOUS
<1> HIDE DEF b
<1>4. /\ p \in TablesOf(B) /\ KeepsBlocks(k, p) /\ KeepsTicks(k, p) /\ p.nr_procese = k.nr_procese
      /\ p.current = c /\ p.preemptive_mode = k.preemptive_mode
      /\ p.proc_table[c] = b
      /\ \A j \in Slots \ {c} : p.proc_table[j] = k.proc_table[j]
      /\ InUse(p) = InUse(k)
  BY <1>1, <1>2, OneWritten
<1> DEFINE from == (c + 1) % k.nr_procese
           next == PickNextReady(p, from)
           m    == IF next >= 0 THEN SwitchTo(p, next) ELSE [p EXCEPT !.slice = 0]
<1>5. Rotate(k) = m
  BY <1>3 DEF Rotate
<1> HIDE DEF p
<1>6. from \in InUse(p)
  BY <1>1, <1>4, NextIndexInUse
<1>7. Orderly(k) => Orderly(p) /\ \A i \in InUse(p) : p.proc_table[i].state # "RUNNING"
  BY <1>1, <1>2, <1>4, InUseAreSlots DEF Orderly
<1> HIDE DEF from
<1>8. /\ m \in TablesOf(B) /\ KeepsBlocks(p, m) /\ KeepsTicks(p, m)
      /\ m.slice = 0 /\ m.preemptive_mode = p.preemptive_mode
      /\ Orderly(p) /\ (\A i \in InUse(p) : p.proc_table[i].state # "RUNNING") => Orderly(m)
  BY <1>4, <1>6, TurnEnded
<1> HIDE DEF m
<1>9. KeepsBlocks(k, m) /\ KeepsTicks(k, m)
  BY <1>4, <1>8, KeepsChain DEF KeepsTicks
<1> QED
  BY <1>4, <1>5, <1>7, <1>8, <1>9

LEMMA Yielded ==
  ASSUME NEW B, ControlBlocks(B), NEW k \in TablesOf(B)
  PROVE  LET m == Yield(k)
         IN  /\ m \in TablesOf(B) /\ KeepsBlocks(k, m) /\ KeepsTicks(k, m)
             /\ Orderly(k) => Orderly(m)
<1> DEFINE c == k.current
           b == Parked(k.proc_table[c], "WAITING", YieldWait)
           q == [k EXCEPT !.proc_table = [k.proc_table EXCEPT ![c] = b]]
           p == IF k.proc_table[c].state = "RUNNING" THEN q ELSE k
<1>1. CASE k.preemptive_mode \/ ~CurrentValid(k)
  BY <1>1, KeepsItself DEF Yield, KeepsTicks
<1>2. CASE ~(k.preemptive_mode \/ ~CurrentValid(k))
  <2>1. c \in InUse(k) /\ c \in Slots /\ k.proc_table[c] \in B
    BY <1>2, InUseAreSlots DEF CurrentValid
  <2>2. /\ b \in B /\ Like(b, k.proc_table[c]) /\ b.state = "WAITING"
        /\ b.remaining = k.proc_table[c].remaining
    <3>1. "WAITING" \in States /\ YieldWait \in Nat
      BY TableAssumption DEF States
    <3> QED
      BY <2>1, <3>1, ParkedBlock
  <2>3. [k EXCEPT !.proc_table[c].state = "WAITING", !.proc_table[c].wait_ticks = YieldWait] = q
    BY <2>1 DEF TablesOf, Parked
  <2> HIDE DEF b
  <2>4. /\ q \in TablesOf(B) /\ KeepsBlocks(k, q) /\ KeepsTicks(k, q) /\ q.nr_procese = k.nr_procese
        /\ q.current = c /\ q.proc_table[c] = b
        /\ \A j \in Slots \ {c} : q.proc_table[j] = k.proc_table[j]
        /\ InUse(q) = InUse(k)
    BY <2>1, <2>2, OneWritten
  <2> DEFINE from == (c + 1) % k.nr_procese
             next == PickNextReady(p, from)
             m    == IF next >= 0 THEN SwitchTo(p, next) ELSE [p EXCEPT !.slice = 0]
  <2>5. Yield(k) = m
    BY <1>2, <2>3 DEF Yield
  <2> HIDE DEF q
  <2>6. /\ p \in TablesOf(B) /\ KeepsBlocks(k, p) /\ KeepsTicks(k, p) /\ p.nr_procese = k.nr_procese
        /\ InUse(p) = InUse(k)
        /\ Orderly(k) => Orderly(p) /\ \A i \in InUse(p) : p.proc_table[i].state # "RUNNING"
    <3>1. CASE k.proc_table[c].state = "RUNNING"
      BY <2>1, <2>2, <2>4, <3>1, InUseAreSlots DEF Orderly
    <3>2. CASE k.proc_table[c].state # "RUNNING"
      BY <2>1, <3>2, KeepsItself DEF Orderly, KeepsTicks
    <3> QED
      BY <3>1, <3>2
  <2> HIDE DEF p
  <2>7. from \in InUse(p)
    BY <2>1, <2>6, NextIndexInUse
  <2> HIDE DEF from
  <2>8. /\ m \in TablesOf(B) /\ KeepsBlocks(p, m) /\ KeepsTicks(p, m)
        /\ Orderly(p) /\ (\A i \in InUse(p) : p.proc_table[i].state # "RUNNING") => Orderly(m)
    BY <2>6, <2>7, TurnEnded
  <2> HIDE DEF m
  <2>9. KeepsBlocks(k, m) /\ KeepsTicks(k, m)
    BY <2>6, <2>8, KeepsChain DEF KeepsTicks
  <2> QED
    BY <2>5, <2>6, <2>8, <2>9
<1> QED
  BY <1>1, <1>2

(* kill_process only takes the ticks a process has left.                   *)
LEMMA Killed ==
  ASSUME NEW B, ControlBlocks(B), NEW k \in TablesOf(B), NEW pid
  PROVE  LET m == Kill(k, pid)
         IN  /\ m \in TablesOf(B) /\ KeepsBlocks(k, m)
             /\ m.current = k.current /\ m.slice = k.slice
             /\ m.preemptive_mode = k.preemptive_mode
             /\ \A i \in Slots : m.proc_table[i].state = k.proc_table[i].state
             /\ \A i \in Slots \ {pid} : m.proc_table[i] = k.proc_table[i]
             /\ pid \in InUse(k) => m.proc_table[pid].remaining = 0
             /\ CurrentRunning(k) => CurrentRunning(m)
             /\ Orderly(k) => Orderly(m)
<1> DEFINE b == [k.proc_table[pid] EXCEPT !.remaining = 0]
           m == [k EXCEPT !.proc_table = [k.proc_table EXCEPT ![pid] = b]]
<1>1. CASE pid \notin InUse(k)
  BY <1>1, KeepsItself DEF Kill
<1>2. CASE pid \in InUse(k)
  <2>1. pid \in Slots /\ k.proc_table[pid] \in B
    BY <1>2, InUseAreSlots
  <2>2. /\ b \in B /\ Like(b, k.proc_table[pid]) /\ b.state = k.proc_table[pid].state
        /\ b.remaining = 0
    BY <2>1, RemainingWritten
  <2>3. Kill(k, pid) = m
    BY <1>2 DEF Kill
  <2> HIDE DEF b
  <2>4. /\ m \in TablesOf(B) /\ KeepsBlocks(k, m) /\ m.nr_procese = k.nr_procese
        /\ m.current = k.current /\ m.slice = k.slice
        /\ m.preemptive_mode = k.preemptive_mode
        /\ m.proc_table[pid] = b
        /\ \A j \in Slots \ {pid} : m.proc_table[j] = k.proc_table[j]
        /\ InUse(m) = InUse(k)
    BY <1>2, <2>2, OneWritten
  <2> HIDE DEF m
  <2>5. \A j \in Slots : m.proc_table[j].state = k.proc_table[j].state
    BY <2>2, <2>4
  <2>6. /\ CurrentRunning(k) => CurrentRunning(m)
        /\ Orderly(k) => Orderly(m)
    BY <2>4, <2>5, InUseAreSlots DEF CurrentRunning, CurrentValid, Orderly
  <2> QED
    BY <2>2, <2>3, <2>4, <2>5, <2>6
<1> QED
  BY <1>1, <1>2

(* wait_process only changes the state and the wait of one process.        *)
LEMMA Waited ==
  ASSUME NEW B, ControlBlocks(B), NEW k \in TablesOf(B), NEW pid, NEW ticks \in Nat
  PROVE  LET m == Wait(k, pid, ticks)
         IN  /\ m \in TablesOf(B) /\ KeepsBlocks(k, m) /\ KeepsTicks(k, m)
             /\ m.current = k.current
             /\ \A i \in Slots : m.proc_table[i] # k.proc_table[i] =>
                  m.proc_table[i].state = "WAITING"
             /\ Orderly(k) => Orderly(m)
<1> DEFINE t == IF ticks <= 0 THEN DefaultWait ELSE ticks
           b == Parked(k.proc_table[pid], "WAITING", t)
           m == [k EXCEPT !.proc_table = [k.proc_table EXCEPT ![pid] = b]]
           waits == pid \in InUse(k)
                    /\ k.proc_table[pid].state \notin {"TERMINATED", "UNUSED"}
<1>1. CASE ~waits
  BY <1>1, KeepsItself DEF Wait, KeepsTicks
<1>2. CASE waits
  <2>1. pid \in InUse(k) /\ pid \in Slots /\ k.proc_table[pid] \in B
    BY <1>2, InUseAreSlots
  <2>2. t \in Nat
    BY TableAssumption
  <2>3. Wait(k, pid, ticks)
          = [k EXCEPT !.proc_table[pid].state = "WAITING", !.proc_table[pid].wait_ticks = t]
    BY <1>2 DEF Wait
  <2> HIDE DEF t
  <2>4. /\ b \in B /\ Like(b, k.proc_table[pid]) /\ b.state = "WAITING"
        /\ b.remaining = k.proc_table[pid].remaining
    <3>1. "WAITING" \in States
      BY DEF States
    <3> QED
      BY <2>1, <2>2, <3>1, ParkedBlock
  <2>5. Wait(k, pid, ticks) = m
    BY <2>1, <2>3 DEF TablesOf, Parked
  <2> HIDE DEF b
  <2>6. /\ m \in TablesOf(B) /\ KeepsBlocks(k, m) /\ KeepsTicks(k, m) /\ m.current = k.current
        /\ m.proc_table[pid] = b
        /\ \A j \in Slots \ {pid} : m.proc_table[j] = k.proc_table[j]
        /\ InUse(m) = InUse(k)
    BY <2>1, <2>4, OneWritten
  <2> HIDE DEF m
  <2>7. Orderly(k) => Orderly(m)
    BY <2>4, <2>6, InUseAreSlots DEF Orderly
  <2> QED
    BY <2>4, <2>5, <2>6, <2>7
<1> QED
  BY <1>1, <1>2

----------------------------------------------------------------------------
(***************************************************************************)
(* Who is in the table.                                                    *)
(***************************************************************************)
(* Compaction: below the last index each block is that of the process at   *)
(* this index or at the next one.                                          *)
Shifted(k) ==
  [i \in Slots |->
     IF i = k.nr_procese - 1 THEN [k.proc_table[i] EXCEPT !.state = "UNUSED"]
     ELSE IF i \in k.current .. k.nr_procese - 1 THEN k.proc_table[i + 1]
     ELSE k.proc_table[i]]

LEMMA ShiftedBlocks ==
  ASSUME NEW B, ControlBlocks(B), NEW k \in TablesOf(B), CurrentValid(k)
  PROVE  LET last == k.nr_procese - 1
         IN  /\ Shifted(k) \in [Slots -> B]
             /\ \A i \in 0 .. last - 1 : /\ Shifted(k)[i] = k.proc_table[Before(k, i)]
                                         /\ Before(k, i) \in InUse(k) \ {k.current}
             /\ Shifted(k)[last].state = "UNUSED"
             /\ \A i \in Slots \ InUse(k) : Shifted(k)[i] = k.proc_table[i]
<1> DEFINE last == k.nr_procese - 1
           c == k.current
<1>1. /\ c \in Slots /\ c \in 0 .. last /\ last \in Slots
      /\ InUse(k) = 0 .. last /\ InUse(k) \subseteq Slots
      /\ c \in Nat /\ last \in Nat
  BY InUseAreSlots, TableAssumption DEF CurrentValid, InUse, TablesOf, Slots
<1>2. \A i \in 0 .. last - 1 : /\ i \in Slots /\ i + 1 \in Slots /\ i # last
                               /\ Before(k, i) \in 0 .. last /\ Before(k, i) # c
                               /\ (i \in c .. last <=> ~(i < c))
  BY <1>1, TableAssumption DEF Slots, Before
<1>3. ASSUME NEW i \in 0 .. last - 1 PROVE Shifted(k)[i] = k.proc_table[Before(k, i)]
  BY <1>2 DEF Shifted, Before
<1>4. \A i \in Slots : k.proc_table[i] \in B
  BY InUseAreSlots
<1>5. [k.proc_table[last] EXCEPT !.state = "UNUSED"] \in B
      /\ [k.proc_table[last] EXCEPT !.state = "UNUSED"].state = "UNUSED"
  <2>1. "UNUSED" \in States /\ k.proc_table[last] \in B
    BY <1>1, <1>4 DEF States
  <2> QED
    BY <2>1, StateWritten
<1>6. Shifted(k)[last].state = "UNUSED"
  BY <1>1, <1>5 DEF Shifted
<1>7. ASSUME NEW i \in Slots \ InUse(k) PROVE Shifted(k)[i] = k.proc_table[i]
  <2>1. i # last /\ i \notin c .. last
    BY <1>1 DEF Slots
  <2> QED
    BY <2>1 DEF Shifted
<1>8. Shifted(k) \in [Slots -> B]
  <2> SUFFICES ASSUME NEW i \in Slots PROVE Shifted(k)[i] \in B
    BY DEF Shifted
  <2>1. CASE i = last
    BY <1>5, <2>1 DEF Shifted
  <2>2. CASE i \in 0 .. last - 1
    BY <1>1, <1>2, <1>3, <1>4, <2>2
  <2>3. CASE i \notin InUse(k)
    BY <1>4, <1>7, <2>3
  <2> QED
    BY <1>1, <2>1, <2>2, <2>3 DEF Slots
<1> QED
  BY <1>1, <1>2, <1>3, <1>6, <1>7, <1>8

LEMMA Reaped ==
  ASSUME NEW B, ControlBlocks(B), NEW k \in TablesOf(B), CurrentValid(k)
  PROVE  LET m == Reap(k)
         IN  /\ m \in TablesOf(B) /\ Compacts(k, m)
             /\ m.preemptive_mode = k.preemptive_mode
             /\ m.nr_procese > 0 =>
                  m.slice = 0 /\ m.current = k.current % m.nr_procese
             /\ \A i \in InUse(m) :
                  m.proc_table[i].remaining = k.proc_table[Before(k, i)].remaining
             /\ Orderly(k) => Orderly(m)
<1> DEFINE last == k.nr_procese - 1
           c    == k.current
           t    == Shifted(k)
           next == c % last
<1>1. /\ c \in 0 .. last /\ last \in Nat /\ last < MAX_PROCESSES /\ last \in Slots
      /\ InUse(k) = 0 .. last /\ InUse(k) \subseteq Slots
  BY InUseAreSlots, TableAssumption DEF CurrentValid, InUse, TablesOf, Slots
<1>2. /\ t \in [Slots -> B]
      /\ \A i \in 0 .. last - 1 : /\ t[i] = k.proc_table[Before(k, i)]
                                  /\ Before(k, i) \in InUse(k) \ {c}
      /\ t[last].state = "UNUSED"
      /\ \A i \in Slots \ InUse(k) : t[i] = k.proc_table[i]
  BY ShiftedBlocks
<1>3. CASE last = 0
  <2> DEFINE m == [k EXCEPT !.proc_table = t, !.nr_procese = 0, !.current = -1]
  <2>1. Reap(k) = m
    BY <1>3 DEF Reap, Shifted
  <2> HIDE DEF t
  <2>2. 0 \in 0 .. MAX_PROCESSES /\ -1 \in -1 .. MAX_PROCESSES - 1
    BY TableAssumption
  <2>3. /\ m \in TablesOf(B) /\ m.nr_procese = 0 /\ m.current = -1 /\ m.proc_table = t
        /\ m.preemptive_mode = k.preemptive_mode
    BY <1>2, <2>2 DEF TablesOf
  <2> HIDE DEF m
  <2>4. InUse(m) = {}
    BY <2>3 DEF InUse
  <2>5. Compacts(k, m)
    BY <1>2, <1>3, <2>3, <2>4 DEF Compacts
  <2>6. Orderly(m)
    BY <2>4 DEF Orderly
  <2> QED
    BY <2>1, <2>3, <2>4, <2>5, <2>6
<1>4. CASE last # 0
  <2> DEFINE s == IF t[next].state = "READY" THEN "RUNNING" ELSE t[next].state
             b == [t[next] EXCEPT !.state = s]
             u == [t EXCEPT ![next] = b]
             m == [k EXCEPT !.proc_table = u, !.nr_procese = last,
                            !.current = next, !.slice = 0]
  <2>1. Reap(k) = m
    BY <1>4 DEF Reap, Shifted
  <2> HIDE DEF t
  <2>2. next = c % last /\ next \in 0 .. last - 1 /\ 0 .. last - 1 \subseteq Slots
    <3>1. last \in Nat \ {0} /\ c \in Nat
      BY <1>1, <1>4
    <3> HIDE DEF last, c
    <3>2. c % last \in 0 .. last - 1
      BY <3>1
    <3> QED
      BY <1>1, <3>1, <3>2, TableAssumption DEF Slots
  <2> HIDE DEF next
  <2>3. t[next] \in B /\ s \in States
    BY <1>2, <2>2 DEF ControlBlocks, States
  <2>4. /\ b \in B /\ Like(b, t[next]) /\ b.state = s
        /\ b.remaining = t[next].remaining
    <3> HIDE DEF s
    <3> QED
      BY <2>3, StateWritten
  <2> HIDE DEF b
  <2>5. /\ u \in [Slots -> B] /\ u[next] = b
        /\ \A i \in Slots \ {next} : u[i] = t[i]
    BY <1>2, <2>2, <2>4
  <2> HIDE DEF u
  <2>6. next \in -1 .. MAX_PROCESSES - 1 /\ last \in 0 .. MAX_PROCESSES
    BY <1>1, <2>2, TableAssumption
  <2>7. /\ m \in TablesOf(B) /\ m.nr_procese = last /\ m.current = next
        /\ m.proc_table = u /\ m.slice = 0 /\ m.preemptive_mode = k.preemptive_mode
    BY <2>5, <2>6 DEF TablesOf
  <2> HIDE DEF m
  <2>8. InUse(m) = 0 .. last - 1
    BY <2>7 DEF InUse
  <2>9. \A i \in 0 .. last - 1 :
          /\ Like(m.proc_table[i], k.proc_table[Before(k, i)])
          /\ m.proc_table[i].remaining = k.proc_table[Before(k, i)].remaining
    <3> TAKE i \in 0 .. last - 1
    <3>1. i \in Slots /\ t[i] = k.proc_table[Before(k, i)]
      BY <1>2, <2>2
    <3>2. CASE i = next
      BY <2>4, <2>5, <2>7, <3>1, <3>2
    <3>3. CASE i # next
      BY <2>5, <2>7, <3>1, <3>3, LikeItself
    <3> QED
      BY <3>2, <3>3
  <2>10. Compacts(k, m)
    <3>1. last # next /\ \A i \in Slots \ InUse(k) : i # next
      BY <1>1, <2>2
    <3>2. m.proc_table[last].state = "UNUSED"
      BY <1>1, <1>2, <2>5, <2>7, <3>1
    <3>3. \A i \in Slots \ InUse(k) : m.proc_table[i] = k.proc_table[i]
      BY <1>2, <2>5, <2>7, <3>1
    <3>4. m.current \in -1 .. m.nr_procese - 1
      BY <1>1, <2>2, <2>7
    <3> QED
      BY <1>2, <2>7, <2>8, <2>9, <3>2, <3>3, <3>4 DEF Compacts
  <2>11. ASSUME Orderly(k) PROVE Orderly(m)
    <3> SUFFICES ASSUME NEW i \in 0 .. last - 1
                 PROVE  /\ m.proc_table[i].state \in {"READY", "RUNNING", "WAITING"}
                        /\ m.proc_table[i].state = "RUNNING" => i = m.current
      BY <2>8 DEF Orderly
    <3>1. t[i].state \in {"READY", "WAITING"}
      BY <1>2, <2>11 DEF Orderly
    <3>2. CASE i = next
      BY <2>4, <2>5, <2>7, <3>1, <3>2
    <3>3. CASE i # next
      BY <2>2, <2>5, <2>7, <3>1, <3>3
    <3> QED
      BY <3>2, <3>3
  <2> QED
    BY <2>1, <2>2, <2>7, <2>8, <2>9, <2>10, <2>11
<1> QED
  BY <1>3, <1>4

(* Whatever the tick does after entry(): the processes keep their indices, *)
(* or the current one leaves.                                              *)
LEMMA EntryDone ==
  ASSUME NEW B, ControlBlocks(B), NEW k \in TablesOf(B), CurrentRunning(k)
  PROVE  LET m == AfterEntry(k)
         IN  /\ m \in TablesOf(B) /\ (KeepsBlocks(k, m) \/ Compacts(k, m))
             /\ m.nr_procese > 0 /\ m.preemptive_mode => m.slice < QUANTUM
             /\ Orderly(k) => Orderly(m)
<1> DEFINE l == Charge(k)
           m == AfterEntry(k)
<1>1. /\ l \in TablesOf(B) /\ KeepsBlocks(k, l) /\ l.current = k.current
      /\ CurrentRunning(l) /\ (Orderly(k) => Orderly(l))
  BY Charged
<1>2. /\ l.proc_table[l.current].remaining <= 0 => m = Reap(l)
      /\ ~(l.proc_table[l.current].remaining <= 0) =>
           m = IF l.preemptive_mode /\ l.slice >= QUANTUM THEN Rotate(l) ELSE l
  BY DEF AfterEntry
<1> HIDE DEF l, m
<1>3. CASE l.proc_table[l.current].remaining <= 0
  <2>1. /\ m \in TablesOf(B) /\ Compacts(l, m) /\ (m.nr_procese > 0 => m.slice = 0)
        /\ (Orderly(l) => Orderly(m))
    BY <1>1, <1>2, <1>3, Reaped DEF CurrentRunning
  <2>2. Compacts(k, m)
    BY <1>1, <2>1, KeepsThenCompacts, InUseAreSlots
  <2> QED
    BY <1>1, <2>1, <2>2, TableAssumption DEF m
<1>4. CASE ~(l.proc_table[l.current].remaining <= 0) /\ l.preemptive_mode /\ l.slice >= QUANTUM
  <2>1. /\ m \in TablesOf(B) /\ KeepsBlocks(l, m) /\ m.slice = 0 /\ (Orderly(l) => Orderly(m))
    BY <1>1, <1>2, <1>4, Rotated
  <2>2. KeepsBlocks(k, m)
    BY <1>1, <2>1, KeepsChain
  <2> QED
    BY <1>1, <2>1, <2>2, TableAssumption DEF m
<1>5. CASE /\ ~(l.proc_table[l.current].remaining <= 0)
           /\ ~(l.preemptive_mode /\ l.slice >= QUANTUM)
  <2>1. m = l /\ (m.preemptive_mode => m.slice < QUANTUM)
    BY <1>1, <1>2, <1>5, TableAssumption DEF TablesOf
  <2> QED
    BY <1>1, <2>1 DEF m
<1> QED
  BY <1>3, <1>4, <1>5

(* An arrival takes the first free index.                                  *)
LEMMA Added ==
  ASSUME NEW B, ControlBlocks(B), NEW k \in TablesOf(B), k.nr_procese < MAX_PROCESSES,
         NEW b \in B
  PROVE  LET m == Add(k, b)
             n == k.nr_procese
         IN  /\ m \in TablesOf(B) /\ m.nr_procese = n + 1
             /\ m.current = k.current
             /\ InUse(m) = InUse(k) \cup {n} /\ n \notin InUse(k) /\ n \in Slots
             /\ m.proc_table[n] = b
             /\ \A j \in Slots \ {n} : m.proc_table[j] = k.proc_table[j]
             /\ Orderly(k) /\ b.state = "READY" => Orderly(m)
<1> DEFINE n == k.nr_procese
           t == [k.proc_table EXCEPT ![n] = b]
           m == [k EXCEPT !.proc_table = t, !.nr_procese = n + 1]
<1>1. n \in Nat /\ n \in Slots /\ n + 1 \in 0 .. MAX_PROCESSES /\ InUse(k) \subseteq Slots
  BY InUseAreSlots, TableAssumption DEF TablesOf, Slots
<1>2. Add(k, b) = m
  BY DEF Add, TablesOf
<1>3. t \in [Slots -> B] /\ t[n] = b /\ \A j \in Slots \ {n} : t[j] = k.proc_table[j]
  BY <1>1 DEF TablesOf
<1> HIDE DEF t
<1>4. /\ m \in TablesOf(B) /\ m.nr_procese = n + 1 /\ m.current = k.current
      /\ m.proc_table = t
  BY <1>1, <1>3 DEF TablesOf
<1> HIDE DEF m
<1>5. InUse(m) = InUse(k) \cup {n} /\ n \notin InUse(k)
  BY <1>1, <1>4 DEF InUse
<1>6. ASSUME Orderly(k), b.state = "READY" PROVE Orderly(m)
  BY <1>1, <1>3, <1>4, <1>5, <1>6 DEF Orderly
<1> QED
  BY <1>1, <1>2, <1>3, <1>4, <1>5, <1>6


(***************************************************************************)
(* The turns go up the table: a runnable process at or after the current   *)
(* index is not passed over.                                               *)
(***************************************************************************)
ToCome(k, i) == k.current <= i /\ Runnable(k.proc_table[i].state)

LEMMA CRemOfIndex ==
  ASSUME NEW a \in Int, NEW n \in Nat \ {0}, a >= -1, a < n
  PROVE  /\ CRem(a, n) \in Int
         /\ a >= 0 => CRem(a, n) = a
         /\ a < 0 => CRem(a, n) <= 0
<1>1. CASE a < 0
  <2>1. a = -1 /\ 1 % n >= 0 /\ 1 % n \in Int
    BY <1>1
  <2>2. CRem(a, n) = -(1 % n)
    BY <2>1 DEF CRem
  <2> HIDE DEF CRem
  <2> QED
    BY <2>1, <2>2
<1>2. CASE a >= 0
  BY <1>2 DEF CRem
<1> QED
  BY <1>1, <1>2

LEMMA PickInOrder ==
  ASSUME NEW B, NEW k \in TablesOf(B), NEW from \in -1 .. MAX_PROCESSES - 1,
         NEW i \in InUse(k), from <= i, Runnable(k.proc_table[i].state)
  PROVE  PickNextReady(k, from) <= i
<1> DEFINE n      == k.nr_procese
           idx(j) == CRem(from + j, n)
           hits   == {j \in InUse(k) : Runnable(StateAt(k, idx(j)))}
           h      == Min(hits)
<1>1. /\ n \in Nat \ {0} /\ i \in Nat /\ i < n /\ from \in Int /\ from >= -1
      /\ \A j \in InUse(k) : j \in Nat /\ j < n
      /\ \A j \in Nat : j < n => j \in InUse(k)
  BY TableAssumption DEF TablesOf, InUse
<1>2. CASE hits = {}
  BY <1>1, <1>2 DEF PickNextReady
<1>3. CASE hits # {}
  <2>1. PickNextReady(k, from) = idx(h)
    BY <1>3 DEF PickNextReady
  <2>2. h \in hits /\ \A j \in hits : h <= j
    <3>1. hits \subseteq Nat
      BY <1>1
    <3> HIDE DEF hits
    <3> QED
      BY <1>3, <3>1, MinInSet
  <2>3. h \in Nat /\ h < n
    BY <1>1, <2>2
  <2>4. CASE i - from < n
    <3>1. i - from \in InUse(k) /\ from + (i - from) = i
      BY <1>1, <2>4
    <3>2. idx(i - from) = i
      BY <1>1, <3>1, CRemOfIndex
    <3>3. i - from \in hits
      BY <1>1, <3>1, <3>2 DEF StateAt
    <3>4. h <= i - from
      BY <2>2, <3>3
    <3> HIDE DEF h, hits
    <3>5. from + h \in Int /\ from + h >= -1 /\ from + h <= i /\ from + h < n
      BY <1>1, <2>3, <3>4
    <3>6. /\ idx(h) \in Int
          /\ from + h >= 0 => idx(h) = from + h
          /\ from + h < 0 => idx(h) <= 0
      BY <1>1, <3>5, CRemOfIndex
    <3> HIDE DEF idx
    <3> QED
      BY <1>1, <2>1, <3>5, <3>6
  <2>5. CASE ~(i - from < n)
    <3>1. from = -1 /\ i = n - 1
      BY <1>1, <2>5
    <3> HIDE DEF h, hits
    <3>2. from + h \in Int /\ from + h >= -1 /\ from + h <= i /\ from + h < n
      BY <1>1, <2>3, <3>1
    <3>3. /\ idx(h) \in Int
          /\ from + h >= 0 => idx(h) = from + h
          /\ from + h < 0 => idx(h) <= 0
      BY <1>1, <3>2, CRemOfIndex
    <3> HIDE DEF idx
    <3> QED
      BY <1>1, <2>1, <3>2, <3>3
  <2> QED
    BY <2>4, <2>5
<1> QED
  BY <1>2, <1>3

LEMMA SwitchedInOrder ==
  ASSUME NEW B, ControlBlocks(B), NEW k \in TablesOf(B), NEW next \in InUse(k),
         NEW i \in InUse(k), next <= i, Runnable(k.proc_table[i].state)
  PROVE  ToCome(SwitchTo(k, next), i)
<1> DEFINE m == SwitchTo(k, next)
<1>1. /\ m.current = next /\ m.proc_table[next].state = "RUNNING"
      /\ \A j \in Slots \ {next} : m.proc_table[j] = k.proc_table[j]
  BY Switched
<1> HIDE DEF m
<1>2. i \in Slots
  BY InUseAreSlots
<1>3. Runnable(m.proc_table[i].state)
  BY <1>1, <1>2 DEF Runnable
<1> QED
  BY <1>1, <1>3 DEF ToCome, m

LEMMA DispatchedInOrder ==
  ASSUME NEW B, ControlBlocks(B), NEW k \in TablesOf(B), NEW i \in InUse(k), ToCome(k, i)
  PROVE  ToCome(Dispatch(k), i)
<1> DEFINE next == PickNextReady(k, k.current)
<1>1. k.current \in -1 .. MAX_PROCESSES - 1 /\ k.current <= i /\ Runnable(k.proc_table[i].state)
  BY DEF TablesOf, ToCome
<1>2. next <= i /\ next \in -1 .. k.nr_procese - 1 /\ (next >= 0 => next \in InUse(k))
  BY <1>1, PickInOrder, PickIsRunnable
<1>3. Dispatch(k) = IF CurrentRunning(k) \/ next < 0 THEN k ELSE SwitchTo(k, next)
  BY DEF Dispatch
<1> HIDE DEF next
<1>4. CASE CurrentRunning(k) \/ next < 0
  BY <1>3, <1>4
<1>5. CASE ~(CurrentRunning(k) \/ next < 0)
  <2>1. next \in InUse(k) /\ Dispatch(k) = SwitchTo(k, next)
    BY <1>2, <1>3, <1>5
  <2>2. ToCome(SwitchTo(k, next), i)
    BY <1>1, <1>2, <2>1, SwitchedInOrder
  <2> QED
    BY <2>1, <2>2
<1> QED
  BY <1>4, <1>5

LEMMA RotatedInOrder ==
  ASSUME NEW B, ControlBlocks(B), NEW k \in TablesOf(B), CurrentRunning(k),
         NEW i \in InUse(k), k.current < i, Runnable(k.proc_table[i].state)
  PROVE  ToCome(Rotate(k), i)
<1> DEFINE c == k.current
           b == [k.proc_table[c] EXCEPT !.state = "READY"]
           p == [k EXCEPT !.proc_table = [k.proc_table EXCEPT ![c] = b]]
<1>1. /\ c \in InUse(k) /\ c \in Slots /\ k.proc_table[c] \in B /\ i \in Slots
      /\ c \in Nat /\ i \in Nat /\ i < k.nr_procese /\ k.nr_procese \in Nat
  BY InUseAreSlots DEF CurrentRunning, CurrentValid
<1>2. b \in B /\ Like(b, k.proc_table[c])
  BY ZenonT(60), <1>1, StateWritten DEF States
<1>3. [k EXCEPT !.proc_table[k.current].state = "READY"] = p
  OBVIOUS
<1> HIDE DEF b
<1>4. /\ p \in TablesOf(B) /\ p.nr_procese = k.nr_procese /\ p.current = c
      /\ \A j \in Slots \ {c} : p.proc_table[j] = k.proc_table[j]
      /\ InUse(p) = InUse(k)
  BY <1>1, <1>2, OneWritten
<1> DEFINE from == (c + 1) % k.nr_procese
           next == PickNextReady(p, from)
           m    == IF next >= 0 THEN SwitchTo(p, next) ELSE [p EXCEPT !.slice = 0]
<1>5. Rotate(k) = m
  BY <1>3 DEF Rotate
<1> HIDE DEF p
<1>6. from = c + 1 /\ from <= i /\ from \in -1 .. MAX_PROCESSES - 1
  <2>1. c + 1 \in Nat /\ c + 1 < k.nr_procese /\ c + 1 <= i
    BY <1>1
  <2>2. from = c + 1
    BY <1>1, <2>1
  <2>3. k.nr_procese <= MAX_PROCESSES /\ MAX_PROCESSES \in Nat
    BY InUseAreSlots, TableAssumption
  <2> HIDE DEF from
  <2> QED
    BY <1>1, <2>1, <2>2, <2>3
<1>7. Runnable(p.proc_table[i].state) /\ i \in InUse(p)
  BY <1>1, <1>4
<1> HIDE DEF from
<1>8. next <= i /\ next \in -1 .. p.nr_procese - 1 /\ (next >= 0 => next \in InUse(p))
  BY <1>4, <1>6, <1>7, PickInOrder, PickIsRunnable
<1> HIDE DEF next
<1>9. CASE next >= 0
  BY <1>4, <1>5, <1>7, <1>8, <1>9, SwitchedInOrder
<1>10. CASE ~(next >= 0)
  <2>1. m.current = c /\ m.proc_table = p.proc_table
    BY <1>4, <1>10 DEF TablesOf
  <2> HIDE DEF m
  <2> QED
    BY <1>1, <1>5, <1>7, <2>1 DEF ToCome
<1> QED
  BY <1>9, <1>10

LEMMA ReapedInOrder ==
  ASSUME NEW B, ControlBlocks(B), NEW k \in TablesOf(B), CurrentValid(k),
         NEW i \in InUse(k), k.current < i, Runnable(k.proc_table[i].state)
  PROVE  ToCome(Reap(k), i - 1)
<1> DEFINE last == k.nr_procese - 1
           c    == k.current
           t    == Shifted(k)
           next == c % last
           s    == IF t[next].state = "READY" THEN "RUNNING" ELSE t[next].state
           b    == [t[next] EXCEPT !.state = s]
           u    == [t EXCEPT ![next] = b]
           m    == [k EXCEPT !.proc_table = u, !.nr_procese = last,
                             !.current = next, !.slice = 0]
<1>1. /\ c \in Nat /\ i \in Nat /\ last \in Nat /\ c < i /\ i <= last /\ last < MAX_PROCESSES
  <2>1. /\ c \in InUse(k) /\ c < k.nr_procese /\ i < k.nr_procese /\ c \in Nat /\ i \in Nat
        /\ k.nr_procese \in Nat /\ k.nr_procese <= MAX_PROCESSES /\ MAX_PROCESSES \in Nat
    BY InUseAreSlots, TableAssumption DEF CurrentValid
  <2> QED
    BY <2>1
<1>2. /\ t \in [Slots -> B]
      /\ \A j \in 0 .. last - 1 : /\ t[j] = k.proc_table[Before(k, j)]
                                  /\ Before(k, j) \in InUse(k) \ {c}
      /\ t[last].state = "UNUSED"
      /\ \A j \in Slots \ InUse(k) : t[j] = k.proc_table[j]
  BY ShiftedBlocks
<1>3. Reap(k) = m
  <2>1. last # 0
    BY <1>1
  <2> QED
    BY <2>1 DEF Reap, Shifted
<1> HIDE DEF t
<1>4. next = c /\ c <= i - 1 /\ i - 1 \in 0 .. last - 1 /\ c \in 0 .. last - 1
      /\ 0 .. last - 1 \subseteq Slots
  BY <1>1, TableAssumption DEF Slots
<1> HIDE DEF next, last, c
<1>5. Before(k, i - 1) = i
  BY <1>1, <1>4 DEF Before, c
<1>6. Runnable(t[i - 1].state)
  BY <1>2, <1>4, <1>5
<1>7. t[next] \in B /\ s \in States
  BY <1>2, <1>4 DEF ControlBlocks, States
<1>8. b.state = s
  <2> HIDE DEF s
  <2> QED
    BY <1>7, StateWritten
<1> HIDE DEF b
<1>9. u[next] = b /\ \A j \in Slots \ {next} : u[j] = t[j]
  BY <1>2, <1>4
<1> HIDE DEF u
<1>10. m.proc_table = u /\ m.current = next
  BY DEF TablesOf
<1>11. Runnable(u[i - 1].state)
  <2>1. CASE i - 1 = next
    BY <1>6, <1>8, <1>9, <2>1 DEF Runnable
  <2>2. CASE i - 1 # next
    BY <1>4, <1>6, <1>9, <2>2
  <2> QED
    BY <2>1, <2>2
<1> HIDE DEF m
<1> QED
  BY <1>3, <1>4, <1>10, <1>11 DEF ToCome

(* After entry() a runnable process above the current index is still to    *)
(* come, wherever it is; and a process without ticks is gone.              *)
LEMMA EntryInOrder ==
  ASSUME NEW B, ControlBlocks(B), NEW k \in TablesOf(B), CurrentRunning(k)
  PROVE  LET m        == AfterEntry(k)
             after(i) == i \in InUse(k) /\ k.current < i /\ Runnable(k.proc_table[i].state)
         IN  \/ /\ KeepsBlocks(k, m) /\ \A i : after(i) => ToCome(m, i)
                /\ k.proc_table[k.current].remaining > 1
             \/ Compacts(k, m) /\ \A i : after(i) => ToCome(m, i - 1)
<1> DEFINE l == Charge(k)
           m == AfterEntry(k)
           after(i) == i \in InUse(k) /\ k.current < i /\ Runnable(k.proc_table[i].state)
<1>1. /\ l \in TablesOf(B) /\ KeepsBlocks(k, l) /\ l.current = k.current
      /\ CurrentRunning(l) /\ InUse(l) = InUse(k)
      /\ \A i \in Slots : l.proc_table[i].state = k.proc_table[i].state
      /\ l.proc_table[k.current].remaining = k.proc_table[k.current].remaining - 1
  BY Charged DEF KeepsBlocks, InUse
<1>2. /\ l.proc_table[l.current].remaining <= 0 => m = Reap(l)
      /\ ~(l.proc_table[l.current].remaining <= 0) =>
           m = IF l.preemptive_mode /\ l.slice >= QUANTUM THEN Rotate(l) ELSE l
  BY DEF AfterEntry
<1>3. k.current \in InUse(k) /\ k.current \in Slots /\ InUse(k) \subseteq Slots
      /\ k.proc_table[k.current].remaining \in Int
  BY InUseAreSlots DEF CurrentRunning, CurrentValid, ControlBlocks
<1> HIDE DEF l, m
<1>4. ASSUME NEW i, after(i)
      PROVE  i \in InUse(l) /\ l.current < i /\ Runnable(l.proc_table[i].state)
             /\ l.current <= i
  BY <1>1, <1>3, <1>4, InUseAreSlots
<1> HIDE DEF after
<1>5. CASE l.proc_table[l.current].remaining <= 0
  <2>1. m = Reap(l) /\ CurrentValid(l)
    BY <1>1, <1>2, <1>5 DEF CurrentRunning
  <2>2. Compacts(l, m)
    BY <1>1, <2>1, Reaped
  <2>3. Compacts(k, m)
    BY <1>1, <1>3, <2>2, KeepsThenCompacts
  <2>4. \A i : after(i) => ToCome(m, i - 1)
    BY <1>1, <1>4, <2>1, ReapedInOrder
  <2> QED
    BY <2>3, <2>4 DEF m, after
<1>6. CASE ~(l.proc_table[l.current].remaining <= 0)
  <2>1. k.proc_table[k.current].remaining > 1
    BY <1>1, <1>3, <1>6
  <2>2. CASE l.preemptive_mode /\ l.slice >= QUANTUM
    <3>1. m = Rotate(l)
      BY <1>2, <1>6, <2>2
    <3>2. KeepsBlocks(l, m)
      BY <1>1, <3>1, Rotated
    <3>3. KeepsBlocks(k, m)
      BY <1>1, <3>2, KeepsChain
    <3>4. \A i : after(i) => ToCome(m, i)
      BY <1>1, <1>4, <3>1, RotatedInOrder
    <3> QED
      BY <2>1, <3>3, <3>4 DEF m, after
  <2>3. CASE ~(l.preemptive_mode /\ l.slice >= QUANTUM)
    <3>1. m = l
      BY <1>2, <1>6, <2>3
    <3>2. \A i : after(i) => ToCome(m, i)
      BY <1>4, <3>1 DEF ToCome
    <3> QED
      BY <1>1, <2>1, <3>1, <3>2 DEF m, after
  <2> QED
    BY <2>2, <2>3
<1> QED
  BY <1>5, <1>6

LEMMA WaitingInOrder ==
  ASSUME NEW B, ControlBlocks(B), NEW k \in TablesOf(B), NEW i \in Slots, ToCome(k, i)
  PROVE  ToCome(UpdateWaiting(k), i)
<1> DEFINE m == UpdateWaiting(k)
<1>1. /\ m.current = k.current
      /\ \A j \in InUse(k) : m.proc_table[j] = Awaken(k.proc_table[j])
      /\ \A j \in Slots \ InUse(k) : m.proc_table[j] = k.proc_table[j]
  BY WaitingUpdated DEF KeepsBlocks
<1> HIDE DEF m
<1>2. k.proc_table[i] \in B /\ k.proc_table[i].state # "WAITING"
  BY InUseAreSlots DEF ToCome, Runnable
<1>3. Awaken(k.proc_table[i]) = k.proc_table[i]
  BY <1>2, Awakened
<1>4. m.proc_table[i] = k.proc_table[i]
  BY <1>1, <1>3
<1> QED
  BY <1>1, <1>4 DEF ToCome, m

(* The index that index i had before the process at c left.                *)
Skip(c, i) == IF i < c THEN i ELSE i + 1

(* A tick that runs a process passes over no runnable one, and all of      *)
(* these but the one it runs are still to come.  The process may exit      *)
(* (table e), and then it leaves.                                          *)
LEMMA TickInOrder ==
  ASSUME NEW B, ControlBlocks(B), NEW l \in TablesOf(B), NEW d, NEW e \in TablesOf(B),
         d = Dispatch(UpdateWaiting(l)), CurrentRunning(d), CurrentRunning(e),
         e.nr_procese = d.nr_procese, e.current = d.current,
         \A j \in Slots \ {d.current} : e.proc_table[j] = d.proc_table[j],
         e = d \/ e.proc_table[d.current].remaining = 0
  PROVE  LET a == AfterEntry(e)
             c == d.current
         IN  /\ c \in InUse(l) /\ Like(d.proc_table[c], l.proc_table[c])
             /\ d \in TablesOf(B) /\ a \in TablesOf(B) /\ a.current < a.nr_procese
             /\ \A i \in InUse(l) : ToCome(l, i) => c <= i
             /\ \/ /\ a.nr_procese = l.nr_procese /\ e.proc_table[c].remaining > 1
                   /\ \A i \in Slots : Like(a.proc_table[i], l.proc_table[i])
                   /\ \A i \in Slots \ InUse(l) : a.proc_table[i] = l.proc_table[i]
                   /\ \A i \in InUse(l) \ {c} : ToCome(l, i) => ToCome(a, i)
                \/ /\ a.nr_procese = l.nr_procese - 1
                   /\ \A i \in InUse(a) :
                        /\ Skip(c, i) \in InUse(l)
                        /\ Like(a.proc_table[i], l.proc_table[Skip(c, i)])
                   /\ \A i \in InUse(l) \ {c} :
                        ToCome(l, i) => c < i /\ i - 1 \in InUse(a) /\ ToCome(a, i - 1)
<1> DEFINE w == UpdateWaiting(l)
           a == AfterEntry(e)
           c == d.current
<1>1. w \in TablesOf(B) /\ KeepsBlocks(l, w) /\ InUse(w) = InUse(l)
  BY WaitingUpdated DEF KeepsBlocks, InUse
<1>2. \A i \in Slots : ToCome(l, i) => ToCome(w, i)
  BY WaitingInOrder
<1> HIDE DEF w
<1>3. d \in TablesOf(B) /\ KeepsBlocks(w, d)
  BY <1>1, Dispatched DEF w
<1>4. \A i \in InUse(w) : ToCome(w, i) => ToCome(d, i)
  BY <1>1, DispatchedInOrder DEF w
<1>5. KeepsBlocks(l, d) /\ InUse(d) = InUse(l) /\ InUse(e) = InUse(l)
      /\ InUse(l) \subseteq Slots /\ d.nr_procese = l.nr_procese
  <2>1. KeepsBlocks(l, d) /\ InUse(l) \subseteq Slots
    BY <1>1, <1>3, KeepsChain, InUseAreSlots
  <2>2. d.nr_procese = l.nr_procese /\ e.nr_procese = l.nr_procese
    BY <2>1 DEF KeepsBlocks
  <2> QED
    BY <2>1, <2>2 DEF InUse
<1>6. c \in InUse(l) /\ c \in Slots /\ c \in Int /\ \A i \in InUse(l) : i \in Int
  BY <1>5, InUseAreSlots DEF CurrentRunning, CurrentValid
<1>7. \A i \in InUse(l) : ToCome(l, i) => c <= i /\ Runnable(d.proc_table[i].state)
  BY <1>1, <1>2, <1>4, <1>5 DEF ToCome
<1>8. \A i \in Slots : Like(d.proc_table[i], l.proc_table[i])
  BY <1>5 DEF KeepsBlocks
<1>9. \A i \in InUse(l) \ {c} :
        ToCome(l, i) => i \in InUse(e) /\ e.current < i /\ Runnable(e.proc_table[i].state)
  BY <1>5, <1>6, <1>7
<1>10. \/ /\ KeepsBlocks(e, a) /\ e.proc_table[e.current].remaining > 1
          /\ \A i \in InUse(l) \ {c} : ToCome(l, i) => ToCome(a, i)
       \/ /\ Compacts(e, a)
          /\ \A i \in InUse(l) \ {c} : ToCome(l, i) => ToCome(a, i - 1)
  BY <1>9, EntryInOrder
<1>11. a \in TablesOf(B)
  BY EntryDone
<1> HIDE DEF a
<1>12. CASE /\ KeepsBlocks(e, a) /\ e.proc_table[e.current].remaining > 1
            /\ \A i \in InUse(l) \ {c} : ToCome(l, i) => ToCome(a, i)
  <2>1. e = d
    BY <1>12
  <2>2. KeepsBlocks(d, a) /\ a.current \in {c} \cup InUse(l) /\ a.nr_procese = l.nr_procese
    BY <1>5, <1>12, <2>1 DEF KeepsBlocks
  <2>3. a.current < a.nr_procese
    BY <1>6, <2>2, InUseAreSlots
  <2>4. KeepsBlocks(l, a)
    BY <1>5, <2>2, KeepsChain
  <2> QED
    BY <1>3, <1>6, <1>7, <1>8, <1>11, <1>12, <2>2, <2>3, <2>4 DEF a, KeepsBlocks
<1>13. CASE /\ Compacts(e, a)
            /\ \A i \in InUse(l) \ {c} : ToCome(l, i) => ToCome(a, i - 1)
  <2>1. a.nr_procese = l.nr_procese - 1 /\ a.nr_procese \in Int
    BY <1>5, <1>13, InUseAreSlots DEF Compacts
  <2>2. a.current < a.nr_procese
    <3>1. a.current \in -1 .. a.nr_procese - 1
      BY <1>13 DEF Compacts
    <3> QED
      BY <2>1, <3>1
  <2>3. ASSUME NEW i \in InUse(a)
        PROVE  Skip(c, i) \in InUse(l) /\ Like(a.proc_table[i], l.proc_table[Skip(c, i)])
    <3>1. Before(e, i) = Skip(c, i)
      BY DEF Before, Skip
    <3>2. Skip(c, i) \in InUse(l) \ {c} /\ Like(a.proc_table[i], e.proc_table[Skip(c, i)])
      BY <1>5, <1>13, <3>1 DEF Compacts
    <3>3. e.proc_table[Skip(c, i)] = d.proc_table[Skip(c, i)]
      BY <1>5, <3>2
    <3> QED
      BY <1>5, <1>8, <3>2, <3>3, LikeChain
  <2>4. ASSUME NEW i \in InUse(l) \ {c}, ToCome(l, i)
        PROVE  c < i /\ i - 1 \in InUse(a) /\ ToCome(a, i - 1)
    <3>1. c < i /\ i \in Int /\ c \in Nat /\ i < l.nr_procese
      BY <1>6, <1>7, <2>4, InUseAreSlots
    <3>2. i - 1 \in InUse(a)
      BY <2>1, <3>1 DEF InUse
    <3> QED
      BY <1>13, <2>4, <3>1, <3>2
  <2> QED
    BY <1>3, <1>6, <1>7, <1>8, <1>11, <2>1, <2>2, <2>3, <2>4 DEF a
<1> QED
  BY <1>10, <1>12, <1>13

=============================================================================
