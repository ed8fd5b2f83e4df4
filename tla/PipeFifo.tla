------------------------------ MODULE PipeFifo ------------------------------
(***************************************************************************)
(* The pipes of pipe.c as what they promise: a pool of MAX_PIPES bounded   *)
(* queues of bytes, each with a read end and a write end that are open or  *)
(* closed.  A pipe is taken from the pool by pipe_alloc and goes back when *)
(* both of its ends are closed.  pipe.c keeps the bytes in a ring          *)
(* (PipeRing, which implements this module); the operators below are also  *)
(* what module Shell runs its processes on.                                *)
(***************************************************************************)
EXTENDS Integers, Sequences, FiniteSetsExt

CONSTANTS
  MAX_PIPES,      \* size of the pool (16 in pipe.h)
  PIPE_BUF_SIZE,  \* bytes a pipe holds (4096 in pipe.h)
  Bytes,          \* the bytes processes write
  MaxTransfer     \* bound: bytes one call asks to write or read

PipeIds == 0 .. MAX_PIPES - 1

ReadEnd == 0
WriteEnd == 1

(* Operations on the pool: [PipeIds -> [used, read_open, write_open,       *)
(* content]].  An id may be any integer; the functions of pipe.c test it.  *)
IsUsed(pool, id) == id \in PipeIds /\ pool[id].used

Unused(pool) == {id \in PipeIds : ~pool[id].used}

Emptied == [used |-> TRUE, read_open |-> TRUE, write_open |-> TRUE, content |-> <<>>]

Opened(pool, id) == [pool EXCEPT ![id] = Emptied]

(* How much of data pipe_write takes: -1 if there is no such pipe to write *)
(* to.  It does not ask whether anyone can still read.                     *)
WriteResult(pool, id, data) ==
  IF ~IsUsed(pool, id) THEN -1
  ELSE IF ~pool[id].write_open THEN -1
  ELSE Min({Len(data), PIPE_BUF_SIZE - Len(pool[id].content)})

Written(pool, id, data) ==
  LET n == WriteResult(pool, id, data)
  IN  IF n < 0 THEN pool
      ELSE [pool EXCEPT ![id].content = @ \o SubSeq(data, 1, n)]

(* The bytes pipe_read hands out, and its result: -1, the end of the data, *)
(* if there is none and no one will write any more.                        *)
ReadData(pool, id, len) ==
  IF ~IsUsed(pool, id) THEN <<>>
  ELSE IF ~pool[id].read_open THEN <<>>
  ELSE SubSeq(pool[id].content, 1, Min({len, Len(pool[id].content)}))

ReadResult(pool, id, len) ==
  LET n == Len(ReadData(pool, id, len))
  IN  IF ~IsUsed(pool, id) THEN -1
      ELSE IF ~pool[id].read_open THEN -1
      ELSE IF n = 0 /\ ~pool[id].write_open THEN -1
      ELSE n

AfterRead(pool, id, len) ==
  LET n == Len(ReadData(pool, id, len))
  IN  IF n = 0 THEN pool
      ELSE [pool EXCEPT ![id].content = SubSeq(@, n + 1, Len(@))]

(* pipe_close: one end; the second one to be closed frees the pipe.        *)
Closed(pool, id, end) ==
  LET r == pool[id].read_open /\ end # ReadEnd
      w == pool[id].write_open /\ end = ReadEnd
  IN  IF ~IsUsed(pool, id) THEN pool
      ELSE [pool EXCEPT ![id].read_open = r, ![id].write_open = w,
                        ![id].used = r \/ w]

(* pipe_free.                                                              *)
Freed(pool, id) == IF id \in PipeIds THEN [pool EXCEPT ![id].used = FALSE] ELSE pool

----------------------------------------------------------------------------
VARIABLES
  pool,   \* the pipes
  reply   \* what the last call returned, and the bytes it was given or gave

vars == <<pool, reply>>

Returns(n, data) == reply' = [n |-> n, data |-> data]

Init ==
  /\ pool = [id \in PipeIds |-> [used |-> FALSE, read_open |-> FALSE,
                                 write_open |-> FALSE, content |-> <<>>]]
  /\ reply = [n |-> 0, data |-> <<>>]

Alloc ==
  \/ /\ Unused(pool) # {}
     /\ pool' = Opened(pool, Min(Unused(pool)))
     /\ Returns(Min(Unused(pool)), <<>>)
  \/ /\ Unused(pool) = {}
     /\ Returns(-1, <<>>)
     /\ UNCHANGED pool

AllocAndFree ==
  /\ Unused(pool) # {}
  /\ pool' = Freed(Opened(pool, Min(Unused(pool))), Min(Unused(pool)))
  /\ Returns(-1, <<>>)

Write(id, data) ==
  /\ pool' = Written(pool, id, data)
  /\ Returns(WriteResult(pool, id, data), data)

Read(id, len) ==
  /\ pool' = AfterRead(pool, id, len)
  /\ Returns(ReadResult(pool, id, len), ReadData(pool, id, len))

Close(id, end) == pool' = Closed(pool, id, end) /\ Returns(0, <<>>)

Transfers == UNION {[1 .. n -> Bytes] : n \in 0 .. MaxTransfer}

Next ==
  \/ Alloc \/ AllocAndFree
  \/ \E id \in PipeIds :
       \/ \E data \in Transfers : Write(id, data)
       \/ \E len \in 0 .. MaxTransfer : Read(id, len)
       \/ \E end \in {ReadEnd, WriteEnd} : Close(id, end)

Spec == Init /\ [][Next]_vars

=============================================================================
