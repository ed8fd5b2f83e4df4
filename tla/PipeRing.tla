------------------------------ MODULE PipeRing ------------------------------
(***************************************************************************)
(* pipe.c: the pool of pipes, each a ring of PIPE_BUF_SIZE bytes with a    *)
(* read position, a write position and a count.  The loops that move one   *)
(* byte at a time are written in closed form; nothing interrupts them when *)
(* a process calls them (int 0x80 is an interrupt gate).                   *)
(***************************************************************************)
EXTENDS Integers, Sequences, FiniteSetsExt

CONSTANTS MAX_PIPES, PIPE_BUF_SIZE, Bytes, MaxTransfer

ASSUME RingAssumption ==
  /\ MAX_PIPES \in Nat \ {0}
  /\ PIPE_BUF_SIZE \in Nat \ {0}
  /\ MaxTransfer \in Nat
  /\ Bytes # {}

VARIABLES
  pipes,  \* the array pipes, and pipe_used as the field used
  reply   \* what the last call returned, and the bytes it was given or gave

vars == <<pipes, reply>>

PipeIds == 0 .. MAX_PIPES - 1
Positions == 0 .. PIPE_BUF_SIZE - 1

Returns(n, data) == reply' = [n |-> n, data |-> data]

(* Zeroed memory; the zero byte is some byte.                              *)
Init ==
  /\ pipes = [id \in PipeIds |->
       [used |-> FALSE, buffer |-> [i \in Positions |-> CHOOSE b \in Bytes : TRUE],
        read_pos |-> 0, write_pos |-> 0, count |-> 0,
        read_open |-> FALSE, write_open |-> FALSE]]
  /\ reply = [n |-> 0, data |-> <<>>]

Unused == {id \in PipeIds : ~pipes[id].used}

(* Mutant: a pipe taken again keeps the bytes of its last life.            *)
PipeAlloc_KeepsCount ==
  \/ /\ Unused # {}
     /\ pipes' = [pipes EXCEPT ![Min(Unused)].used = TRUE,
                               ![Min(Unused)].read_open = TRUE,
                               ![Min(Unused)].write_open = TRUE]
     /\ Returns(Min(Unused), <<>>)
  \/ /\ Unused = {}
     /\ Returns(-1, <<>>)
     /\ UNCHANGED pipes

PipeAlloc ==
  \/ /\ Unused # {}
     /\ pipes' = [pipes EXCEPT ![Min(Unused)] =
          [@ EXCEPT !.used = TRUE, !.read_pos = 0, !.write_pos = 0, !.count = 0,
                    !.read_open = TRUE, !.write_open = TRUE]]
     /\ Returns(Min(Unused), <<>>)
  \/ /\ Unused = {}
     /\ Returns(-1, <<>>)
     /\ UNCHANGED pipes

(* The system call pipe when the process has no two descriptors left: the  *)
(* pipe it has just allocated is freed again.  It is the only call of      *)
(* pipe_free from outside pipe.c.                                          *)
PipeAllocAndFree ==
  /\ Unused # {}
  /\ pipes' = [pipes EXCEPT ![Min(Unused)] =
       [@ EXCEPT !.used = FALSE, !.read_pos = 0, !.write_pos = 0, !.count = 0,
                 !.read_open = TRUE, !.write_open = TRUE]]
  /\ Returns(-1, <<>>)

(* Mutant: the write position is not wrapped with the last byte.           *)
Filled_NoWrap(p, data, n) ==
  [p EXCEPT !.buffer = [i \in Positions |->
              IF i \in p.write_pos .. p.write_pos + n - 1
              THEN data[i - p.write_pos + 1] ELSE p.buffer[i]],
            !.write_pos = (@ + n) % PIPE_BUF_SIZE,
            !.count = @ + n]

(* The pipe with the first n bytes of data written to it.                  *)
Filled(p, data, n) ==
  LET offset(i) == (i - p.write_pos) % PIPE_BUF_SIZE
  IN  [p EXCEPT !.buffer = [i \in Positions |-> IF offset(i) < n THEN data[offset(i) + 1]
                                                ELSE p.buffer[i]],
                !.write_pos = (@ + n) % PIPE_BUF_SIZE,
                !.count = @ + n]

(* Mutant: the loop goes on when the ring is just full.                    *)
PipeWrite_OneTooMany(id, data) ==
  LET p == pipes[id]
      n == Min({Len(data), PIPE_BUF_SIZE - p.count + 1})
  IN  /\ p.used /\ p.write_open
      /\ pipes' = [pipes EXCEPT ![id] = Filled(p, data, n)]
      /\ Returns(n, data)

PipeWrite(id, data) ==
  LET p == pipes[id]
      n == Min({Len(data), PIPE_BUF_SIZE - p.count})
  IN  \/ /\ p.used /\ p.write_open
         /\ pipes' = [pipes EXCEPT ![id] = Filled(p, data, n)]
         /\ Returns(n, data)
      \/ /\ ~(p.used /\ p.write_open)
         /\ Returns(-1, data)
         /\ UNCHANGED pipes

(* Mutant: the count is not taken down by what was read.                   *)
Drained_KeepsCount(p, n) == [p EXCEPT !.read_pos = (@ + n) % PIPE_BUF_SIZE]

(* The pipe with n bytes read from it.                                     *)
Drained(p, n) ==
  [p EXCEPT !.read_pos = (@ + n) % PIPE_BUF_SIZE, !.count = @ - n]

(* The n bytes at the read position.                                       *)
Front(p, n) == [j \in 1 .. n |-> p.buffer[(p.read_pos + j - 1) % PIPE_BUF_SIZE]]

PipeRead(id, len) ==
  LET p == pipes[id]
      n == Min({len, p.count})
  IN  \/ /\ p.used /\ p.read_open
         /\ pipes' = [pipes EXCEPT ![id] = Drained(p, n)]
         /\ Returns(IF n = 0 /\ ~p.write_open THEN -1 ELSE n, Front(p, n))
      \/ /\ ~(p.used /\ p.read_open)
         /\ Returns(-1, <<>>)
         /\ UNCHANGED pipes

(* end = 0 is the read end, anything else the write end.                   *)
PipeClose(id, end) ==
  LET p == pipes[id]
      q == IF end = 0 THEN [p EXCEPT !.read_open = FALSE]
                      ELSE [p EXCEPT !.write_open = FALSE]
  IN  /\ pipes' = IF p.used
                  THEN [pipes EXCEPT ![id] = [q EXCEPT !.used = q.read_open \/ q.write_open]]
                  ELSE pipes
      /\ Returns(0, <<>>)

Transfers == UNION {[1 .. n -> Bytes] : n \in 0 .. MaxTransfer}

Next ==
  \/ PipeAlloc \/ PipeAllocAndFree
  \/ \E id \in PipeIds :
       \/ \E data \in Transfers : PipeWrite(id, data)
       \/ \E len \in 0 .. MaxTransfer : PipeRead(id, len)
       \/ \E end \in {0, 1} : PipeClose(id, end)

Spec == Init /\ [][Next]_vars

----------------------------------------------------------------------------
TypeOK ==
  /\ pipes \in [PipeIds -> [used : BOOLEAN, buffer : [Positions -> Bytes],
                            read_pos : Positions, write_pos : Positions,
                            count : 0 .. PIPE_BUF_SIZE,
                            read_open : BOOLEAN, write_open : BOOLEAN]]
  /\ reply.n \in Int

(* The three numbers of a ring agree: the bytes between the read position  *)
(* and the write position are as many as count says.  pipe.c updates them  *)
(* in two functions, and tests only count.                                 *)
PositionsAgree ==
  \A id \in PipeIds :
    pipes[id].write_pos = (pipes[id].read_pos + pipes[id].count) % PIPE_BUF_SIZE

(* What the pool promises: the bytes come out as they went in, also over   *)
(* the end of the ring, no byte of a pipe's last life appears in its next, *)
(* and every call returns what it would return on plain queues.            *)
Queues == INSTANCE PipeFifo WITH
  pool <- [id \in PipeIds |->
             [used |-> pipes[id].used, read_open |-> pipes[id].read_open,
              write_open |-> pipes[id].write_open,
              content |-> Front(pipes[id], pipes[id].count)]]

ImplementsQueues == Queues!Spec

=============================================================================
