------------------------------ MODULE Regions ------------------------------
(***************************************************************************)
(* What an allocator promises its callers: the region it hands out lies in *)
(* the memory it manages, is as long as was asked for, and has no byte in  *)
(* common with any region handed out and not yet released.  It may refuse. *)
(***************************************************************************)
EXTENDS Integers

CONSTANTS
  Memory,   \* the addresses managed
  Lengths   \* the lengths asked for

VARIABLE owned   \* the regions handed out: their first addresses and lengths

Region(a, n) == a .. a + n - 1

Init == owned = [a \in {} |-> 0]

Allocate(n) ==
  \E a \in Memory :
    /\ a \notin DOMAIN owned
    /\ Region(a, n) \subseteq Memory
    /\ \A b \in DOMAIN owned : Region(a, n) \cap Region(b, owned[b]) = {}
    /\ owned' = [b \in DOMAIN owned \cup {a} |-> IF b = a THEN n ELSE owned[b]]

Release(a) ==
  /\ a \in DOMAIN owned
  /\ owned' = [b \in DOMAIN owned \ {a} |-> owned[b]]

Next ==
  \/ \E n \in Lengths : Allocate(n)
  \/ \E a \in Memory : Release(a)

Spec == Init /\ [][Next]_owned

=============================================================================
