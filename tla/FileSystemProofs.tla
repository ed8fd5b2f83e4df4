-------------------------- MODULE FileSystemProofs --------------------------
(***************************************************************************)
(* The safety theorems of FileSystem, for a memory, a table and a sector   *)
(* of any size, any names and texts, any number of commands, and whatever  *)
(* is on the stack of fs_init.                                             *)
(*                                                                         *)
(* The argument has two halves.  The tree: each command keeps the pointers *)
(* to the parent and to the children in step (LinksMatch), and the root    *)
(* above whatever it was above; a removal because what it frees is closed  *)
(* under children, and under parents but for its top; a restart because    *)
(* each turn of the loop that links puts one node under its parent         *)
(* (PutUpTo).  The disk: TreeSound and RestartRestores are not inductive   *)
(* without what is there between a save and a restart: that the table is   *)
(* the first entries of what was promised (IsTable), in an order in which  *)
(* parents come first (OrderOfSave), that a sector holds what was promised *)
(* or what a later save put there (InSectors), and how far that save has   *)
(* come (InSave).                                                          *)
(*                                                                         *)
(* The walk of a save and the loop of a load are recursive functions.      *)
(* What they are after a turn is shown by FromTo, induction over a set of  *)
(* turns; that there are such functions by StepsRun.                       *)
(***************************************************************************)
EXTENDS FileSystem, NaturalLemmas, SequenceTheorems

----------------------------------------------------------------------------
(* Facts about whole numbers, sequences and functions.                     *)

(* What holds of a, and of the next number below b once it holds of one,   *)
(* holds from a to b.                                                      *)
LEMMA FromTo ==
  ASSUME NEW a \in Nat, NEW b \in Nat, NEW S, a \in S,
         \A k \in a .. b : k < b /\ k \in S => k + 1 \in S
  PROVE  \A k \in a .. b : k \in S
<1> DEFINE Rest == {k \in a .. b : k \notin S}
<1>1. ASSUME Rest # {} PROVE FALSE
  <2>1. Rest \subseteq Nat
    OBVIOUS
  <2>2. PICK m \in Rest : \A k \in Rest : m <= k
    BY <1>1, <2>1, MinInSet
  <2>3. m # a /\ m \in a .. b /\ m \notin S
    BY <2>2
  <2>4. m - 1 \in a .. b /\ m - 1 < b /\ m - 1 + 1 = m
    BY <2>3
  <2>5. m - 1 \notin Rest
    BY <2>2, <2>4
  <2>6. m - 1 \in S
    BY <2>4, <2>5
  <2> QED
    BY <2>3, <2>4, <2>6
<1> QED
  BY <1>1

(* The values that a step makes one of another, from v on.                 *)
Runs(g, a, b, V, v, step) ==
  /\ g \in [a .. b -> V] /\ g[a] = v
  /\ \A k \in a + 1 .. b : g[k] = step[k][g[k - 1]]

LEMMA StepsRun ==
  ASSUME NEW a \in Nat, NEW b \in Nat, a <= b, NEW V, NEW v \in V,
         NEW step \in [a + 1 .. b -> [V -> V]]
  PROVE  \E g : Runs(g, a, b, V, v, step)
<1> DEFINE S == {k \in a .. b : \E g : Runs(g, a, k, V, v, step)}
<1>1. a \in S
  <2> DEFINE g == [k \in a .. a |-> v]
  <2>1. Runs(g, a, a, V, v, step)
    BY DEF Runs
  <2> QED
    BY <2>1
<1>2. ASSUME NEW k \in a .. b, k < b, k \in S PROVE k + 1 \in S
  <2>1. PICK g : Runs(g, a, k, V, v, step)
    BY <1>2
  <2> DEFINE h == [j \in a .. k + 1 |-> IF j = k + 1 THEN step[k + 1][g[k]] ELSE g[j]]
  <2>2. step[k + 1] \in [V -> V] /\ g[k] \in V
    BY <1>2, <2>1 DEF Runs
  <2>3. \A j \in a .. k : g[j] \in V
    BY <2>1 DEF Runs
  <2>4. \A j \in a .. k + 1 : j # k + 1 => j \in a .. k
    BY <1>2
  <2>5. h \in [a .. k + 1 -> V]
    BY <2>2, <2>3, <2>4
  <2>6. h[a] = v
    BY <1>2, <2>1 DEF Runs
  <2>7. ASSUME NEW j \in a + 1 .. k + 1 PROVE h[j] = step[j][h[j - 1]]
    <3>1. j - 1 \in a .. k /\ h[j - 1] = g[j - 1] /\ j \in a .. k + 1
      BY <1>2, <2>7
    <3>2. CASE j = k + 1
      BY <3>1, <3>2
    <3>3. CASE j # k + 1
      <4>1. j \in a + 1 .. k
        BY <3>3, <1>2, <2>7
      <4>2. g[j] = step[j][g[j - 1]]
        BY <2>1, <4>1 DEF Runs
      <4>3. h[j] = g[j]
        BY <3>1, <3>3
      <4> QED
        BY <3>1, <4>2, <4>3
    <3> QED
      BY <3>2, <3>3
  <2>8. Runs(h, a, k + 1, V, v, step)
    BY <2>5, <2>6, <2>7 DEF Runs
  <2>9. k + 1 \in a .. b
    BY <1>2
  <2> QED
    BY <2>8, <2>9
<1> HIDE DEF S
<1>3. \A k \in a .. b : k < b /\ k \in S => k + 1 \in S
  BY <1>2
<1>4. \A k \in a .. b : k \in S
  BY <1>1, <1>3, FromTo
<1>5. b \in S
  BY <1>4
<1> QED
  BY <1>5 DEF S

(* A function of the numbers up to n is a sequence.                        *)
LEMMA FunctionIsSequence ==
  ASSUME NEW n \in Nat, NEW f, f = [i \in 1 .. n |-> f[i]]
  PROVE  f \in Seq(Range(f)) /\ Len(f) = n /\ DOMAIN f = 1 .. n
<1>1. DOMAIN f = 1 .. n
  OBVIOUS
<1>2. \A i \in 1 .. n : f[i] \in Range(f)
  BY <1>1 DEF Range
<1>3. f \in Seq(Range(f))
  BY <1>2
<1> QED
  BY <1>1, <1>3

(* A sequence with something put before it.                                *)
LEMMA PutBefore ==
  ASSUME NEW A, NEW s \in Seq(A), NEW x \in A
  PROVE  /\ <<x>> \o s \in Seq(A) /\ Len(<<x>> \o s) = Len(s) + 1
         /\ (<<x>> \o s)[1] = x
         /\ \A i \in 2 .. Len(s) + 1 : (<<x>> \o s)[i] = s[i - 1]
         /\ Range(<<x>> \o s) = {x} \cup Range(s)
         /\ IsInjective(s) /\ x \notin Range(s) => IsInjective(<<x>> \o s)
<1> DEFINE t == <<x>> \o s
<1>1. t \in Seq(A) /\ Len(t) = Len(s) + 1 /\ t[1] = x
  OBVIOUS
<1>2. \A i \in 2 .. Len(s) + 1 : t[i] = s[i - 1]
  OBVIOUS
<1>3. DOMAIN t = 1 .. Len(s) + 1 /\ DOMAIN s = 1 .. Len(s) /\ Len(s) \in Nat
  BY <1>1
<1> HIDE DEF t
<1>4. \A i \in DOMAIN s : i + 1 \in DOMAIN t /\ t[i + 1] = s[i]
  BY <1>2, <1>3
<1>5. \A i \in DOMAIN t : i = 1 \/ (i - 1 \in DOMAIN s /\ t[i] = s[i - 1])
  BY <1>2, <1>3
<1>6. 1 \in DOMAIN t
  BY <1>3
<1>7. Range(t) = {x} \cup Range(s)
  <2>1. Range(t) \subseteq {x} \cup Range(s)
    BY <1>1, <1>5 DEF Range
  <2>2. {x} \cup Range(s) \subseteq Range(t)
    BY <1>1, <1>4, <1>6 DEF Range
  <2> QED
    BY <2>1, <2>2
<1>8. ASSUME IsInjective(s), x \notin Range(s) PROVE IsInjective(t)
  <2> SUFFICES ASSUME NEW i \in DOMAIN t, NEW j \in DOMAIN t, t[i] = t[j] PROVE i = j
    BY DEF IsInjective
  <2>1. \A k \in DOMAIN s : s[k] # x
    BY <1>8 DEF Range
  <2>2. CASE i = 1 \/ j = 1
    BY <1>1, <1>5, <2>1, <2>2
  <2>3. CASE i # 1 /\ j # 1
    <3>1. i - 1 \in DOMAIN s /\ j - 1 \in DOMAIN s /\ s[i - 1] = s[j - 1]
      BY <1>5, <2>3
    <3>2. i - 1 = j - 1
      BY <1>8, <3>1 DEF IsInjective
    <3> QED
      BY <1>3, <3>2
  <2> QED
    BY <2>2, <2>3
<1> QED
  BY <1>1, <1>2, <1>7, <1>8 DEF t

(* A sequence without its element i, which it lists once.                  *)
LEMMA TakenOut ==
  ASSUME NEW A, NEW s \in Seq(A), NEW i \in DOMAIN s, IsInjective(s)
  PROVE  /\ RemoveAt(s, i) \in Seq(A) /\ IsInjective(RemoveAt(s, i))
         /\ Range(RemoveAt(s, i)) = Range(s) \ {s[i]}
<1> DEFINE t == RemoveAt(s, i)
           l == SubSeq(s, 1, i - 1)
           r == SubSeq(s, i + 1, Len(s))
<1>1. DOMAIN s = 1 .. Len(s) /\ Len(s) \in Nat /\ i \in 1 .. Len(s)
  OBVIOUS
<1>2. l \in Seq(A) /\ Len(l) = i - 1 /\ \A j \in 1 .. i - 1 : l[j] = s[j]
  BY <1>1
<1>3. r \in Seq(A) /\ Len(r) = Len(s) - i /\ \A j \in 1 .. Len(s) - i : r[j] = s[j + i]
  <2>1. i + 1 \in Int /\ Len(s) \in Int /\ \A j \in i + 1 .. Len(s) : s[j] \in A
    BY <1>1
  <2>2. /\ r \in Seq(A)
        /\ Len(r) = IF i + 1 <= Len(s) THEN Len(s) - (i + 1) + 1 ELSE 0
        /\ \A j \in 1 .. Len(s) - (i + 1) + 1 : r[j] = s[i + 1 + j - 1]
    BY <2>1, SubSeqProperties
  <2>3. Len(s) - (i + 1) + 1 = Len(s) - i
    BY <1>1
  <2>4. \A j \in 1 .. Len(s) - i : i + 1 + j - 1 = j + i
    BY <1>1
  <2> HIDE DEF r
  <2> QED
    BY <1>1, <2>2, <2>3, <2>4
<1>0. t = l \o r
  BY DEF RemoveAt
<1> HIDE DEF l, r, t
<1>10. /\ l \o r \in Seq(A) /\ Len(l \o r) = Len(l) + Len(r)
       /\ \A j \in 1 .. Len(l) + Len(r) :
            (l \o r)[j] = IF j <= Len(l) THEN l[j] ELSE r[j - Len(l)]
  BY <1>2, <1>3, ConcatProperties
<1>4. t \in Seq(A) /\ Len(t) = Len(s) - 1
  BY <1>0, <1>1, <1>2, <1>3, <1>10
<1>5. ASSUME NEW j \in 1 .. Len(s) - 1 PROVE t[j] = IF j < i THEN s[j] ELSE s[j + 1]
  <2>0. Len(l) = i - 1 /\ j \in 1 .. Len(l) + Len(r)
    BY <1>1, <1>2, <1>3
  <2>1. t[j] = IF j <= i - 1 THEN l[j] ELSE r[j - (i - 1)]
    BY <1>0, <1>10, <2>0
  <2>2. CASE j < i
    BY <1>1, <1>2, <2>1, <2>2
  <2>3. CASE ~(j < i)
    <3>1. j - (i - 1) \in 1 .. Len(s) - i /\ j - (i - 1) + i = j + 1
      BY <1>1, <2>3
    <3>2. r[j - (i - 1)] = s[j + 1]
      BY <1>3, <3>1
    <3> QED
      BY <1>1, <2>1, <2>3, <3>2
  <2> QED
    BY <2>2, <2>3
<1>6. DOMAIN t = 1 .. Len(s) - 1
  BY <1>4
<1>7. IsInjective(t)
  <2> SUFFICES ASSUME NEW j \in DOMAIN t, NEW k \in DOMAIN t, t[j] = t[k] PROVE j = k
    BY DEF IsInjective
  <2> DEFINE J == IF j < i THEN j ELSE j + 1
             K == IF k < i THEN k ELSE k + 1
  <2>1. J \in DOMAIN s /\ K \in DOMAIN s /\ s[J] = s[K]
    BY <1>1, <1>5, <1>6
  <2>2. J = K
    BY <2>1 DEF IsInjective
  <2> QED
    BY <1>1, <1>6, <2>2
<1>8. Range(t) \subseteq Range(s) \ {s[i]}
  <2> SUFFICES ASSUME NEW j \in DOMAIN t PROVE t[j] \in Range(s) /\ t[j] # s[i]
    BY DEF Range
  <2> DEFINE J == IF j < i THEN j ELSE j + 1
  <2>1. J \in DOMAIN s /\ t[j] = s[J] /\ J # i
    BY <1>1, <1>5, <1>6
  <2> HIDE DEF J
  <2> QED
    BY <2>1 DEF Range, IsInjective
<1>9. Range(s) \ {s[i]} \subseteq Range(t)
  <2> SUFFICES ASSUME NEW j \in DOMAIN s, s[j] # s[i] PROVE \E k \in DOMAIN t : t[k] = s[j]
    BY DEF Range
  <2>1. CASE j < i
    BY <1>1, <1>5, <1>6, <2>1
  <2>2. CASE j > i
    <3>1. j - 1 \in DOMAIN t /\ ~(j - 1 < i) /\ j - 1 + 1 = j
      BY <1>1, <1>6, <2>2
    <3>2. t[j - 1] = s[j]
      BY <1>5, <1>6, <3>1
    <3> QED
      BY <3>1, <3>2
  <2> QED
    BY <1>1, <2>1, <2>2
<1> QED
  BY <1>4, <1>7, <1>8, <1>9 DEF t

----------------------------------------------------------------------------
(* Trees of nodes.                                                         *)
IsData(data, type) == data # NoData => type = "FS_FILE" /\ data.size \in Nat \ {0}

NodeNames == {"root"} \cup Range(Stored) \cup {e.name : e \in Junk}

IsNode(node) ==
  /\ node = [name |-> node.name, type |-> node.type, data |-> node.data,
             parent |-> node.parent, children |-> node.children]
  /\ node.name \in NodeNames /\ node.type \in {"FS_FILE", "FS_DIRECTORY"}
  /\ IsData(node.data, node.type)
  /\ node.children \in Seq(1 .. MaxNodes)

IsTree(tree) ==
  /\ root \in DOMAIN tree /\ DOMAIN tree \subseteq 1 .. MaxNodes
  /\ \A n \in DOMAIN tree : IsNode(tree[n])

(* The pointers from a node to its parent and back.                        *)
LinksMatch(tree) ==
  /\ tree[root].parent = 0
  /\ \A n \in DOMAIN tree : IsInjective(tree[n].children)
  /\ \A n \in DOMAIN tree : \A c \in Range(tree[n].children) :
       c \in DOMAIN tree /\ c # root /\ tree[c].parent = n
  /\ \A n \in DOMAIN tree : tree[n].parent # 0 =>
       tree[n].parent \in DOMAIN tree /\ n \in Range(tree[tree[n].parent].children)

(* Target is node, its parent, the parent of that, and so on.              *)
ClosedUp(tree, S) == \A n \in S : tree[n].parent # 0 => tree[n].parent \in S

Above(tree, target, node) ==
  \A S \in SUBSET DOMAIN tree : node \in S /\ ClosedUp(tree, S) => target \in S

(* Top, its children, the children of those, and so on.                    *)
ClosedDown(tree, S) == \A n \in S : Range(tree[n].children) \subseteq S

Under(tree, top) ==
  {n \in DOMAIN tree : \A S \in SUBSET DOMAIN tree : top \in S /\ ClosedDown(tree, S) => n \in S}

(* Trees with the same pointers.                                           *)
SameLinks(t, u) ==
  /\ DOMAIN u = DOMAIN t
  /\ \A n \in DOMAIN t : u[n].parent = t[n].parent /\ u[n].children = t[n].children

LEMMA LinksKept ==
  ASSUME NEW t, NEW u, IsTree(t), LinksMatch(t), SameLinks(t, u)
  PROVE  LinksMatch(u) /\ \A n \in DOMAIN t : Above(t, root, n) => Above(u, root, n)
<1>1. LinksMatch(u)
  BY DEF LinksMatch, SameLinks, IsTree
<1>2. \A S \in SUBSET DOMAIN t : ClosedUp(u, S) => ClosedUp(t, S)
  BY DEF ClosedUp, SameLinks
<1> QED
  BY <1>1, <1>2 DEF Above, SameLinks

(* The root is above a child of a node it is above, and above the parent.  *)
LEMMA AboveChild ==
  ASSUME NEW t, IsTree(t), LinksMatch(t), NEW n \in DOMAIN t, Above(t, root, n),
         NEW c \in Range(t[n].children)
  PROVE  c \in DOMAIN t /\ Above(t, root, c)
<1>1. c \in DOMAIN t /\ t[c].parent = n /\ n # 0
  BY DEF LinksMatch, IsTree
<1>2. \A S \in SUBSET DOMAIN t : c \in S /\ ClosedUp(t, S) => n \in S
  BY <1>1 DEF ClosedUp
<1> QED
  BY <1>1, <1>2 DEF Above

LEMMA AboveParent ==
  ASSUME NEW t, IsTree(t), LinksMatch(t), NEW n \in DOMAIN t, Above(t, root, n),
         t[n].parent # 0
  PROVE  t[n].parent \in DOMAIN t /\ Above(t, root, t[n].parent)
<1>1. t[n].parent \in DOMAIN t
  BY DEF LinksMatch
<1>2. ASSUME NEW S \in SUBSET DOMAIN t, t[n].parent \in S, ClosedUp(t, S)
      PROVE  root \in S
  <2>1. S \cup {n} \in SUBSET DOMAIN t /\ ClosedUp(t, S \cup {n})
    BY <1>2 DEF ClosedUp
  <2>2. root \in S \cup {n}
    BY <2>1 DEF Above
  <2>3. root # n
    BY DEF LinksMatch
  <2> QED
    BY <2>2, <2>3
<1> QED
  BY <1>1, <1>2 DEF Above

(* AddNode: a new child of the current directory.                          *)
Grown(t, u, dir, new) ==
  /\ DOMAIN u = DOMAIN t \cup {new}
  /\ u[new].parent = dir /\ u[new].children = <<>>
  /\ u[dir].parent = t[dir].parent /\ u[dir].children = <<new>> \o t[dir].children
  /\ \A n \in DOMAIN t \ {dir} : u[n] = t[n]

LEMMA GrownMatches ==
  ASSUME NEW t, NEW u, NEW dir \in DOMAIN t, NEW new \in (1 .. MaxNodes) \ DOMAIN t,
         IsTree(t), LinksMatch(t), Grown(t, u, dir, new)
  PROVE  /\ LinksMatch(u)
         /\ \A n \in DOMAIN t : Above(t, root, n) => Above(u, root, n)
         /\ Above(t, root, dir) => Above(u, root, new)
<1>1. \A n \in DOMAIN t : u[n].parent = t[n].parent /\ n # new /\ n # 0
  BY DEF Grown, IsTree
<1>2. t[dir].children \in Seq(1 .. MaxNodes) /\ new \notin Range(t[dir].children)
      /\ IsInjective(t[dir].children)
  BY DEF IsTree, IsNode, LinksMatch
<1>3. IsInjective(u[dir].children) /\ Range(u[dir].children) = {new} \cup Range(t[dir].children)
  <2> DEFINE A == 1 .. MaxNodes
             s == t[dir].children
  <2>1. s \in Seq(A) /\ new \in A /\ new \notin Range(s) /\ IsInjective(s)
    BY <1>2
  <2>2. u[dir].children = <<new>> \o s
    BY DEF Grown
  <2> HIDE DEF A, s
  <2>3. Range(<<new>> \o s) = {new} \cup Range(s) /\ IsInjective(<<new>> \o s)
    BY <2>1, PutBefore
  <2> QED
    BY <2>2, <2>3 DEF s
<1>4. IsInjective(u[new].children) /\ Range(u[new].children) = {}
  BY DEF Grown, IsInjective, Range
<1>5. \A n \in DOMAIN t : n # dir => u[n].children = t[n].children
  BY DEF Grown
<1>6. LinksMatch(u)
  <2>1. u[root].parent = 0
    BY <1>1 DEF LinksMatch, IsTree
  <2>2. \A n \in DOMAIN u : IsInjective(u[n].children)
    BY <1>3, <1>4, <1>5 DEF LinksMatch, Grown
  <2>3. ASSUME NEW n \in DOMAIN u, NEW c \in Range(u[n].children)
        PROVE  c \in DOMAIN u /\ c # root /\ u[c].parent = n
    <3>1. CASE c = new
      <4>1. n = dir
        BY <1>3, <1>4, <1>5, <3>1 DEF Grown, LinksMatch
      <4> QED
        BY <3>1, <4>1 DEF Grown, IsTree
    <3>2. CASE c # new
      <4>1. n \in DOMAIN t /\ c \in Range(t[n].children)
        BY <1>3, <1>4, <1>5, <3>2 DEF Grown
      <4> QED
        BY <1>1, <4>1 DEF Grown, LinksMatch
    <3> QED
      BY <3>1, <3>2
  <2>4. ASSUME NEW n \in DOMAIN u, u[n].parent # 0
        PROVE  u[n].parent \in DOMAIN u /\ n \in Range(u[u[n].parent].children)
    <3>1. CASE n = new
      BY <1>3, <3>1 DEF Grown
    <3>2. CASE n # new
      <4>1. n \in DOMAIN t /\ u[n].parent = t[n].parent
        BY <1>1, <3>2 DEF Grown
      <4>2. t[n].parent \in DOMAIN t /\ n \in Range(t[t[n].parent].children)
        BY <2>4, <4>1 DEF LinksMatch
      <4> QED
        BY <1>3, <1>5, <4>1, <4>2 DEF Grown
    <3> QED
      BY <3>1, <3>2
  <2> QED
    BY <2>1, <2>2, <2>3, <2>4 DEF LinksMatch
<1>7. ASSUME NEW S \in SUBSET DOMAIN u, ClosedUp(u, S)
      PROVE  S \cap DOMAIN t \in SUBSET DOMAIN t /\ ClosedUp(t, S \cap DOMAIN t)
  BY <1>1, <1>7 DEF ClosedUp, LinksMatch
<1>8. ASSUME NEW n \in DOMAIN t, Above(t, root, n) PROVE Above(u, root, n)
  BY <1>7, <1>8 DEF Above
<1>9. \A S \in SUBSET DOMAIN u : new \in S /\ ClosedUp(u, S) => dir \in S
  BY <1>1 DEF ClosedUp, Grown
<1>10. Above(t, root, dir) => Above(u, root, new)
  BY <1>8, <1>9 DEF Above
<1> QED
  BY <1>6, <1>8, <1>10

(* What free_node_recursive frees: with a node its children, and with a    *)
(* node other than the one it begins with its parent; never the root, and  *)
(* no directory it is not above.                                           *)
LEMMA UnderTop ==
  ASSUME NEW t, IsTree(t), LinksMatch(t), NEW n \in DOMAIN t, NEW top \in Range(t[n].children)
  PROVE  /\ top \in Under(t, top) /\ Under(t, top) \subseteq DOMAIN t
         /\ \A m \in Under(t, top) : Range(t[m].children) \subseteq Under(t, top)
         /\ \A m \in Under(t, top) \ {top} : t[m].parent \in Under(t, top)
         /\ root \notin Under(t, top)
         /\ \A dir \in DOMAIN t : ~Above(t, top, dir) => dir \notin Under(t, top)
<1> DEFINE F == Under(t, top)
<1>1. top \in DOMAIN t /\ top # root
  BY DEF LinksMatch
<1>2. top \in F /\ F \subseteq DOMAIN t
  BY <1>1 DEF Under
<1>3. ASSUME NEW S \in SUBSET DOMAIN t, top \in S, ClosedDown(t, S) PROVE F \subseteq S
  BY <1>3 DEF Under
<1>4. ASSUME NEW m \in F, NEW c \in Range(t[m].children) PROVE c \in F
  <2>1. c \in DOMAIN t /\ m \in DOMAIN t
    BY <1>2, <1>4 DEF LinksMatch
  <2>2. \A S \in SUBSET DOMAIN t : top \in S /\ ClosedDown(t, S) => c \in S
    BY <1>4, <1>3 DEF ClosedDown
  <2> QED
    BY <2>1, <2>2 DEF Under
<1>5. root \notin F
  <2>1. ClosedDown(t, DOMAIN t \ {root})
    BY DEF ClosedDown, LinksMatch
  <2> QED
    BY <1>1, <1>3, <2>1
<1>6. \A m \in F \ {top} : t[m].parent \in F
  <2> DEFINE G == {m \in F : m = top \/ t[m].parent \in F}
  <2>1. G \in SUBSET DOMAIN t /\ top \in G
    BY <1>2
  <2>2. ClosedDown(t, G)
    BY <1>2, <1>4 DEF ClosedDown, LinksMatch
  <2>3. F \subseteq G
    BY <1>3, <2>1, <2>2
  <2> QED
    BY <2>3
<1>7. ASSUME NEW dir \in DOMAIN t, ~Above(t, top, dir) PROVE dir \notin F
  <2>1. PICK S \in SUBSET DOMAIN t : dir \in S /\ ClosedUp(t, S) /\ top \notin S
    BY <1>7 DEF Above
  <2>2. ClosedDown(t, DOMAIN t \ S)
    <3> SUFFICES ASSUME NEW m \in DOMAIN t \ S, NEW c \in Range(t[m].children), c \in S
                 PROVE  FALSE
      BY DEF ClosedDown, LinksMatch
    <3>1. t[c].parent = m /\ m # 0
      BY DEF LinksMatch, IsTree
    <3> QED
      BY <2>1, <3>1 DEF ClosedUp
  <2>3. F \subseteq DOMAIN t \ S
    BY <1>1, <1>3, <2>1, <2>2
  <2> QED
    BY <2>1, <2>3
<1> QED
  BY <1>2, <1>4, <1>5, <1>6, <1>7

(* Rm: a child of the current directory is freed, and taken off its list.  *)
Pruned(t, u, dir, i) ==
  /\ DOMAIN u = DOMAIN t \ Under(t, t[dir].children[i])
  /\ u[dir].parent = t[dir].parent /\ u[dir].children = RemoveAt(t[dir].children, i)
  /\ \A n \in DOMAIN u \ {dir} : u[n] = t[n]

LEMMA PrunedMatches ==
  ASSUME NEW t, NEW u, NEW dir \in DOMAIN t, NEW i \in DOMAIN t[dir].children,
         IsTree(t), LinksMatch(t), ~Above(t, t[dir].children[i], dir), Pruned(t, u, dir, i)
  PROVE  /\ LinksMatch(u) /\ root \in DOMAIN u /\ dir \in DOMAIN u
         /\ \A n \in DOMAIN u : Above(t, root, n) => Above(u, root, n)
<1> DEFINE top == t[dir].children[i]
           F   == Under(t, top)
<1>1. top \in Range(t[dir].children)
  BY DEF Range
<1>2. /\ top \in F /\ F \subseteq DOMAIN t /\ root \notin F /\ dir \notin F
      /\ \A m \in F : Range(t[m].children) \subseteq F
      /\ \A m \in F \ {top} : t[m].parent \in F
  BY <1>1, UnderTop
<1>3. DOMAIN u = DOMAIN t \ F
  BY DEF Pruned
<1>4. /\ \A n \in DOMAIN u : u[n].parent = t[n].parent
      /\ \A n \in DOMAIN u : n # dir => u[n].children = t[n].children
  BY DEF Pruned
<1>5. IsInjective(u[dir].children) /\ Range(u[dir].children) = Range(t[dir].children) \ {top}
  <2>1. t[dir].children \in Seq(1 .. MaxNodes) /\ IsInjective(t[dir].children)
    BY DEF IsTree, IsNode, LinksMatch
  <2> QED
    BY <2>1, TakenOut DEF Pruned
<1>6. t[top].parent = dir
  BY <1>1 DEF LinksMatch
<1> HIDE DEF F, top
<1>7. ASSUME NEW n \in DOMAIN u PROVE Range(u[n].children) = Range(t[n].children) \ F
  <2>1. n \in DOMAIN t /\ n \notin F
    BY <1>3
  <2>2. \A c \in Range(t[n].children) : c \in F => c = top
    BY <1>2, <2>1 DEF LinksMatch
  <2>3. CASE n = dir
    BY <1>2, <1>5, <2>2, <2>3
  <2>4. CASE n # dir
    <3>1. top \notin Range(t[n].children)
      BY <1>6, <2>1, <2>4 DEF LinksMatch
    <3> QED
      BY <1>4, <2>2, <2>4, <3>1
  <2> QED
    BY <2>3, <2>4
<1>8. root \in DOMAIN u /\ dir \in DOMAIN u
  BY <1>2, <1>3 DEF IsTree
<1>9. LinksMatch(u)
  <2>1. u[root].parent = 0
    BY <1>4, <1>8 DEF LinksMatch
  <2>2. \A n \in DOMAIN u : IsInjective(u[n].children)
    BY <1>3, <1>4, <1>5 DEF LinksMatch
  <2>3. ASSUME NEW n \in DOMAIN u, NEW c \in Range(u[n].children)
        PROVE  c \in DOMAIN u /\ c # root /\ u[c].parent = n
    <3>1. n \in DOMAIN t /\ c \in Range(t[n].children) /\ c \notin F
      BY <1>3, <1>7
    <3>2. c \in DOMAIN t /\ c # root /\ t[c].parent = n
      BY <3>1 DEF LinksMatch
    <3> QED
      BY <1>3, <1>4, <3>1, <3>2
  <2>4. ASSUME NEW n \in DOMAIN u, u[n].parent # 0
        PROVE  u[n].parent \in DOMAIN u /\ n \in Range(u[u[n].parent].children)
    <3>1. n \in DOMAIN t /\ n \notin F /\ u[n].parent = t[n].parent
      BY <1>3, <1>4
    <3>2. t[n].parent \in DOMAIN t /\ n \in Range(t[t[n].parent].children)
      BY <2>4, <3>1 DEF LinksMatch
    <3>3. t[n].parent \notin F
      BY <1>2, <3>1, <3>2
    <3> QED
      BY <1>3, <1>7, <3>1, <3>2, <3>3
  <2> QED
    BY <2>1, <2>2, <2>3, <2>4 DEF LinksMatch
<1>10. \A S \in SUBSET DOMAIN u : S \in SUBSET DOMAIN t /\ (ClosedUp(u, S) => ClosedUp(t, S))
  BY <1>3, <1>4 DEF ClosedUp
<1> QED
  BY <1>8, <1>9, <1>10 DEF Above

----------------------------------------------------------------------------
(* The walk of serialize_node.                                             *)
Walks == [done : Seq(DOMAIN nodes), next : Seq(DOMAIN nodes)]

WalkFrom(t) ==
  t = [i \in 0 .. MaxNodes |->
        IF i = 0 THEN [done |-> <<>>, next |-> <<root>>] ELSE Visit(t[i - 1])]

(* The parent of node n is among the first k of s.                         *)
ParentAmong(s, k, n) == \E i \in 1 .. k : s[i] = nodes[n].parent

(* The root comes first, and every other node after its parent.            *)
ParentsFirst(walk) ==
  \/ walk.done = <<>> /\ walk.next = <<root>>
  \/ /\ Len(walk.done) >= 1 /\ walk.done[1] = root
     /\ \A j \in 2 .. Len(walk.done) : ParentAmong(walk.done, j - 1, walk.done[j])
     /\ \A j \in 1 .. Len(walk.next) : ParentAmong(walk.done, Len(walk.done), walk.next[j])

LEMMA VisitWalks ==
  ASSUME IsTree(nodes), LinksMatch(nodes), NEW walk \in Walks
  PROVE  /\ Visit(walk) \in Walks
         /\ ParentsFirst(walk) => ParentsFirst(Visit(walk)) /\ Visit(walk).done # <<>>
<1> DEFINE done == walk.done
           next == walk.next
           D    == DOMAIN nodes
<1>0. walk = [done |-> done, next |-> next] /\ done \in Seq(D) /\ next \in Seq(D)
  BY DEF Walks
<1>1. CASE next = <<>>
  <2>1. Visit(walk) = walk
    BY <1>1 DEF Visit
  <2>2. ParentsFirst(walk) => done # <<>>
    BY <1>1, <1>0 DEF ParentsFirst
  <2> QED
    BY <2>1, <2>2
<1>2. CASE next # <<>>
  <2> DEFINE h == Head(next)
             c == nodes[h].children
             d == Append(done, h)
             x == c \o Tail(next)
  <2>1. h \in D /\ h = next[1] /\ Tail(next) \in Seq(D) /\ Len(Tail(next)) = Len(next) - 1
        /\ \A j \in 1 .. Len(next) - 1 : Tail(next)[j] = next[j + 1]
    BY <1>0, <1>2
  <2>2. c \in Seq(D) /\ \A j \in 1 .. Len(c) : nodes[c[j]].parent = h
    <3>1. c \in Seq(1 .. MaxNodes)
      BY <2>1 DEF IsTree, IsNode
    <3>2. \A j \in 1 .. Len(c) : c[j] \in Range(c)
      BY <3>1 DEF Range
    <3>3. \A j \in 1 .. Len(c) : c[j] \in D /\ nodes[c[j]].parent = h
      BY <2>1, <3>2 DEF LinksMatch
    <3> HIDE DEF c
    <3> QED
      BY <3>1, <3>3
  <2>3. Visit(walk) = [done |-> d, next |-> x]
    BY <1>2 DEF Visit
  <2>4. d \in Seq(D) /\ Len(d) = Len(done) + 1 /\ d[Len(done) + 1] = h
        /\ \A j \in 1 .. Len(done) : d[j] = done[j]
    BY <1>0, <2>1
  <2>5. x \in Seq(D) /\ Len(x) = Len(c) + (Len(next) - 1)
        /\ \A j \in 1 .. Len(c) + (Len(next) - 1) :
             x[j] = IF j <= Len(c) THEN c[j] ELSE Tail(next)[j - Len(c)]
    <3> DEFINE r == Tail(next)
    <3>1. c \in Seq(D) /\ r \in Seq(D) /\ Len(r) = Len(next) - 1
      BY <2>1, <2>2
    <3> HIDE DEF c, r, D
    <3>2. /\ c \o r \in Seq(D) /\ Len(c \o r) = Len(c) + Len(r)
          /\ \A j \in 1 .. Len(c) + Len(r) :
               (c \o r)[j] = IF j <= Len(c) THEN c[j] ELSE r[j - Len(c)]
      BY <3>1, ConcatProperties
    <3> QED
      BY <3>1, <3>2 DEF r
  <2>6. ASSUME ParentsFirst(walk) PROVE ParentsFirst([done |-> d, next |-> x])
    <3> HIDE DEF d, x, c, h
    <3>0. Len(done) \in Nat /\ Len(next) \in Nat /\ Len(c) \in Nat
      BY <1>0, <2>2
    <3>1. Len(d) >= 1 /\ d[1] = root
      <4>1. CASE done = <<>> /\ next = <<root>>
        BY <2>1, <2>4, <4>1
      <4>2. CASE Len(done) >= 1 /\ done[1] = root
        BY <2>4, <4>2, <3>0
      <4> QED
        BY <2>6, <4>1, <4>2 DEF ParentsFirst
    <3>2. ASSUME NEW j \in 2 .. Len(d) PROVE ParentAmong(d, j - 1, d[j])
      <4>1. done # <<>>
        BY <2>4, <3>2
      <4>2. /\ \A i \in 2 .. Len(done) : ParentAmong(done, i - 1, done[i])
            /\ \A i \in 1 .. Len(next) : ParentAmong(done, Len(done), next[i])
        BY <2>6, <4>1 DEF ParentsFirst
      <4>3. CASE j = Len(done) + 1
        <5>1. ParentAmong(done, Len(done), h)
          BY <2>1, <4>2, <1>2, <1>0
        <5> QED
          BY <2>4, <3>0, <4>3, <5>1 DEF ParentAmong
      <4>4. CASE j # Len(done) + 1
        <5>1. j \in 2 .. Len(done)
          BY <2>4, <3>0, <4>4
        <5>2. ParentAmong(done, j - 1, done[j])
          BY <4>2, <5>1
        <5> QED
          BY SMTT(60), <2>4, <3>0, <5>1, <5>2 DEF ParentAmong
      <4> QED
        BY <4>3, <4>4
    <3>3. ASSUME NEW j \in 1 .. Len(x) PROVE ParentAmong(d, Len(d), x[j])
      <4>1. CASE j <= Len(c)
        <5>0. j \in 1 .. Len(c) /\ x[j] = c[j]
          BY <2>5, <3>0, <4>1
        <5>1. nodes[x[j]].parent = h /\ Len(done) + 1 \in 1 .. Len(d)
          BY <2>2, <2>4, <3>0, <5>0
        <5> QED
          BY <2>4, <5>1 DEF ParentAmong
      <4>2. CASE j > Len(c)
        <5>1. j - Len(c) \in 1 .. Len(next) - 1 /\ j - Len(c) + 1 \in 2 .. Len(next)
          BY <2>5, <3>0, <4>2
        <5>2. j \in 1 .. Len(c) + (Len(next) - 1) /\ ~(j <= Len(c))
          BY <2>5, <3>0, <4>2
        <5>3. x[j] = Tail(next)[j - Len(c)]
          BY <2>5, <5>2, Zenon
        <5>4. x[j] = next[j - Len(c) + 1]
          BY <2>1, <5>1, <5>3
        <5>5. done # <<>>
          <6>0. Len(<<root>>) = 1
            OBVIOUS
          <6>1. Len(next) >= 2
            BY <3>0, <5>1
          <6>2. \A k \in Nat : k >= 2 => k # 1
            OBVIOUS
          <6>3. next # <<root>>
            BY <3>0, <6>0, <6>1, <6>2, Zenon
          <6> QED
            BY <2>6, <6>3, <3>0 DEF ParentsFirst
        <5>6. ParentAmong(done, Len(done), x[j])
          BY SMTT(60), <2>6, <3>0, <5>1, <5>4, <5>5 DEF ParentsFirst
        <5> QED
          BY <2>4, <3>0, <5>6 DEF ParentAmong
      <4> QED
        BY <2>5, <3>0, <4>1, <4>2
    <3> QED
      BY <3>1, <3>2, <3>3 DEF ParentsFirst
  <2>7. d # <<>>
    <3>1. Len(done) \in Nat
      BY <1>0
    <3> HIDE DEF d
    <3> QED
      BY <2>4, <3>1
  <2>8. [done |-> d, next |-> x] \in Walks
    BY <2>4, <2>5 DEF Walks
  <2> HIDE DEF d, x
  <2> QED
    BY <2>3, <2>6, <2>7, <2>8
<1> QED
  BY <1>1, <1>2

(* The order of a save: of nodes of the tree, the root first and every     *)
(* other node after its parent, so that the index of its parent is smaller *)
(* than its own.                                                           *)
LEMMA OrderOfSave ==
  ASSUME IsTree(nodes), LinksMatch(nodes)
  PROVE  /\ Order \in Seq(DOMAIN nodes) /\ Len(Order) >= 1 /\ Order[1] = root
         /\ \A j \in 2 .. Len(Order) : ParentIdx(Order[j]) \in 1 .. j - 1
         /\ ParentIdx(root) = 0
<1> DEFINE first == [done |-> <<>>, next |-> <<root>>]
           step  == [i \in 0 + 1 .. MaxNodes |-> [walk \in Walks |-> Visit(walk)]]
           t     == CHOOSE t : WalkFrom(t)
<1>0. MaxNodes \in Nat \ {0}
  BY FileSystemAssumption
<1>1. first \in Walks
  BY DEF Walks, IsTree
<1>2. step \in [0 + 1 .. MaxNodes -> [Walks -> Walks]]
  BY VisitWalks
<1>3. \E g : WalkFrom(g)
  <2> HIDE DEF first, step
  <2>1. PICK g : Runs(g, 0, MaxNodes, Walks, first, step)
    <3>1. 0 \in Nat /\ MaxNodes \in Nat /\ 0 <= MaxNodes
      BY <1>0
    <3> QED
      BY <1>1, <1>2, <3>1, StepsRun
  <2>2. g \in [0 .. MaxNodes -> Walks] /\ g[0] = first
    BY <2>1 DEF Runs
  <2>3. ASSUME NEW i \in 0 .. MaxNodes, i # 0 PROVE g[i] = Visit(g[i - 1])
    <3>1. i \in 0 + 1 .. MaxNodes /\ i - 1 \in 0 .. MaxNodes
      BY <1>0, <2>3
    <3>2. g[i] = step[i][g[i - 1]] /\ g[i - 1] \in Walks
      BY <2>1, <2>2, <3>1 DEF Runs
    <3> QED
      BY <3>1, <3>2 DEF step
  <2>4. g = [i \in 0 .. MaxNodes |-> IF i = 0 THEN first ELSE Visit(g[i - 1])]
    BY <2>2, <2>3
  <2> QED
    BY <2>4 DEF WalkFrom, first
<1>4. WalkFrom(t)
  BY <1>3
<1>5. Order = t[MaxNodes].done
  BY Zenon DEF Order, WalkFrom
<1> HIDE DEF t, step
<1>6. t[0] = first /\ \A i \in 0 .. MaxNodes : i # 0 => t[i] = Visit(t[i - 1])
  BY <1>0, <1>4 DEF WalkFrom
<1> DEFINE S == {i \in 0 .. MaxNodes :
                   t[i] \in Walks /\ ParentsFirst(t[i]) /\ (i # 0 => t[i].done # <<>>)}
<1>7. \A k \in 0 .. MaxNodes : k \in S
  <2>1. 0 \in S
    BY <1>0, <1>1, <1>6 DEF ParentsFirst
  <2>2. ASSUME NEW k \in 0 .. MaxNodes, k < MaxNodes, k \in S PROVE k + 1 \in S
    <3>1. k + 1 \in 0 .. MaxNodes /\ k + 1 # 0 /\ (k + 1) - 1 = k
      BY <1>0, <2>2
    <3>2. t[k + 1] = Visit(t[k])
      BY <1>6, <3>1
    <3>3. t[k] \in Walks /\ ParentsFirst(t[k])
      BY <2>2
    <3>4. /\ Visit(t[k]) \in Walks /\ ParentsFirst(Visit(t[k])) /\ Visit(t[k]).done # <<>>
      BY <3>3, VisitWalks
    <3> QED
      BY <3>1, <3>2, <3>4
  <2> HIDE DEF S
  <2>3. \A k \in 0 .. MaxNodes : k < MaxNodes /\ k \in S => k + 1 \in S
    BY <2>2
  <2> QED
    BY <1>0, <2>1, <2>3, FromTo
<1>8. MaxNodes \in S
  BY <1>0, <1>7
<1>9. t[MaxNodes] \in Walks /\ ParentsFirst(t[MaxNodes]) /\ t[MaxNodes].done # <<>>
  BY <1>0, <1>8
<1> HIDE DEF S
<1>10. Order \in Seq(DOMAIN nodes) /\ Order # <<>>
  BY <1>5, <1>9 DEF Walks
<1>11. /\ Len(Order) >= 1 /\ Order[1] = root
       /\ \A j \in 2 .. Len(Order) : ParentAmong(Order, j - 1, Order[j])
  BY <1>5, <1>9 DEF ParentsFirst
<1>12. ASSUME NEW j \in 2 .. Len(Order) PROVE ParentIdx(Order[j]) \in 1 .. j - 1
  <2> DEFINE I == {i \in 1 .. Len(Order) : Order[i] = nodes[Order[j]].parent}
  <2>1. PICK i \in 1 .. j - 1 : Order[i] = nodes[Order[j]].parent
    BY <1>11 DEF ParentAmong
  <2>2. i \in I /\ Len(Order) \in Nat
    BY <1>10, <2>1
  <2>3. I \subseteq Nat /\ I # {}
    BY <2>2
  <2>4. Min(I) \in I /\ Min(I) <= i
    BY <2>2, <2>3, MinInSet
  <2>5. ParentIdx(Order[j]) = Min(I)
    BY <2>3 DEF ParentIdx, SelectInSeq
  <2> QED
    BY <2>1, <2>2, <2>4, <2>5
<1>13. ParentIdx(root) = 0
  <2>1. \A i \in 1 .. Len(Order) : Order[i] \in DOMAIN nodes
    BY <1>10
  <2>2. \A i \in 1 .. Len(Order) : Order[i] # 0
    BY <2>1 DEF IsTree
  <2>3. {i \in 1 .. Len(Order) : Order[i] = nodes[root].parent} = {}
    BY <2>2 DEF LinksMatch
  <2> QED
    BY <2>3 DEF ParentIdx, SelectInSeq
<1> QED
  BY <1>10, <1>11, <1>12, <1>13

----------------------------------------------------------------------------
(* What is on the disk, and what fs_init makes of it.                      *)

(* Entries in the order of a save.                                         *)
IsPromise(P) ==
  /\ P \in Seq(Range(P))
  /\ P # <<>> => P[1].type = "FS_DIRECTORY" /\ P[1].parent = 0
  /\ \A i \in 1 .. Len(P) :
       /\ P[i].name \in NodeNames /\ P[i].type \in {"FS_FILE", "FS_DIRECTORY"}
       /\ IsData(P[i].data, P[i].type)
       /\ i > 1 => P[i].parent \in 1 .. i - 1

(* A table of the first of them.                                           *)
IsTable(T, P) ==
  /\ T \in Seq(Range(T))
  /\ Len(T) = IF Len(P) <= MAX_DISK_NODES THEN Len(P) ELSE MAX_DISK_NODES
  /\ \A i \in 1 .. Len(T) :
       /\ T[i].name = P[i].name /\ T[i].type = P[i].type /\ T[i].parent = P[i].parent
       /\ T[i].size = P[i].data.size

Used(loose) == {i \in Entries : Read(loose, i) # Unused}

IsLoose(loose) == loose \in [Whole + 1 .. MAX_DISK_NODES -> Junk]

(* The size tells whether there is data.                                   *)
LEMMA SizeOfData ==
  ASSUME NEW d, NEW type, IsData(d, type)
  PROVE  d.size > 0 <=> d # NoData
BY DEF IsData, NoData

(* Every entry in use has types, and the entries that are whole are used.  *)
LEMMA EntriesRead ==
  ASSUME IsPromise(promised), IsTable(disk.table, promised), disk.table # <<>>,
         NEW loose, IsLoose(loose)
  PROVE  /\ \A i \in Used(loose) :
              /\ Read(loose, i).name \in NodeNames
              /\ Read(loose, i).type \in {"FS_FILE", "FS_DIRECTORY"}
              /\ IsData(Read(loose, i).data, Read(loose, i).type)
         /\ \A i \in 1 .. Len(disk.table) : i <= Whole + 1 =>
              /\ i \in Used(loose)
              /\ Read(loose, i).name = promised[i].name
              /\ Read(loose, i).type = promised[i].type
              /\ Read(loose, i).parent = promised[i].parent
         /\ \A i \in 1 .. Len(disk.table) : i <= Whole =>
              /\ Read(loose, i).data.size = promised[i].data.size
              /\ Read(loose, i).data.text = IF promised[i].data = NoData THEN "none"
                                            ELSE disk.sectors[i]
         /\ 1 \in 1 .. Len(disk.table) /\ 1 \in Used(loose)
         /\ \A i \in Used(loose) : i <= Whole + 1 => i \in 1 .. Len(disk.table)
<1> DEFINE T == disk.table
           P == promised
<1>0. /\ Whole \in Nat \ {0} /\ MAX_DISK_NODES \in Nat \ {0} /\ Whole < MAX_DISK_NODES
      /\ Len(T) \in Nat /\ Len(P) \in Nat /\ Len(T) <= Len(P) /\ Len(T) <= MAX_DISK_NODES
  BY FileSystemAssumption DEF IsTable, IsPromise
<1>1. Len(T) >= 1
  BY <1>0 DEF IsTable
<1>2. ASSUME NEW i \in 1 .. Len(T)
      PROVE  /\ T[i].name = P[i].name /\ T[i].type = P[i].type /\ T[i].parent = P[i].parent
             /\ T[i].size = P[i].data.size
             /\ P[i].name \in NodeNames /\ P[i].type \in {"FS_FILE", "FS_DIRECTORY"}
             /\ IsData(P[i].data, P[i].type)
             /\ i > 1 => P[i].parent \in 1 .. i - 1
             /\ i = 1 => P[i].type = "FS_DIRECTORY"
  <2>1. i \in 1 .. Len(P) /\ P # <<>>
    BY <1>0
  <2> QED
    BY <2>1 DEF IsTable, IsPromise
<1>3. ASSUME NEW i \in 1 .. Len(T), i <= Whole + 1
      PROVE  /\ Read(loose, i) = [name |-> P[i].name, type |-> P[i].type,
                                  parent |-> P[i].parent, data |-> Read(loose, i).data]
             /\ i \in Used(loose)
  <2>1. Read(loose, i) = [name |-> T[i].name, type |-> T[i].type, parent |-> T[i].parent,
                          data |-> Read(loose, i).data]
    BY <1>0, <1>3 DEF Read
  <2>2. Read(loose, i).type = T[i].type /\ Read(loose, i).parent = T[i].parent
    BY <2>1
  <2>3. Unused.type = "FS_FILE" /\ Unused.parent = 0
    BY DEF Unused
  <2>4. T[i].type # "FS_FILE" \/ T[i].parent # 0
    BY <1>0, <1>2
  <2>5. Read(loose, i) # Unused
    BY <2>2, <2>3, <2>4
  <2> QED
    BY <1>0, <1>2, <2>1, <2>5 DEF Used, Entries
<1>4. ASSUME NEW i \in 1 .. Len(T), i <= Whole
      PROVE  /\ Read(loose, i).data = DataOf(i)
             /\ DataOf(i) = IF P[i].data = NoData THEN NoData
                            ELSE [text |-> disk.sectors[i], size |-> P[i].data.size]
             /\ IsData(Read(loose, i).data, P[i].type)
             /\ P[i].data = NoData => P[i].data.size = 0
  <2>1. Read(loose, i).data = DataOf(i)
    BY <1>0, <1>4 DEF Read
  <2>2. P[i].data.size > 0 <=> P[i].data # NoData
    BY <1>2, SizeOfData
  <2>3. P[i].data # NoData => P[i].type = "FS_FILE" /\ P[i].data.size \in Nat \ {0}
    BY <1>2 DEF IsData
  <2>4. P[i].data = NoData => P[i].data.size = 0
    BY DEF NoData
  <2>5. DataOf(i) = IF P[i].data = NoData THEN NoData
                    ELSE [text |-> disk.sectors[i], size |-> P[i].data.size]
    BY <1>2, <2>2, <2>3 DEF DataOf
  <2>6. IsData(DataOf(i), P[i].type)
    BY <2>3, <2>5 DEF IsData
  <2> QED
    BY <2>1, <2>4, <2>5, <2>6
<1>5. ASSUME NEW i \in Used(loose), i <= Whole + 1 PROVE i \in 1 .. Len(T)
  BY <1>0, <1>5 DEF Used, Read, Entries
<1>6. ASSUME NEW i \in Used(loose), i > Whole + 1
      PROVE  Read(loose, i) = loose[i] /\ loose[i] \in Junk
  BY <1>0, <1>6 DEF Used, Read, Entries, IsLoose
<1>7. ASSUME NEW e \in Junk
      PROVE  /\ e.name \in NodeNames /\ e.type \in {"FS_FILE", "FS_DIRECTORY"}
             /\ IsData(e.data, e.type) /\ IsData(e.data, "FS_FILE")
  BY JunkAssumption DEF IsData, NodeNames
<1>8. ASSUME NEW i \in Used(loose)
      PROVE  /\ Read(loose, i).name \in NodeNames
             /\ Read(loose, i).type \in {"FS_FILE", "FS_DIRECTORY"}
             /\ IsData(Read(loose, i).data, Read(loose, i).type)
  <2>0. i \in Nat
    BY <1>0 DEF Used, Entries
  <2>1. CASE i > Whole + 1
    BY <1>6, <1>7, <2>1
  <2>2. CASE i <= Whole
    <3>1. i \in 1 .. Len(T)
      BY <1>0, <1>5, <2>0, <2>2
    <3>2. Read(loose, i).name = P[i].name /\ Read(loose, i).type = P[i].type
      BY <1>0, <1>3, <2>0, <2>2, <3>1
    <3> QED
      BY <1>2, <1>4, <2>2, <3>1, <3>2
  <2>3. CASE i = Whole + 1
    <3>1. i \in 1 .. Len(T)
      BY <1>0, <1>5, <2>3
    <3>2. Read(loose, i).name = P[i].name /\ Read(loose, i).type = P[i].type
      BY <1>0, <1>3, <2>3, <3>1
    <3>3. Read(loose, i).data = IF T[i].type = "FS_FILE" THEN loose[i].data ELSE NoData
      BY <1>0, <2>3, <3>1 DEF Read
    <3>4. loose[i] \in Junk
      BY <1>0, <2>3 DEF IsLoose
    <3>5. IsData(Read(loose, i).data, P[i].type)
      <4>1. CASE P[i].type = "FS_FILE"
        BY <1>2, <1>7, <3>1, <3>3, <3>4, <4>1
      <4>2. CASE P[i].type # "FS_FILE"
        BY <1>2, <3>1, <3>3, <4>2 DEF IsData
      <4> QED
        BY <4>1, <4>2
    <3> QED
      BY <1>2, <3>1, <3>2, <3>5
  <2> QED
    BY <1>0, <2>0, <2>1, <2>2, <2>3
<1>9. ASSUME NEW i \in 1 .. Len(T), i <= Whole + 1
      PROVE  /\ i \in Used(loose) /\ Read(loose, i).name = P[i].name
             /\ Read(loose, i).type = P[i].type /\ Read(loose, i).parent = P[i].parent
  BY <1>3, <1>9
<1>10. ASSUME NEW i \in 1 .. Len(T), i <= Whole
       PROVE  /\ Read(loose, i).data.size = P[i].data.size
              /\ Read(loose, i).data.text = IF P[i].data = NoData THEN "none" ELSE disk.sectors[i]
  <2>1. CASE P[i].data = NoData
    BY <1>4, <1>10, <2>1 DEF NoData
  <2>2. CASE P[i].data # NoData
    BY <1>4, <1>10, <2>2
  <2> QED
    BY <2>1, <2>2
<1>11. 1 \in 1 .. Len(T) /\ 1 \in Used(loose)
  BY <1>0, <1>1, <1>9
<1> HIDE DEF T, P
<1> QED
  BY <1>5, <1>8, <1>9, <1>10, <1>11 DEF T, P

(* The turns of the loop that links the nodes.                             *)
Unlinked(loose) ==
  [n \in Used(loose) |->
    [name |-> Read(loose, n).name, type |-> Read(loose, n).type,
     data |-> Read(loose, n).data, parent |-> 0, children |-> <<>>]]

LinkedNext(loose, tree, i) ==
  IF {i, Read(loose, i).parent} \subseteq Used(loose)
  THEN Linked(tree, i, Read(loose, i).parent) ELSE tree

Links(loose, t) ==
  t = [i \in Entries |-> IF i = root THEN Unlinked(loose) ELSE LinkedNext(loose, t[i - 1], i)]

(* Node n has been put under its parent.                                   *)
IsPut(loose, n, k) == n \in 2 .. k /\ Read(loose, n).parent \in Used(loose)

(* The tree after the turn of entry k.                                     *)
PutUpTo(loose, tree, k) ==
  \A n \in Used(loose) :
    /\ tree[n].name = Read(loose, n).name /\ tree[n].type = Read(loose, n).type
    /\ tree[n].data = Read(loose, n).data
    /\ tree[n].parent = IF IsPut(loose, n, k) THEN Read(loose, n).parent ELSE 0
    /\ IsInjective(tree[n].children)
    /\ Range(tree[n].children)
         = {c \in Used(loose) : IsPut(loose, c, k) /\ Read(loose, c).parent = n}

LoadedNodes(loose) ==
  [name : NodeNames, type : {"FS_FILE", "FS_DIRECTORY"},
   data : {Read(loose, n).data : n \in Used(loose)}, parent : Nat,
   children : Seq(1 .. MaxNodes)]

LoadedTrees(loose) == [Used(loose) -> LoadedNodes(loose)]

LEMMA LinkedIsTree ==
  ASSUME NEW loose, NEW tree \in LoadedTrees(loose), NEW i \in Used(loose), NEW p \in Used(loose)
  PROVE  /\ Linked(tree, i, p) \in LoadedTrees(loose)
         /\ \A n \in Used(loose) :
              LET node == Linked(tree, i, p)[n]
              IN  /\ node.name = tree[n].name /\ node.type = tree[n].type
                  /\ node.data = tree[n].data
                  /\ node.parent = IF n = i THEN p ELSE tree[n].parent
                  /\ node.children = IF n = p THEN <<i>> \o tree[n].children
                                     ELSE tree[n].children
<1>0. Used(loose) \subseteq 1 .. MaxNodes /\ Used(loose) \subseteq Nat
  BY FileSystemAssumption DEF Used, Entries
<1>1. ASSUME NEW n \in Used(loose)
      PROVE  LET node == Linked(tree, i, p)[n]
             IN  /\ node.name = tree[n].name /\ node.type = tree[n].type
                 /\ node.data = tree[n].data
                 /\ node.parent = IF n = i THEN p ELSE tree[n].parent
                 /\ node.children = IF n = p THEN <<i>> \o tree[n].children
                                    ELSE tree[n].children
                 /\ node \in LoadedNodes(loose)
  <2> DEFINE parent   == IF n = i THEN p ELSE tree[n].parent
             children == IF n = p THEN <<i>> \o tree[n].children ELSE tree[n].children
  <2>1. DOMAIN tree = Used(loose) /\ tree[n] \in LoadedNodes(loose)
    BY DEF LoadedTrees
  <2>2. Linked(tree, i, p)[n] = [tree[n] EXCEPT !.parent = parent, !.children = children]
    BY <2>1 DEF Linked
  <2>3. parent \in Nat /\ children \in Seq(1 .. MaxNodes)
    <3>1. tree[n].parent \in Nat /\ tree[n].children \in Seq(1 .. MaxNodes)
      BY <2>1 DEF LoadedNodes
    <3>2. <<i>> \o tree[n].children \in Seq(1 .. MaxNodes)
      BY <1>0, <3>1
    <3> QED
      BY <1>0, <3>1, <3>2
  <2> HIDE DEF parent, children
  <2>4. /\ [tree[n] EXCEPT !.parent = parent, !.children = children] \in LoadedNodes(loose)
        /\ [tree[n] EXCEPT !.parent = parent, !.children = children].parent = parent
        /\ [tree[n] EXCEPT !.parent = parent, !.children = children].children = children
        /\ [tree[n] EXCEPT !.parent = parent, !.children = children].name = tree[n].name
        /\ [tree[n] EXCEPT !.parent = parent, !.children = children].type = tree[n].type
        /\ [tree[n] EXCEPT !.parent = parent, !.children = children].data = tree[n].data
    BY <2>1, <2>3 DEF LoadedNodes
  <2> QED
    BY <2>2, <2>4 DEF parent, children
<1>2. DOMAIN Linked(tree, i, p) = Used(loose)
  BY DEF LoadedTrees, Linked
<1>3. Linked(tree, i, p) = [n \in Used(loose) |-> Linked(tree, i, p)[n]]
  BY <1>2 DEF Linked
<1>4. Linked(tree, i, p) \in LoadedTrees(loose)
  BY <1>1, <1>3 DEF LoadedTrees
<1> QED
  BY <1>1, <1>4

LEMMA TurnLinks ==
  ASSUME NEW loose, NEW tree \in LoadedTrees(loose), NEW k \in 1 .. MAX_DISK_NODES,
         k < MAX_DISK_NODES, PutUpTo(loose, tree, k)
  PROVE  PutUpTo(loose, LinkedNext(loose, tree, k + 1), k + 1)
<1> DEFINE U == Used(loose)
           i == k + 1
           p == Read(loose, i).parent
<1>0. U \subseteq 1 .. MaxNodes /\ U \subseteq Nat /\ k \in Nat
  BY FileSystemAssumption DEF Used, Entries
<1>1. \A n \in U : n # i => (IsPut(loose, n, i) <=> IsPut(loose, n, k))
  BY <1>0 DEF IsPut
<1>2. ~IsPut(loose, i, k)
  BY <1>0 DEF IsPut
<1>3. CASE i \in U /\ p \in U
  <2>1. LinkedNext(loose, tree, i) = Linked(tree, i, p)
    BY <1>3 DEF LinkedNext
  <2>2. IsPut(loose, i, i)
    BY <1>0, <1>3 DEF IsPut
  <2> HIDE DEF U, i, p
  <2>3. SUFFICES ASSUME NEW n \in U
        PROVE  LET node == Linked(tree, i, p)[n]
               IN  /\ node.name = Read(loose, n).name /\ node.type = Read(loose, n).type
                   /\ node.data = Read(loose, n).data
                   /\ node.parent = IF IsPut(loose, n, i) THEN Read(loose, n).parent ELSE 0
                   /\ IsInjective(node.children)
                   /\ Range(node.children)
                        = {c \in U : IsPut(loose, c, i) /\ Read(loose, c).parent = n}
    BY <2>1 DEF PutUpTo, U, i
  <2> DEFINE node == Linked(tree, i, p)[n]
  <2>4. /\ node.name = tree[n].name /\ node.type = tree[n].type /\ node.data = tree[n].data
        /\ node.parent = IF n = i THEN p ELSE tree[n].parent
        /\ node.children = IF n = p THEN <<i>> \o tree[n].children ELSE tree[n].children
    BY <1>3, LinkedIsTree DEF U
  <2> HIDE DEF node
  <2>5. /\ tree[n].name = Read(loose, n).name /\ tree[n].type = Read(loose, n).type
        /\ tree[n].data = Read(loose, n).data
        /\ tree[n].parent = IF IsPut(loose, n, k) THEN Read(loose, n).parent ELSE 0
        /\ IsInjective(tree[n].children)
        /\ Range(tree[n].children)
             = {c \in U : IsPut(loose, c, k) /\ Read(loose, c).parent = n}
    BY DEF PutUpTo, U
  <2>6. node.parent = IF IsPut(loose, n, i) THEN Read(loose, n).parent ELSE 0
    BY <1>1, <2>2, <2>4, <2>5 DEF p
  <2>7. CASE n = p
    <3> DEFINE s == tree[n].children
               A == 1 .. MaxNodes
    <3>1. s \in Seq(A) /\ i \in A
      BY <1>0, <1>3 DEF LoadedTrees, LoadedNodes, U
    <3>2. IsInjective(s) /\ i \notin Range(s)
      BY <1>2, <2>5
    <3>3. node.children = <<i>> \o s
      BY <2>4, <2>7
    <3> HIDE DEF s, A
    <3>4. Range(<<i>> \o s) = {i} \cup Range(s) /\ IsInjective(<<i>> \o s)
      BY <3>1, <3>2, PutBefore
    <3>5. Range(s) = {c \in U : IsPut(loose, c, k) /\ Read(loose, c).parent = n}
      BY <2>5 DEF s
    <3>6. {i} \cup Range(s) = {c \in U : IsPut(loose, c, i) /\ Read(loose, c).parent = n}
      BY <1>1, <1>2, <1>3, <2>2, <2>7, <3>5 DEF p
    <3> QED
      BY <2>4, <2>5, <2>6, <3>3, <3>4, <3>6 DEF node
  <2>8. CASE n # p
    <3>1. {c \in U : IsPut(loose, c, k) /\ Read(loose, c).parent = n}
            = {c \in U : IsPut(loose, c, i) /\ Read(loose, c).parent = n}
      BY <1>1, <2>8 DEF p
    <3> QED
      BY <2>4, <2>5, <2>6, <2>8, <3>1 DEF node
  <2> QED
    BY <2>7, <2>8
<1>4. CASE ~(i \in U /\ p \in U)
  <2>1. LinkedNext(loose, tree, i) = tree
    BY <1>4 DEF LinkedNext
  <2>2. \A n \in U : IsPut(loose, n, i) <=> IsPut(loose, n, k)
    BY <1>1, <1>2, <1>4 DEF IsPut
  <2> QED
    BY <2>1, <2>2 DEF PutUpTo
<1> QED
  BY <1>3, <1>4

LEMMA LoadedIsPut ==
  ASSUME IsPromise(promised), IsTable(disk.table, promised), disk.table # <<>>,
         NEW loose, IsLoose(loose)
  PROVE  /\ Loaded(loose) \in LoadedTrees(loose)
         /\ PutUpTo(loose, Loaded(loose), MAX_DISK_NODES)
<1> DEFINE M     == MAX_DISK_NODES
           V     == LoadedTrees(loose)
           first == Unlinked(loose)
           step  == [i \in 1 + 1 .. M |-> [tree \in V |-> LinkedNext(loose, tree, i)]]
           t     == CHOOSE t : Links(loose, t)
<1>0. M \in Nat \ {0} /\ Entries = 1 .. M /\ root = 1
  BY FileSystemAssumption DEF Entries, root
<1>1. \A i \in Used(loose) :
        /\ Read(loose, i).name \in NodeNames
        /\ Read(loose, i).type \in {"FS_FILE", "FS_DIRECTORY"}
  BY EntriesRead
<1>2. first \in V
  <2>1. <<>> \in Seq(1 .. MaxNodes)
    OBVIOUS
  <2>2. \A n \in Used(loose) :
          [name |-> Read(loose, n).name, type |-> Read(loose, n).type,
           data |-> Read(loose, n).data, parent |-> 0, children |-> <<>>] \in LoadedNodes(loose)
    BY <1>1, <2>1 DEF LoadedNodes
  <2> QED
    BY <2>2 DEF Unlinked, LoadedTrees
<1>3. PutUpTo(loose, first, 1)
  <2>1. \A n : ~IsPut(loose, n, 1)
    BY DEF IsPut
  <2>2. IsInjective(<<>>) /\ Range(<<>>) = {}
    BY DEF IsInjective, Range
  <2> QED
    BY <2>1, <2>2 DEF PutUpTo, Unlinked
<1>4. ASSUME NEW i \in 1 .. M, NEW tree \in V PROVE LinkedNext(loose, tree, i) \in V
  BY LinkedIsTree DEF LinkedNext
<1>5. step \in [1 + 1 .. M -> [V -> V]]
  <2>1. \A i \in 1 + 1 .. M : i \in 1 .. M
    BY <1>0
  <2> QED
    BY <1>4, <2>1
<1>6. \E g : Links(loose, g)
  <2> HIDE DEF first, step, V, M
  <2>1. PICK g : Runs(g, 1, M, V, first, step)
    <3>1. 1 \in Nat /\ M \in Nat /\ 1 <= M
      BY <1>0
    <3> QED
      BY <1>2, <1>5, <3>1, StepsRun
  <2>2. g \in [1 .. M -> V] /\ g[1] = first
    BY <2>1 DEF Runs
  <2>3. ASSUME NEW i \in 1 .. M, i # 1 PROVE g[i] = LinkedNext(loose, g[i - 1], i)
    <3>1. i \in 1 + 1 .. M /\ i - 1 \in 1 .. M
      BY <1>0, <2>3
    <3>2. g[i] = step[i][g[i - 1]] /\ g[i - 1] \in V
      BY <2>1, <2>2, <3>1 DEF Runs
    <3> QED
      BY <3>1, <3>2 DEF step
  <2>4. g = [i \in 1 .. M |-> IF i = 1 THEN first ELSE LinkedNext(loose, g[i - 1], i)]
    BY <2>2, <2>3
  <2> QED
    BY <1>0, <2>4 DEF Links, first
<1>7. Links(loose, t)
  BY <1>6
<1>8. Loaded(loose) = t[M]
  BY Zenon DEF Loaded, Links, Unlinked, LinkedNext, Used
<1> HIDE DEF t, step, first
<1>9. t[1] = first /\ \A i \in 1 .. M : i # 1 => t[i] = LinkedNext(loose, t[i - 1], i)
  BY <1>0, <1>7 DEF Links, first
<1> DEFINE S == {k \in 1 .. M : t[k] \in V /\ PutUpTo(loose, t[k], k)}
<1>10. 1 \in S
  BY <1>0, <1>2, <1>3, <1>9
<1>11. ASSUME NEW k \in 1 .. M, k < M, k \in S PROVE k + 1 \in S
  <2>1. k + 1 \in 1 .. M /\ k + 1 # 1 /\ (k + 1) - 1 = k
    BY <1>0, <1>11
  <2>2. t[k + 1] = LinkedNext(loose, t[k], k + 1)
    BY <1>9, <2>1
  <2>3. t[k] \in V /\ PutUpTo(loose, t[k], k)
    BY <1>11
  <2>4. LinkedNext(loose, t[k], k + 1) \in V
    BY <1>4, <2>1, <2>3
  <2>5. PutUpTo(loose, LinkedNext(loose, t[k], k + 1), k + 1)
    BY <1>11, <2>3, TurnLinks
  <2> QED
    BY <2>1, <2>2, <2>4, <2>5
<1> HIDE DEF S, V, M
<1>12. \A k \in 1 .. M : k < M /\ k \in S => k + 1 \in S
  BY <1>11
<1>13. \A k \in 1 .. M : k \in S
  <2>1. 1 \in Nat /\ M \in Nat
    BY <1>0
  <2> QED
    BY <1>10, <1>12, <2>1, FromTo
<1>14. M \in S
  BY <1>0, <1>13
<1> QED
  BY <1>8, <1>14 DEF S, V, M

(* The tree that fs_init makes: its nodes are the entries in use, with     *)
(* what they say, and its pointers match.                                  *)
LEMMA LoadedTree ==
  ASSUME IsPromise(promised), IsTable(disk.table, promised), disk.table # <<>>,
         NEW loose, IsLoose(loose)
  PROVE  /\ IsTree(Loaded(loose)) /\ LinksMatch(Loaded(loose))
         /\ DOMAIN Loaded(loose) = Used(loose)
         /\ \A n \in Used(loose) :
              /\ Loaded(loose)[n].name = Read(loose, n).name
              /\ Loaded(loose)[n].type = Read(loose, n).type
              /\ Loaded(loose)[n].data = Read(loose, n).data
              /\ n # root /\ Read(loose, n).parent \in Used(loose) =>
                   Loaded(loose)[n].parent = Read(loose, n).parent
<1> DEFINE t == Loaded(loose)
           M == MAX_DISK_NODES
           U == Used(loose)
<1>0. M \in Nat /\ U \subseteq 1 .. M /\ U \subseteq 1 .. MaxNodes /\ U \subseteq Nat
  BY FileSystemAssumption DEF Used, Entries
<1>1. t \in LoadedTrees(loose) /\ PutUpTo(loose, t, M)
  BY LoadedIsPut
<1>2. root \in U
  BY EntriesRead DEF root
<1> HIDE DEF t, U
<1>3. DOMAIN t = U
  BY <1>1 DEF LoadedTrees, U
<1>4. ASSUME NEW n \in U
      PROVE  /\ t[n].name = Read(loose, n).name /\ t[n].type = Read(loose, n).type
             /\ t[n].data = Read(loose, n).data
             /\ t[n].parent = IF IsPut(loose, n, M) THEN Read(loose, n).parent ELSE 0
             /\ IsInjective(t[n].children)
             /\ Range(t[n].children)
                  = {c \in U : IsPut(loose, c, M) /\ Read(loose, c).parent = n}
  BY <1>1 DEF PutUpTo, U
<1>5. \A n \in U : IsPut(loose, n, M) <=> n # root /\ Read(loose, n).parent \in U
  BY <1>0 DEF IsPut, root, U
<1>6. IsTree(t)
  <2>1. ASSUME NEW n \in U PROVE IsNode(t[n])
    <3>1. t[n] \in LoadedNodes(loose)
      BY <1>1 DEF LoadedTrees, U
    <3>2. t[n] = [name |-> t[n].name, type |-> t[n].type, data |-> t[n].data,
                  parent |-> t[n].parent, children |-> t[n].children]
      BY <3>1 DEF LoadedNodes
    <3>3. t[n].children \in Seq(1 .. MaxNodes)
      BY <3>1 DEF LoadedNodes
    <3>4. /\ t[n].name \in NodeNames /\ t[n].type \in {"FS_FILE", "FS_DIRECTORY"}
          /\ IsData(t[n].data, t[n].type)
      BY <1>4, EntriesRead DEF U
    <3> QED
      BY <3>2, <3>3, <3>4 DEF IsNode
  <2> QED
    BY <1>0, <1>2, <1>3, <2>1 DEF IsTree
<1>7. LinksMatch(t)
  <2>1. t[root].parent = 0
    BY <1>2, <1>4, <1>5
  <2>2. ASSUME NEW n \in U, NEW c \in Range(t[n].children)
        PROVE  c \in U /\ c # root /\ t[c].parent = n
    BY <1>4, <1>5
  <2>3. ASSUME NEW n \in U, t[n].parent # 0
        PROVE  t[n].parent \in U /\ n \in Range(t[t[n].parent].children)
    <3>1. IsPut(loose, n, M) /\ t[n].parent = Read(loose, n).parent
      BY <1>4, <2>3
    <3>2. t[n].parent \in U
      BY <1>5, <3>1
    <3> QED
      BY <1>4, <3>1, <3>2
  <2> QED
    BY <1>3, <1>4, <2>1, <2>2, <2>3 DEF LinksMatch
<1> QED
  BY <1>3, <1>4, <1>5, <1>6, <1>7 DEF t, U

----------------------------------------------------------------------------
(* The inductive invariant.                                                *)

(* The tree: its types, its pointers, and what the root is above.          *)
Sound ==
  /\ IsTree(nodes) /\ LinksMatch(nodes) /\ nodes[root].type = "FS_DIRECTORY"
  /\ current_dir \in DOMAIN nodes /\ Above(nodes, root, current_dir)
  /\ clean => \A n \in DOMAIN nodes : Above(nodes, root, n)

(* The data of the last save, or of one that was cut short since.          *)
InSectors ==
  /\ disk = [table |-> disk.table, sectors |-> disk.sectors]
  /\ DOMAIN disk.sectors = Entries /\ DOMAIN attempted = Entries
  /\ \A i \in 1 .. Len(disk.table) : promised[i].data # NoData =>
       disk.sectors[i] \in {promised[i].data.text} \cup attempted[i]

(* What the current save has written so far.                               *)
InSave ==
  pc = "save" => \A i \in 1 .. Len(Serialized) :
    i <= written /\ nodes[Serialized[i]].data # NoData =>
      disk.sectors[i] = nodes[Serialized[i]].data.text

IInv ==
  /\ pc \in {"booted", "prompt", "save"} /\ written \in 0 .. MAX_DISK_NODES
  /\ Sound
  /\ IsPromise(promised) /\ IsTable(disk.table, promised)
  /\ InSectors /\ InSave
  /\ RestartRestores

LEMMA RootAlone ==
  /\ IsTree(NewRoot) /\ LinksMatch(NewRoot) /\ DOMAIN NewRoot = {root}
  /\ NewRoot[root].type = "FS_DIRECTORY" /\ Above(NewRoot, root, root)
<1>1. DOMAIN NewRoot = {root} /\ root \in 1 .. MaxNodes
  BY FileSystemAssumption DEF NewRoot, root
<1>2. NewRoot[root] = [name |-> Kept("root"), type |-> "FS_DIRECTORY", data |-> NoData,
                       parent |-> 0, children |-> <<>>]
  BY DEF NewRoot, Node
<1>3. Kept("root") \in NodeNames
  BY DEF Kept, NodeNames, Range
<1>4. <<>> \in Seq(1 .. MaxNodes) /\ IsInjective(<<>>) /\ Range(<<>>) = {}
  BY DEF IsInjective, Range
<1>5. IsNode(NewRoot[root])
  BY <1>2, <1>3, <1>4 DEF IsNode, IsData
<1>6. IsTree(NewRoot)
  BY <1>1, <1>5 DEF IsTree
<1>7. LinksMatch(NewRoot)
  BY <1>1, <1>2, <1>4 DEF LinksMatch
<1>8. Above(NewRoot, root, root)
  BY DEF Above
<1> QED
  BY <1>1, <1>2, <1>6, <1>7, <1>8

(* A node with other children, and with other data.                        *)
LEMMA WithChildren ==
  ASSUME NEW x, IsNode(x), NEW c \in Seq(1 .. MaxNodes)
  PROVE  LET y == [x EXCEPT !.children = c]
         IN  IsNode(y) /\ y.parent = x.parent /\ y.children = c /\ y.type = x.type
<1> DEFINE y == [x EXCEPT !.children = c]
<1>1. x = [name |-> x.name, type |-> x.type, data |-> x.data,
           parent |-> x.parent, children |-> x.children]
  BY DEF IsNode
<1>2. y = [name |-> x.name, type |-> x.type, data |-> x.data,
           parent |-> x.parent, children |-> c]
  BY <1>1
<1>3. /\ y.name = x.name /\ y.type = x.type /\ y.data = x.data /\ y.parent = x.parent
      /\ y.children = c
  BY <1>2
<1> HIDE DEF y
<1>4. IsNode(y)
  BY <1>2, <1>3 DEF IsNode
<1> QED
  BY <1>3, <1>4 DEF y

LEMMA WithData ==
  ASSUME NEW x, IsNode(x), NEW d, IsData(d, x.type)
  PROVE  LET y == [x EXCEPT !.data = d]
         IN  IsNode(y) /\ y.parent = x.parent /\ y.children = x.children /\ y.type = x.type
<1> DEFINE y == [x EXCEPT !.data = d]
<1>1. x = [name |-> x.name, type |-> x.type, data |-> x.data,
           parent |-> x.parent, children |-> x.children]
  BY DEF IsNode
<1>2. y = [name |-> x.name, type |-> x.type, data |-> d,
           parent |-> x.parent, children |-> x.children]
  BY <1>1
<1>3. /\ y.name = x.name /\ y.type = x.type /\ y.data = d /\ y.parent = x.parent
      /\ y.children = x.children
  BY <1>2
<1> HIDE DEF y
<1>4. IsNode(y)
  BY <1>2, <1>3 DEF IsNode
<1> QED
  BY <1>3, <1>4 DEF y

LEMMA Found ==
  ASSUME IsTree(nodes), current_dir \in DOMAIN nodes, NEW name, NEW types,
         Find(name, types) # 0
  PROVE  /\ Find(name, types) \in DOMAIN Listed
         /\ Listed[Find(name, types)] \in Range(nodes[current_dir].children)
         /\ nodes[Listed[Find(name, types)]].type \in types
<1> DEFINE I == {i \in 1 .. Len(Listed) :
                   nodes[Listed[i]].name = name /\ nodes[Listed[i]].type \in types}
<1>1. Listed \in Seq(1 .. MaxNodes)
  BY DEF Listed, IsTree, IsNode
<1>2. Find(name, types) = IF I # {} THEN Min(I) ELSE 0
  BY DEF Find, SelectInSeq
<1>3. I # {} /\ I \subseteq Nat
  BY <1>1, <1>2
<1>4. Min(I) \in I
  BY <1>3, MinInSet
<1>5. Find(name, types) \in I
  BY <1>2, <1>3, <1>4
<1>6. Find(name, types) \in DOMAIN Listed
  BY <1>1, <1>5
<1> QED
  BY <1>5, <1>6 DEF Listed, Range

----------------------------------------------------------------------------
(* Each step keeps the invariant.                                          *)

LEMMA CommandKeeps ==
  ASSUME IInv, Command, Sound'
  PROVE  IInv'
BY DEF IInv, Command, InSectors, InSave, RestartRestores

LEMMA AddNodeKeeps ==
  ASSUME IInv, Command, NEW name \in Names, NEW type \in {"FS_FILE", "FS_DIRECTORY"},
         AddNode(name, type)
  PROVE  Sound'
<1> DEFINE new == Min(Spare)
           dir == current_dir
<1>1. /\ IsTree(nodes) /\ LinksMatch(nodes) /\ dir \in DOMAIN nodes
      /\ Above(nodes, root, dir) /\ root \in DOMAIN nodes
      /\ nodes[root].type = "FS_DIRECTORY"
      /\ clean => \A n \in DOMAIN nodes : Above(nodes, root, n)
  BY DEF IInv, Sound, IsTree
<1>2. new \in (1 .. MaxNodes) \ DOMAIN nodes
  BY MinInSet DEF Spare, AddNode
<1> HIDE DEF new
<1>3. nodes' = [n \in DOMAIN nodes \cup {new} |->
           IF n = new THEN Node(name, type, dir)
           ELSE IF n = dir THEN [nodes[n] EXCEPT !.children = <<new>> \o nodes[n].children]
           ELSE nodes[n]]
      /\ current_dir' = dir /\ clean' = clean
  BY DEF AddNode, Command, new
<1>4. new # dir /\ new # root
  BY <1>1, <1>2
<1>5. nodes'[new] = Node(name, type, dir) /\ DOMAIN nodes' = DOMAIN nodes \cup {new}
      /\ nodes'[dir] = [nodes[dir] EXCEPT !.children = <<new>> \o nodes[dir].children]
      /\ \A n \in DOMAIN nodes \ {dir} : nodes'[n] = nodes[n]
  BY <1>1, <1>2, <1>3, <1>4
<1>6. IsNode(nodes'[new]) /\ nodes'[new].parent = dir /\ nodes'[new].children = <<>>
  <2>1. nodes'[new] = [name |-> Kept(name), type |-> type, data |-> NoData,
                       parent |-> dir, children |-> <<>>]
    BY <1>5 DEF Node
  <2>2. Kept(name) \in NodeNames
    BY FileSystemAssumption DEF Kept, NodeNames, Range
  <2>3. <<>> \in Seq(1 .. MaxNodes)
    OBVIOUS
  <2> QED
    BY <2>1, <2>2, <2>3 DEF IsNode, IsData
<1>7. /\ IsNode(nodes'[dir]) /\ nodes'[dir].parent = nodes[dir].parent
      /\ nodes'[dir].children = <<new>> \o nodes[dir].children
      /\ nodes'[dir].type = nodes[dir].type
  <2> DEFINE c == <<new>> \o nodes[dir].children
             x == nodes[dir]
  <2>1. c \in Seq(1 .. MaxNodes) /\ IsNode(x)
    BY <1>1, <1>2 DEF IsTree, IsNode
  <2>2. nodes'[dir] = [x EXCEPT !.children = c]
    BY <1>5
  <2> HIDE DEF c, x
  <2>3. LET y == [x EXCEPT !.children = c]
        IN  IsNode(y) /\ y.parent = x.parent /\ y.children = c /\ y.type = x.type
    BY <2>1, WithChildren
  <2> QED
    BY <2>2, <2>3 DEF c, x
<1>8. Grown(nodes, nodes', dir, new)
  BY <1>5, <1>6, <1>7 DEF Grown
<1>9. IsTree(nodes')
  BY <1>1, <1>2, <1>5, <1>6, <1>7 DEF IsTree
<1>10. /\ LinksMatch(nodes')
       /\ \A n \in DOMAIN nodes : Above(nodes, root, n) => Above(nodes', root, n)
       /\ Above(nodes, root, dir) => Above(nodes', root, new)
  BY <1>1, <1>2, <1>8, GrownMatches
<1>11. nodes'[root].type = "FS_DIRECTORY"
  BY <1>1, <1>5, <1>7
<1> QED
  BY <1>1, <1>3, <1>5, <1>9, <1>10, <1>11 DEF Sound

LEMMA RmKeeps ==
  ASSUME IInv, NEW name \in Names, Rm(name)
  PROVE  Sound'
<1> DEFINE i   == Find(name, {"FS_FILE", "FS_DIRECTORY"})
           dir == current_dir
           top == Listed[i]
<1>1. /\ IsTree(nodes) /\ LinksMatch(nodes) /\ dir \in DOMAIN nodes
      /\ Above(nodes, root, dir) /\ root \in DOMAIN nodes
      /\ nodes[root].type = "FS_DIRECTORY"
      /\ clean => \A n \in DOMAIN nodes : Above(nodes, root, n)
  BY DEF IInv, Sound, IsTree
<1>2. i # 0 /\ i \in DOMAIN Listed
  BY <1>1, Found DEF Rm
<1>3. /\ ~IsParentOf(top, dir)
      /\ nodes' = [n \in DOMAIN nodes \ FreeNode(top) |->
           IF n = dir THEN [nodes[n] EXCEPT !.children = RemoveAt(nodes[n].children, i)]
           ELSE nodes[n]]
      /\ current_dir' = dir /\ clean' = clean
  BY DEF Rm, Command
<1> HIDE DEF i
<1>4. top = nodes[dir].children[i] /\ i \in DOMAIN nodes[dir].children
  BY <1>2 DEF Listed
<1>5. ~Above(nodes, nodes[dir].children[i], dir)
  BY <1>3, <1>4 DEF IsParentOf, HasParents, Above, ClosedUp
<1>6. FreeNode(top) = Under(nodes, nodes[dir].children[i])
  BY <1>4 DEF FreeNode, HasChildren, Under, ClosedDown
<1> HIDE DEF top
<1>7. dir \notin Under(nodes, nodes[dir].children[i])
  <2>1. nodes[dir].children[i] \in Range(nodes[dir].children)
    BY <1>4 DEF Range
  <2> QED
    BY <1>1, <1>5, <2>1, UnderTop
<1>8. /\ DOMAIN nodes' = DOMAIN nodes \ Under(nodes, nodes[dir].children[i])
      /\ nodes'[dir] = [nodes[dir] EXCEPT !.children = RemoveAt(nodes[dir].children, i)]
      /\ \A n \in DOMAIN nodes' \ {dir} : nodes'[n] = nodes[n]
  BY <1>1, <1>3, <1>6, <1>7
<1>9. /\ IsNode(nodes'[dir]) /\ nodes'[dir].parent = nodes[dir].parent
      /\ nodes'[dir].children = RemoveAt(nodes[dir].children, i)
      /\ nodes'[dir].type = nodes[dir].type
  <2> DEFINE c == RemoveAt(nodes[dir].children, i)
             x == nodes[dir]
             s == nodes[dir].children
             A == 1 .. MaxNodes
  <2>1. s \in Seq(A) /\ IsInjective(s) /\ i \in DOMAIN s /\ IsNode(x)
    BY <1>1, <1>4 DEF IsTree, IsNode, LinksMatch
  <2>2. c \in Seq(1 .. MaxNodes)
    <3> HIDE DEF s, A
    <3>1. RemoveAt(s, i) \in Seq(A)
      BY <2>1, TakenOut
    <3> QED
      BY <3>1 DEF s, A
  <2>3. nodes'[dir] = [x EXCEPT !.children = c]
    BY <1>8
  <2> HIDE DEF c, x
  <2>4. LET y == [x EXCEPT !.children = c]
        IN  IsNode(y) /\ y.parent = x.parent /\ y.children = c /\ y.type = x.type
    BY <2>1, <2>2, WithChildren
  <2> QED
    BY <2>3, <2>4 DEF c, x
<1>10. Pruned(nodes, nodes', dir, i)
  BY <1>8, <1>9 DEF Pruned
<1>11. /\ LinksMatch(nodes') /\ root \in DOMAIN nodes' /\ dir \in DOMAIN nodes'
       /\ \A n \in DOMAIN nodes' : Above(nodes, root, n) => Above(nodes', root, n)
  BY <1>1, <1>4, <1>5, <1>10, PrunedMatches
<1>12. IsTree(nodes') /\ DOMAIN nodes' \subseteq DOMAIN nodes
  BY <1>1, <1>8, <1>9, <1>11 DEF IsTree
<1>13. nodes'[root].type = "FS_DIRECTORY"
  BY <1>1, <1>8, <1>9, <1>11
<1> QED
  BY <1>1, <1>3, <1>11, <1>12, <1>13 DEF Sound

LEMMA CdKeeps ==
  ASSUME IInv, NEW name \in Names, Cd(name)
  PROVE  Sound'
<1> DEFINE i == Find(name, {"FS_DIRECTORY"})
<1>1. IsTree(nodes) /\ LinksMatch(nodes) /\ current_dir \in DOMAIN nodes
      /\ Above(nodes, root, current_dir)
  BY DEF IInv, Sound
<1>2. i # 0 /\ current_dir' = Listed[i] /\ nodes' = nodes /\ clean' = clean
  BY DEF Cd, Command
<1>3. Listed[i] \in Range(nodes[current_dir].children)
  BY <1>1, <1>2, Found
<1> HIDE DEF i
<1>4. current_dir' \in DOMAIN nodes /\ Above(nodes, root, current_dir')
  BY <1>1, <1>2, <1>3, AboveChild
<1> QED
  BY <1>2, <1>4 DEF IInv, Sound

LEMMA CdUpKeeps ==
  ASSUME IInv, CdUp
  PROVE  Sound'
<1>1. IsTree(nodes) /\ LinksMatch(nodes) /\ current_dir \in DOMAIN nodes
      /\ Above(nodes, root, current_dir)
  BY DEF IInv, Sound
<1>2. nodes[current_dir].parent # 0 /\ current_dir' = nodes[current_dir].parent
      /\ nodes' = nodes /\ clean' = clean
  BY DEF CdUp, Command
<1>3. current_dir' \in DOMAIN nodes /\ Above(nodes, root, current_dir')
  BY <1>1, <1>2, AboveParent
<1> QED
  BY <1>2, <1>3 DEF IInv, Sound

LEMMA WriteFileKeeps ==
  ASSUME IInv, NEW name \in Names, NEW text \in Texts, WriteFile(name, text)
  PROVE  Sound'
<1> DEFINE i == Find(name, {"FS_FILE"})
           f == Listed[i]
<1>1. /\ IsTree(nodes) /\ LinksMatch(nodes) /\ current_dir \in DOMAIN nodes
      /\ Above(nodes, root, current_dir) /\ root \in DOMAIN nodes
      /\ nodes[root].type = "FS_DIRECTORY"
      /\ clean => \A n \in DOMAIN nodes : Above(nodes, root, n)
  BY DEF IInv, Sound, IsTree
<1>2. PICK d \in {[text |-> text, size |-> Size[text]], NoData} :
        nodes' = [nodes EXCEPT ![f].data = d]
  BY DEF WriteFile
<1>3. i # 0 /\ current_dir' = current_dir /\ clean' = clean
  BY DEF WriteFile, Command
<1>4. f \in Range(nodes[current_dir].children) /\ nodes[f].type = "FS_FILE"
  BY <1>1, <1>3, Found
<1> HIDE DEF f, i
<1>5. f \in DOMAIN nodes
  BY <1>1, <1>4 DEF LinksMatch
<1>6. IsData(d, nodes[f].type)
  BY <1>2, <1>4, FileSystemAssumption DEF IsData
<1>7. /\ DOMAIN nodes' = DOMAIN nodes
      /\ nodes'[f] = [nodes[f] EXCEPT !.data = d]
      /\ \A n \in DOMAIN nodes : n # f => nodes'[n] = nodes[n]
  BY <1>2, <1>5
<1>8. /\ IsNode(nodes'[f]) /\ nodes'[f].parent = nodes[f].parent
      /\ nodes'[f].children = nodes[f].children /\ nodes'[f].type = nodes[f].type
  <2> DEFINE x == nodes[f]
  <2>1. IsNode(x) /\ IsData(d, x.type)
    BY <1>1, <1>5, <1>6 DEF IsTree
  <2> HIDE DEF x
  <2>2. LET y == [x EXCEPT !.data = d]
        IN  IsNode(y) /\ y.parent = x.parent /\ y.children = x.children /\ y.type = x.type
    BY <2>1, WithData
  <2> QED
    BY <1>7, <2>2 DEF x
<1>9. IsTree(nodes')
  BY <1>1, <1>5, <1>7, <1>8 DEF IsTree
<1>10. SameLinks(nodes, nodes')
  BY <1>7, <1>8 DEF SameLinks
<1>11. LinksMatch(nodes') /\ \A n \in DOMAIN nodes : Above(nodes, root, n) => Above(nodes', root, n)
  BY <1>1, <1>10, LinksKept
<1>12. nodes'[root].type = "FS_DIRECTORY"
  BY <1>1, <1>7, <1>8
<1> QED
  BY <1>1, <1>3, <1>7, <1>9, <1>11, <1>12 DEF Sound

(* The order of a save, of any tree: a tree that has not changed has the   *)
(* same.                                                                   *)
VisitIn(tree, walk) ==
  IF walk.next = <<>> THEN walk
  ELSE [done |-> Append(walk.done, Head(walk.next)),
        next |-> tree[Head(walk.next)].children \o Tail(walk.next)]

OrderIn(tree) ==
  LET walk[i \in 0 .. MaxNodes] ==
        IF i = 0 THEN [done |-> <<>>, next |-> <<root>>] ELSE VisitIn(tree, walk[i - 1])
  IN  walk[MaxNodes].done

LEMMA OrderIsOfTree == Order = OrderIn(nodes) /\ Order' = OrderIn(nodes')
BY Zenon DEF Order, OrderIn, Visit, VisitIn

LEMMA SerializedKept ==
  ASSUME nodes' = nodes
  PROVE  Serialized' = Serialized
<1>1. Order' = Order
  BY OrderIsOfTree
<1> QED
  BY <1>1 DEF Serialized

(* The first of the nodes, as many as the table holds.                     *)
LEMMA FirstOfOrder ==
  ASSUME Order \in Seq(DOMAIN nodes)
  PROVE  /\ Serialized \in Seq(DOMAIN nodes)
         /\ Len(Serialized) = IF Len(Order) <= MAX_DISK_NODES THEN Len(Order)
                              ELSE MAX_DISK_NODES
         /\ \A i \in 1 .. Len(Serialized) : Serialized[i] = Order[i]
<1> DEFINE k == Min({Len(Order), MAX_DISK_NODES})
           D == DOMAIN nodes
           s == Order
<1>1. s \in Seq(D) /\ Len(s) \in Nat /\ MAX_DISK_NODES \in Nat
  BY FileSystemAssumption
<1>2. k = IF Len(Order) <= MAX_DISK_NODES THEN Len(Order) ELSE MAX_DISK_NODES
  BY <1>1, MinOfTwo
<1>3. k \in Nat /\ k <= Len(s)
  BY <1>1, <1>2
<1>4. Serialized = SubSeq(s, 1, k)
  BY DEF Serialized
<1> HIDE DEF k, s, D
<1>5. 1 \in Int /\ k \in Int /\ \A i \in 1 .. k : s[i] \in D
  BY <1>1, <1>3
<1>6. /\ SubSeq(s, 1, k) \in Seq(D)
      /\ Len(SubSeq(s, 1, k)) = IF 1 <= k THEN k - 1 + 1 ELSE 0
      /\ \A i \in 1 .. k - 1 + 1 : SubSeq(s, 1, k)[i] = s[1 + i - 1]
  BY <1>5, SubSeqProperties
<1>7. Len(Serialized) = k /\ k - 1 + 1 = k
  BY <1>3, <1>4, <1>6
<1>8. \A i \in 1 .. k : 1 + i - 1 = i
  BY <1>3
<1>9. \A i \in 1 .. Len(Serialized) : Serialized[i] = s[i]
  BY <1>4, <1>6, <1>7, <1>8
<1> QED
  BY <1>2, <1>4, <1>6, <1>7, <1>9 DEF s, D

LEMMA SaveKeeps ==
  ASSUME IInv, Save
  PROVE  IInv'
<1>1. /\ pc' = "save" /\ written' = 0
      /\ UNCHANGED <<nodes, current_dir, disk, promised, attempted, clean>>
  BY DEF Save
<1>2. InSave'
  BY <1>1 DEF InSave
<1>3. RestartRestores'
  BY <1>1 DEF RestartRestores
<1>4. 0 \in 0 .. MAX_DISK_NODES
  BY FileSystemAssumption
<1> QED
  BY <1>1, <1>2, <1>3, <1>4 DEF IInv, Sound, InSectors

LEMMA SaveSectorKeeps ==
  ASSUME IInv, SaveSector
  PROVE  IInv'
<1> DEFINE i    == Min(Pending)
           text == nodes[Serialized[i]].data.text
<1>1. /\ pc = "save" /\ i \in Pending /\ written' = i
      /\ disk' = [disk EXCEPT !.sectors[i] = text]
      /\ attempted' = [attempted EXCEPT ![i] = attempted[i] \cup {text}]
      /\ UNCHANGED <<nodes, current_dir, pc, promised, clean>>
  BY DEF SaveSector
<1>2. Order \in Seq(DOMAIN nodes)
  BY OrderOfSave DEF IInv, Sound
<1>3. /\ Serialized \in Seq(DOMAIN nodes) /\ Len(Serialized) \in Nat
      /\ Len(Serialized) <= MAX_DISK_NODES
  BY <1>2, FirstOfOrder, FileSystemAssumption
<1>4. /\ i \in 1 .. Len(Serialized) /\ i \in Entries
      /\ \A j \in 1 .. Len(Serialized) :
           j > written /\ nodes[Serialized[j]].data # NoData => i <= j
  <2>1. Pending \subseteq 1 .. Len(Serialized) /\ Pending \subseteq Nat
    BY <1>3 DEF Pending
  <2>2. \A j \in Pending : i <= j
    BY <1>1, <2>1, MinInSet
  <2>3. \A j \in 1 .. Len(Serialized) :
          j > written /\ nodes[Serialized[j]].data # NoData => j \in Pending
    BY <1>3 DEF Pending
  <2> HIDE DEF i
  <2> QED
    BY <1>1, <1>3, <2>1, <2>2, <2>3, FileSystemAssumption DEF Entries
<1> HIDE DEF i, text
<1>5. /\ disk' = [table |-> disk.table, sectors |-> [disk.sectors EXCEPT ![i] = text]]
      /\ DOMAIN disk.sectors = Entries /\ DOMAIN attempted = Entries
  BY <1>1 DEF IInv, InSectors
<1>6. /\ disk'.table = disk.table /\ disk'.sectors = [disk.sectors EXCEPT ![i] = text]
      /\ disk' = [table |-> disk'.table, sectors |-> disk'.sectors]
  BY <1>5
<1>7. /\ DOMAIN disk'.sectors = Entries /\ DOMAIN attempted' = Entries
      /\ disk'.sectors[i] = text /\ \A j \in Entries : j # i => disk'.sectors[j] = disk.sectors[j]
      /\ attempted'[i] = attempted[i] \cup {text}
      /\ \A j \in Entries : j # i => attempted'[j] = attempted[j]
  BY <1>1, <1>4, <1>5, <1>6
<1>8. InSectors'
  <2>1. ASSUME NEW j \in 1 .. Len(disk.table), promised[j].data # NoData
        PROVE  disk'.sectors[j] \in {promised[j].data.text} \cup attempted'[j]
    <3>1. j \in Entries
      BY FileSystemAssumption DEF IInv, IsTable, IsPromise, Entries
    <3>2. disk.sectors[j] \in {promised[j].data.text} \cup attempted[j]
      BY <2>1 DEF IInv, InSectors
    <3> QED
      BY <1>7, <3>1, <3>2
  <2> QED
    BY <1>1, <1>6, <1>7, <2>1 DEF InSectors
<1>9. InSave'
  <2>1. Serialized' = Serialized
    BY <1>1, SerializedKept
  <2>2. ASSUME NEW j \in 1 .. Len(Serialized), j <= i, nodes[Serialized[j]].data # NoData
        PROVE  disk'.sectors[j] = nodes[Serialized[j]].data.text
    <3>1. CASE j = i
      BY <1>7, <3>1 DEF text
    <3>2. CASE j # i
      <4>1. j <= written
        BY <1>3, <1>4, <2>2, <3>2 DEF IInv
      <4>2. disk.sectors[j] = nodes[Serialized[j]].data.text
        BY <1>1, <2>2, <4>1 DEF IInv, InSave
      <4>3. j \in Entries
        BY <1>3, FileSystemAssumption DEF Entries
      <4> QED
        BY <1>7, <3>2, <4>2, <4>3
    <3> QED
      BY <3>1, <3>2
  <2> QED
    BY <1>1, <2>1, <2>2 DEF InSave
<1>10. RestartRestores'
  BY <1>1 DEF RestartRestores
<1>11. written' \in 0 .. MAX_DISK_NODES
  BY <1>1, <1>3, <1>4, FileSystemAssumption
<1> QED
  BY <1>1, <1>6, <1>8, <1>9, <1>10, <1>11 DEF IInv, Sound

LEMMA SaveTableKeeps ==
  ASSUME IInv, SaveTable
  PROVE  IInv'
<1> DEFINE P == [i \in DOMAIN Order |->
                  [name |-> nodes[Order[i]].name, type |-> nodes[Order[i]].type,
                   parent |-> ParentIdx(Order[i]), data |-> nodes[Order[i]].data]]
           T == [i \in DOMAIN Serialized |->
                  [name |-> nodes[Serialized[i]].name, type |-> nodes[Serialized[i]].type,
                   parent |-> ParentIdx(Serialized[i]),
                   size |-> nodes[Serialized[i]].data.size]]
<1>1. /\ pc = "save" /\ Pending = {} /\ pc' = "prompt"
      /\ disk' = [disk EXCEPT !.table = T] /\ promised' = P
      /\ attempted' = [i \in Entries |-> {}]
      /\ UNCHANGED <<nodes, current_dir, written, clean>>
  BY DEF SaveTable, TableWritten
<1>2. /\ IsTree(nodes) /\ LinksMatch(nodes) /\ nodes[root].type = "FS_DIRECTORY"
  BY DEF IInv, Sound
<1>3. /\ Order \in Seq(DOMAIN nodes) /\ Len(Order) >= 1 /\ Order[1] = root
      /\ \A j \in 2 .. Len(Order) : ParentIdx(Order[j]) \in 1 .. j - 1
      /\ ParentIdx(root) = 0
  BY <1>2, OrderOfSave
<1>4. /\ Serialized \in Seq(DOMAIN nodes)
      /\ Len(Serialized) = IF Len(Order) <= MAX_DISK_NODES THEN Len(Order) ELSE MAX_DISK_NODES
      /\ \A i \in 1 .. Len(Serialized) : Serialized[i] = Order[i]
  BY <1>3, FirstOfOrder
<1>5. DOMAIN Order = 1 .. Len(Order) /\ Len(Order) \in Nat
      /\ DOMAIN Serialized = 1 .. Len(Serialized) /\ Len(Serialized) \in Nat
      /\ Len(Serialized) <= Len(Order) /\ Len(Serialized) <= MAX_DISK_NODES
  BY <1>3, <1>4, FileSystemAssumption
<1>6. ASSUME NEW i \in 1 .. Len(Order)
      PROVE  /\ P[i].name = nodes[Order[i]].name /\ P[i].type = nodes[Order[i]].type
             /\ P[i].parent = ParentIdx(Order[i]) /\ P[i].data = nodes[Order[i]].data
  BY <1>5
<1>7. ASSUME NEW i \in 1 .. Len(Serialized)
      PROVE  /\ T[i].name = nodes[Order[i]].name /\ T[i].type = nodes[Order[i]].type
             /\ T[i].parent = ParentIdx(Order[i]) /\ T[i].size = nodes[Order[i]].data.size
  BY <1>4, <1>5
<1>8. P \in Seq(Range(P)) /\ Len(P) = Len(Order)
  <2>1. P = [i \in 1 .. Len(Order) |-> P[i]]
    BY <1>5
  <2> HIDE DEF P
  <2> QED
    BY <1>5, <2>1, FunctionIsSequence
<1>9. T \in Seq(Range(T)) /\ Len(T) = Len(Serialized)
  <2>1. T = [i \in 1 .. Len(Serialized) |-> T[i]]
    BY <1>5
  <2> HIDE DEF T
  <2> QED
    BY <1>5, <2>1, FunctionIsSequence
<1> HIDE DEF P, T
<1>10. disk' = [table |-> T, sectors |-> disk.sectors] /\ DOMAIN disk.sectors = Entries
  BY <1>1 DEF IInv, InSectors
<1>11. disk'.table = T /\ disk'.sectors = disk.sectors
       /\ disk' = [table |-> disk'.table, sectors |-> disk'.sectors]
  BY <1>10
<1>12. IsPromise(P)
  <2>1. P[1].type = "FS_DIRECTORY" /\ P[1].parent = 0
    BY <1>2, <1>3, <1>5, <1>6
  <2>2. ASSUME NEW i \in 1 .. Len(P)
        PROVE  /\ P[i].name \in NodeNames /\ P[i].type \in {"FS_FILE", "FS_DIRECTORY"}
               /\ IsData(P[i].data, P[i].type)
               /\ i > 1 => P[i].parent \in 1 .. i - 1
    <3>1. i \in 1 .. Len(Order) /\ Order[i] \in DOMAIN nodes
      BY <1>3, <1>8
    <3>2. IsNode(nodes[Order[i]])
      BY <1>2, <3>1 DEF IsTree
    <3>3. i > 1 => ParentIdx(Order[i]) \in 1 .. i - 1
      BY <1>3, <1>5, <3>1
    <3> QED
      BY <1>6, <3>1, <3>2, <3>3 DEF IsNode
  <2> QED
    BY <1>8, <2>1, <2>2 DEF IsPromise
<1>13. IsTable(T, P)
  <2>1. \A i \in 1 .. Len(T) :
          /\ T[i].name = P[i].name /\ T[i].type = P[i].type /\ T[i].parent = P[i].parent
          /\ T[i].size = P[i].data.size
    BY <1>5, <1>6, <1>7, <1>9
  <2> QED
    BY <1>4, <1>8, <1>9, <2>1 DEF IsTable
<1>14. InSectors'
  <2>1. ASSUME NEW i \in 1 .. Len(T), P[i].data # NoData
        PROVE  disk.sectors[i] = P[i].data.text
    <3>1. i \in 1 .. Len(Serialized) /\ nodes[Serialized[i]].data # NoData
          /\ P[i].data = nodes[Serialized[i]].data
      BY <1>4, <1>5, <1>6, <1>9, <2>1
    <3>2. ~(i > written)
      BY <1>1, <1>5, <3>1 DEF Pending
    <3>3. i <= written
      BY <1>5, <3>1, <3>2, FileSystemAssumption DEF IInv
    <3> QED
      BY <1>1, <3>1, <3>3 DEF IInv, InSave
  <2>2. DOMAIN attempted' = Entries
    BY <1>1
  <2> QED
    BY <1>1, <1>10, <1>11, <2>1, <2>2 DEF InSectors
<1>15. InSave' /\ RestartRestores'
  BY <1>1 DEF InSave, RestartRestores
<1> QED
  BY <1>1, <1>11, <1>12, <1>13, <1>14, <1>15 DEF IInv, Sound

LEMMA RestartKeeps ==
  ASSUME IInv, Restart
  PROVE  IInv'
<1>1. /\ current_dir' = root /\ pc' = "booted" /\ written' = 0
      /\ disk' = disk /\ promised' = promised /\ attempted' = attempted
  BY DEF Restart
<1>2. /\ IsPromise(promised) /\ IsTable(disk.table, promised) /\ InSectors
  BY DEF IInv
<1>3. 0 \in 0 .. MAX_DISK_NODES
  BY FileSystemAssumption
<1>4. disk.table = <<>> <=> promised = <<>>
  <2>1. Len(disk.table) = 0 <=> Len(promised) = 0
    BY <1>2, FileSystemAssumption DEF IsTable, IsPromise
  <2> QED
    BY <1>2, <2>1 DEF IsTable, IsPromise
<1>5. SUFFICES Sound' /\ RestartRestores'
  BY <1>1, <1>2, <1>3 DEF IInv, InSectors, InSave
<1>6. CASE disk.table = <<>>
  <2>1. nodes' = NewRoot
    BY <1>6 DEF Restart
  <2>2. \A n \in DOMAIN NewRoot : n = root
    BY RootAlone
  <2>3. Sound'
    BY <1>1, <2>1, <2>2, RootAlone DEF Sound
  <2>4. promised' = <<>>
    BY <1>1, <1>4, <1>6
  <2>5. RestartRestores'
    BY <2>1, <2>4 DEF RestartRestores
  <2> QED
    BY <2>3, <2>5
<1>7. CASE disk.table # <<>>
  <2>1. PICK loose \in [Whole + 1 .. MAX_DISK_NODES -> Junk] :
          /\ nodes' = Loaded(loose)
          /\ clean' = (/\ Len(disk.table) <= Whole
                       /\ \A i \in Whole + 2 .. MAX_DISK_NODES : loose[i] = Unused)
    BY <1>7 DEF Restart
  <2>2. IsLoose(loose)
    BY DEF IsLoose
  <2> DEFINE U == Used(loose)
             T == disk.table
             P == promised
  <2>3. /\ IsTree(nodes') /\ LinksMatch(nodes') /\ DOMAIN nodes' = U
        /\ \A n \in U :
             /\ nodes'[n].name = Read(loose, n).name /\ nodes'[n].type = Read(loose, n).type
             /\ nodes'[n].data = Read(loose, n).data
             /\ n # root /\ Read(loose, n).parent \in U => nodes'[n].parent = Read(loose, n).parent
    BY <1>2, <1>7, <2>1, <2>2, LoadedTree
  <2>4. /\ \A i \in 1 .. Len(T) : i <= Whole + 1 =>
              /\ i \in U /\ Read(loose, i).name = P[i].name
              /\ Read(loose, i).type = P[i].type /\ Read(loose, i).parent = P[i].parent
        /\ \A i \in 1 .. Len(T) : i <= Whole =>
              /\ Read(loose, i).data.size = P[i].data.size
              /\ Read(loose, i).data.text = IF P[i].data = NoData THEN "none"
                                            ELSE disk.sectors[i]
        /\ 1 \in 1 .. Len(T) /\ 1 \in U
        /\ \A i \in U : i <= Whole + 1 => i \in 1 .. Len(T)
    BY <1>2, <1>7, <2>2, EntriesRead
  <2>5. /\ Whole \in Nat \ {0} /\ MAX_DISK_NODES \in Nat \ {0} /\ Whole < MAX_DISK_NODES
        /\ Len(T) \in Nat /\ Len(P) \in Nat
        /\ Len(T) = IF Len(P) <= MAX_DISK_NODES THEN Len(P) ELSE MAX_DISK_NODES
        /\ P[1].type = "FS_DIRECTORY" /\ P[1].parent = 0
        /\ \A i \in 1 .. Len(P) : i > 1 => P[i].parent \in 1 .. i - 1
    BY <1>2, <1>4, <1>7, FileSystemAssumption DEF IsTable, IsPromise
  <2>6. U \subseteq 1 .. MAX_DISK_NODES /\ U \subseteq Nat
    BY <2>5 DEF Used, Entries
  <2>7. root = 1 /\ root \in U /\ nodes'[root].parent = 0
    BY <2>3, <2>4 DEF root, LinksMatch
  <2>8. \A i \in U : i > Whole + 1 => Read(loose, i) = loose[i] /\ loose[i] # Unused
    BY <2>5 DEF Used, Read, Entries
  <2> HIDE DEF U, T, P
  <2>9. ASSUME NEW i \in 1 .. Len(T), i <= Whole + 1
        PROVE  i \in U /\ nodes'[i].parent = P[i].parent
    <3>1. CASE i = 1
      BY <2>4, <2>5, <2>7, <3>1
    <3>2. CASE i > 1
      <4>1. P[i].parent \in 1 .. i - 1
        BY <2>5, <3>2
      <4>2. P[i].parent \in 1 .. Len(T) /\ P[i].parent <= Whole + 1
        BY <2>5, <2>9, <4>1
      <4>3. P[i].parent \in U /\ i \in U /\ Read(loose, i).parent = P[i].parent
        BY <2>4, <2>9, <4>2
      <4> QED
        BY <2>3, <2>7, <3>2, <4>3
    <3> QED
      BY <2>5, <3>1, <3>2
  <2>10. clean' => U = 1 .. Len(T) /\ Len(T) = Len(P) /\ Len(T) <= Whole
    <3> SUFFICES ASSUME clean' PROVE U = 1 .. Len(T) /\ Len(T) = Len(P) /\ Len(T) <= Whole
      OBVIOUS
    <3>1. Len(T) <= Whole /\ \A i \in Whole + 2 .. MAX_DISK_NODES : loose[i] = Unused
      BY <2>1 DEF T
    <3>2. ASSUME NEW i \in U PROVE i <= Whole + 1
      <4>1. i \in Nat /\ (i > Whole + 1 => i \in Whole + 2 .. MAX_DISK_NODES)
        BY <2>5, <2>6
      <4>2. ~(i > Whole + 1)
        BY <2>8, <3>1, <4>1
      <4> QED
        BY <2>5, <4>1, <4>2
    <3>3. U \subseteq 1 .. Len(T)
      BY <2>4, <3>2
    <3>4. 1 .. Len(T) \subseteq U
      BY <2>4, <2>5, <3>1
    <3>5. Len(T) = Len(P) /\ Len(T) <= Whole
      BY <2>5, <3>1
    <3> QED
      BY <3>3, <3>4, <3>5
  <2>11. ASSUME clean', NEW n \in U PROVE Above(nodes', root, n)
    <3> SUFFICES ASSUME NEW S \in SUBSET U, n \in S, ClosedUp(nodes', S) PROVE root \in S
      BY <2>3 DEF Above
    <3>1. S \subseteq Nat /\ S # {}
      BY <2>6
    <3>2. PICK m \in S : \A k \in S : m <= k
      BY <3>1, MinInSet
    <3>3. m \in 1 .. Len(T) /\ m <= Whole + 1
      BY <2>5, <2>10, <2>11, <3>2
    <3>4. CASE m = 1
      BY <2>7, <3>2, <3>4
    <3>5. CASE m > 1
      <4>1. P[m].parent \in 1 .. m - 1
        BY <2>5, <2>10, <2>11, <3>3, <3>5
      <4>2. nodes'[m].parent = P[m].parent
        BY <2>9, <3>3
      <4>3. P[m].parent \in S
        BY <3>2, <4>1, <4>2 DEF ClosedUp
      <4> QED
        BY <3>2, <3>3, <4>1, <4>3
    <3> QED
      BY <3>3, <3>4, <3>5
  <2>12. Sound'
    <3>1. nodes'[root].type = "FS_DIRECTORY"
      BY <2>3, <2>4, <2>5, <2>7
    <3>2. Above(nodes', root, root)
      BY DEF Above
    <3> QED
      BY <1>1, <2>3, <2>7, <2>11, <3>1, <3>2 DEF Sound
  <2>13. ASSUME NEW i \in 1 .. Len(P), i <= Whole
         PROVE  /\ i \in DOMAIN nodes'
                /\ <<nodes'[i].name, nodes'[i].type, nodes'[i].parent, nodes'[i].data.size>>
                     = <<P[i].name, P[i].type, P[i].parent, P[i].data.size>>
                /\ nodes'[i].data.text \in {P[i].data.text} \cup attempted'[i]
    <3>1. i \in 1 .. Len(T) /\ i <= Whole + 1
      BY <2>5, <2>13
    <3>2. i \in U /\ nodes'[i].parent = P[i].parent
      BY <2>9, <3>1
    <3>3. /\ nodes'[i].name = P[i].name /\ nodes'[i].type = P[i].type
          /\ nodes'[i].data = Read(loose, i).data
      BY <2>3, <2>4, <3>1, <3>2
    <3>4. /\ nodes'[i].data.size = P[i].data.size
          /\ nodes'[i].data.text = IF P[i].data = NoData THEN "none" ELSE disk.sectors[i]
      BY <2>4, <2>13, <3>1, <3>3
    <3>5. nodes'[i].data.text \in {P[i].data.text} \cup attempted'[i]
      <4>1. CASE P[i].data = NoData
        BY <3>4, <4>1 DEF NoData
      <4>2. CASE P[i].data # NoData
        BY <1>1, <1>2, <3>1, <3>4, <4>2 DEF InSectors, P, T
      <4> QED
        BY <4>1, <4>2
    <3> QED
      BY <2>3, <3>2, <3>3, <3>4, <3>5
  <2>14. RestartRestores'
    <3>1. DOMAIN promised = 1 .. Len(P) /\ promised # <<>>
      BY <1>2, <1>4, <1>7 DEF IsPromise, P
    <3>2. clean' => DOMAIN nodes' = DOMAIN promised
      BY <2>3, <2>10, <3>1
    <3> QED
      BY <1>1, <2>13, <3>1, <3>2 DEF RestartRestores, P
  <2> QED
    BY <2>12, <2>14
<1> QED
  BY <1>6, <1>7

----------------------------------------------------------------------------
(* The theorems.                                                           *)

LEMMA InitIInv == Init => IInv
<1> SUFFICES ASSUME Init PROVE IInv
  OBVIOUS
<1>1. /\ nodes = NewRoot /\ current_dir = root /\ pc = "booted" /\ written = 0
      /\ disk = [table |-> <<>>, sectors |-> [i \in Entries |-> "none"]]
      /\ promised = <<>> /\ attempted = [i \in Entries |-> {}]
  BY DEF Init
<1>2. 0 \in 0 .. MAX_DISK_NODES
  BY FileSystemAssumption
<1>3. \A n \in DOMAIN NewRoot : n = root
  BY RootAlone
<1>4. Sound
  BY <1>1, <1>3, RootAlone DEF Sound
<1>5. IsPromise(promised) /\ IsTable(disk.table, promised)
  BY <1>1, FileSystemAssumption DEF IsPromise, IsTable
<1>6. InSectors /\ InSave
  BY <1>1 DEF InSectors, InSave
<1>7. RestartRestores
  BY <1>1 DEF RestartRestores
<1> QED
  BY <1>1, <1>2, <1>4, <1>5, <1>6, <1>7 DEF IInv

LEMMA NextIInv == IInv /\ [Next]_vars => IInv'
<1> SUFFICES ASSUME IInv, [Next]_vars PROVE IInv'
  OBVIOUS
<1>1. CASE Commands
  <2>1. ASSUME NEW name \in Names, Mkdir(name) PROVE IInv'
    BY <2>1, AddNodeKeeps, CommandKeeps DEF Mkdir
  <2>2. ASSUME NEW name \in Names, CreateFile(name) PROVE IInv'
    BY <2>2, AddNodeKeeps, CommandKeeps DEF CreateFile
  <2>3. ASSUME NEW name \in Names, Cd(name) PROVE IInv'
    BY <2>3, CdKeeps, CommandKeeps DEF Cd
  <2>4. ASSUME NEW name \in Names, Rm(name) PROVE IInv'
    BY <2>4, RmKeeps, CommandKeeps DEF Rm
  <2>5. ASSUME NEW name \in Names, NEW text \in Texts, WriteFile(name, text) PROVE IInv'
    BY <2>5, WriteFileKeeps, CommandKeeps DEF WriteFile
  <2>6. CASE CdUp
    BY <2>6, CdUpKeeps, CommandKeeps DEF CdUp
  <2> QED
    BY <1>1, <2>1, <2>2, <2>3, <2>4, <2>5, <2>6 DEF Commands
<1>2. CASE Saving
  BY <1>2, SaveKeeps, SaveSectorKeeps, SaveTableKeeps DEF Saving
<1>3. CASE Restart
  BY <1>3, RestartKeeps
<1>4. CASE UNCHANGED vars
  <2>1. Serialized' = Serialized
    BY <1>4, SerializedKept DEF vars
  <2> QED
    BY <1>4, <2>1 DEF vars, IInv, Sound, InSectors, InSave, RestartRestores
<1> QED
  BY <1>1, <1>2, <1>3, <1>4 DEF Next

LEMMA InvAlways == Spec => []IInv
BY InitIInv, NextIInv, PTL DEF Spec

(* Types: a node's name is one that create_node keeps, and only files have *)
(* data, whatever is typed, saved and read back.                           *)
THEOREM TypeCorrect == Spec => []TypeOK
<1>1. IInv => TypeOK
  <2> SUFFICES ASSUME IInv PROVE TypeOK
    OBVIOUS
  <2>1. IsTree(nodes) /\ current_dir \in DOMAIN nodes
    BY DEF IInv, Sound
  <2>2. ASSUME NEW n \in DOMAIN nodes
        PROVE  /\ nodes[n].name \in {"root"} \cup Range(Stored) \cup {e.name : e \in Junk}
               /\ nodes[n].type \in {"FS_FILE", "FS_DIRECTORY"}
               /\ nodes[n].data # NoData => nodes[n].type = "FS_FILE" /\ nodes[n].data.size > 0
    BY <2>1 DEF IsTree, IsNode, NodeNames, IsData
  <2>3. Len(disk.table) <= MAX_DISK_NODES
    BY FileSystemAssumption DEF IInv, IsTable, IsPromise
  <2> QED
    BY <2>1, <2>2, <2>3 DEF IInv, IsTree, TypeOK
<1> QED
  BY <1>1, InvAlways, PTL

(* The pointers of the tree match, in whatever order nodes are made,       *)
(* removed and read back, and no node leaks.                               *)
THEOREM TreesAreSound == Spec => []TreeSound
<1>1. IInv => TreeSound
  <2> SUFFICES ASSUME IInv PROVE TreeSound
    OBVIOUS
  <2>1. /\ IsTree(nodes) /\ LinksMatch(nodes) /\ Above(nodes, root, current_dir)
        /\ clean => \A n \in DOMAIN nodes : Above(nodes, root, n)
    BY DEF IInv, Sound
  <2>2. \A n : IsParentOf(root, n) <=> Above(nodes, root, n)
    BY DEF IsParentOf, HasParents, Above, ClosedUp
  <2>3. ASSUME NEW n \in DOMAIN nodes
        PROVE  /\ IsInjective(nodes[n].children)
               /\ Range(nodes[n].children) \subseteq DOMAIN nodes \ {root}
               /\ \A i \in DOMAIN nodes[n].children : nodes[nodes[n].children[i]].parent = n
               /\ nodes[n].parent # 0 =>
                    /\ nodes[n].parent \in DOMAIN nodes
                    /\ n \in Range(nodes[nodes[n].parent].children)
    <3>1. \A i \in DOMAIN nodes[n].children : nodes[n].children[i] \in Range(nodes[n].children)
      BY DEF Range
    <3> QED
      BY <2>1, <3>1 DEF LinksMatch
  <2>4. nodes[root].parent = 0
    BY <2>1 DEF LinksMatch
  <2> QED
    BY <2>1, <2>2, <2>3, <2>4 DEF TreeSound
<1> QED
  BY <1>1, InvAlways, PTL

(* Whenever the machine is started, what the last finished save put into   *)
(* the part of the table that fs_init has is there again.                  *)
THEOREM RestartsRestore == Spec => []RestartRestores
<1>1. IInv => RestartRestores
  BY DEF IInv
<1> QED
  BY <1>1, InvAlways, PTL

=============================================================================
