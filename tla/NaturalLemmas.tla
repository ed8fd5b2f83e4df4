--------------------------- MODULE NaturalLemmas ---------------------------
(***************************************************************************)
(* Facts about whole numbers and finite sets that the proofs of several    *)
(* modules rest on.                                                        *)
(***************************************************************************)
EXTENDS Integers, FiniteSetsExt, FiniteSetTheorems, WellFoundedInduction, TLAPS

(* A non-empty set of natural numbers has a least element, and Min is it.  *)
LEMMA MinInSet ==
  ASSUME NEW S, S \subseteq Nat, S # {}
  PROVE  /\ Min(S) \in S
         /\ \A y \in S : Min(S) <= y
<1>1. PICK x \in S : \A y \in S : ~(<<y, x>> \in OpToRel(<, Nat))
  BY WFMin, NatLessThanWellFounded
<1>2. ASSUME NEW y \in S PROVE x <= y
  <2>1. <<y, x>> \in Nat \X Nat /\ <<y, x>>[1] = y /\ <<y, x>>[2] = x
    OBVIOUS
  <2>2. y < x => <<y, x>> \in OpToRel(<, Nat)
    BY <2>1, Zenon DEF OpToRel
  <2>3. ~(y < x)
    BY <1>1, <2>2, Zenon
  <2> QED
    BY <2>3
<1> QED
  BY <1>2 DEF Min

(* Min of two integers.                                                    *)
LEMMA MinOfTwo ==
  ASSUME NEW a \in Int, NEW b \in Int
  PROVE  Min({a, b}) = IF a <= b THEN a ELSE b
<1> DEFINE m == IF a <= b THEN a ELSE b
<1>1. m \in {a, b} /\ \A y \in {a, b} : m <= y
  OBVIOUS
<1>2. \A x \in {a, b} : (\A y \in {a, b} : x <= y) => x = m
  OBVIOUS
<1> QED
  BY <1>1, <1>2 DEF Min

(* Two functions of the subsets of a finite set that agree on the empty    *)
(* one, and on a set once they agree on it without some element.           *)
AgreeStepwise(S, g, h) ==
  /\ g[{}] = h[{}]
  /\ \A s \in SUBSET S : s # {} =>
       \E x \in s : g[s \ {x}] = h[s \ {x}] => g[s] = h[s]

LEMMA SameOnFiniteSets ==
  ASSUME NEW S, IsFiniteSet(S), NEW g, NEW h, AgreeStepwise(S, g, h)
  PROVE  g[S] = h[S]
<1> DEFINE Differ == {s \in SUBSET S : g[s] # h[s]}
           Sizes  == {Cardinality(s) : s \in Differ}
<1>1. \A s \in SUBSET S : IsFiniteSet(s) /\ Cardinality(s) \in Nat
  BY FS_Subset, FS_CardinalityType
<1>2. Sizes \subseteq Nat
  BY <1>1
<1>3. ASSUME Differ # {} PROVE FALSE
  <2>1. Sizes # {}
    BY <1>3
  <2>2. PICK s \in Differ : \A t \in Differ : Cardinality(s) <= Cardinality(t)
    <3> HIDE DEF Differ
    <3>1. PICK s \in Differ : Cardinality(s) = Min(Sizes)
      <4>1. Min(Sizes) \in Sizes
        BY <1>2, <2>1, MinInSet
      <4> QED
        BY <4>1 DEF Sizes
    <3>2. ASSUME NEW t \in Differ PROVE Min(Sizes) <= Cardinality(t)
      <4>1. Cardinality(t) \in Sizes
        OBVIOUS
      <4> QED
        BY <1>2, <2>1, <4>1, MinInSet
    <3> QED
      BY <3>1, <3>2
  <2>3. s \in SUBSET S /\ g[s] # h[s] /\ s # {}
    BY <2>2 DEF AgreeStepwise
  <2>4. PICK x \in s : g[s \ {x}] # h[s \ {x}]
    BY <2>3 DEF AgreeStepwise
  <2>5. s \ {x} \in Differ
    BY <2>3, <2>4
  <2>6. Cardinality(s \ {x}) = Cardinality(s) - 1
    BY <1>1, <2>3, FS_RemoveElement
  <2> QED
    BY <1>1, <2>2, <2>3, <2>5, <2>6
<1> QED
  BY <1>3

(* A set of naturals below n has at most n elements.                       *)
LEMMA CountBelow ==
  ASSUME NEW n \in Nat, NEW T, T \subseteq 0 .. n - 1
  PROVE  IsFiniteSet(T) /\ Cardinality(T) \in Nat /\ Cardinality(T) <= n
<1>1. n - 1 \in Int
  OBVIOUS
<1>2. /\ IsFiniteSet(0 .. n - 1)
      /\ Cardinality(0 .. n - 1) = IF 0 > n - 1 THEN 0 ELSE (n - 1) - 0 + 1
  BY <1>1, FS_Interval
<1>3. Cardinality(0 .. n - 1) = n
  BY <1>2
<1> QED
  BY <1>2, <1>3, FS_Subset, FS_CardinalityType

=============================================================================
