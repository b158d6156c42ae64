------------------------------ MODULE Counting ------------------------------
(***************************************************************************)
(* Facts about numbers and finite sets that the proofs keep needing.       *)
(***************************************************************************)
EXTENDS Integers, Orders, FiniteSetTheorems, SequenceTheorems, WellFoundedInduction, TLAPS

\* A set of naturals has a least, if it has any.
LEMMA HasLeast ==
    ASSUME NEW T \in SUBSET Nat, T # {}
    PROVE  \E x \in T : \A y \in T : x <= y
<1> DEFINE R == OpToRel(<, Nat)
<1>1. IsWellFoundedOn(R, Nat)
  BY NatLessThanWellFounded
<1>2. \A x, y \in Nat : <<y, x>> \in R <=> y < x
  BY DEF OpToRel
<1> HIDE DEF R
<1>3. PICK x \in T : \A y \in T : ~ (<<y, x>> \in R)
  BY <1>1, WFMin
<1>4. ASSUME NEW y \in T PROVE x <= y
  <2>1. x \in Nat /\ y \in Nat
    OBVIOUS
  <2>2. ~(y < x)
    BY <1>2, <1>3, <2>1, Zenon
  <2> QED
    BY <2>1, <2>2
<1> QED
  BY <1>4

\* A part of a finite set is finite, and no larger.
LEMMA NoLarger ==
    ASSUME NEW S, NEW T, IsFiniteSet(T), S \subseteq T
    PROVE  /\ IsFiniteSet(S)
           /\ Cardinality(S) \in Nat /\ Cardinality(T) \in Nat
           /\ Cardinality(S) <= Cardinality(T)
<1>1. S \in SUBSET T
  OBVIOUS
<1> QED
  BY <1>1, FS_Subset, FS_CardinalityType

\* One more is at most one more.
LEMMA OneMore ==
    ASSUME NEW S, NEW T, NEW x, IsFiniteSet(T), S \subseteq T \cup {x}
    PROVE  Cardinality(S) <= Cardinality(T) + 1 /\ Cardinality(S) \in Nat
<1>1. /\ IsFiniteSet(T \cup {x})
      /\ Cardinality(T \cup {x}) = IF x \in T THEN Cardinality(T) ELSE Cardinality(T) + 1
  BY FS_AddElement
<1>2. Cardinality(T) \in Nat
  BY FS_CardinalityType
<1> QED
  BY <1>1, <1>2, NoLarger

\* There are n numbers from 1 to n.
LEMMA UpToCount ==
    ASSUME NEW n \in Nat
    PROVE  IsFiniteSet(1..n) /\ Cardinality(1..n) = n
<1>1. /\ IsFiniteSet(1..n)
      /\ Cardinality(1..n) = IF 1 > n THEN 0 ELSE n - 1 + 1
  <2>1. 1 \in Int /\ n \in Int
    OBVIOUS
  <2> QED
    BY <2>1, FS_Interval, Zenon
<1> QED
  BY <1>1

\* Numbers from 1 on without a gap are those up to their count.
LEMMA NoGap ==
    ASSUME NEW n \in Nat, NEW D \in SUBSET (1..n),
           \A i \in D : \A h \in 1..i : h \in D
    PROVE  Cardinality(D) \in 0..n /\ D = 1..Cardinality(D)
<1> DEFINE out == (1..(n + 1)) \ D
<1>1. PICK m \in out : \A y \in out : m <= y
  <2>1. out \in SUBSET Nat /\ n + 1 \in out
    OBVIOUS
  <2> QED
    BY <2>1, HasLeast
<1>2. D = 1..(m - 1)
  <2>1. ASSUME NEW i \in D PROVE i < m
    BY <1>1, <2>1
  <2>2. ASSUME NEW i \in 1..(m - 1) PROVE i \in D
    BY <1>1, <2>2
  <2>3. D \subseteq 1..(m - 1)
    BY <1>1, <2>1
  <2>4. 1..(m - 1) \subseteq D
    BY <2>2
  <2> QED
    BY <2>3, <2>4
<1>3. m - 1 \in Nat /\ m - 1 <= n
  BY <1>1
<1> QED
  BY <1>2, <1>3, UpToCount

\* Induction over the parts of a finite set, as a smallest counterexample:
\* sets that are bad, if there are any, have one of which no part is bad.
LEMMA HasSmallest ==
    ASSUME NEW S, IsFiniteSet(S), NEW bad \in SUBSET (SUBSET S), bad # {}
    PROVE  \E s \in bad : \A t \in SUBSET s : t # s => t \notin bad
<1> DEFINE sizes == {Cardinality(s) : s \in bad}
<1>1. ASSUME NEW s \in bad PROVE IsFiniteSet(s) /\ Cardinality(s) \in Nat
  BY NoLarger
<1>2. sizes \in SUBSET Nat /\ sizes # {}
  BY <1>1
<1>3. PICK n \in sizes : \A m \in sizes : n <= m
  BY <1>2, HasLeast
<1>4. PICK s \in bad : Cardinality(s) = n
  OBVIOUS
<1>5. ASSUME NEW t \in SUBSET s, t # s, t \in bad PROVE FALSE
  <2>1. Cardinality(t) < Cardinality(s)
    BY <1>1, <1>5, FS_Subset
  <2>2. n <= Cardinality(t)
    BY <1>3, <1>5
  <2> QED
    BY <1>1, <1>4, <1>5, <2>1, <2>2
<1> QED
  BY <1>5

\* Numbers in order.
Ascends(order) == \A i, j \in DOMAIN order : i < j => order[i] < order[j]

\* A finite set of numbers can be put in order.
LEMMA HasOrder ==
    ASSUME NEW S \in SUBSET Nat, IsFiniteSet(S)
    PROVE  \E order \in [1..Cardinality(S) -> S] : Ascends(order)
<1> DEFINE bad == {u \in SUBSET S : \A order \in [1..Cardinality(u) -> u] : ~Ascends(order)}
<1> SUFFICES ASSUME bad # {} PROVE FALSE
  OBVIOUS
<1>1. PICK u \in bad : \A t \in SUBSET u : t # u => t \notin bad
  <2>1. bad \in SUBSET (SUBSET S)
    OBVIOUS
  <2> HIDE DEF bad
  <2> QED
    BY <2>1, HasSmallest
<1>2. u \in SUBSET S /\ IsFiniteSet(u) /\ Cardinality(u) \in Nat
  BY <1>1, NoLarger
<1>3. u # {}
  <2> SUFFICES ASSUME u = {} PROVE FALSE
    OBVIOUS
  <2>1. Cardinality(u) = 0
    BY FS_EmptySet
  <2>2. 1..0 = {}
    OBVIOUS
  <2> DEFINE none == [i \in 1..0 |-> 0]
  <2>3. none \in [1..Cardinality(u) -> u] /\ Ascends(none)
    BY <2>1, <2>2 DEF Ascends
  <2> QED
    BY <1>1, <2>3
<1>4. PICK x \in u : \A y \in u : x <= y
  BY <1>2, <1>3, HasLeast
<1> DEFINE rest == u \ {x}
<1>5. rest \in SUBSET u /\ rest # u /\ IsFiniteSet(rest) /\ Cardinality(u) = Cardinality(rest) + 1 /\ Cardinality(rest) \in Nat
  BY <1>2, <1>4, FS_RemoveElement, NoLarger
<1>6. PICK order \in [1..Cardinality(rest) -> rest] : Ascends(order)
  BY <1>1, <1>2, <1>5
<1> DEFINE m == Cardinality(rest)
<1>a. m \in Nat /\ Cardinality(u) = m + 1 /\ order \in [1..m -> rest] /\ \A y \in rest : y \in u /\ y # x /\ y \in Nat
  BY <1>2, <1>5, <1>6
<1> HIDE DEF m, rest
<1> DEFINE all == [i \in 1..(m + 1) |-> IF i = 1 THEN x ELSE order[i - 1]]
<1>7. all \in [1..Cardinality(u) -> u]
  <2>1. ASSUME NEW i \in 1..(m + 1), i # 1 PROVE order[i - 1] \in u
    <3>1. i - 1 \in 1..m
      BY <1>a, <2>1
    <3> QED
      BY <1>a, <3>1
  <2> QED
    BY <1>4, <1>a, <2>1
<1>8. Ascends(all)
  <2> SUFFICES ASSUME NEW i \in 1..Cardinality(u), NEW j \in 1..Cardinality(u), i < j
               PROVE  all[i] < all[j]
    BY <1>7 DEF Ascends
  <2>0. i \in 1..(m + 1) /\ j \in 1..(m + 1) /\ j # 1
    BY <1>a
  <2>1. j - 1 \in 1..m /\ order[j - 1] \in rest /\ all[j] = order[j - 1]
    <3>1. j - 1 \in 1..m
      BY <1>a, <2>0
    <3> QED
      BY <1>a, <2>0, <3>1
  <2>2. CASE i = 1
    <3>1. x < order[j - 1]
      BY <1>2, <1>4, <1>a, <2>1
    <3>2. all[i] = x
      BY <1>a, <2>0, <2>2
    <3> QED
      BY <2>1, <3>1, <3>2
  <2>3. CASE i # 1
    <3>1. i - 1 \in 1..m /\ i - 1 < j - 1 /\ all[i] = order[i - 1]
      BY <1>a, <2>0, <2>3
    <3>2. order[i - 1] < order[j - 1]
      BY <1>6, <1>a, <2>1, <3>1 DEF Ascends
    <3> QED
      BY <2>1, <3>1, <3>2
  <2> QED
    BY <2>2, <2>3
<1> QED
  BY <1>1, <1>7, <1>8

\* The order chosen is one of all that was, each once.
LEMMA OrderIsAll ==
    ASSUME NEW S \in SUBSET Nat, IsFiniteSet(S)
    PROVE  /\ InOrder(S) \in Seq(S) /\ Len(InOrder(S)) = Cardinality(S) /\ Ascends(InOrder(S))
           /\ \A x \in S : \E i \in 1..Len(InOrder(S)) : InOrder(S)[i] = x
           /\ \A i, j \in 1..Len(InOrder(S)) : InOrder(S)[i] = InOrder(S)[j] => i = j
<1> DEFINE n == Cardinality(S)
<1>1. n \in Nat
  BY FS_CardinalityType
<1>2. PICK order : order = InOrder(S)
  OBVIOUS
<1>3. order \in [1..n -> S] /\ Ascends(order)
  BY <1>2, HasOrder DEF InOrder, Ascends
<1>4. order \in Seq(S) /\ Len(order) = n
  <2>1. order \in Seq(S)
    BY <1>1, <1>3, SeqDef
  <2> QED
    BY <1>1, <1>3, <2>1, LenProperties
<1>5. \A i, j \in 1..n : order[i] = order[j] => i = j
  <2> SUFFICES ASSUME NEW i \in 1..n, NEW j \in 1..n, i # j PROVE order[i] # order[j]
    OBVIOUS
  <2>1. i < j \/ j < i
    BY <1>1
  <2>2. order[i] < order[j] \/ order[j] < order[i]
    BY <1>3, <2>1 DEF Ascends
  <2>3. order[i] \in Nat /\ order[j] \in Nat
    BY <1>3
  <2> QED
    BY <2>2, <2>3
<1>6. order \in Surjection(1..n, S)
  <2>1. order \in Injection(1..n, S)
    BY <1>3, <1>5 DEF Injection, IsInjective
  <2>2. Cardinality(1..n) = Cardinality(S)
    BY <1>1, UpToCount
  <2> QED
    BY <2>1, <2>2, FS_Injection
<1> QED
  BY <1>2, <1>3, <1>4, <1>5, <1>6 DEF Surjection
=============================================================================
