--------------------------- MODULE SequenceLemmas ---------------------------
(***************************************************************************)
(* What the proofs use of sequences and of natural numbers.  The induction *)
(* theorems of the library take a predicate for their parameter; here an   *)
(* induction goes by the least of the numbers that have not the property.  *)
(***************************************************************************)
EXTENDS Queues, FiniteSetTheorems, FunctionTheorems, WellFoundedInduction, SequenceTheorems, TLAPS

(* A set of numbers that is not empty has a least one. *)
LEMMA LeastNumber ==
    ASSUME NEW T \in SUBSET Nat, T # {}
    PROVE  \E n \in T : \A m \in T : n <= m
<1> DEFINE Less == OpToRel(<, Nat)
<1>1. IsWellFoundedOn(Less, Nat)
  BY NatLessThanWellFounded
<1>2. \A x, y \in Nat : <<y, x>> \in Less <=> y < x
  BY DEF OpToRel
<1> HIDE DEF Less
<1>3. PICK x \in T : \A y \in T : ~ (<<y, x>> \in Less)
  BY <1>1, WFMin
<1>4. \A y \in T : x <= y
  <2> SUFFICES ASSUME NEW y \in T PROVE x <= y
    OBVIOUS
  <2>1. x \in Nat /\ y \in Nat /\ ~ (y < x)
    BY <1>2, <1>3
  <2> QED BY <2>1
<1> QED BY <1>4

(* So a set that holds 0, and with each number the next one, holds all.    *)
LEMMA HoldsAll ==
    ASSUME NEW T, 0 \in T, \A n \in Nat : n \in T => n + 1 \in T
    PROVE  Nat \subseteq T
<1> SUFFICES ASSUME Nat \ T # {} PROVE FALSE
  OBVIOUS
<1>1. PICK n \in Nat \ T : \A m \in Nat \ T : n <= m
  <2>1. Nat \ T \in SUBSET Nat
    OBVIOUS
  <2> QED BY <2>1, LeastNumber
<1>2. n # 0 /\ n - 1 \in Nat
  BY <1>1
<1>3. n - 1 \in T
  <2>1. ~ (n <= n - 1)
    BY <1>2
  <2> QED BY <1>1, <1>2, <2>1
<1>4. (n - 1) + 1 = n
  BY <1>2
<1> QED BY <1>1, <1>2, <1>3, <1>4

-----------------------------------------------------------------------------
(* The first n steps by which Without goes through a queue. *)
Sieves(left, q, S, n) ==
    left = [i \in 0..n |->
              IF i = 0 THEN <<>>
              ELSE IF q[i] \in S THEN left[i - 1]
              ELSE Append(left[i - 1], q[i])]

LEMMA SieveExists ==
    ASSUME NEW q, NEW S, NEW n \in Nat
    PROVE  \E left : Sieves(left, q, S, n)
<1> DEFINE T == {m \in Nat : \E left : Sieves(left, q, S, m)}
<1>1. 0 \in T
  <2> DEFINE left == [i \in 0..0 |-> <<>>]
  <2>1. Sieves(left, q, S, 0)
    BY DEF Sieves
  <2> QED BY <2>1
<1>2. ASSUME NEW m \in Nat, m \in T PROVE m + 1 \in T
  <2>1. PICK left : Sieves(left, q, S, m)
    BY <1>2
  <2> DEFINE last == IF q[m + 1] \in S THEN left[m] ELSE Append(left[m], q[m + 1])
             more == [i \in 0..(m + 1) |-> IF i <= m THEN left[i] ELSE last]
             Step(f, i) == IF i = 0 THEN <<>>
                           ELSE IF q[i] \in S THEN f[i - 1] ELSE Append(f[i - 1], q[i])
  <2>2. ASSUME NEW i \in 0..(m + 1) PROVE more[i] = Step(more, i)
    <3>1. CASE i = m + 1
      BY <3>1
    <3>2. CASE i # m + 1
      <4>1. i \in 0..m /\ (i # 0 => i - 1 \in 0..m)
        BY <3>2
      <4>2. left[i] = Step(left, i)
        BY <2>1, <4>1 DEF Sieves
      <4>3. more[i] = left[i] /\ (i # 0 => more[i - 1] = left[i - 1])
        BY <4>1
      <4> QED BY <4>2, <4>3
    <3> QED BY <3>1, <3>2
  <2>3. Sieves(more, q, S, m + 1)
    BY <2>2 DEF Sieves
  <2> QED BY <2>3
<1> HIDE DEF T
<1>3. n \in T
  BY <1>1, <1>2, HoldsAll
<1> QED BY <1>3 DEF T

(* Nothing is left of nothing; one step more takes one element more. *)
LEMMA WithoutSteps ==
    ASSUME NEW V, NEW q \in Seq(V), NEW S
    PROVE  \E left : /\ left[0] = <<>>
                     /\ \A i \in 1..Len(q) :
                          left[i] = IF q[i] \in S THEN left[i - 1] ELSE Append(left[i - 1], q[i])
                     /\ Without(q, S) = left[Len(q)]
<1> DEFINE left == CHOOSE f : Sieves(f, q, S, Len(q))
<1>1. Sieves(left, q, S, Len(q))
  BY SieveExists
<1>2. Without(q, S) = left[Len(q)]
  BY DEF Without, Sieves
<1> HIDE DEF left
<1>3. left[0] = <<>>
  BY <1>1 DEF Sieves
<1>4. ASSUME NEW i \in 1..Len(q)
      PROVE  left[i] = IF q[i] \in S THEN left[i - 1] ELSE Append(left[i - 1], q[i])
  <2>1. Len(q) \in Nat /\ i \in 0..Len(q) /\ i # 0
    OBVIOUS
  <2> QED BY <1>1, <2>1 DEF Sieves
<1> QED BY <1>2, <1>3, <1>4

(* What is left of a queue of V is a queue of V, of the elements outside   *)
(* of S; and of a queue without repetitions it is one.                     *)
LEMMA WithoutFacts ==
    ASSUME NEW V, NEW q \in Seq(V), NEW S
    PROVE  /\ Without(q, S) \in Seq(V)
           /\ {Without(q, S)[i] : i \in 1..Len(Without(q, S))} = {q[i] : i \in 1..Len(q)} \ S
           /\ (\A i, j \in 1..Len(q) : q[i] = q[j] => i = j)
                => \A i, j \in 1..Len(Without(q, S)) :
                     Without(q, S)[i] = Without(q, S)[j] => i = j
<1>1. PICK left :
        /\ left[0] = <<>>
        /\ \A i \in 1..Len(q) :
             left[i] = IF q[i] \in S THEN left[i - 1] ELSE Append(left[i - 1], q[i])
        /\ Without(q, S) = left[Len(q)]
  BY WithoutSteps
<1> DEFINE once == \A i, j \in 1..Len(q) : q[i] = q[j] => i = j
           Fits(p, n) == /\ p \in Seq(V)
                         /\ \A i \in 1..Len(p) : \E j \in 1..n : p[i] = q[j] /\ q[j] \notin S
                         /\ \A j \in 1..n : q[j] \notin S => \E i \in 1..Len(p) : p[i] = q[j]
                         /\ once => \A i, j \in 1..Len(p) : p[i] = p[j] => i = j
           T == {n \in Nat : n <= Len(q) => Fits(left[n], n)}
<1>2. 0 \in T
  <2>1. <<>> \in Seq(V) /\ Len(<<>>) = 0
    OBVIOUS
  <2>2. 1..0 = {}
    OBVIOUS
  <2>3. Fits(<<>>, 0)
    BY <2>1, <2>2
  <2> HIDE DEF Fits
  <2> QED BY <1>1, <2>3
<1>3. ASSUME NEW n \in Nat, n \in T PROVE n + 1 \in T
  <2> SUFFICES ASSUME n + 1 <= Len(q) PROVE Fits(left[n + 1], n + 1)
    OBVIOUS
  <2> DEFINE p == left[n]  x == q[n + 1]
  <2>0. n + 1 \in 1..Len(q) /\ n <= Len(q) /\ (n + 1) - 1 = n
    OBVIOUS
  <2>1. Fits(p, n)
    BY <1>3, <2>0
  <2>2. left[n + 1] = IF x \in S THEN p ELSE Append(p, x)
    BY <1>1, <2>0
  <2>3. x \in V /\ 1..(n + 1) = (1..n) \cup {n + 1}
    BY <2>0
  <2> HIDE DEF p
  <2>4. CASE x \in S
    <3>1. Fits(p, n + 1)
      BY <2>1, <2>3, <2>4
    <3> HIDE DEF Fits
    <3> QED BY <2>2, <2>4, <3>1
  <2>5. CASE x \notin S
    <3> DEFINE r == Append(p, x)
    <3>1. /\ r \in Seq(V) /\ Len(r) = Len(p) + 1 /\ r[Len(p) + 1] = x
          /\ \A i \in 1..Len(p) : r[i] = p[i]
          /\ Len(p) \in Nat
          /\ 1..Len(r) = (1..Len(p)) \cup {Len(p) + 1}
      BY <2>1, <2>3
    <3> HIDE DEF r
    <3>2. ASSUME NEW i \in 1..Len(r) PROVE \E j \in 1..(n + 1) : r[i] = q[j] /\ q[j] \notin S
      <4>1. CASE i = Len(p) + 1
        BY <2>3, <2>5, <3>1, <4>1
      <4>2. CASE i \in 1..Len(p)
        <5>1. PICK j \in 1..n : p[i] = q[j] /\ q[j] \notin S
          BY <2>1, <4>2
        <5> QED BY <2>3, <3>1, <4>2, <5>1
      <4> QED BY <3>1, <4>1, <4>2
    <3>3. \A j \in 1..(n + 1) : q[j] \notin S => \E i \in 1..Len(r) : r[i] = q[j]
      BY <2>1, <2>3, <2>5, <3>1
    <3>4. ASSUME once, NEW i \in 1..Len(p) PROVE p[i] # x
      <4>1. PICK j \in 1..n : p[i] = q[j]
        BY <2>1
      <4>2. j \in 1..Len(q) /\ j # n + 1
        BY <2>0
      <4> QED BY <2>0, <3>4, <4>1, <4>2
    <3>5. once => \A i, j \in 1..Len(r) : r[i] = r[j] => i = j
      BY <2>1, <3>1, <3>4
    <3>6. Fits(r, n + 1)
      BY <3>1, <3>2, <3>3, <3>5
    <3>7. left[n + 1] = r
      BY <2>2, <2>5 DEF r
    <3> HIDE DEF Fits
    <3> QED BY <3>6, <3>7
  <2> QED BY <2>4, <2>5
<1>4. Len(q) \in T
  <2> HIDE DEF T
  <2>1. Nat \subseteq T
    BY <1>2, <1>3, HoldsAll
  <2>2. Len(q) \in Nat
    OBVIOUS
  <2> QED BY <2>1, <2>2
<1>5. Fits(left[Len(q)], Len(q))
  <2> HIDE DEF Fits
  <2>1. Len(q) \in Nat
    OBVIOUS
  <2> QED BY <1>4, <2>1
<1> DEFINE w == Without(q, S)
<1>6. /\ w \in Seq(V)
      /\ \A i \in 1..Len(w) : \E j \in 1..Len(q) : w[i] = q[j] /\ q[j] \notin S
      /\ \A j \in 1..Len(q) : q[j] \notin S => \E i \in 1..Len(w) : w[i] = q[j]
      /\ once => \A i, j \in 1..Len(w) : w[i] = w[j] => i = j
  BY <1>1, <1>5
<1> HIDE DEF w
<1>7. {w[i] : i \in 1..Len(w)} = {q[i] : i \in 1..Len(q)} \ S
  <2>1. ASSUME NEW y \in {w[i] : i \in 1..Len(w)} PROVE y \in {q[i] : i \in 1..Len(q)} \ S
    <3>1. PICK i \in 1..Len(w) : y = w[i]
      BY <2>1
    <3>2. PICK j \in 1..Len(q) : w[i] = q[j] /\ q[j] \notin S
      BY <1>6
    <3> QED BY <3>1, <3>2
  <2>2. ASSUME NEW y \in {q[i] : i \in 1..Len(q)} \ S PROVE y \in {w[i] : i \in 1..Len(w)}
    <3>1. PICK j \in 1..Len(q) : y = q[j] /\ q[j] \notin S
      BY <2>2
    <3>2. PICK i \in 1..Len(w) : w[i] = q[j]
      BY <1>6, <3>1
    <3> QED BY <3>1, <3>2
  <2> QED BY <2>1, <2>2
<1> QED BY <1>6, <1>7 DEF w

(* A queue without repetitions holds as many elements as it is long. *)
LEMMA DistinctCount ==
    ASSUME NEW V, NEW q \in Seq(V), \A i, j \in 1..Len(q) : q[i] = q[j] => i = j
    PROVE  /\ IsFiniteSet({q[i] : i \in 1..Len(q)})
           /\ Cardinality({q[i] : i \in 1..Len(q)}) = Len(q)
<1> DEFINE D == 1..Len(q)  R == {q[i] : i \in 1..Len(q)}
<1>1. q \in [D -> R] /\ Len(q) \in Nat
  OBVIOUS
<1>2. \A r \in R : \E i \in D : q[i] = r
  OBVIOUS
<1>3. \A i, j \in D : q[i] = q[j] => i = j
  OBVIOUS
<1>4. IsFiniteSet(D) /\ Cardinality(D) = Len(q)
  <2>1. 1 \in Int /\ Len(q) \in Int
    BY <1>1
  <2>2. /\ IsFiniteSet(1..Len(q))
        /\ Cardinality(1..Len(q)) = IF 1 > Len(q) THEN 0 ELSE Len(q) - 1 + 1
    BY <2>1, FS_Interval
  <2> QED BY <1>1, <2>2
<1> HIDE DEF D, R
<1>5. q \in Bijection(D, R)
  BY <1>1, <1>2, <1>3, Fun_IsBij
<1>6. ExistsBijection(D, R)
  BY <1>5, Fun_ExistsBij
<1> QED BY <1>4, <1>6, FS_Bijection DEF R

-----------------------------------------------------------------------------
(* How many members of a set are smaller. *)
Rank(S, n) == Cardinality({m \in S : m < n})

(* Larger members have larger ranks, and each number below the size of the *)
(* set is the rank of one.                                                 *)
LEMMA RankFacts ==
    ASSUME NEW S \in SUBSET Nat, IsFiniteSet(S)
    PROVE  /\ \A n \in S : Rank(S, n) \in 0..(Cardinality(S) - 1)
           /\ \A m, n \in S : m < n => Rank(S, m) < Rank(S, n)
           /\ \A k \in 0..(Cardinality(S) - 1) : \E n \in S : Rank(S, n) = k
<1> DEFINE Below(n) == {m \in S : m < n}
<1>0. Cardinality(S) \in Nat
  BY FS_CardinalityType
<1>1. ASSUME NEW n \in S
      PROVE  /\ IsFiniteSet(Below(n)) /\ Cardinality(Below(n)) \in Nat
             /\ Cardinality(Below(n)) <= Cardinality(S) - 1
  <2>1. Below(n) \in SUBSET (S \ {n})
    OBVIOUS
  <2>2. IsFiniteSet(S \ {n}) /\ Cardinality(S \ {n}) = Cardinality(S) - 1
    BY FS_RemoveElement
  <2> HIDE DEF Below
  <2>3. IsFiniteSet(Below(n)) /\ Cardinality(Below(n)) <= Cardinality(S \ {n})
    BY <2>1, <2>2, FS_Subset
  <2> QED BY <2>2, <2>3, FS_CardinalityType
<1>2. ASSUME NEW m \in S, NEW n \in S, m < n
      PROVE  Cardinality(Below(m)) < Cardinality(Below(n))
  <2>1. Below(m) \cup {m} \in SUBSET Below(n) /\ m \notin Below(m)
    <3>1. m \in Nat /\ n \in Nat /\ ~ (m < m)
      OBVIOUS
    <3>2. \A x \in S : x < m => x < n
      BY <1>2, <3>1
    <3> QED BY <1>2, <3>1, <3>2
  <2> HIDE DEF Below
  <2>2. Cardinality(Below(m) \cup {m}) = Cardinality(Below(m)) + 1
    BY <1>1, <2>1, FS_AddElement
  <2>3. Cardinality(Below(m) \cup {m}) <= Cardinality(Below(n))
    BY <1>1, <2>1, FS_Subset
  <2> QED BY <1>1, <2>2, <2>3
<1>3. \A n \in S : Rank(S, n) = Cardinality(Below(n))
  BY DEF Rank
<1> DEFINE D == 0..(Cardinality(S) - 1)  f == [n \in S |-> Cardinality(Below(n))]
<1> HIDE DEF Below
<1>4. IsFiniteSet(D) /\ Cardinality(D) = Cardinality(S)
  <2>1. 0 \in Int /\ Cardinality(S) - 1 \in Int
    BY <1>0
  <2>2. IsFiniteSet(D) /\ Cardinality(D) =
           IF 0 > Cardinality(S) - 1 THEN 0 ELSE (Cardinality(S) - 1) - 0 + 1
    BY <2>1, FS_Interval
  <2> QED BY <1>0, <2>2
<1>5. \A n \in S : f[n] \in D
  BY <1>0, <1>1
<1>6. f \in [S -> D]
  BY <1>5
<1>7. \A m, n \in S : f[m] = f[n] => m = n
  <2> SUFFICES ASSUME NEW m \in S, NEW n \in S, f[m] = f[n], m # n PROVE FALSE
    OBVIOUS
  <2>1. f[m] = Cardinality(Below(m)) /\ f[n] = Cardinality(Below(n))
    OBVIOUS
  <2>2. m < n \/ n < m
    OBVIOUS
  <2> QED BY <1>1, <1>2, <2>1, <2>2
<1> HIDE DEF f, D
<1>8. f \in Injection(S, D)
  BY <1>6, <1>7, Fun_IsInj
<1>9. f \in Surjection(S, D)
  BY <1>4, <1>8, FS_Injection
<1>10. \A k \in D : \E n \in S : f[n] = k
  BY <1>9 DEF Surjection
<1> QED BY <1>0, <1>1, <1>2, <1>3, <1>10 DEF f, D

(* A finite set of numbers that is not empty has a greatest one. *)
LEMMA GreatestMember ==
    ASSUME NEW S \in SUBSET Nat, IsFiniteSet(S), S # {}
    PROVE  \E n \in S : \A m \in S : m <= n
<1> DEFINE k == Cardinality(S) - 1
<1>1. Cardinality(S) \in Nat /\ Cardinality(S) # 0
  BY FS_CardinalityType, FS_EmptySet
<1>2. k \in 0..(Cardinality(S) - 1)
  BY <1>1
<1>3. PICK n \in S : Rank(S, n) = k
  BY <1>2, RankFacts
<1>4. ASSUME NEW m \in S, n < m PROVE FALSE
  <2>1. Rank(S, m) \in 0..k /\ Rank(S, n) < Rank(S, m)
    BY <1>4, RankFacts
  <2> QED BY <1>1, <1>3, <2>1
<1> QED BY <1>4
=============================================================================
