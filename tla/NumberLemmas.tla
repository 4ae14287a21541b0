---------------------------- MODULE NumberLemmas ----------------------------
(***************************************************************************)
(* Facts about numbers that proofs about words and about recursive         *)
(* functions need.  Induction is over a set and not over a predicate: the  *)
(* library's theorems take an operator, which the provers cannot give      *)
(* them, but its fact that a well-founded relation has minimal elements    *)
(* speaks of sets, and the set of counterexamples is one.                  *)
(***************************************************************************)
EXTENDS Integers, FiniteSets, FiniteSetTheorems, WellFoundedInduction, TLAPS

(* A set of natural numbers that is not empty has a least one.             *)
LEMMA LeastNumber ==
  ASSUME NEW T, T \subseteq Nat, T # {}
  PROVE  \E x \in T : \A y \in T : ~(y < x)
<1>1. PICK x \in T : \A y \in T : ~(<<y, x>> \in OpToRel(<, Nat))
  BY NatLessThanWellFounded, WFMin
<1> QED
  BY <1>1 DEF OpToRel

(* Induction: what holds is a set of numbers.                              *)
LEMMA SetInduction ==
  ASSUME NEW T, 0 \in T, \A n \in Nat : n \in T => n + 1 \in T
  PROVE  Nat \subseteq T
<1> SUFFICES ASSUME NEW m \in Nat, m \notin T
             PROVE  FALSE
  OBVIOUS
<1>1. PICK x \in Nat \ T : \A y \in Nat \ T : ~(y < x)
  <2>1. Nat \ T \subseteq Nat /\ Nat \ T # {}
    OBVIOUS
  <2> QED
    BY <2>1, LeastNumber
<1>2. x # 0 /\ x - 1 \in Nat
  BY <1>1
<1>3. x - 1 \in T
  BY <1>1, <1>2
<1> QED
  BY <1>1, <1>2, <1>3

(* The provers know nothing of powers; that 2 ^ n is the number of subsets *)
(* of n things does the rest.                                              *)
LEMMA PowerDoubles ==
  ASSUME NEW n \in Nat
  PROVE  2 ^ n \in Nat /\ 2 ^ (n + 1) = 2 * 2 ^ n
<1> DEFINE S == 1 .. n
           T == SUBSET S
           U == {X \cup {n + 1} : X \in T}
           half == 2 ^ n
           whole == 2 ^ (n + 1)
<1>1. /\ IsFiniteSet(S) /\ Cardinality(S) = n
      /\ IsFiniteSet(1 .. n + 1) /\ Cardinality(1 .. n + 1) = n + 1
  <2>1. \A k \in Nat : IsFiniteSet(1 .. k) /\ Cardinality(1 .. k) = k
    BY FS_Interval
  <2> QED
    BY <2>1
<1>2. /\ IsFiniteSet(T) /\ Cardinality(T) = half
      /\ Cardinality(SUBSET (1 .. n + 1)) = whole
  BY <1>1, FS_SUBSET
<1>3. SUBSET (1 .. n + 1) = T \cup U
  <2>1. 1 .. n + 1 = S \cup {n + 1}
    OBVIOUS
  <2>2. ASSUME NEW X \in SUBSET (1 .. n + 1)
        PROVE  X \in T \cup U
    <3>1. CASE n + 1 \in X
      <4>1. X \ {n + 1} \in T /\ X = (X \ {n + 1}) \cup {n + 1}
        BY <2>1, <3>1
      <4> QED
        BY <4>1
    <3>2. CASE n + 1 \notin X
      BY <2>1, <3>2
    <3> QED
      BY <3>1, <3>2
  <2>3. T \cup U \subseteq SUBSET (S \cup {n + 1})
    OBVIOUS
  <2> HIDE DEF S, T, U
  <2> QED
    BY <2>1, <2>2, <2>3
<1>4. T \cap U = {}
  <2>1. n + 1 \notin S
    OBVIOUS
  <2> QED
    BY <2>1
<1>5. IsFiniteSet(U) /\ Cardinality(U) = Cardinality(T)
  <2> DEFINE f == [X \in T |-> X \cup {n + 1}]
  <2>1. n + 1 \notin S
    OBVIOUS
  <2>2. f \in Bijection(T, U)
    <3>1. f \in [T -> U]
      OBVIOUS
    <3>2. \A X, Y \in T : f[X] = f[Y] => X = Y
      <4> SUFFICES ASSUME NEW X \in T, NEW Y \in T, f[X] = f[Y]
                   PROVE  X = Y
        OBVIOUS
      <4>1. X \cup {n + 1} = Y \cup {n + 1}
        OBVIOUS
      <4> QED
        BY <2>1, <4>1
    <3>3. \A Z \in U : \E X \in T : f[X] = Z
      OBVIOUS
    <3> HIDE DEF f, T, U
    <3> QED
      BY <3>1, <3>2, <3>3 DEF Bijection, Injection, Surjection, IsInjective
  <2>3. ExistsBijection(T, U)
    BY <2>2 DEF ExistsBijection
  <2> HIDE DEF T, U
  <2> QED
    BY <1>2, <2>3, FS_Bijection
<1>6. Cardinality(T \cup U) = Cardinality(T) + Cardinality(U) - Cardinality(T \cap U)
  BY <1>2, <1>5, FS_Union
<1>7. Cardinality({}) = 0
  BY FS_EmptySet
<1>8. Cardinality(T) \in Nat
  BY <1>2, FS_CardinalityType
<1>9. /\ half \in Nat
      /\ whole = half + half
  <2>1. whole = Cardinality(T \cup U)
    BY <1>2, <1>3
  <2>2. Cardinality(T) = half /\ Cardinality(U) = half
    BY <1>2, <1>5
  <2>3. Cardinality(T \cap U) = 0
    BY <1>4, <1>7
  <2>4. whole = half + half - 0
    BY <2>1, <2>2, <2>3, <1>6
  <2>5. half \in Nat
    BY <1>8, <2>2
  <2> HIDE DEF half, whole
  <2> QED
    BY <2>4, <2>5
<1>10. 2 * half = half + half
  <2> HIDE DEF half
  <2> QED
    BY <1>9
<1> HIDE DEF half, whole
<1>11. whole = 2 * half
  BY <1>9, <1>10
<1> USE DEF half, whole
<1> QED
  BY <1>9, <1>11

(* All powers of two are positive.                                         *)
LEMMA PowerPositive == \A n \in Nat : 2 ^ n \in Nat \ {0}
<1> DEFINE T == {n \in Nat : 2 ^ n \in Nat \ {0}}
<1>1. 0 \in T
  <2>1. 2 ^ 0 = 1
    OBVIOUS
  <2> QED
    BY <2>1
<1>2. ASSUME NEW n \in Nat, n \in T
      PROVE  n + 1 \in T
  <2> DEFINE half == 2 ^ n
             whole == 2 ^ (n + 1)
  <2>1. half \in Nat \ {0} /\ whole = 2 * half
    BY <1>2, PowerDoubles
  <2>2. whole \in Nat \ {0}
    <3> HIDE DEF half, whole
    <3> QED
      BY <2>1
  <2> QED
    BY <2>2
<1> HIDE DEF T
<1>3. Nat \subseteq T
  BY <1>1, <1>2, SetInduction
<1> QED
  BY <1>3 DEF T

(* Quotient and remainder.                                                 *)
LEMMA DivMod ==
  ASSUME NEW x \in Int, NEW n \in Nat \ {0}
  PROVE  /\ x \div n \in Int
         /\ x % n \in 0 .. n - 1
         /\ x = n * (x \div n) + (x % n)
OBVIOUS

(* No multiple of n but 0 lies between -n and n.                           *)
LEMMA SmallMultiple ==
  ASSUME NEW n \in Nat \ {0}, NEW k \in Int, -n < n * k, n * k < n
  PROVE  k = 0
OBVIOUS

(* There is only one quotient and one remainder.                           *)
LEMMA DivModUnique ==
  ASSUME NEW x \in Int, NEW n \in Nat \ {0}, NEW q \in Int, NEW r \in 0 .. n - 1,
         x = n * q + r
  PROVE  x \div n = q /\ x % n = r
<1>1. PICK d \in Int, m \in 0 .. n - 1 : d = x \div n /\ m = x % n /\ x = n * d + m
  BY DivMod
<1>2. n * (d - q) = r - m
  BY <1>1
<1>3. d - q = 0
  BY <1>2, SmallMultiple
<1> QED
  BY <1>1, <1>2, <1>3
=============================================================================
