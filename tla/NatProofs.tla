------------------------------ MODULE NatProofs ------------------------------
(***************************************************************************)
(* Least and greatest elements of sets of natural numbers, as the theorems *)
(* about the other modules need them.                                      *)
(***************************************************************************)
EXTENDS FiniteSetTheorems, SequenceTheorems, TLAPS

\* Every non-empty set of natural numbers has a least element.
LEMMA LeastExists ==
    ASSUME NEW S \in SUBSET Nat, S # {}
    PROVE  \E m \in S : \A n \in S : m <= n
  <1> DEFINE R == OpToRel(<, Nat)
  <1>1. IsWellFoundedOn(R, Nat)
    BY NatLessThanWellFounded
  <1>2. \A m, n \in Nat : n < m => <<n, m>> \in R
    BY DEF OpToRel
  <1> HIDE DEF R
  <1>3. PICK m \in S : \A n \in S : <<n, m>> \notin R
    BY <1>1, WFMin
  <1>4. ASSUME NEW n \in S PROVE m <= n
    <2>1. m \in Nat /\ n \in Nat
      OBVIOUS
    <2>2. ~(n < m)
      BY <1>2, <1>3, <2>1
    <2> QED BY <2>1, <2>2
  <1> QED BY <1>4

\* Every non-empty set of natural numbers with a bound has a greatest element.
LEMMA GreatestExists ==
    ASSUME NEW S \in SUBSET Nat, S # {}, NEW b \in Nat, \A n \in S : n <= b
    PROVE  \E m \in S : \A n \in S : n <= m
  <1> DEFINE U == {u \in Nat : \A n \in S : n <= u}
  <1>1. PICK m \in U : \A u \in U : m <= u
    BY LeastExists
  <1>2. CASE m \in S
    BY <1>1, <1>2
  <1>3. CASE m \notin S
    <2>1. \A n \in S : n <= m /\ n # m /\ n \in Nat
      BY <1>1, <1>3
    <2>2. m \in Nat /\ m - 1 \in Nat
      <3>1. PICK n \in S : TRUE
        OBVIOUS
      <3> QED BY <1>1, <2>1, <3>1
    <2>3. m - 1 \in U
      BY <2>1, <2>2
    <2> QED BY <1>1, <2>2, <2>3
  <1> QED BY <1>2, <1>3

\* What holds of zero and of every successor holds of every natural number.
LEMMA SetInduction ==
    ASSUME NEW S \in SUBSET Nat, 0 \in S, \A n \in S : n + 1 \in S
    PROVE  S = Nat
  <1> SUFFICES ASSUME Nat \ S # {} PROVE FALSE
    OBVIOUS
  <1>1. PICK m \in Nat \ S : \A n \in Nat \ S : m <= n
    BY LeastExists
  <1>2. m - 1 \in Nat /\ m - 1 \in S
    BY <1>1
  <1> QED BY <1>1, <1>2

\* A finite set of natural numbers has a bound.
LEMMA FiniteBound ==
    ASSUME NEW S \in SUBSET Nat, IsFiniteSet(S)
    PROVE  \E b \in Nat : \A n \in S : n <= b
  <1> DEFINE Bounded(T) == \E b \in Nat : \A n \in T : n <= b
             K == {k \in Nat : \A T \in SUBSET Nat :
                                 IsFiniteSet(T) /\ Cardinality(T) = k => Bounded(T)}
  <1>1. 0 \in K
    BY FS_EmptySet
  <1>2. ASSUME NEW k \in K PROVE k + 1 \in K
    <2>1. k \in Nat /\ \A T \in SUBSET Nat : IsFiniteSet(T) /\ Cardinality(T) = k => Bounded(T)
      BY <1>2
    <2> SUFFICES ASSUME NEW T \in SUBSET Nat, IsFiniteSet(T), Cardinality(T) = k + 1
                 PROVE  Bounded(T)
      BY <2>1
    <2> HIDE DEF K
    <2>2. T # {}
      BY <2>1, FS_EmptySet
    <2>3. PICK x \in T : TRUE
      BY <2>2
    <2>4. IsFiniteSet(T \ {x}) /\ Cardinality(T \ {x}) = k /\ T \ {x} \in SUBSET Nat
      <3>1. IsFiniteSet(T \ {x}) /\ Cardinality(T \ {x}) = Cardinality(T) - 1
        BY <2>3, FS_RemoveElement
      <3>2. T \ {x} \in SUBSET Nat
        OBVIOUS
      <3> QED BY <2>1, <3>1, <3>2
    <2>5. PICK b \in Nat : \A n \in T \ {x} : n <= b
      BY <2>1, <2>4
    <2>6. x \in Nat /\ b + x \in Nat /\ \A n \in T : n \in Nat
      OBVIOUS
    <2>7. \A n \in T : n <= b + x
      BY <2>5, <2>6
    <2> QED BY <2>6, <2>7
  <1> HIDE DEF K
  <1>3. K = Nat
    BY <1>1, <1>2, SetInduction DEF K
  <1>4. Cardinality(S) \in K
    BY <1>3, FS_CardinalityType
  <1> QED BY <1>4 DEF K

\* One key more than a finite set has elements cannot all be taken.
LEMMA FreeNumber ==
    ASSUME NEW S, IsFiniteSet(S), NEW f
    PROVE  \E d \in 0..Cardinality(S) : \A s \in S : f[s] # d
  <1>1. Cardinality(S) \in Nat
    BY FS_CardinalityType
  <1>2. /\ IsFiniteSet(0..Cardinality(S)) /\ Cardinality(0..Cardinality(S)) = Cardinality(S) + 1
    BY <1>1, FS_Interval
  <1> SUFFICES ASSUME \A d \in 0..Cardinality(S) : \E s \in S : f[s] = d PROVE FALSE
    OBVIOUS
  <1> DEFINE g == [d \in 0..Cardinality(S) |-> CHOOSE s \in S : f[s] = d]
  <1>3. /\ g \in [0..Cardinality(S) -> S]
        /\ \A d \in 0..Cardinality(S) : f[g[d]] = d
    OBVIOUS
  <1> HIDE DEF g
  <1> QED BY <1>1, <1>2, <1>3, FS_PigeonHole

\* In a finite set of natural numbers there is an element at every place.
LEMMA PlaceExists ==
    ASSUME NEW S \in SUBSET Nat, IsFiniteSet(S), NEW i \in 1..Cardinality(S)
    PROVE  \E k \in S : Cardinality({j \in S : j <= k}) = i
  <1> DEFINE Upto(k) == {j \in S : j <= k}
             T == {k \in S : Cardinality(Upto(k)) >= i}
  <1>1. \A k \in S : IsFiniteSet(Upto(k)) /\ Cardinality(Upto(k)) \in Nat
    BY FS_Subset, FS_CardinalityType
  <1>2. Cardinality(S) \in Nat /\ S # {}
    BY FS_CardinalityType, FS_EmptySet
  <1>3. T # {}
    <2>1. PICK b \in Nat : \A n \in S : n <= b
      BY FiniteBound
    <2>2. PICK g \in S : \A n \in S : n <= g
      BY <1>2, <2>1, GreatestExists
    <2>3. Upto(g) = S
      BY <2>2
    <2> QED BY <1>2, <2>3
  <1>4. PICK m \in T : \A k \in T : m <= k
    <2>1. T \in SUBSET Nat
      OBVIOUS
    <2> HIDE DEF T
    <2> QED BY <1>3, <2>1, LeastExists
  <1>5. m \in S /\ m \in Nat /\ Cardinality(Upto(m)) \in Nat /\ Cardinality(Upto(m)) >= i
    BY <1>1, <1>4
  <1>6. ASSUME Cardinality(Upto(m)) # i PROVE FALSE
    <2> DEFINE D == Upto(m) \ {m}
    <2>1. IsFiniteSet(D) /\ Cardinality(D) = Cardinality(Upto(m)) - 1
      <3>1. m \in Upto(m)
        BY <1>5
      <3> HIDE DEF Upto
      <3> QED BY <1>1, <1>5, <3>1, FS_RemoveElement
    <2>2. Cardinality(D) >= i /\ Cardinality(D) # 0
      BY <1>5, <1>6, <2>1
    <2>3. D # {} /\ D \in SUBSET Nat /\ \A n \in D : n <= m
      <3>1. D # {}
        BY <2>2, FS_EmptySet
      <3> QED BY <3>1
    <2>4. PICK p \in D : \A n \in D : n <= p
      <3> HIDE DEF D
      <3> QED BY <1>5, <2>3, GreatestExists
    <2>5. p \in S /\ p < m /\ p \in Nat
      BY <1>5, <2>4
    <2>6. Upto(p) = D
      <3>1. ASSUME NEW j \in S, j <= p PROVE j <= m /\ j # m
        BY <1>5, <2>5, <3>1
      <3>2. \A j \in D : j \in S /\ j <= p
        BY <2>4
      <3>3. \A j \in S : j <= p <=> j \in D
        BY <2>4, <3>1
      <3> QED BY <3>2, <3>3
    <2>7. p \in T
      BY <2>2, <2>5, <2>6
    <2> QED BY <1>4, <1>5, <2>5, <2>7
  <1> QED BY <1>5, <1>6
==============================================================================
