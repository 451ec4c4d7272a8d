------------------------- MODULE SubsequenceProofs -------------------------
(* What Picked returns, for every sequence and every set of its positions.  *)
EXTENDS Subsequences, FiniteSetTheorems, TLAPS

LEMMA UpToType ==
    ASSUME NEW I \in SUBSET Nat, IsFiniteSet(I), NEW i \in I
    PROVE  UpTo(I, i) \in 1..Cardinality(I)
<1> DEFINE J == {j \in I : j <= i}
<1>1. IsFiniteSet(J) /\ Cardinality(J) <= Cardinality(I) /\ Cardinality(J) \in Nat
  BY FS_Subset, FS_CardinalityType
<1>2. J # {} /\ Cardinality(I) \in Nat
  BY FS_CardinalityType
<1>3. Cardinality(J) # 0
  BY <1>1, <1>2, FS_EmptySet
<1> QED BY <1>1, <1>2, <1>3 DEF UpTo

\* UpTos grow with the position.
LEMMA UpToGrows ==
    ASSUME NEW I \in SUBSET Nat, IsFiniteSet(I), NEW i \in I, NEW j \in I, i < j
    PROVE  UpTo(I, i) < UpTo(I, j)
<1> DEFINE A == {x \in I : x <= i}
           B == {x \in I : x <= j}
<1>1. IsFiniteSet(B) BY FS_Subset
<1>2. A \subseteq B
  <2>1. ASSUME NEW x \in A PROVE x \in B
    <3>1. x \in Nat /\ i \in Nat /\ j \in Nat /\ x <= i OBVIOUS
    <3> QED BY <3>1
  <2> QED BY <2>1
<1>3. j \in B /\ j \notin A
  <2>1. i \in Nat /\ j \in Nat OBVIOUS
  <2> QED BY <2>1
<1>4. Cardinality(A) < Cardinality(B)
  BY <1>1, <1>2, <1>3, FS_Subset, FS_CardinalityType
<1> QED BY <1>4 DEF UpTo

\* Every rank is taken: positions and ranks are equally many.
LEMMA UpToIsOnto ==
    ASSUME NEW I \in SUBSET Nat, IsFiniteSet(I), NEW k \in 1..Cardinality(I)
    PROVE  \E i \in I : UpTo(I, i) = k
<1> DEFINE T == 1..Cardinality(I)
           rank == [i \in I |-> UpTo(I, i)]
<1>1. Cardinality(I) \in Nat BY FS_CardinalityType
<1>2. IsFiniteSet(T) /\ Cardinality(T) = Cardinality(I)
  BY <1>1, FS_Interval
<1>3. rank \in [I -> T] BY UpToType
<1>4. ASSUME NEW i \in I, NEW j \in I, rank[i] = rank[j] PROVE i = j
  <2>1. i \in Nat /\ j \in Nat OBVIOUS
  <2>2. ~(i < j) /\ ~(j < i)
    <3>1. UpTo(I, i) = UpTo(I, j) /\ UpTo(I, i) \in Int
      BY <1>4, UpToType
    <3> QED BY <3>1, UpToGrows
  <2> QED BY <2>1, <2>2
<1>5. rank \in Injection(I, T)
  BY <1>3, <1>4 DEF Injection, IsInjective
<1>6. rank \in Surjection(I, T)
  BY <1>2, <1>5, FS_Injection
<1> QED BY <1>6 DEF Surjection

LEMMA NthProperties ==
    ASSUME NEW I \in SUBSET Nat, IsFiniteSet(I), NEW k \in 1..Cardinality(I)
    PROVE  Nth(I, k) \in I /\ UpTo(I, Nth(I, k)) = k
BY UpToIsOnto DEF Nth

\* Picking keeps the order.
LEMMA NthGrows ==
    ASSUME NEW I \in SUBSET Nat, IsFiniteSet(I),
           NEW k \in 1..Cardinality(I), NEW l \in 1..Cardinality(I), k < l
    PROVE  Nth(I, k) < Nth(I, l)
<1>1. /\ Nth(I, k) \in I /\ UpTo(I, Nth(I, k)) = k
      /\ Nth(I, l) \in I /\ UpTo(I, Nth(I, l)) = l
  BY NthProperties
<1>2. Cardinality(I) \in Nat BY FS_CardinalityType
<1>3. Nth(I, k) \in Nat /\ Nth(I, l) \in Nat BY <1>1
<1>4. Nth(I, k) # Nth(I, l) BY <1>1
<1>5. ~(Nth(I, l) < Nth(I, k)) BY <1>1, <1>3, UpToGrows
<1> QED BY <1>3, <1>4, <1>5

\* A finite set of numbers has a least one.
LEMMA LeastExists ==
    ASSUME NEW I \in SUBSET Nat, IsFiniteSet(I), I # {}
    PROVE  \E i \in I : \A j \in I : i <= j
<1>1. Cardinality(I) \in Nat /\ Cardinality(I) # 0
  BY FS_CardinalityType, FS_EmptySet
<1>2. 1 \in 1..Cardinality(I) BY <1>1
<1>3. PICK i \in I : UpTo(I, i) = 1 BY <1>2, UpToIsOnto
<1>4. ASSUME NEW j \in I, j < i PROVE FALSE
  <2>1. UpTo(I, j) < 1 /\ UpTo(I, j) \in 1..Cardinality(I)
    BY <1>3, <1>4, UpToGrows, UpToType
  <2> QED BY <2>1, <1>1
<1> QED BY <1>3, <1>4

LEMMA PickedProperties ==
    ASSUME NEW S, NEW s \in Seq(S), NEW I \in SUBSET DOMAIN s
    PROVE  /\ IsFiniteSet(I) /\ I \in SUBSET Nat
           /\ Cardinality(I) \in Nat /\ Cardinality(I) <= Len(s)
           /\ Picked(s, I) \in Seq(S)
           /\ Len(Picked(s, I)) = Cardinality(I)
           /\ \A k \in 1..Cardinality(I) :
                 Nth(I, k) \in I /\ Picked(s, I)[k] = s[Nth(I, k)]
<1>1. DOMAIN s = 1..Len(s) /\ Len(s) \in Nat OBVIOUS
<1>2. IsFiniteSet(1..Len(s)) /\ Cardinality(1..Len(s)) = Len(s)
  <2>1. 1 \in Int /\ Len(s) \in Int BY <1>1
  <2>2. IsFiniteSet(1..Len(s)) /\ Cardinality(1..Len(s)) = IF 1 > Len(s) THEN 0 ELSE Len(s) - 1 + 1
    BY <2>1, FS_Interval
  <2> QED BY <1>1, <2>2
<1>3. IsFiniteSet(I) /\ Cardinality(I) <= Len(s) /\ I \in SUBSET Nat
  BY <1>1, <1>2, FS_Subset
<1>4. Cardinality(I) \in Nat BY <1>3, FS_CardinalityType
<1>5. \A k \in 1..Cardinality(I) : Nth(I, k) \in I /\ s[Nth(I, k)] \in S
  BY <1>1, <1>3, NthProperties
<1>6. Picked(s, I) \in [1..Cardinality(I) -> S]
  BY <1>5 DEF Picked
<1>7. Picked(s, I) \in Seq(S) /\ Len(Picked(s, I)) = Cardinality(I)
  BY <1>4, <1>6
<1> QED BY <1>3, <1>4, <1>5, <1>7 DEF Picked
=============================================================================
