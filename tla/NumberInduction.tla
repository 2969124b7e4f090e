-------------------------- MODULE NumberInduction --------------------------
(***************************************************************************)
(* Induction over natural numbers, stated with sets instead of predicates, *)
(* for the proofs about what recursive functions compute.                  *)
(***************************************************************************)
EXTENDS Integers, NaturalsInduction, WellFoundedInduction, TLAPS

(* Every set of numbers has a least element. *)
LEMMA LeastNumber ==
  ASSUME NEW T, T \subseteq Nat, T # {}
  PROVE  \E m \in T : \A k \in T : m <= k
<1> DEFINE R == OpToRel(<, Nat)
<1>1. \A k, m \in T : k < m => <<k, m>> \in R
  BY DEF OpToRel
<1>2. IsWellFoundedOn(R, Nat)
  BY NatLessThanWellFounded
<1> HIDE DEF R
<1>3. PICK m \in T : \A k \in T : ~(<<k, m>> \in R)
  BY <1>2, WFMin
<1>4. \A k \in T : ~(k < m)
  BY <1>1, <1>3
<1>5. \A k \in T : m <= k
  BY <1>4
<1> QED BY <1>5

(* A bounded set of numbers has a greatest element. *)
LEMMA GreatestNumber ==
  ASSUME NEW N \in Nat, NEW T, T \subseteq 0 .. N, T # {}
  PROVE  \E m \in T : \A k \in T : k <= m
<1> DEFINE B == {n \in Nat : \A k \in T : k <= n}
<1>1. B \subseteq Nat /\ N \in B
  OBVIOUS
<1>2. PICK m \in B : \A n \in B : m <= n
  <2> HIDE DEF B
  <2> QED BY <1>1, LeastNumber
<1>3. m \in Nat /\ \A k \in T : k <= m
  OBVIOUS
<1>4. m \in T
  <2> SUFFICES ASSUME m \notin T PROVE FALSE
    OBVIOUS
  <2>1. \A k \in T : k <= m - 1 /\ k \in Nat
    BY <1>3
  <2>2. m - 1 \in Nat
    <3>1. PICK k : k \in T
      OBVIOUS
    <3> QED BY <1>3, <2>1, <3>1
  <2>3. m - 1 \in B /\ ~(m <= m - 1)
    BY <1>3, <2>1, <2>2
  <2> HIDE DEF B
  <2> QED BY <1>2, <2>3
<1> QED BY <1>3, <1>4

(* Induction from m to N. *)
LEMMA Induct ==
  ASSUME NEW N \in Nat, NEW m \in Nat, NEW S, m \in S,
         \A n \in Nat : m <= n /\ n < N /\ n \in S => n + 1 \in S
  PROVE  \A n \in m .. N : n \in S
<1> DEFINE T == {n \in Nat : m <= n /\ n <= N /\ n \notin S}
<1> SUFFICES ASSUME T # {} PROVE FALSE
  OBVIOUS
<1>1. T \subseteq Nat
  OBVIOUS
<1>2. PICK k \in T : \A j \in T : k <= j
  <2> HIDE DEF T
  <2> QED BY <1>1, LeastNumber
<1>3. k \in Nat /\ m < k /\ k <= N /\ k \notin S
  OBVIOUS
<1>4. k - 1 \in Nat /\ m <= k - 1 /\ k - 1 < N /\ (k - 1) + 1 = k
  BY <1>3
<1>5. k - 1 \notin T
  <2> HIDE DEF T
  <2> QED BY <1>2, <1>3, <1>4
<1>6. k - 1 \in S
  BY <1>4, <1>5
<1> QED BY <1>3, <1>4, <1>6
=============================================================================
