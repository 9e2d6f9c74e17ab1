------------------------------- MODULE Orders -------------------------------
EXTENDS Naturals, Sequences, FiniteSets, FiniteSetsExt, FiniteSetTheorems, WellFoundedInduction, TLAPS

\* The least number of a set: what induction over data rests on here, as the set of the
\* numbers for which a statement fails would have one.
LEMMA Least ==
  ASSUME NEW T, T \subseteq Nat, T # {}
  PROVE  \E m \in T : \A k \in T : m <= k
<1>1. PICK m \in T : \A k \in T : <<k, m>> \notin OpToRel(<, Nat)
  BY NatLessThanWellFounded, WFMin
<1>2. \A k \in T : ~(k < m)
  BY <1>1 DEF OpToRel
<1> QED BY <1>2

\* A set that holds 0, and the next of each number it holds, holds all.
LEMMA SetInduction ==
  ASSUME NEW T, 0 \in T, \A n \in Nat : n \in T => n + 1 \in T
  PROVE  Nat \subseteq T
<1> SUFFICES ASSUME Nat \ T # {} PROVE FALSE
  OBVIOUS
<1>1. PICK m \in Nat \ T : \A k \in Nat \ T : m <= k
  BY Least
<1>2. m - 1 \in Nat /\ m - 1 \in T
  BY <1>1
<1> QED BY <1>1, <1>2

\* A set of numbers has a least, which is its Min.
LEMMA MinOf ==
  ASSUME NEW T, T \subseteq Nat, T # {}
  PROVE  Min(T) \in T /\ \A k \in T : Min(T) <= k
<1>1. \E m \in T : \A k \in T : m <= k
  BY Least
<1> QED BY <1>1 DEF Min

\* A set of numbers that are bounded has a greatest.
LEMMA MaxOf ==
  ASSUME NEW T, T \subseteq Nat, T # {}, NEW b \in Nat, \A k \in T : k <= b
  PROVE  Max(T) \in T /\ \A k \in T : k <= Max(T)
<1> DEFINE Bounds == {n \in Nat : \A k \in T : k <= n}
<1>1. PICK n \in Bounds : \A k \in Bounds : n <= k
  <2>1. b \in Bounds
    OBVIOUS
  <2> QED BY <2>1, Least
<1>2. n \in T
  <2> SUFFICES ASSUME n \notin T PROVE FALSE
    OBVIOUS
  <2>1. PICK k \in T : TRUE
    OBVIOUS
  <2>2. n - 1 \in Nat /\ \A i \in T : i <= n - 1
    BY <1>1, <2>1
  <2> QED BY <1>1, <2>2
<1>3. \E m \in T : \A k \in T : m >= k
  BY <1>1, <1>2
<1> QED BY <1>3 DEF Max
=============================================================================
