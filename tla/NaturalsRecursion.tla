------------------------- MODULE NaturalsRecursion -------------------------
(***************************************************************************)
(* Induction and recursion over the naturals in terms of sets and          *)
(* functions: the theorems of NaturalsInduction take the property and the  *)
(* step as operators, which the provers do not instantiate.  A recursive   *)
(* function F[n \in Nat] == e stands for some function that is equal to    *)
(* [n \in Nat |-> e]; a proof about it first shows, with                   *)
(* PrimitiveRecursion, that there is one.                                  *)
(***************************************************************************)
EXTENDS Naturals, WellFoundedInduction, TLAPS

LEMMA Least ==
  ASSUME NEW T, T \subseteq Nat, T # {}
  PROVE  \E n \in T : \A k \in T : n <= k
  <1> DEFINE R == OpToRel(<, Nat)
  <1>1. IsWellFoundedOn(R, Nat)
    BY NatLessThanWellFounded
  <1>2. \A x, y \in Nat : x < y => <<x, y>> \in R
    BY DEF OpToRel
  <1>3. \E n \in T : \A k \in T : ~(<<k, n>> \in R)
    <2> HIDE DEF R
    <2> QED
      BY <1>1, WFMin, Zenon
  <1>4. PICK n \in T : \A k \in T : ~(<<k, n>> \in R)
    BY <1>3
  <1>5. ASSUME NEW k \in T PROVE n <= k
    <2>1. n \in Nat /\ k \in Nat
      OBVIOUS
    <2>2. ~(k < n)
      BY <1>2, <1>4, <2>1, Zenon
    <2> QED
      BY <2>1, <2>2
  <1> QED
    BY <1>5

LEMMA Induction ==
  ASSUME NEW S \in SUBSET Nat, 0 \in S, \A n \in S : n + 1 \in S
  PROVE  S = Nat
  <1> SUFFICES ASSUME Nat \ S # {} PROVE FALSE
    OBVIOUS
  <1> DEFINE T == Nat \ S
  <1>1. \E n \in T : \A k \in T : n <= k
    <2>1. T \subseteq Nat /\ T # {}
      OBVIOUS
    <2> HIDE DEF T
    <2> QED
      BY <2>1, Least
  <1>2. PICK n \in T : \A k \in T : n <= k
    BY <1>1
  <1>3. n - 1 \in Nat /\ ~(n <= n - 1)
    BY <1>2
  <1>4. n - 1 \in S
    BY <1>2, <1>3
  <1> QED
    BY <1>3, <1>4

-----------------------------------------------------------------------------
(* h is what the recursion from a with step g gives, up to n.              *)
Follows(h, a, g, n) ==
  h[0] = a /\ \A m \in Nat : m < n => h[m + 1] = g[<<m, h[m]>>]

LEMMA FollowsSome ==
  ASSUME NEW S, NEW a \in S, NEW g \in [Nat \X S -> S], NEW n \in Nat
  PROVE  \E h \in [Nat -> S] : Follows(h, a, g, n)
  <1> DEFINE T == {k \in Nat : \E h \in [Nat -> S] : Follows(h, a, g, k)}
  <1>1. 0 \in T
    <2>1. Follows([m \in Nat |-> a], a, g, 0)
      BY DEF Follows
    <2> QED
      BY <2>1
  <1>2. ASSUME NEW k \in T PROVE k + 1 \in T
    <2>1. PICK h \in [Nat -> S] : Follows(h, a, g, k)
      OBVIOUS
    <2> DEFINE hh == [h EXCEPT ![k + 1] = g[<<k, h[k]>>]]
    <2>2. k \in Nat /\ <<k, h[k]>> \in Nat \X S
      OBVIOUS
    <2>3. hh \in [Nat -> S] /\ hh[k + 1] = g[<<k, h[k]>>]
      BY <2>2
    <2>4. \A m \in Nat : m # k + 1 => hh[m] = h[m]
      BY <2>2
    <2>5. hh[0] = a
      BY <2>1, <2>2, <2>4 DEF Follows
    <2>6. ASSUME NEW m \in Nat, m < k + 1 PROVE hh[m + 1] = g[<<m, hh[m]>>]
      <3>1. hh[m] = h[m]
        BY <2>2, <2>4, <2>6
      <3>2. CASE m = k
        BY <2>3, <3>1, <3>2
      <3>3. CASE m # k
        <4>1. m < k /\ m + 1 \in Nat /\ m + 1 # k + 1
          BY <2>2, <2>6, <3>3
        <4>2. h[m + 1] = g[<<m, h[m]>>]
          BY <2>1, <4>1 DEF Follows
        <4> QED
          BY <2>4, <3>1, <4>1, <4>2
      <3> QED
        BY <3>2, <3>3
    <2>7. Follows(hh, a, g, k + 1)
      BY <2>5, <2>6, Zenon DEF Follows
    <2> HIDE DEF hh
    <2> QED
      BY <2>2, <2>3, <2>7
  <1>3. T = Nat
    <2>1. T \in SUBSET Nat
      OBVIOUS
    <2> HIDE DEF T
    <2> QED
      BY <1>1, <1>2, <2>1, Induction
  <1> QED
    BY <1>3

LEMMA FollowsSame ==
  ASSUME NEW a, NEW g, NEW h1, NEW h2, NEW n1 \in Nat, NEW n2 \in Nat,
         Follows(h1, a, g, n1), Follows(h2, a, g, n2)
  PROVE  \A m \in Nat : m <= n1 /\ m <= n2 => h1[m] = h2[m]
  <1> DEFINE T == {k \in Nat : k <= n1 /\ k <= n2 => h1[k] = h2[k]}
  <1>1. 0 \in T
    BY DEF Follows
  <1>2. ASSUME NEW k \in T PROVE k + 1 \in T
    <2>1. SUFFICES ASSUME k + 1 <= n1, k + 1 <= n2 PROVE h1[k + 1] = h2[k + 1]
      OBVIOUS
    <2>2. k \in Nat /\ k < n1 /\ k < n2 /\ k <= n1 /\ k <= n2
      BY <2>1
    <2>3. h1[k] = h2[k]
      BY <2>2
    <2>4. h1[k + 1] = g[<<k, h1[k]>>] /\ h2[k + 1] = g[<<k, h2[k]>>]
      BY <2>2, Zenon DEF Follows
    <2> QED
      BY <2>3, <2>4
  <1>3. T = Nat
    <2>1. T \in SUBSET Nat
      OBVIOUS
    <2> HIDE DEF T
    <2> QED
      BY <1>1, <1>2, <2>1, Induction
  <1> QED
    BY <1>3

Recurses(f, a, g) == f = [n \in Nat |-> IF n = 0 THEN a ELSE g[<<n - 1, f[n - 1]>>]]

(* A start and a step have a function that satisfies the equation of a     *)
(* recursive definition.                                                   *)
LEMMA PrimitiveRecursion ==
  ASSUME NEW S, NEW a \in S, NEW g \in [Nat \X S -> S]
  PROVE  \E f \in [Nat -> S] : Recurses(f, a, g)
  <1> DEFINE H(n) == CHOOSE h \in [Nat -> S] : Follows(h, a, g, n)
             f == [n \in Nat |-> H(n)[n]]
  <1>1. ASSUME NEW n \in Nat PROVE H(n) \in [Nat -> S] /\ Follows(H(n), a, g, n)
    <2>1. \E h \in [Nat -> S] : Follows(h, a, g, n)
      BY FollowsSome
    <2> QED
      BY <2>1, Zenon
  <1> HIDE DEF H
  <1>2. f \in [Nat -> S]
    BY <1>1
  <1>3. f[0] = a
    BY <1>1 DEF Follows
  <1>4. ASSUME NEW n \in Nat, n # 0 PROVE f[n] = g[<<n - 1, f[n - 1]>>]
    <2>1. PICK k \in Nat : k = n - 1 /\ n = k + 1
      BY <1>4
    <2>2. k < k + 1 /\ k <= k /\ k <= k + 1
      BY <2>1
    <2>3. H(k + 1)[k + 1] = g[<<k, H(k + 1)[k]>>]
      BY <1>1, <2>1, <2>2 DEF Follows
    <2>4. H(k + 1)[k] = H(k)[k]
      <3>1. Follows(H(k + 1), a, g, k + 1) /\ Follows(H(k), a, g, k)
        BY <1>1, <2>1
      <3> QED
        BY <2>1, <2>2, <3>1, FollowsSame
    <2> QED
      BY <2>1, <2>3, <2>4
  <1>5. Recurses(f, a, g)
    <2> HIDE DEF f
    <2>1. f = [n \in Nat |-> f[n]]
      BY <1>2
    <2> QED
      BY <1>3, <1>4, <2>1 DEF Recurses
  <1> HIDE DEF f
  <1> QED
    BY <1>2, <1>5
=============================================================================
