------------------------------ MODULE LeastNumber ------------------------------
(***************************************************************************)
(* Induction as a fact about sets: what holds of some number holds of a    *)
(* least one.  The proofs about sums, digits and sequences use it with the *)
(* set of counterexamples, and with functions that are defined by          *)
(* recursion, which exist because their values can be made one by one.     *)
(***************************************************************************)
EXTENDS Integers, WellFoundedInduction, TLAPS

LEMMA LeastNat ==
  ASSUME NEW T, T \subseteq Nat, T # {}
  PROVE  \E m \in T : \A n \in T : m <= n
<1> DEFINE R == OpToRel(<, Nat)
<1>1. IsWellFoundedOn(R, Nat)
  BY NatLessThanWellFounded, Zenon
<1> HIDE DEF R
<1>2. PICK m \in T : \A n \in T : ~ (<<n, m>> \in R)
  BY <1>1, WFMin
<1>3. \A n \in T : ~ (n < m)
  BY <1>2 DEF R, OpToRel
<1> QED
  BY <1>3

\* What holds of 0, and of each next number up to n, holds of all of them.
LEMMA UpTo ==
  ASSUME NEW n \in Nat, NEW T, 0 \in T, \A i \in 1 .. n : i - 1 \in T => i \in T
  PROVE  0 .. n \subseteq T
<1> DEFINE D == {i \in 0 .. n : i \notin T}
<1>1. D = {}
  <2> SUFFICES ASSUME D # {} PROVE FALSE
    OBVIOUS
  <2>1. PICK k \in D : \A j \in D : k <= j
    <3>1. D \subseteq Nat
      OBVIOUS
    <3> HIDE DEF D
    <3> QED
      BY <3>1, LeastNat
  <2>2. k \in 1 .. n
    <3>1. k # 0
      OBVIOUS
    <3> QED
      BY <3>1
  <2>3. k - 1 \in 0 .. n /\ k - 1 \in T
    <3>1. k - 1 \in 0 .. n /\ ~ (k <= k - 1)
      BY <2>2
    <3> QED
      BY <2>1, <3>1
  <2> QED
    BY <2>2, <2>3
<1> QED
  BY <1>1

\* The values t begin with a, and g[i] makes the ith of them of the one before it.
Iterates(t, n, S, a, g) ==
  t \in [0 .. n -> S] /\ t[0] = a /\ \A i \in 1 .. n : t[i] = g[i][t[i - 1]]

\* There are such values.
LEMMA Iterate ==
  ASSUME NEW n \in Nat, NEW S, NEW a \in S, NEW g \in [1 .. n -> [S -> S]]
  PROVE  \E t : Iterates(t, n, S, a, g)
<1> DEFINE Goes(m, t) == t[0] = a /\ \A i \in 1 .. m : t[i] = g[i][t[i - 1]]
           T == {m \in 0 .. n : \E t \in [0 .. m -> S] : Goes(m, t)}
<1>1. 0 \in T
  <2> DEFINE u == [i \in 0 .. 0 |-> a]
  <2>1. u \in [0 .. 0 -> S] /\ Goes(0, u)
    OBVIOUS
  <2>2. 0 \in 0 .. n
    OBVIOUS
  <2> HIDE DEF u, Goes
  <2> QED
    BY <2>1, <2>2
<1>2. ASSUME NEW m \in 1 .. n, m - 1 \in T PROVE m \in T
  <2>1. PICK t \in [0 .. m - 1 -> S] : Goes(m - 1, t)
    BY <1>2
  <2>2. m \in Nat /\ m - 1 \in 0 .. m - 1 /\ 0 \in 0 .. m - 1 /\ m \notin 0 .. m - 1
        /\ 0 .. m = (0 .. m - 1) \cup {m}
    OBVIOUS
  <2> DEFINE u == [i \in 0 .. m |-> IF i = m THEN g[m][t[m - 1]] ELSE t[i]]
  <2>3. g[m] \in [S -> S] /\ t[m - 1] \in S
    BY <2>1, <2>2
  <2>4. g[m][t[m - 1]] \in S
    BY <2>3
  <2>5. u \in [0 .. m -> S]
    BY <2>1, <2>2, <2>4
  <2>6. \A i \in 0 .. m - 1 : u[i] = t[i]
    BY <2>2
  <2>7. u[0] = a
    BY <2>1, <2>2, <2>6
  <2>8. ASSUME NEW i \in 1 .. m PROVE u[i] = g[i][u[i - 1]]
    <3>1. CASE i = m
      BY <2>2, <2>6, <3>1
    <3>2. CASE i # m
      <4>1. i \in 1 .. m - 1 /\ i \in 0 .. m - 1 /\ i - 1 \in 0 .. m - 1
        BY <3>2
      <4>2. t[i] = g[i][t[i - 1]]
        BY <2>1, <4>1
      <4>3. u[i] = t[i] /\ u[i - 1] = t[i - 1]
        BY <2>6, <4>1
      <4> QED
        BY <4>2, <4>3
    <3> QED
      BY <3>1, <3>2
  <2>9. Goes(m, u)
    BY <2>7, <2>8
  <2>10. m \in 0 .. n
    BY <1>2
  <2> HIDE DEF u, Goes
  <2> QED
    BY <2>5, <2>9, <2>10
<1> HIDE DEF T
<1>3. n \in T
  <2>1. 0 .. n \subseteq T
    BY <1>1, <1>2, UpTo
  <2> QED
    BY <2>1
<1> QED
  BY <1>3 DEF T, Iterates
================================================================================
