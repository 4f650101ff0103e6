------------------------------- MODULE Induction -------------------------------
(***************************************************************************)
(* Induction for the proofs about rows in a list and sums over a set: a    *)
(* set that holds 0 and the successors of its members holds every number,  *)
(* and a step that is a function can be repeated.                          *)
(***************************************************************************)
EXTENDS Integers, WellFoundedInduction, TLAPS

\* A set of numbers that is not empty has a least one.
LEMMA LeastNumber == ASSUME NEW T \in SUBSET Nat, T # {} PROVE \E x \in T : \A y \in T : x <= y
<1> DEFINE R == OpToRel(<, Nat)
<1>1. IsWellFoundedOn(R, Nat) 
  BY NatLessThanWellFounded, Zenon
<1>3. R = {ss \in Nat \X Nat : ss[1] < ss[2]}
  BY Zenon DEF OpToRel
<1> HIDE DEF R
<1>2. PICK x \in T : \A y \in T : ~ (<<y, x>> \in R)
  BY <1>1, WFMin
<1>4. ASSUME NEW y \in T PROVE x <= y
  <2>1. x \in Nat /\ y \in Nat
    OBVIOUS
  <2>2. CASE y < x
    <3>1. <<y, x>> \in Nat \X Nat /\ <<y, x>>[1] < <<y, x>>[2]
      BY <2>1, <2>2
    <3>2. <<y, x>> \in R
      BY <3>1, <1>3, Zenon
    <3> QED BY <1>2, <3>2
  <2> QED BY <2>1, <2>2
<1> QED BY <1>4

\* Induction over 0..n, for the numbers in a set.
LEMMA SetInduction ==
    ASSUME NEW n \in Nat, NEW S, 0 \in S, \A i \in 1..n : i - 1 \in S => i \in S
    PROVE  \A i \in 0..n : i \in S
<1> SUFFICES ASSUME NEW k \in 0..n, k \notin S PROVE FALSE
  OBVIOUS
<1> DEFINE T == (0..n) \ S
<1>1. T \in SUBSET Nat /\ T # {}
  OBVIOUS
<1> HIDE DEF T
<1>2. PICK x \in T : \A y \in T : x <= y
  BY <1>1, LeastNumber
<1>3. x \in 1..n /\ x - 1 \in 0..n
  BY DEF T
<1>4. x - 1 \notin T
  BY <1>1, <1>2, <1>3
<1> QED BY <1>3, <1>4 DEF T

\* The ways to take a step n times, from `base`.
Runs(n, V, base, step) ==
    {h \in [0..n -> V] : h[0] = base /\ \A i \in 1..n : h[i] = step[<<i, h[i - 1]>>]}

\* A step that is a function can be taken n times.
LEMMA Iteration ==
    ASSUME NEW n \in Nat, NEW V, NEW base \in V, NEW step \in [(1..n) \X V -> V]
    PROVE  Runs(n, V, base, step) # {}
<1> DEFINE S == {m \in 0..n : Runs(m, V, base, step) # {}}
<1>1. 0 \in S
  <2>1. [i \in 0..0 |-> base] \in Runs(0, V, base, step)
    BY DEF Runs
  <2> QED BY <2>1
<1>2. ASSUME NEW m \in 1..n, m - 1 \in S PROVE m \in S
  <2>1. PICK h \in [0..m - 1 -> V] : h[0] = base /\ \A i \in 1..m - 1 : h[i] = step[<<i, h[i - 1]>>]
    BY <1>2 DEF Runs
  <2> HIDE DEF S
  <2> DEFINE last == step[<<m, h[m - 1]>>]
             g == [i \in 0..m |-> IF i < m THEN h[i] ELSE last]
  <2>2. last \in V
    <3>1. h[m - 1] \in V
      BY <2>1
    <3>2. <<m, h[m - 1]>> \in (1..n) \X V
      BY <3>1
    <3> QED BY <3>2
  <2>3. g \in [0..m -> V]
    <3> HIDE DEF last
    <3> QED BY <2>2
  <2>4. g[0] = base
    <3> HIDE DEF last
    <3> QED BY <2>1
  <2>5. ASSUME NEW i \in 1..m PROVE g[i] = step[<<i, g[i - 1]>>]
    <3>1. g[i - 1] = h[i - 1]
      <4> HIDE DEF last
      <4> QED OBVIOUS
    <3>2. CASE i < m
      <4>1. g[i] = h[i] /\ i \in 1..m - 1
        <5> HIDE DEF last
        <5> QED BY <3>2
      <4> HIDE DEF g
      <4> QED BY <2>1, <3>1, <4>1
    <3>3. CASE i = m
      <4>1. g[i] = last
        <5> HIDE DEF last
        <5> QED BY <3>3
      <4> HIDE DEF g
      <4> QED BY <3>1, <3>3, <4>1
    <3> QED BY <3>2, <3>3
  <2> HIDE DEF g
  <2>6. g \in Runs(m, V, base, step)
    BY <2>3, <2>4, <2>5 DEF Runs
  <2> QED BY <2>6 DEF S
<1>3. n \in S
  <2> HIDE DEF S
  <2>1. \A i \in 0..n : i \in S
    BY <1>1, <1>2, SetInduction
  <2> QED BY <2>1
<1> QED BY <1>3
===============================================================================
