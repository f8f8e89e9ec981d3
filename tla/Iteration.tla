------------------------------ MODULE Iteration ------------------------------
(***************************************************************************)
(* Induction over the natural numbers as a statement about a set, and what *)
(* follows from it for a function f that starts at a value and takes n     *)
(* steps: there is one, and its values stay where the steps stay.  A       *)
(* recursive function of a model is the one that is chosen, so that it has *)
(* the values its equation gives if any function has them.                 *)
(***************************************************************************)
EXTENDS Integers, WellFoundedInduction, TLAPS

\* A set of numbers that has 0 and the successor of each of its members.
LEMMA SetInduction ==
  ASSUME NEW P \in SUBSET Nat, 0 \in P, \A n \in P : n + 1 \in P
  PROVE  P = Nat
  <1> SUFFICES ASSUME Nat \ P # {} PROVE FALSE
    OBVIOUS
  <1> DEFINE Less == OpToRel(<, Nat)
  <1>1. IsWellFoundedOn(Less, Nat)
    BY NatLessThanWellFounded
  <1>2. \A x, y \in Nat : y < x => <<y, x>> \in Less
    BY DEF OpToRel
  <1> HIDE DEF Less
  <1>3. Nat \ P \subseteq Nat
    OBVIOUS
  <1>4. PICK x \in Nat \ P : \A y \in Nat \ P : <<y, x>> \notin Less
    BY <1>1, <1>3, WFMin
  <1>5. x - 1 \in Nat /\ x - 1 < x /\ (x - 1) + 1 = x
    BY <1>4
  <1>6. x - 1 \in P
    BY <1>2, <1>4, <1>5
  <1> QED BY <1>5, <1>6

\* The numbers up to n, from 0 on.
LEMMA UpTo ==
  ASSUME NEW n \in Nat, NEW P, 0 \in P, \A k \in 1 .. n : k - 1 \in P => k \in P
  PROVE  0 .. n \subseteq P
  <1> DEFINE Q == {k \in Nat : k <= n => k \in P}
  <1>1. Q \in SUBSET Nat /\ 0 \in Q
    OBVIOUS
  <1>2. ASSUME NEW k \in Q PROVE k + 1 \in Q
    <2> SUFFICES ASSUME k + 1 <= n PROVE k + 1 \in P
      OBVIOUS
    <2>1. k \in P /\ k + 1 \in 1 .. n /\ (k + 1) - 1 = k
      OBVIOUS
    <2> QED BY <2>1
  <1> HIDE DEF Q
  <1>3. Q = Nat
    BY <1>1, <1>2, SetInduction
  <1> QED BY <1>3 DEF Q

Iterates(f, base, n, step) ==
  f[0] = base /\ \A k \in 1 .. n : f[k] = step[k][f[k - 1]]

\* Steps that stay in S can be taken one after the other.
LEMMA Iteration ==
  ASSUME NEW S, NEW base \in S, NEW n \in Nat, NEW step \in [1 .. n -> [S -> S]]
  PROVE  \E f \in [0 .. n -> S] : Iterates(f, base, n, step)
  <1> DEFINE P == {m \in 0 .. n : \E f \in [0 .. m -> S] : Iterates(f, base, m, step)}
  <1>1. 0 \in P
    <2>1. [k \in 0 .. 0 |-> base] \in [0 .. 0 -> S]
      OBVIOUS
    <2>2. Iterates([k \in 0 .. 0 |-> base], base, 0, step)
      BY DEF Iterates
    <2> QED BY <2>1, <2>2
  <1>2. ASSUME NEW m \in 1 .. n, m - 1 \in P PROVE m \in P
    <2>1. PICK f \in [0 .. m - 1 -> S] : Iterates(f, base, m - 1, step)
      BY <1>2
    <2> DEFINE g == [k \in 0 .. m |-> IF k = m THEN step[m][f[m - 1]] ELSE f[k]]
    <2>2. f[m - 1] \in S /\ step[m][f[m - 1]] \in S
      OBVIOUS
    <2>3. g \in [0 .. m -> S]
      BY <2>2
    <2>4. Iterates(g, base, m, step)
      <3>1. g[0] = base
        BY <2>1 DEF Iterates
      <3>2. ASSUME NEW k \in 1 .. m PROVE g[k] = step[k][g[k - 1]]
        <4>1. g[k - 1] = f[k - 1]
          OBVIOUS
        <4>2. CASE k = m
          BY <4>1, <4>2
        <4>3. CASE k # m
          <5>1. k \in 1 .. m - 1 /\ g[k] = f[k]
            BY <4>3
          <5> QED BY <2>1, <4>1, <5>1 DEF Iterates
        <4> QED BY <4>2, <4>3
      <3> HIDE DEF g
      <3> QED BY <3>1, <3>2 DEF Iterates
    <2> QED BY <2>3, <2>4
  <1> HIDE DEF P
  <1>3. 0 .. n \subseteq P
    BY <1>1, <1>2, UpTo
  <1>4. n \in P
    BY <1>3
  <1> QED BY <1>4 DEF P
=============================================================================
