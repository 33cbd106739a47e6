-------------------------- MODULE NaturalRecursion --------------------------
(***************************************************************************)
(* Induction and recursion over the natural numbers, stated with sets and  *)
(* functions in place of operators, so that they can be cited.             *)
(***************************************************************************)
EXTENDS Integers, WellFoundedInduction, TLAPS

LEMMA LeastNatural ==
    ASSUME NEW T \in SUBSET Nat, T # {}
    PROVE  \E m \in T : \A k \in T : m <= k
<1>1. IsWellFoundedOn(OpToRel(<, Nat), Nat)
  BY NatLessThanWellFounded
<1>2. PICK m \in T : \A k \in T : ~(<<k, m>> \in OpToRel(<, Nat))
  BY <1>1, WFMin
<1>3. m \in Nat /\ \A k \in T : k \in Nat /\ ~(k < m)
  BY <1>2 DEF OpToRel
<1> QED  BY <1>3

LEMMA Induction ==
    ASSUME NEW P \in SUBSET Nat, 0 \in P, \A n \in P : n + 1 \in P
    PROVE  P = Nat
<1> SUFFICES ASSUME Nat \ P # {} PROVE FALSE
  OBVIOUS
<1>1. PICK m \in Nat \ P : \A k \in Nat \ P : m <= k
  BY LeastNatural
<1>2. m # 0 /\ m - 1 \in Nat
  BY <1>1
<1>3. m - 1 \in P
  BY <1>1, <1>2
<1>4. (m - 1) + 1 \in P
  BY <1>3
<1> QED  BY <1>1, <1>2, <1>4

(* Up to n only. *)
LEMMA InductionUpTo ==
    ASSUME NEW n \in Nat, NEW P \in SUBSET (0 .. n),
           0 \in P, \A i \in 1 .. n : i - 1 \in P => i \in P
    PROVE  P = 0 .. n
<1> DEFINE Q == {k \in Nat : k <= n => k \in P}
<1>1. 0 \in Q
  OBVIOUS
<1>2. ASSUME NEW k \in Q PROVE k + 1 \in Q
  <2>1. k \in Nat /\ (k <= n => k \in P)
    OBVIOUS
  <2>2. k + 1 <= n => k + 1 \in P
    <3> SUFFICES ASSUME k + 1 <= n PROVE k + 1 \in P
      OBVIOUS
    <3>1. k + 1 \in 1 .. n /\ (k + 1) - 1 = k /\ k \in P
      BY <2>1
    <3> QED  BY <3>1
  <2> QED  BY <2>1, <2>2
<1>3. Q \in SUBSET Nat
  OBVIOUS
<1> HIDE DEF Q
<1>4. Q = Nat
  BY <1>1, <1>2, <1>3, Induction
<1>5. \A i \in 0 .. n : i \in P
  BY <1>4 DEF Q
<1> QED  BY <1>5

(* A loop: from start, the i-th of n steps leads from a member of S to a   *)
(* member of S.                                                            *)
Runs(f, start, n, step) == f[0] = start /\ \A i \in 1 .. n : f[i] = step[i][f[i - 1]]

LEMMA Recursion ==
    ASSUME NEW S, NEW start \in S, NEW n \in Nat, NEW step \in [1 .. n -> [S -> S]]
    PROVE  \E f \in [0 .. n -> S] : Runs(f, start, n, step)
<1> DEFINE Upto(k, f) == /\ f \in [0 .. k -> S] /\ f[0] = start
                         /\ \A i \in 1 .. k : f[i] = step[i][f[i - 1]]
           P == {k \in 0 .. n : \E f : Upto(k, f)}
<1>1. 0 \in P
  <2>1. Upto(0, [i \in 0 .. 0 |-> start])
    OBVIOUS
  <2> HIDE DEF Upto
  <2>2. \E f : Upto(0, f)
    BY <2>1
  <2> QED  BY <2>2
<1>2. ASSUME NEW k \in 1 .. n, k - 1 \in P PROVE k \in P
  <2>1. PICK f : Upto(k - 1, f)
    BY <1>2
  <2> DEFINE g == [i \in 0 .. k |-> IF i = k THEN step[k][f[k - 1]] ELSE f[i]]
  <2>2. step[k][f[k - 1]] \in S
    BY <2>1
  <2>3. g \in [0 .. k -> S] /\ g[0] = start
    BY <2>1, <2>2
  <2>4. \A i \in 1 .. k : g[i] = step[i][g[i - 1]]
    <3> TAKE i \in 1 .. k
    <3>1. i - 1 \in 0 .. k /\ i - 1 # k /\ g[i - 1] = f[i - 1]
      OBVIOUS
    <3>2. CASE i = k
      BY <3>1, <3>2
    <3>3. CASE i # k
      <4>1. i \in 1 .. k - 1
        BY <3>3
      <4> QED  BY <2>1, <3>1, <3>3, <4>1
    <3> QED  BY <3>2, <3>3
  <2>5. Upto(k, g)
    BY <2>3, <2>4
  <2> HIDE DEF Upto, g
  <2> QED  BY <2>5
<1>3. P \in SUBSET (0 .. n)
  OBVIOUS
<1> HIDE DEF P
<1>4. P = 0 .. n
  BY <1>1, <1>2, <1>3, InductionUpTo
<1> QED  BY <1>4 DEF P, Runs
=============================================================================
