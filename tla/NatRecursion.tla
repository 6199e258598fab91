---------------------------- MODULE NatRecursion ----------------------------
(***************************************************************************)
(* Induction over an initial segment of the naturals, and the existence of  *)
(* functions defined by recursion on one, stated with sets and functions    *)
(* in place of operators: every theorem about a recursive function of the   *)
(* models rests on these.                                                  *)
(***************************************************************************)
EXTENDS Integers, WellFoundedInduction, TLAPS

LEMMA LeastNat ==
  ASSUME NEW T \in SUBSET Nat, T # {}
  PROVE  \E n \in T : \A m \in T : n <= m
<1>1. PICK x \in T : \A y \in T : <<y, x>> \notin OpToRel(<, Nat)
  BY NatLessThanWellFounded, WFMin
<1>2. \A y \in T : ~(y < x)
  BY <1>1 DEF OpToRel
<1> QED
  BY <1>2

(* T stands for the numbers for which what is to be proved holds. *)
LEMMA UpTo ==
  ASSUME NEW n \in Nat, NEW T,
         0 \in T, \A k \in 1..n : k - 1 \in T => k \in T
  PROVE  n \in T /\ \A k \in 0..n : k \in T
<1> DEFINE Bad == {k \in 0..n : k \notin T}
<1>1. SUFFICES ASSUME Bad # {} PROVE FALSE
  <2>1. n \in 0..n
    OBVIOUS
  <2> QED
    BY <2>1
<1>2. PICK k \in Bad : \A m \in Bad : k <= m
  <2>1. Bad \in SUBSET Nat
    OBVIOUS
  <2> QED
    BY <1>1, <2>1, LeastNat
<1>3. k \in 1..n /\ k - 1 \in 0..n
  OBVIOUS
<1>4. k - 1 \notin Bad
  BY <1>2, <1>3
<1> QED
  BY <1>3, <1>4

(* A recursion from base by step, and its solution: the k-th value is made from  *)
(* the one before.  Both are names the provers need not look into where the      *)
(* lemma is used. *)
Steps(S, n) == [1..n -> [S -> S]]

Solves(f, S, n, base, step) ==
  /\ f \in [0..n -> S]
  /\ f[0] = base
  /\ \A k \in 1..n : f[k] = step[k][f[k - 1]]

LEMMA Solution ==
  ASSUME NEW S, NEW base \in S, NEW n \in Nat, NEW step \in Steps(S, n)
  PROVE  \E f : Solves(f, S, n, base, step)
<1> DEFINE T == {m \in 0..n : \E f : Solves(f, S, m, base, step)}
<1>1. 0 \in T
  <2>1. Solves([k \in 0..0 |-> base], S, 0, base, step)
    BY DEF Solves
  <2> QED
    BY <2>1
<1>2. ASSUME NEW m \in 1..n, m - 1 \in T PROVE m \in T
  <2>1. PICK f : Solves(f, S, m - 1, base, step)
    BY <1>2
  <2> DEFINE g == [k \in 0..m |-> IF k = m THEN step[m][f[m - 1]] ELSE f[k]]
  <2>2. step[m][f[m - 1]] \in S /\ \A k \in 0..m : k # m => f[k] \in S
    <3>1. f[m - 1] \in S /\ \A k \in 0..m : k # m => k \in 0..m - 1
      BY <2>1 DEF Solves
    <3>2. f \in [0..m - 1 -> S] /\ step[m] \in [S -> S]
      BY <2>1 DEF Solves, Steps
    <3> QED
      BY <3>1, <3>2
  <2>3. g \in [0..m -> S]
    BY <2>2
  <2>4. g[0] = base
    BY <2>1 DEF Solves
  <2>5. ASSUME NEW k \in 1..m PROVE g[k] = step[k][g[k - 1]]
    <3>1. k - 1 \in 0..m /\ k - 1 # m /\ g[k - 1] = f[k - 1]
      OBVIOUS
    <3>2. CASE k = m
      BY <3>1, <3>2
    <3>3. CASE k # m
      <4>1. k \in 1..m - 1
        BY <3>3
      <4>2. f[k] = step[k][f[k - 1]]
        BY <2>1, <4>1 DEF Solves
      <4>3. g[k] = f[k]
        BY <3>3
      <4> QED
        BY <3>1, <4>2, <4>3
    <3> QED
      BY <3>2, <3>3
  <2> HIDE DEF g
  <2>6. m \in 0..n
    OBVIOUS
  <2>7. Solves(g, S, m, base, step)
    BY <2>3, <2>4, <2>5 DEF Solves
  <2> QED
    BY <2>6, <2>7
<1> HIDE DEF T
<1>3. n \in T
  BY <1>1, <1>2, UpTo
<1> QED
  BY <1>3 DEF T
=============================================================================
