------------------------------- MODULE Iteration -------------------------------
(***************************************************************************)
(* Induction over the numbers, with a set in place of a predicate, and     *)
(* what it gives: a function that is defined by iteration exists, and      *)
(* there is one of them.  The proofs about recursive functions use it.     *)
(***************************************************************************)
EXTENDS Naturals, WellFoundedInduction, TLAPS

LEMMA SetInduction ==
    ASSUME NEW S, 0 \in S, \A n \in Nat : n \in S => n + 1 \in S
    PROVE  Nat \subseteq S
<1> SUFFICES ASSUME Nat \ S # {} PROVE FALSE
  OBVIOUS
<1> DEFINE R == {ss \in Nat \X Nat : ss[1] < ss[2]}
<1>1. IsWellFoundedOn(R, Nat)
  BY NatLessThanWellFounded DEF OpToRel
<1>2. PICK x \in Nat \ S : \A y \in Nat \ S : ~(<<y, x>> \in R)
  <2> HIDE DEF R
  <2> QED BY <1>1, WFMin
<1>3. x # 0 /\ x - 1 \in Nat /\ x - 1 < x /\ (x - 1) + 1 = x
  OBVIOUS
<1>4. <<x - 1, x>> \in R
  BY <1>3
<1>5. x - 1 \in S
  BY <1>2, <1>3, <1>4
<1> QED
  BY <1>2, <1>3, <1>5

(* V starts as init, and step k takes it on.                              *)
HasIteration(N, V, init, step) ==
    \E f \in [0..N -> V] : f[0] = init /\ \A k \in 1..N : f[k] = step[k][f[k - 1]]

LEMMA IterationExists ==
    ASSUME NEW N \in Nat, NEW V, NEW init \in V, NEW step \in [1..N -> [V -> V]]
    PROVE  HasIteration(N, V, init, step)
<1> DEFINE Upto(n) == \E f \in [0..n -> V] :
              f[0] = init /\ \A k \in 1..n : f[k] = step[k][f[k - 1]]
           S == {n \in Nat : n <= N => Upto(n)}
<1>1. 0 \in S
  <2>1. [k \in 0..0 |-> init] \in [0..0 -> V]
    OBVIOUS
  <2>2. [k \in 0..0 |-> init][0] = init /\ \A k \in 1..0 : FALSE
    OBVIOUS
  <2>3. Upto(0)
    BY <2>1, <2>2
  <2> QED BY <2>3
<1>2. ASSUME NEW n \in Nat, n \in S PROVE n + 1 \in S
  <2> SUFFICES ASSUME n + 1 <= N PROVE Upto(n + 1)
    OBVIOUS
  <2>1. PICK f \in [0..n -> V] :
              f[0] = init /\ \A k \in 1..n : f[k] = step[k][f[k - 1]]
    BY <1>2
  <2> DEFINE g == [k \in 0..(n + 1) |-> IF k = n + 1 THEN step[k][f[n]] ELSE f[k]]
  <2>2. n + 1 \in 1..N /\ n \in 0..n /\ f[n] \in V
    OBVIOUS
  <2>3. step[n + 1][f[n]] \in V
    BY <2>2
  <2>4. g \in [0..(n + 1) -> V]
    BY <2>3
  <2>5. g[0] = init
    BY <2>1
  <2>6. ASSUME NEW k \in 1..(n + 1) PROVE g[k] = step[k][g[k - 1]]
    <3>1. k - 1 \in 0..n /\ g[k - 1] = f[k - 1]
      OBVIOUS
    <3>2. CASE k = n + 1
      BY <3>1, <3>2
    <3>3. CASE k # n + 1
      <4>1. k \in 1..n /\ g[k] = f[k]
        BY <3>3
      <4> QED BY <2>1, <3>1, <4>1
    <3> QED BY <3>2, <3>3
  <2> QED BY <2>4, <2>5, <2>6
<1> HIDE DEF S, Upto
<1>3. N \in S
  BY <1>1, <1>2, SetInduction
<1>4. Upto(N)
  BY <1>3 DEF S
<1> QED BY <1>4 DEF Upto, HasIteration

(* Two functions that start and go on alike are alike.                     *)
GoOnAlike(N, f, g) ==
    f[0] = g[0] /\ \A k \in 1..N : f[k - 1] = g[k - 1] => f[k] = g[k]

LEMMA IterationUnique ==
    ASSUME NEW N \in Nat, NEW f, NEW g, GoOnAlike(N, f, g)
    PROVE  \A k \in 0..N : f[k] = g[k]
<1> DEFINE S == {k \in Nat : k <= N => f[k] = g[k]}
<1>1. 0 \in S
  BY DEF GoOnAlike
<1>2. ASSUME NEW n \in Nat, n \in S PROVE n + 1 \in S
  <2> SUFFICES ASSUME n + 1 <= N PROVE f[n + 1] = g[n + 1]
    OBVIOUS
  <2>1. f[n] = g[n] /\ n + 1 \in 1..N /\ (n + 1) - 1 = n
    BY <1>2
  <2> QED BY <2>1 DEF GoOnAlike
<1> HIDE DEF S
<1>3. Nat \subseteq S
  BY <1>1, <1>2, SetInduction
<1>4. ASSUME NEW k \in 0..N PROVE f[k] = g[k]
  <2>1. k \in Nat /\ k <= N
    OBVIOUS
  <2> QED BY <1>3, <2>1 DEF S
<1> QED BY <1>4
=============================================================================
