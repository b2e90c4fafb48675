--------------------------- MODULE DataInduction ---------------------------
(* Induction over numbers, for the proofs about what a recursive function   *)
(* of the model computes: a loop of the code over the words of an answer,   *)
(* the entries of a table or the fields of a message.  The induction is     *)
(* stated about sets, as a least element that cannot be.                    *)
EXTENDS Integers, WellFoundedInduction, TLAPS

\* A set of numbers that is not empty has a least one.
LEMMA LeastNumber ==
    ASSUME NEW S \in SUBSET Nat, S # {}
    PROVE  \E x \in S : \A y \in S : x <= y
<1> DEFINE R == OpToRel(<, Nat)
<1>1. PICK x \in S : \A y \in S : ~ (<<y, x>> \in R)
  <2>1. IsWellFoundedOn(R, Nat)
    BY NatLessThanWellFounded, Zenon
  <2> HIDE DEF R
  <2> QED BY <2>1, WFMin
<1>2. \A y \in S : ~ (y < x)
  BY <1>1 DEF OpToRel
<1> QED BY <1>2

\* A set that holds 0 and passes from each number to the next is all of Nat.
LEMMA SetInduction ==
    ASSUME NEW S \in SUBSET Nat, 0 \in S, \A n \in S : n + 1 \in S
    PROVE  S = Nat
<1> DEFINE T == Nat \ S
<1>1. SUFFICES ASSUME T # {} PROVE FALSE
  OBVIOUS
<1>2. PICK x \in T : \A y \in T : x <= y
  <2>1. T \in SUBSET Nat
    OBVIOUS
  <2> HIDE DEF T
  <2> QED BY <1>1, <2>1, LeastNumber
<1>3. x \in Nat /\ x # 0 /\ x \notin S
  OBVIOUS
<1>4. x - 1 \in Nat /\ x - 1 < x
  BY <1>3
<1>5. x - 1 \in S
  BY <1>2, <1>4
<1>6. x \in S
  BY <1>3, <1>5
<1> QED BY <1>3, <1>6

\* P holds of 0 and passes from each number below n to the next.
Climbs(n, P) == 0 \in P /\ \A i \in 1..n : i - 1 \in P => i \in P

\* What climbs to n holds up to n.
LEMMA UpTo ==
    ASSUME NEW n \in Nat, NEW P, Climbs(n, P)
    PROVE  0..n \subseteq P
<1> DEFINE S == {i \in Nat : i <= n => i \in P}
<1>1. 0 \in S
  BY DEF Climbs
<1>2. ASSUME NEW i \in S PROVE i + 1 \in S
  BY <1>2 DEF Climbs
<1>3. S = Nat
  <2>1. S \in SUBSET Nat
    OBVIOUS
  <2> HIDE DEF S
  <2> QED BY <1>1, <1>2, <2>1, SetInduction
<1> QED BY <1>3

\* What a recursive function on 0..n must satisfy: the steps g from a.
Folds(f, n, a, g) == f = [i \in 0..n |-> IF i = 0 THEN a ELSE g[i][f[i - 1]]]

\* There is such a function.
LEMMA FoldExists ==
    ASSUME NEW n \in Nat, NEW X, NEW a \in X, NEW g \in [1..n -> [X -> X]]
    PROVE  \E f \in [0..n -> X] : Folds(f, n, a, g)
<1> DEFINE P == {k \in 0..n : \E f \in [0..k -> X] :
                     f[0] = a /\ \A i \in 1..k : f[i] = g[i][f[i - 1]]}
<1>1. 0 \in P
  <2> DEFINE f == [i \in 0..0 |-> a]
  <2>1. f \in [0..0 -> X] /\ f[0] = a
    OBVIOUS
  <2>2. \A i \in 1..0 : f[i] = g[i][f[i - 1]]
    OBVIOUS
  <2> HIDE DEF f
  <2> QED BY <2>1, <2>2
<1>2. ASSUME NEW k \in 1..n, k - 1 \in P PROVE k \in P
  <2>1. PICK f \in [0..(k - 1) -> X] :
            f[0] = a /\ \A i \in 1..(k - 1) : f[i] = g[i][f[i - 1]]
    BY <1>2
  <2> DEFINE h == [i \in 0..k |-> IF i = k THEN g[k][f[k - 1]] ELSE f[i]]
  <2>2. g[k][f[k - 1]] \in X
    BY <2>1
  <2>3. h \in [0..k -> X] /\ h[0] = a
    BY <2>1, <2>2
  <2>4. \A i \in 1..k : h[i] = g[i][h[i - 1]]
    BY <2>1
  <2>5. \E ff \in [0..k -> X] :
            ff[0] = a /\ \A i \in 1..k : ff[i] = g[i][ff[i - 1]]
    <3> HIDE DEF h
    <3> QED BY <2>3, <2>4
  <2> QED BY <2>5
<1>3. n \in P
  <2> HIDE DEF P
  <2>1. Climbs(n, P)
    BY <1>1, <1>2 DEF Climbs
  <2>2. 0..n \subseteq P
    BY <2>1, UpTo
  <2> QED BY <2>2
<1>4. PICK f \in [0..n -> X] :
          f[0] = a /\ \A i \in 1..n : f[i] = g[i][f[i - 1]]
  BY <1>3
<1>5. Folds(f, n, a, g)
  BY <1>4 DEF Folds
<1> QED BY <1>5
=============================================================================
