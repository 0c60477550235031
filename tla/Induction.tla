------------------------------ MODULE Induction -------------------------------
(* Induction.  The provers cannot instantiate the library's rules, which     *)
(* take a predicate; these take the set where it holds.                      *)
EXTENDS Integers, WellFoundedInduction, TLAPS

(* A set of natural numbers has a least member.                              *)
LEMMA LeastNumber ==
  ASSUME NEW T, T \subseteq Nat, T # {}
  PROVE  \E x \in T : \A y \in T : x <= y
<1> DEFINE R == OpToRel(<, Nat)
<1>1. PICK x \in T : \A y \in T : ~(<<y, x>> \in R)
  BY WFMin, NatLessThanWellFounded
<1>2. ASSUME NEW y \in T PROVE x <= y
  <2>1. ~(y < x)
    BY <1>1 DEF OpToRel
  <2>2. x \in Nat /\ y \in Nat
    OBVIOUS
  <2> HIDE DEF R
  <2>3. QED
    BY <2>1, <2>2
<1>3. QED
  BY <1>2

(* What holds of 0, and of n + 1 if of n, holds of every number.             *)
LEMMA SetInduction ==
  ASSUME NEW T, T \subseteq Nat, 0 \in T, \A n \in T : n + 1 \in T
  PROVE  T = Nat
<1> SUFFICES ASSUME T # Nat PROVE FALSE
  OBVIOUS
<1>1. PICK x \in Nat \ T : \A y \in Nat \ T : x <= y
  <2>1. Nat \ T # {} /\ Nat \ T \subseteq Nat
    OBVIOUS
  <2>2. QED
    BY <2>1, LeastNumber
<1>2. x # 0 /\ x - 1 \in T
  BY <1>1
<1>3. QED
  BY <1>1, <1>2

(* What holds of 0, and of k + 1 if of k < n, holds of the numbers to n.     *)
LEMMA Climb ==
  ASSUME NEW n \in Nat, NEW T, 0 \in T, \A k \in 0..(n - 1) : k \in T => k + 1 \in T
  PROVE  \A k \in 0..n : k \in T
<1> DEFINE Missed == {k \in 0..n : k \notin T}
<1> SUFFICES ASSUME Missed # {} PROVE FALSE
  OBVIOUS
<1>1. PICK x \in Missed : \A y \in Missed : x <= y
  <2>1. Missed \subseteq Nat
    OBVIOUS
  <2> HIDE DEF Missed
  <2>2. QED
    BY <2>1, LeastNumber
<1>2. x \in 0..n /\ x \notin T /\ x # 0
  OBVIOUS
<1>3. x - 1 \in 0..(n - 1) /\ x - 1 \in 0..n /\ (x - 1) + 1 = x
  BY <1>2
<1>4. x - 1 \in T
  BY <1>1, <1>3
<1>5. QED
  BY <1>2, <1>3, <1>4

(* There is a function that begins with x0 and takes n steps of G.           *)
Steps(n, X) == [1..n -> [X -> X]]
Iterates(f, n, X, x0, G) ==
  f \in [0..n -> X] /\ f[0] = x0 /\ \A k \in 1..n : f[k] = G[k][f[k - 1]]

LEMMA Iteration ==
  ASSUME NEW n \in Nat, NEW X, NEW x0 \in X, NEW G \in Steps(n, X)
  PROVE  \E f : Iterates(f, n, X, x0, G)
<1> DEFINE T == {m \in 0..n : \E f \in [0..m -> X] :
                   f[0] = x0 /\ \A k \in 1..m : f[k] = G[k][f[k - 1]]}
<1>1. 0 \in T
  <2> DEFINE f == [k \in 0..0 |-> x0]
  <2>1. f \in [0..0 -> X] /\ f[0] = x0 /\ \A k \in 1..0 : f[k] = G[k][f[k - 1]]
    OBVIOUS
  <2>2. 0 \in 0..n
    OBVIOUS
  <2> HIDE DEF f
  <2>3. QED
    BY <2>1, <2>2
<1>2. ASSUME NEW m \in 0..(n - 1), m \in T PROVE m + 1 \in T
  <2>1. PICK f \in [0..m -> X] : f[0] = x0 /\ \A k \in 1..m : f[k] = G[k][f[k - 1]]
    BY <1>2
  <2> DEFINE g == [k \in 0..(m + 1) |-> IF k = m + 1 THEN G[m + 1][f[m]] ELSE f[k]]
  <2>2. G[m + 1] \in [X -> X] /\ f[m] \in X
    BY DEF Steps
  <2>3. G[m + 1][f[m]] \in X
    BY <2>2
  <2>4. \A k \in 0..m : k \in 0..(m + 1) /\ g[k] = f[k]
    OBVIOUS
  <2>5. g[m + 1] = G[m + 1][g[m]]
    OBVIOUS
  <2>6. g \in [0..(m + 1) -> X]
    BY <2>3
  <2> HIDE DEF g
  <2>7. g[0] = x0
    BY <2>1, <2>4
  <2>8. \A k \in 1..(m + 1) : g[k] = G[k][g[k - 1]]
    <3> TAKE k \in 1..(m + 1)
    <3>1. CASE k = m + 1
      BY <2>5, <3>1
    <3>2. CASE k \in 1..m
      <4>1. k \in 0..m /\ k - 1 \in 0..m
        BY <3>2
      <4>2. QED
        BY <2>1, <2>4, <3>2, <4>1
    <3>3. QED
      BY <3>1, <3>2
  <2>9. m + 1 \in 0..n
    OBVIOUS
  <2>10. QED
    BY <2>6, <2>7, <2>8, <2>9
<1>3. n \in T
  <2>1. n \in 0..n
    OBVIOUS
  <2> HIDE DEF T
  <2>2. QED
    BY <1>1, <1>2, <2>1, Climb
<1>4. QED
  BY <1>3 DEF Iterates
=============================================================================
