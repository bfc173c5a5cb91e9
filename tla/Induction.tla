----------------------------- MODULE Induction -----------------------------
(* Induction over the natural numbers, with sets in place of predicates.    *)
EXTENDS Integers, WellFoundedInduction, TLAPS

Less == {p \in Nat \X Nat : p[1] < p[2]}

LEMMA LessWellFounded == IsWellFoundedOn(Less, Nat)
<1>1. IsWellFoundedOn(OpToRel(<, Nat), Nat)
  BY NatLessThanWellFounded
<1>2. OpToRel(<, Nat) = Less
  BY DEF OpToRel, Less
<1> QED
  BY <1>1, <1>2

\* A set of natural numbers that is not empty has a least element.
LEMMA Least ==
  ASSUME NEW T \in SUBSET Nat, T # {}
  PROVE  \E n \in T : \A m \in T : n <= m
<1>1. PICK x \in T : \A y \in T : ~(<<y, x>> \in Less)
  BY LessWellFounded, WFMin
<1>2. ASSUME NEW y \in T PROVE x <= y
  <2>1. x \in Nat /\ y \in Nat
    OBVIOUS
  <2>2. ~(<<y, x>> \in Less)
    BY <1>1
  <2>3. y < x => <<y, x>> \in Less
    BY <2>1 DEF Less
  <2> QED
    BY <2>1, <2>2, <2>3
<1> QED
  BY <1>2

\* What holds of 0, and of n + 1 if it holds of n, holds of all numbers.
LEMMA Inductive ==
  ASSUME NEW S, 0 \in S, \A n \in Nat : n \in S => n + 1 \in S
  PROVE  Nat \subseteq S
<1> SUFFICES ASSUME Nat \ S # {} PROVE FALSE
  OBVIOUS
<1>1. PICK n \in Nat \ S : \A m \in Nat \ S : n <= m
  BY Least
<1>2. n # 0 /\ n - 1 \in Nat
  OBVIOUS
<1>3. n - 1 \in S
  BY <1>1, <1>2
<1>4. (n - 1) + 1 = n
  OBVIOUS
<1> QED
  BY <1>2, <1>3, <1>4

\* h holds the first n + 1 iterates of f from x.
Iterates(h, f, x, X, n) ==
  h \in [0..n -> X] /\ h[0] = x /\ \A k \in 1..n : h[k] = f[h[k - 1]]

LEMMA IteratesExist ==
  ASSUME NEW X, NEW x \in X, NEW f \in [X -> X], NEW n \in Nat
  PROVE  \E h : Iterates(h, f, x, X, n)
<1> DEFINE S == {k \in Nat : \E h : Iterates(h, f, x, X, k)}
<1>1. 0 \in S
  <2> DEFINE h == [k \in 0..0 |-> x]
  <2>1. Iterates(h, f, x, X, 0)
    BY DEF Iterates
  <2> QED
    BY <2>1
<1>2. ASSUME NEW k \in Nat, k \in S PROVE k + 1 \in S
  <2>1. PICK h : Iterates(h, f, x, X, k)
    BY <1>2
  <2> DEFINE g == [j \in 0..(k + 1) |-> IF j = k + 1 THEN f[h[k]] ELSE h[j]]
  <2>2. h[k] \in X /\ f[h[k]] \in X /\ \A j \in 0..k : h[j] \in X
    BY <2>1 DEF Iterates
  <2>3. \A j \in 0..(k + 1) : j # k + 1 => j \in 0..k
    OBVIOUS
  <2>4. g \in [0..(k + 1) -> X]
    BY <2>2, <2>3
  <2>5. g[0] = x /\ g[k + 1] = f[h[k]] /\ \A j \in 0..k : g[j] = h[j]
    BY <2>1 DEF Iterates
  <2> HIDE DEF g
  <2>6. ASSUME NEW j \in 1..(k + 1) PROVE g[j] = f[g[j - 1]]
    <3>1. CASE j = k + 1
      <4>1. j - 1 = k /\ k \in 0..k
        BY <3>1
      <4> QED
        BY <2>5, <3>1, <4>1
    <3>2. CASE j # k + 1
      <4>1. j \in 1..k /\ j \in 0..k /\ j - 1 \in 0..k
        BY <3>2
      <4> QED
        BY <2>1, <2>5, <4>1 DEF Iterates
    <3> QED
      BY <3>1, <3>2
  <2>7. Iterates(g, f, x, X, k + 1)
    BY <2>4, <2>5, <2>6 DEF Iterates
  <2> QED
    BY <2>7
<1> HIDE DEF S
<1>3. Nat \subseteq S
  BY <1>1, <1>2, Inductive
<1> QED
  BY <1>3 DEF S

LEMMA IteratesAgree ==
  ASSUME NEW X, NEW x \in X, NEW f \in [X -> X], NEW n \in Nat, NEW m \in Nat, NEW g, NEW h,
         Iterates(g, f, x, X, n), Iterates(h, f, x, X, m), NEW k \in Nat, k <= n, k <= m
  PROVE  g[k] = h[k]
<1> DEFINE S == {j \in Nat : j <= n /\ j <= m => g[j] = h[j]}
<1>1. 0 \in S
  BY DEF Iterates
<1>2. ASSUME NEW j \in Nat, j \in S PROVE j + 1 \in S
  <2> SUFFICES ASSUME j + 1 <= n, j + 1 <= m PROVE g[j + 1] = h[j + 1]
    OBVIOUS
  <2>1. g[j] = h[j]
    BY <1>2
  <2>2. j + 1 \in 1..n /\ j + 1 \in 1..m /\ (j + 1) - 1 = j
    OBVIOUS
  <2> QED
    BY <2>1, <2>2 DEF Iterates
<1> HIDE DEF S
<1>3. Nat \subseteq S
  BY <1>1, <1>2, Inductive
<1> QED
  BY <1>3 DEF S

Iteration(g, f, x, X) ==
  g \in [Nat -> X] /\ g[0] = x /\ \A n \in Nat : g[n + 1] = f[g[n]]

\* A function can be defined by what it is at 0 and how n + 1 follows from n.
LEMMA IterationExists ==
  ASSUME NEW X, NEW x \in X, NEW f \in [X -> X]
  PROVE  \E g : Iteration(g, f, x, X)
<1> DEFINE part(n) == CHOOSE h : Iterates(h, f, x, X, n)
           g == [n \in Nat |-> part(n)[n]]
<1>1. \A n \in Nat : Iterates(part(n), f, x, X, n)
  BY IteratesExist
<1> HIDE DEF part
<1>2. g \in [Nat -> X] /\ g[0] = x
  BY <1>1 DEF Iterates
<1>3. ASSUME NEW n \in Nat PROVE g[n + 1] = f[g[n]]
  <2>1. Iterates(part(n), f, x, X, n) /\ Iterates(part(n + 1), f, x, X, n + 1)
    BY <1>1
  <2>2. part(n)[n] = part(n + 1)[n]
    <3>1. n + 1 \in Nat /\ n <= n /\ n <= n + 1
      OBVIOUS
    <3> QED
      BY <2>1, <3>1, IteratesAgree
  <2>3. n + 1 \in 1..(n + 1) /\ (n + 1) - 1 = n
    OBVIOUS
  <2>4. part(n + 1)[n + 1] = f[part(n + 1)[n]]
    BY <2>1, <2>3 DEF Iterates
  <2> QED
    BY <2>2, <2>4
<1> HIDE DEF g
<1>4. Iteration(g, f, x, X)
  BY <1>2, <1>3 DEF Iteration
<1> QED
  BY <1>4
=============================================================================
