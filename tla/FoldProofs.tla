------------------------------ MODULE FoldProofs ------------------------------
(***************************************************************************)
(* What a fold computes, step by step. FoldLeft of the community modules   *)
(* is a recursive function over sets of indices; LoopInvariant says that   *)
(* what holds before the loop and is kept by each turn holds of the        *)
(* result. A module that folds instantiates this one with its operator and *)
(* the invariant.                                                          *)
(***************************************************************************)
EXTENDS Integers, WellFoundedInduction, TLAPS

CONSTANTS
  Op(_, _, _),       \* a turn of the loop: its surroundings, the value so far, the element
  Holds(_, _, _, _)  \* the invariant: surroundings, sequence, turns done, value so far

\* Least number of a set of numbers.
LEMMA LeastNat ==
  ASSUME NEW S \in SUBSET Nat, S # {}
  PROVE  \E m \in S : \A k \in S : m <= k
<1>1. PICK m \in S : \A k \in S : <<k, m>> \notin OpToRel(<, Nat)
  BY NatLessThanWellFounded, WFMin, Zenon
<1>2. ASSUME NEW k \in S PROVE m <= k
  <2>1. ~ (k < m)
    BY <1>1 DEF OpToRel
  <2>2. QED
    BY <2>1
<1>3. QED
  BY <1>2

Greatest(t) == CHOOSE x \in t : \A y \in t : x >= y

\* The greatest number of a set of numbers, where there is one.
LEMMA GreatestIs ==
  ASSUME NEW t \in SUBSET Int, NEW m \in t, \A y \in t : m >= y
  PROVE  Greatest(t) = m
<1>1. \A x \in t : (\A y \in t : x >= y) => x = m
  OBVIOUS
<1>2. QED
  BY <1>1 DEF Greatest

Step(c, f, x0, s, t) ==
  IF t = {} THEN x0 ELSE Op(c, f[t \ {Greatest(t)}], s[Greatest(t)])

\* f is the recursive function that FoldLeft evaluates.
Iterates(c, f, x0, s, n) == f = [t \in SUBSET (1 .. n) |-> Step(c, f, x0, s, t)]

\* There is such a function.
LEMMA IterExists ==
  ASSUME NEW c, NEW x0, NEW s, NEW n \in Nat
  PROVE  \E f : Iterates(c, f, x0, s, n)
<1> DEFINE Bad == {k \in Nat : ~ \E f : Iterates(c, f, x0, s, k)}
<1>1. 0 \notin Bad
  <2> DEFINE f == [t \in SUBSET (1 .. 0) |-> x0]
  <2>1. Iterates(c, f, x0, s, 0)
    BY DEF Iterates, Step
  <2>2. QED
    BY <2>1
<1>2. ASSUME NEW k \in Nat, k \notin Bad
      PROVE  k + 1 \notin Bad
  <2>1. PICK g : Iterates(c, g, x0, s, k)
    BY <1>2
  <2> DEFINE f == [t \in SUBSET (1 .. k + 1) |->
                     IF t \in SUBSET (1 .. k) THEN g[t] ELSE Op(c, g[t \ {k + 1}], s[k + 1])]
  <2>2. ASSUME NEW t \in SUBSET (1 .. k + 1)
        PROVE  f[t] = Step(c, f, x0, s, t)
    <3>1. CASE t \in SUBSET (1 .. k)
      <4>1. g[t] = Step(c, g, x0, s, t)
        BY <2>1, <3>1 DEF Iterates
      <4>2. t \ {Greatest(t)} \in SUBSET (1 .. k) /\ t \ {Greatest(t)} \in SUBSET (1 .. k + 1)
        BY <3>1
      <4>3. QED
        BY <3>1, <4>1, <4>2 DEF Step
    <3>2. CASE t \notin SUBSET (1 .. k)
      <4>1. k + 1 \in t
        BY <3>2
      <4>2. Greatest(t) = k + 1
        BY <4>1, GreatestIs
      <4>3. t \ {k + 1} \in SUBSET (1 .. k) /\ t \ {k + 1} \in SUBSET (1 .. k + 1)
        OBVIOUS
      <4>4. QED
        BY <3>2, <4>1, <4>2, <4>3 DEF Step
    <3>3. QED
      BY <3>1, <3>2
  <2>3. Iterates(c, f, x0, s, k + 1)
    <3> HIDE DEF f
    <3>1. f = [t \in SUBSET (1 .. k + 1) |-> f[t]]
      BY DEF f
    <3>2. QED
      BY <2>2, <3>1, Zenon DEF Iterates
  <2>4. QED
    BY <2>3
<1>3. Bad = {}
  <2>1. SUFFICES ASSUME Bad # {} PROVE FALSE
    OBVIOUS
  <2>2. PICK m \in Bad : \A k \in Bad : m <= k
    BY <2>1, LeastNat
  <2>3. m # 0 /\ m - 1 \in Nat /\ m - 1 \notin Bad
    BY <1>1, <2>2
  <2>4. m \notin Bad
    BY <1>2, <2>3
  <2>5. QED
    BY <2>2, <2>4
<1>4. QED
  BY <1>3

\* The value after k turns depends on that after k - 1.
LEMMA Turns ==
  ASSUME NEW c, NEW x0, NEW s, NEW n \in Nat, NEW iter, Iterates(c, iter, x0, s, n)
  PROVE  /\ iter[1 .. 0] = x0
         /\ \A k \in 1 .. n : iter[1 .. k] = Op(c, iter[1 .. k - 1], s[k])
<1>1. iter[1 .. 0] = x0
  BY DEF Iterates, Step
<1>2. ASSUME NEW k \in 1 .. n
      PROVE  iter[1 .. k] = Op(c, iter[1 .. k - 1], s[k])
  <2> DEFINE t == 1 .. k
  <2>1. t \in SUBSET (1 .. n) /\ t # {} /\ t \ {k} = 1 .. k - 1
    OBVIOUS
  <2>2. t \in SUBSET Int /\ k \in t /\ \A y \in t : k >= y
    OBVIOUS
  <2> HIDE DEF t
  <2>3. Greatest(t) = k
    BY <2>2, GreatestIs
  <2>4. iter[t] = Step(c, iter, x0, s, t)
    BY <2>1 DEF Iterates
  <2>5. iter[t] = Op(c, iter[1 .. k - 1], s[k])
    BY <2>1, <2>3, <2>4 DEF Step
  <2>6. QED
    BY <2>5 DEF t
<1>3. QED
  BY <1>1, <1>2

\* What holds before the loop and is kept by every turn holds after it.
LEMMA LoopInvariant ==
  ASSUME NEW c, NEW x0, NEW s, NEW n \in Nat, NEW iter,
         iter = CHOOSE f : f = [t \in SUBSET (1 .. n) |->
                  IF t = {} THEN x0
                  ELSE Op(c, f[t \ {CHOOSE x \in t : \A y \in t : x >= y}],
                          s[CHOOSE x \in t : \A y \in t : x >= y])],
         Holds(c, s, 0, x0),
         \A k \in 1 .. n : \A x : Holds(c, s, k - 1, x) => Holds(c, s, k, Op(c, x, s[k]))
  PROVE  Holds(c, s, n, iter[1 .. n])
<1>1. iter = CHOOSE f : Iterates(c, f, x0, s, n)
  BY DEF Iterates, Step, Greatest
<1>2. Iterates(c, iter, x0, s, n)
  BY <1>1, IterExists
<1>3. iter[1 .. 0] = x0
  BY <1>2, Turns
<1>4. ASSUME NEW k \in 1 .. n PROVE iter[1 .. k] = Op(c, iter[1 .. k - 1], s[k])
  BY <1>2, Turns
<1> DEFINE Bad == {k \in 0 .. n : ~Holds(c, s, k, iter[1 .. k])}
<1>5. n \in 0 .. n
  OBVIOUS
<1>6. SUFFICES ASSUME Bad # {} PROVE FALSE
  BY <1>5, Zenon
<1>7. PICK m \in Bad : \A k \in Bad : m <= k
  <2>1. Bad \in SUBSET Nat
    OBVIOUS
  <2>2. QED
    BY <1>6, <2>1, LeastNat
<1>8. m # 0
  BY <1>3, <1>7
<1>9. m \in 1 .. n /\ m - 1 \in 0 .. n /\ m - 1 \notin Bad
  <2>1. m \in 0 .. n
    OBVIOUS
  <2> HIDE DEF Bad
  <2>2. QED
    BY <1>7, <1>8, <2>1
<1>10. Holds(c, s, m - 1, iter[1 .. m - 1])
  BY <1>9, Zenon
<1>11. Holds(c, s, m, iter[1 .. m])
  BY <1>4, <1>9, <1>10
<1>12. QED
  BY <1>7, <1>11
=============================================================================
