--------------------------------- MODULE Loops ---------------------------------
(***************************************************************************)
(* Loops over a list are written as recursive functions on the positions    *)
(* of the list. These lemmas say that such a function exists and that what *)
(* each step preserves holds at every position. Induction is stated for    *)
(* sets of numbers.                                                        *)
(***************************************************************************)
EXTENDS Integers, NaturalsInduction, WellFoundedInduction, TLAPS

\* A set of numbers has a least element.
LEMMA LeastNumber ==
  \A T \in SUBSET Nat : T # {} => \E m \in T : \A k \in T : ~(k < m)
<1> DEFINE R == OpToRel(<, Nat)
<1>1. IsWellFoundedOn(R, Nat)
  BY NatLessThanWellFounded
<1>2. \A k, m \in Nat : k < m => <<k, m>> \in R
  BY DEF OpToRel
<1> HIDE DEF R
<1> SUFFICES ASSUME NEW T \in SUBSET Nat, T # {}
             PROVE  \E m \in T : \A k \in T : ~(k < m)
  OBVIOUS
<1>3. \E m \in T : \A k \in T : ~(<<k, m>> \in R)
  BY <1>1, WFMin
<1> QED BY <1>2, <1>3

\* A loop invariant: what holds before the loop, and after each step if it
\* held before the step, holds throughout.
LEMMA LoopInvariant ==
  ASSUME NEW n \in Nat, NEW S, 0 \in S,
         \A i \in 1 .. n : i - 1 \in S => i \in S
  PROVE  \A i \in 0 .. n : i \in S
<1> SUFFICES ASSUME (0 .. n) \ S # {} PROVE FALSE
  OBVIOUS
<1>1. PICK m \in (0 .. n) \ S : \A k \in (0 .. n) \ S : ~(k < m)
  <2>1. (0 .. n) \ S \in SUBSET Nat
    OBVIOUS
  <2> QED BY <2>1, LeastNumber
<1>2. m # 0 /\ m \in 0 .. n
  BY <1>1
<1>3. m \in 1 .. n /\ m - 1 \in 0 .. n /\ m - 1 < m
  BY <1>2
<1>4. m - 1 \in S
  BY <1>1, <1>3
<1> QED BY <1>1, <1>3, <1>4

\* What a loop of n steps does at each position to a value of V.
Steps(n, V) == [1 .. n -> [V -> V]]

\* The values of such a loop.
IsLoop(f, n, V, start, step) ==
  /\ f \in [0 .. n -> V]
  /\ f[0] = start
  /\ \A i \in 1 .. n : f[i] = step[i][f[i - 1]]

\* A loop that starts from a value of V and keeps to V is a function.
LEMMA LoopExists ==
  ASSUME NEW n \in Nat, NEW V, NEW start \in V, NEW step \in Steps(n, V)
  PROVE  \E f : IsLoop(f, n, V, start, step)
<1> DEFINE S == {m \in 0 .. n : \E f : IsLoop(f, m, V, start, step)}
<1>1. 0 \in S
  <2>1. IsLoop([i \in 0 .. 0 |-> start], 0, V, start, step)
    BY DEF IsLoop
  <2> QED BY <2>1
<1>2. \A i \in 1 .. n : i - 1 \in S => i \in S
  <2> SUFFICES ASSUME NEW i \in 1 .. n, NEW f, IsLoop(f, i - 1, V, start, step)
               PROVE  \E g : IsLoop(g, i, V, start, step)
    OBVIOUS
  <2> DEFINE g == [j \in 0 .. i |-> IF j = i THEN step[i][f[i - 1]] ELSE f[j]]
  <2>1. f[i - 1] \in V /\ step[i][f[i - 1]] \in V
    BY DEF IsLoop, Steps
  <2>2. g \in [0 .. i -> V] /\ g[0] = start
    BY <2>1 DEF IsLoop
  <2>3. \A j \in 1 .. i : g[j] = step[j][g[j - 1]]
    BY DEF IsLoop
  <2>4. IsLoop(g, i, V, start, step)
    BY <2>2, <2>3 DEF IsLoop
  <2> QED BY <2>4
<1>3. n \in S
  <2> HIDE DEF S
  <2>1. \A i \in 0 .. n : i \in S
    BY <1>1, <1>2, LoopInvariant
  <2> QED BY <2>1
<1> QED BY <1>3
================================================================================
