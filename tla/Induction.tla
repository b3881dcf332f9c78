------------------------------ MODULE Induction ------------------------------
(***************************************************************************)
(* Least and greatest numbers, which is how an argument by induction on a  *)
(* datum is made where a proof can cite no induction schema: a claim that  *)
(* fails somewhere fails somewhere first.                                  *)
(***************************************************************************)
EXTENDS Integers, WellFoundedInduction, TLAPS

Below == {ss \in Nat \X Nat : ss[1] < ss[2]}

(* There is no infinite descent among the natural numbers.                 *)
LEMMA BelowIsWellFounded == IsWellFoundedOn(Below, Nat)
BY NatLessThanWellFounded DEF OpToRel, Below

(* A nonempty set of natural numbers has a least member.                   *)
LEMMA LeastNat ==
    ASSUME NEW T \in SUBSET Nat, T # {}
    PROVE  \E x \in T : \A y \in T : x <= y
<1>1. PICK x \in T : \A y \in T : <<y, x>> \notin Below
  BY BelowIsWellFounded, WFMin
<1>2. ASSUME NEW y \in T PROVE x <= y
  <2>1. <<y, x>> \notin Below   BY <1>1
  <2>2. y \in Nat /\ x \in Nat   OBVIOUS
  <2>3. ~(y < x)   BY <2>1, <2>2 DEF Below
  <2> QED BY <2>2, <2>3
<1> QED BY <1>2

(* One that is bounded has a greatest.                                     *)
LEMMA GreatestNat ==
    ASSUME NEW n \in Nat, NEW T \in SUBSET (0..n), T # {}
    PROVE  \E x \in T : \A y \in T : y <= x
<1> DEFINE D == {n - y : y \in T}
<1>1. D \in SUBSET Nat /\ D # {}
  <2>1. PICK y \in T : TRUE   OBVIOUS
  <2>2. n - y \in D   OBVIOUS
  <2>3. ASSUME NEW d \in D PROVE d \in Nat   OBVIOUS
  <2> QED BY <2>2, <2>3
<1> HIDE DEF D
<1>2. PICK d \in D : \A e \in D : d <= e   BY <1>1, LeastNat
<1>3. PICK x \in T : d = n - x   BY <1>2 DEF D
<1>4. ASSUME NEW y \in T PROVE y <= x
  <2>1. n - y \in D   BY DEF D
  <2> QED BY <1>2, <1>3, <2>1
<1> QED BY <1>4

(* Induction, said of a set instead of a property.                         *)
LEMMA InductionOnASet ==
    ASSUME NEW S, 0 \in S, \A n \in Nat : n \in S => n + 1 \in S
    PROVE  \A n \in Nat : n \in S
<1> DEFINE T == {n \in Nat : n \notin S}
<1>1. T = {}
  <2> SUFFICES ASSUME T # {} PROVE FALSE   OBVIOUS
  <2>1. PICK n \in T : \A m \in T : n <= m   BY LeastNat
  <2>2. n \in Nat /\ n # 0   BY <2>1
  <2>3. n - 1 \in Nat /\ n - 1 \notin T   BY <2>1, <2>2
  <2>4. n - 1 \in S   BY <2>3
  <2>5. (n - 1) + 1 \in S   BY <2>3, <2>4
  <2> QED BY <2>1, <2>2, <2>5
<1> QED BY <1>1

(* The functions that a recursion from v by the step defines up to n.      *)
Runs(v, step, V, n) ==
    {f \in [0..n -> V] : /\ f[0] = v
                         /\ \A m \in 1..n : f[m] = step[m][f[m - 1]]}

(* A recursion on the natural numbers defines a function: what a step that *)
(* is a function itself makes of the value before.                         *)
Recurs(f, v, step, V) ==
    /\ f \in [Nat -> V] /\ f[0] = v
    /\ \A n \in Nat \ {0} : f[n] = step[n][f[n - 1]]

LEMMA Recursion ==
    ASSUME NEW V, NEW v \in V, NEW step \in [Nat -> [V -> V]]
    PROVE  \E f : Recurs(f, v, step, V)
<1> DEFINE Reached == {n \in Nat : Runs(v, step, V, n) # {}}
<1>1. 0 \in Reached
  <2>1. [m \in 0..0 |-> v] \in Runs(v, step, V, 0)   BY DEF Runs
  <2> QED BY <2>1
<1>2. \A n \in Nat : n \in Reached => n + 1 \in Reached
  <2> SUFFICES ASSUME NEW n \in Nat, n \in Reached PROVE n + 1 \in Reached   OBVIOUS
  <2>1. PICK f \in [0..n -> V] : f[0] = v /\ \A m \in 1..n : f[m] = step[m][f[m - 1]]
    BY DEF Runs
  <2> DEFINE g == [m \in 0..n + 1 |-> IF m = n + 1 THEN step[n + 1][f[n]] ELSE f[m]]
  <2>2. f[n] \in V /\ step[n + 1][f[n]] \in V   BY <2>1
  <2>3. g \in [0..n + 1 -> V] /\ g[0] = v   BY <2>1, <2>2
  <2>4. ASSUME NEW m \in 1..n + 1 PROVE g[m] = step[m][g[m - 1]]
    <3>1. CASE m = n + 1
      <4>1. g[m - 1] = f[n]   BY <3>1
      <4> QED BY <3>1, <4>1
    <3>2. CASE m # n + 1
      <4>1. m \in 1..n /\ m - 1 \in 0..n   BY <3>2
      <4>2. g[m] = f[m] /\ g[m - 1] = f[m - 1]   BY <4>1
      <4> QED BY <2>1, <4>1, <4>2
    <3> QED BY <3>1, <3>2
  <2>5. g \in Runs(v, step, V, n + 1)   BY <2>3, <2>4 DEF Runs
  <2> QED BY <2>5
<1>3. \A n \in Nat : n \in Reached
  <2> HIDE DEF Reached
  <2> QED BY <1>1, <1>2, InductionOnASet
<1> DEFINE run(n) == CHOOSE f \in Runs(v, step, V, n) : TRUE
           F == [n \in Nat |-> run(n)[n]]
<1>4. \A n \in Nat : run(n) \in Runs(v, step, V, n)   BY <1>3
<1> HIDE DEF run
<1>5. \A n \in Nat : run(n) \in [0..n -> V] /\ run(n)[0] = v
                     /\ \A m \in 1..n : run(n)[m] = step[m][run(n)[m - 1]]
  BY <1>4 DEF Runs
<1>6. ASSUME NEW n \in Nat, NEW k \in Nat, n <= k PROVE run(k)[n] = run(n)[n]
  <2> DEFINE Same == {m \in Nat : m <= n => run(k)[m] = run(n)[m]}
  <2>1. 0 \in Same   BY <1>5
  <2>2. \A m \in Nat : m \in Same => m + 1 \in Same
    <3> SUFFICES ASSUME NEW m \in Nat, m \in Same, m + 1 <= n
                 PROVE  run(k)[m + 1] = run(n)[m + 1]
      OBVIOUS
    <3>1. run(k)[m] = run(n)[m] /\ m + 1 \in 1..n /\ m + 1 \in 1..k /\ (m + 1) - 1 = m   BY <1>6
    <3>2. run(n)[m + 1] = step[m + 1][run(n)[m]]   BY <1>5, <3>1
    <3>3. run(k)[m + 1] = step[m + 1][run(k)[m]]   BY <1>5, <3>1
    <3> QED BY <3>1, <3>2, <3>3
  <2>3. n \in Same
    <3> HIDE DEF Same
    <3> QED BY <2>1, <2>2, InductionOnASet
  <2> QED BY <2>3
<1>7. F \in [Nat -> V] /\ F[0] = v   BY <1>5
<1>8. ASSUME NEW n \in Nat \ {0} PROVE F[n] = step[n][F[n - 1]]
  <2>1. n \in 1..n /\ n - 1 \in Nat /\ n - 1 <= n   OBVIOUS
  <2>2. run(n)[n] = step[n][run(n)[n - 1]]   BY <1>5, <2>1
  <2>3. run(n)[n - 1] = run(n - 1)[n - 1]   BY <1>6, <2>1
  <2>4. F[n] = run(n)[n] /\ F[n - 1] = run(n - 1)[n - 1]   BY <2>1
  <2> QED BY <2>2, <2>3, <2>4
<1> HIDE DEF F
<1>9. Recurs(F, v, step, V)   BY <1>7, <1>8 DEF Recurs
<1> QED BY <1>9

=============================================================================
