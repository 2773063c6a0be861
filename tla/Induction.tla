----------------------------- MODULE Induction -----------------------------
(***************************************************************************)
(* Induction over the naturals as statements about sets and functions: a   *)
(* proof by induction puts the numbers the statement holds for into a set, *)
(* and a function defined by recursion from each number to the next exists *)
(* for every first value and every step.                                   *)
(***************************************************************************)
EXTENDS Integers, WellFoundedInduction, TLAPS

LOCAL Less == {p \in Nat \X Nat : p[1] < p[2]}

LEMMA LeastElement ==
  ASSUME NEW T \in SUBSET Nat, T # {}
  PROVE  \E x \in T : \A y \in T : x <= y
<1>1. Less = OpToRel(<, Nat)
  BY DEF Less, OpToRel
<1>2. PICK x \in T : \A y \in T : ~(<<y, x>> \in Less)
  BY <1>1, NatLessThanWellFounded, WFMin
<1>3. \A y \in T : y \in Nat /\ x \in Nat /\ ~(y < x)
  BY <1>2 DEF Less
<1> QED BY <1>3

LEMMA SetInduction ==
  ASSUME NEW S \in SUBSET Nat, 0 \in S, \A n \in S : n + 1 \in S
  PROVE  S = Nat
<1> SUFFICES ASSUME Nat \ S # {} PROVE FALSE
  OBVIOUS
<1>1. PICK x \in Nat \ S : \A y \in Nat \ S : x <= y
  BY LeastElement
<1>2. x # 0 /\ x - 1 \in Nat
  BY <1>1
<1>3. x - 1 \in S
  BY <1>1, <1>2
<1> QED BY <1>1, <1>2, <1>3

(* A set of naturals with an upper bound has a greatest element.           *)
LEMMA GreatestElement ==
  ASSUME NEW N \in Nat, NEW T \in SUBSET (0..N), T # {}
  PROVE  \E x \in T : \A y \in T : y <= x
<1> DEFINE R == {k \in 0..N : N - k \in T}
<1>1. R \in SUBSET Nat
  OBVIOUS
<1>2. R # {}
  <2>1. PICK t \in T : TRUE
    OBVIOUS
  <2>2. N - t \in 0..N /\ N - (N - t) = t
    BY <2>1
  <2> QED BY <2>1, <2>2
<1> HIDE DEF R
<1>3. PICK k \in R : \A j \in R : k <= j
  BY <1>1, <1>2, LeastElement
<1>4. k \in 0..N /\ N - k \in T
  BY <1>3 DEF R
<1>5. ASSUME NEW y \in T PROVE y <= N - k
  <2>1. N - y \in 0..N /\ N - (N - y) = y
    OBVIOUS
  <2>2. N - y \in R
    BY <2>1 DEF R
  <2>3. k <= N - y
    BY <2>2, <1>3
  <2> QED BY <2>1, <2>3, <1>4
<1> QED BY <1>4, <1>5

(* Up to a bound.                                                          *)
LEMMA BoundedInduction ==
  ASSUME NEW N \in Nat, NEW S, 0 \in S, \A n \in 0..(N - 1) : n \in S => n + 1 \in S
  PROVE  \A n \in 0..N : n \in S
<1> DEFINE T == {n \in Nat : n <= N => n \in S}
<1>1. 0 \in T /\ \A n \in T : n + 1 \in T
  OBVIOUS
<1>2. T = Nat
  BY <1>1, SetInduction
<1> QED BY <1>2

(* A function on 0..N defined by its first value and by a step from each   *)
(* value to the next one exists.                                           *)
LEMMA RecursiveFunction ==
  ASSUME NEW N \in Nat, NEW first \in Int, NEW step \in [Nat -> [Int -> Int]]
  PROVE  \E f \in [0..N -> Int] :
           f[0] = first /\ \A n \in 0..(N - 1) : f[n + 1] = step[n][f[n]]
<1> DEFINE Good(m, f) ==
             f[0] = first /\ \A n \in 0..(m - 1) : f[n + 1] = step[n][f[n]]
           T == {m \in Nat : \E f \in [0..m -> Int] : Good(m, f)}
<1>1. 0 \in T
  <2> DEFINE f == [n \in 0..0 |-> first]
  <2>1. f \in [0..0 -> Int] /\ Good(0, f)
    OBVIOUS
  <2> QED BY <2>1
<1>2. ASSUME NEW m \in T PROVE m + 1 \in T
  <2>1. m \in Nat
    OBVIOUS
  <2>2. PICK f \in [0..m -> Int] : Good(m, f)
    OBVIOUS
  <2> DEFINE g == [n \in 0..(m + 1) |-> IF n = m + 1 THEN step[m][f[m]] ELSE f[n]]
  <2>3. f[m] \in Int /\ step[m][f[m]] \in Int
    BY <2>1, <2>2
  <2>4. \A n \in 0..(m + 1) : n # m + 1 => n \in 0..m /\ f[n] \in Int
    BY <2>1, <2>2
  <2>5. g \in [0..(m + 1) -> Int]
    BY <2>3, <2>4
  <2>6. \A n \in 0..m : g[n] = f[n]
    BY <2>1
  <2>7. g[m + 1] = step[m][f[m]]
    BY <2>1
  <2> HIDE DEF g
  <2>8. g[0] = first /\ g[m + 1] = step[m][g[m]]
    <3>1. 0 \in 0..m /\ m \in 0..m
      BY <2>1
    <3>2. g[0] = f[0] /\ g[m] = f[m]
      BY <3>1, <2>6
    <3> QED BY <3>2, <2>2, <2>7
  <2>9. ASSUME NEW n \in 0..m PROVE g[n + 1] = step[n][g[n]]
    <3>1. CASE n = m
      BY <3>1, <2>8
    <3>2. CASE n # m
      <4>1. n \in 0..(m - 1) /\ n + 1 \in 0..m
        BY <3>2, <2>1
      <4> QED BY <4>1, <2>2, <2>6
    <3> QED BY <3>1, <3>2
  <2>10. Good(m + 1, g)
    BY <2>1, <2>8, <2>9
  <2> HIDE DEF Good
  <2>11. \E h \in [0..(m + 1) -> Int] : Good(m + 1, h)
    BY <2>5, <2>10
  <2> QED BY <2>1, <2>11
<1>3. T = Nat
  BY <1>1, <1>2, SetInduction
<1>4. N \in T
  BY <1>3
<1>5. PICK f \in [0..N -> Int] : Good(N, f)
  BY <1>4
<1> QED BY <1>5

(* The sums of a first value and what each number adds.                    *)
LEMMA PartialSums ==
  ASSUME NEW N \in Nat, NEW first \in Int, NEW add \in [Nat -> Int]
  PROVE  \E f \in [0..N -> Int] :
           \A n \in 0..N : f[n] = IF n = 0 THEN first ELSE f[n - 1] + add[n]
<1> DEFINE step == [m \in Nat |-> [x \in Int |-> x + add[m + 1]]]
           Sum(f, n) == IF n = 0 THEN first ELSE f[n - 1] + add[n]
<1>1. step \in [Nat -> [Int -> Int]]
  OBVIOUS
<1>2. \A m \in Nat, x \in Int : step[m][x] = x + add[m + 1]
  OBVIOUS
<1> HIDE DEF step
<1>3. PICK f \in [0..N -> Int] :
        f[0] = first /\ \A n \in 0..(N - 1) : f[n + 1] = step[n][f[n]]
  BY <1>1, RecursiveFunction
<1>4. ASSUME NEW n \in 0..N PROVE f[n] = Sum(f, n)
  <2>1. CASE n = 0
    BY <2>1, <1>3
  <2>2. CASE n # 0
    <3> DEFINE m == n - 1
    <3>1. m \in 0..(N - 1) /\ m \in Nat /\ m + 1 = n /\ f[m] \in Int
      BY <2>2, <1>3
    <3>2. Sum(f, n) = f[m] + add[n]
      BY <2>2
    <3> HIDE DEF m, Sum
    <3>3. f[n] = step[m][f[m]]
      BY <3>1, <1>3
    <3> QED BY <3>1, <3>2, <3>3, <1>2
  <2> QED BY <2>1, <2>2
<1> QED BY <1>4
=============================================================================
