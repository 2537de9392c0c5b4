------------------------------- MODULE Rounds -------------------------------
(***************************************************************************)
(* What is needed to reason about the loops that the models write as       *)
(* recursive functions over the rounds.  The library's theorems about      *)
(* induction and recursion take an operator; these are about sets and      *)
(* functions, and follow from the least element of a set of numbers.       *)
(***************************************************************************)
EXTENDS Integers, WellFoundedInduction, TLAPS

LEMMA LeastElement ==
  ASSUME NEW T, T \subseteq Nat, T # {}
  PROVE  \E x \in T : \A y \in T : x <= y
<1> DEFINE R == OpToRel(<, Nat)
<1>1. IsWellFoundedOn(R, Nat)
  BY NatLessThanWellFounded
<1>2. \A x, y \in Nat : x < y => <<x, y>> \in R
  BY DEF OpToRel
<1> HIDE DEF R
<1>3. PICK x \in T : \A y \in T : ~ (<<y, x>> \in R)
  BY <1>1, WFMin
<1>4. ASSUME NEW y \in T PROVE x <= y
  <2>1. ~ (y < x)
    BY <1>2, <1>3
  <2> QED BY <2>1
<1> QED BY <1>4

LEMMA GreatestElement ==
  ASSUME NEW n \in Nat, NEW T, T \subseteq 1 .. n, T # {}
  PROVE  \E x \in T : \A y \in T : y <= x
<1> DEFINE D == {n - y : y \in T}
<1>1. D \subseteq Nat /\ D # {}
  <2>1. \A y \in T : n - y \in Nat
    OBVIOUS
  <2> QED BY <2>1
<1>2. PICK d \in D : \A e \in D : d <= e
  BY <1>1, LeastElement
<1>3. PICK x \in T : d = n - x
  BY <1>2
<1>4. ASSUME NEW y \in T PROVE y <= x
  <2>1. n - x <= n - y
    BY <1>2, <1>3
  <2> QED BY <2>1
<1> QED BY <1>4

(* A set that has 0 and with every number its successor has all numbers.   *)
LEMMA SetInduction ==
  ASSUME NEW T, 0 \in T, \A n \in Nat : n \in T => n + 1 \in T
  PROVE  Nat \subseteq T
<1> DEFINE B == {n \in Nat : n \notin T}
<1>1. SUFFICES ASSUME B # {} PROVE FALSE
  OBVIOUS
<1>2. PICK x \in B : \A y \in B : x <= y
  BY <1>1, LeastElement
<1>3. x \in Nat /\ x # 0 /\ x - 1 \in Nat /\ x - 1 \notin B
  BY <1>2
<1> QED BY <1>3

(* What n rounds of a loop compute, from `first' with round k given by     *)
(* body[k], is the last value of a function.                               *)
Bodies(S) == [Nat -> [S -> S]]

RoundsOf(S, first, body, n) ==
  {f \in [0 .. n -> S] : f[0] = first /\ \A k \in 1 .. n : f[k] = body[k][f[k - 1]]}

LEMMA Rounds ==
  ASSUME NEW S, NEW first \in S, NEW body \in Bodies(S), NEW n \in Nat
  PROVE  RoundsOf(S, first, body, n) # {}
<1>0. body \in [Nat -> [S -> S]]
  BY DEF Bodies
<1> DEFINE Loop(f, m) == f[0] = first /\ \A k \in 1 .. m : f[k] = body[k][f[k - 1]]
           T == {m \in Nat : \E f \in [0 .. m -> S] : Loop(f, m)}
<1>1. 0 \in T
  <2>1. [k \in 0 .. 0 |-> first] \in [0 .. 0 -> S] /\ Loop([k \in 0 .. 0 |-> first], 0)
    OBVIOUS
  <2> QED BY <2>1
<1>2. ASSUME NEW m \in Nat, m \in T PROVE m + 1 \in T
  <2>1. PICK f \in [0 .. m -> S] : Loop(f, m)
    BY <1>2
  <2> DEFINE g == [k \in 0 .. m + 1 |-> IF k = m + 1 THEN body[k][f[m]] ELSE f[k]]
  <2>2. g \in [0 .. m + 1 -> S]
    BY <1>0
  <2>3. Loop(g, m + 1)
    BY <2>1
  <2> HIDE DEF g, Loop
  <2>4. \E h \in [0 .. m + 1 -> S] : Loop(h, m + 1)
    BY <2>2, <2>3
  <2> QED BY <2>4
<1> HIDE DEF T
<1>3. n \in T
  BY <1>1, <1>2, SetInduction
<1>4. PICK f \in [0 .. n -> S] : Loop(f, n)
  BY <1>3 DEF T
<1> QED BY <1>4 DEF RoundsOf

(* Two runs of a loop agree as far as both go.                             *)
LEMMA SameRounds ==
  ASSUME NEW S, NEW first \in S, NEW body \in Bodies(S),
         NEW m \in Nat, NEW n \in Nat, m <= n,
         NEW f \in RoundsOf(S, first, body, m), NEW g \in RoundsOf(S, first, body, n)
  PROVE  f[m] = g[m]
<1> DEFINE T == {k \in Nat : k <= m => f[k] = g[k]}
<1>1. 0 \in T
  BY DEF RoundsOf
<1>2. ASSUME NEW k \in Nat, k \in T PROVE k + 1 \in T
  <2>1. SUFFICES ASSUME k + 1 <= m PROVE f[k + 1] = g[k + 1]
    OBVIOUS
  <2>2. k <= m /\ k + 1 \in 1 .. m /\ k + 1 \in 1 .. n /\ (k + 1) - 1 = k
    BY <2>1
  <2>3. f[k] = g[k]
    BY <1>2, <2>2
  <2>4. f[k + 1] = body[k + 1][f[k]] /\ g[k + 1] = body[k + 1][g[k]]
    BY <2>2 DEF RoundsOf
  <2> QED BY <2>3, <2>4
<1> HIDE DEF T
<1>3. m \in T
  BY <1>1, <1>2, SetInduction
<1> QED BY <1>3 DEF T

(* The same without an end.                                                *)
AllRounds(S, first, body) ==
  {f \in [Nat -> S] : f[0] = first /\ \A k \in Nat \ {0} : f[k] = body[k][f[k - 1]]}

LEMMA EndlessRounds ==
  ASSUME NEW S, NEW first \in S, NEW body \in Bodies(S)
  PROVE  AllRounds(S, first, body) # {}
<1> DEFINE upTo == [n \in Nat |-> CHOOSE g : g \in RoundsOf(S, first, body, n)]
<1>1. \A n \in Nat : upTo[n] \in RoundsOf(S, first, body, n)
  BY Rounds
<1> HIDE DEF upTo
<1> DEFINE f == [n \in Nat |-> upTo[n][n]]
<1>2. f \in [Nat -> S]
  <2>1. ASSUME NEW n \in Nat PROVE upTo[n][n] \in S
    <3>1. upTo[n] \in [0 .. n -> S]
      BY <1>1 DEF RoundsOf
    <3> QED BY <3>1
  <2> QED BY <2>1
<1>3. f[0] = first
  BY <1>1 DEF RoundsOf
<1>4. ASSUME NEW k \in Nat \ {0} PROVE f[k] = body[k][f[k - 1]]
  <2>1. k - 1 \in Nat /\ k - 1 <= k /\ k \in 1 .. k
    OBVIOUS
  <2>2. upTo[k] \in RoundsOf(S, first, body, k) /\ upTo[k - 1] \in RoundsOf(S, first, body, k - 1)
    BY <1>1, <2>1
  <2>3. upTo[k - 1][k - 1] = upTo[k][k - 1]
    BY <2>1, <2>2, SameRounds
  <2>4. upTo[k][k] = body[k][upTo[k][k - 1]]
    BY <2>1, <2>2 DEF RoundsOf
  <2> QED BY <2>1, <2>3, <2>4
<1> HIDE DEF f
<1> QED BY <1>2, <1>3, <1>4 DEF AllRounds

(* And of a loop whose rounds are all alike; what is written as one has    *)
(* its values in S.                                                        *)
Turns(S) == [S -> S]

LEMMA LoopExists ==
  ASSUME NEW S, NEW first \in S, NEW round \in Turns(S)
  PROVE  \E f \in [Nat -> S] : f[0] = first /\ \A n \in Nat \ {0} : f[n] = round[f[n - 1]]
<1> DEFINE body == [n \in Nat |-> round]
<1>1. body \in Bodies(S) /\ \A n \in Nat : body[n] = round
  BY DEF Bodies, Turns
<1> HIDE DEF body
<1>2. PICK f : f \in AllRounds(S, first, body)
  BY <1>1, EndlessRounds
<1>3. /\ f \in [Nat -> S] /\ f[0] = first
      /\ \A n \in Nat \ {0} : f[n] = body[n][f[n - 1]]
  BY <1>2 DEF AllRounds
<1> QED BY <1>1, <1>3

LEMMA LoopTyped ==
  ASSUME NEW S, NEW first \in S, NEW round \in Turns(S), NEW loop,
         loop[0] = first,
         \A n \in Nat \ {0} : loop[n - 1] \in S => loop[n] = round[loop[n - 1]]
  PROVE  \A n \in Nat : loop[n] \in S
<1> DEFINE T == {n \in Nat : loop[n] \in S}
<1>1. 0 \in T
  OBVIOUS
<1>2. ASSUME NEW n \in Nat, n \in T PROVE n + 1 \in T
  <2>1. n + 1 \in Nat \ {0} /\ (n + 1) - 1 = n
    OBVIOUS
  <2>2. loop[n + 1] = round[loop[n]]
    BY <1>2, <2>1
  <2>3. round[loop[n]] \in S
    BY <1>2 DEF Turns
  <2> QED BY <2>1, <2>2, <2>3
<1>3. Nat \subseteq T
  <2> HIDE DEF T
  <2> QED BY <1>1, <1>2, SetInduction
<1> QED BY <1>3
=============================================================================
