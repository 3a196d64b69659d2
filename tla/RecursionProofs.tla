-------------------------- MODULE RecursionProofs ---------------------------
(***************************************************************************)
(* What the proofs about the algorithms share: induction over a measure,   *)
(* and the existence of the functions that loops and recursive functions   *)
(* define. The induction theorems of the library take an operator; these   *)
(* take a set.                                                             *)
(***************************************************************************)
EXTENDS MCAlgorithms, WellFoundedInduction, TLAPS

-----------------------------------------------------------------------------
(* Induction and recursion.                                                *)

(* Induction over a domain with a measure: P holds all of it, if it holds  *)
(* an element whenever it holds those of smaller measure.                  *)
LEMMA MeasureInduction ==
  ASSUME NEW D, NEW m \in [D -> Nat], NEW P,
         \A x \in D : (\A y \in D : m[y] < m[x] => y \in P) => x \in P
  PROVE  \A x \in D : x \in P
<1> SUFFICES ASSUME NEW z \in D, z \notin P PROVE FALSE
  OBVIOUS
<1> DEFINE T == {m[x] : x \in D \ P}
           R == OpToRel(<, Nat)
<1>1. T \subseteq Nat /\ T # {}
  OBVIOUS
<1>2. PICK v \in T : \A k \in T : ~(<<k, v>> \in R)
  <2>1. IsWellFoundedOn(R, Nat)
    BY Zenon, NatLessThanWellFounded
  <2> HIDE DEF R, T
  <2> QED BY Zenon, <1>1, <2>1, WFMin
<1>3. \A k \in T : ~(k < v)
  BY Zenon, <1>1, <1>2 DEF OpToRel
<1>4. PICK x \in D \ P : v = m[x]
  BY Zenon, <1>2
<1>5. ASSUME NEW y \in D, m[y] < m[x] PROVE y \in P
  BY <1>3, <1>4, <1>5
<1> QED BY <1>4, <1>5

(* Induction over the natural numbers.                                     *)
LEMMA NumberInduction ==
  ASSUME NEW P, 0 \in P, \A v \in Nat : v \in P => v + 1 \in P
  PROVE  \A v \in Nat : v \in P
<1> DEFINE m == [v \in Nat |-> v]
<1>1. m \in [Nat -> Nat]
  OBVIOUS
<1>2. ASSUME NEW v \in Nat, \A k \in Nat : m[k] < m[v] => k \in P PROVE v \in P
  <2>1. CASE v = 0
    BY <2>1
  <2>2. CASE v # 0
    <3>1. v - 1 \in Nat /\ m[v - 1] < m[v] /\ (v - 1) + 1 = v
      BY <2>2
    <3> QED BY <1>2, <3>1
  <2> QED BY <2>1, <2>2
<1> HIDE DEF m
<1> QED BY Zenon, <1>1, <1>2, MeasureInduction

(* H computes the value at x from those at elements of smaller measure.    *)
Measured(D, S, m, H) ==
  /\ m \in [D -> Nat] /\ H \in [D -> [[D -> S] -> S]]
  /\ \A x \in D : \A g, h \in [D -> S] :
       (\A y \in D : m[y] < m[x] => g[y] = h[y]) => H[x][g] = H[x][h]

(* g has the computed values as far as the measure is below k.             *)
Upto(D, m, H, k, g) == \A x \in D : m[x] < k => g[x] = H[x][g]

(* Where two functions have the computed values they are the same.         *)
LEMMA SameComputed ==
  ASSUME NEW D, NEW S, NEW m, NEW H, Measured(D, S, m, H),
         NEW g \in [D -> S], NEW h \in [D -> S], NEW j \in Nat, NEW k \in Nat,
         Upto(D, m, H, j, g), Upto(D, m, H, k, h), NEW z \in D, m[z] < j, m[z] < k
  PROVE  g[z] = h[z]
<1> DEFINE P == {x \in D : m[x] < j /\ m[x] < k => g[x] = h[x]}
<1>0. m \in [D -> Nat]
  BY DEF Measured
<1>1. ASSUME NEW x \in D, \A y \in D : m[y] < m[x] => y \in P PROVE x \in P
  <2> SUFFICES ASSUME m[x] < j, m[x] < k PROVE g[x] = h[x]
    OBVIOUS
  <2>1. \A y \in D : m[y] < m[x] => g[y] = h[y]
    BY <1>0, <1>1
  <2>2. H[x][g] = H[x][h]
    BY Zenon, <2>1 DEF Measured
  <2> QED BY <2>2 DEF Upto
<1>2. \A x \in D : x \in P
  <2> HIDE DEF P
  <2> QED BY <1>0, <1>1, MeasureInduction
<1> QED BY <1>2

(* A function may be defined by recursion when its values are computed     *)
(* from those at elements of smaller measure.                              *)
LEMMA Recursion ==
  ASSUME NEW D, NEW S, S # {}, NEW m, NEW H, Measured(D, S, m, H)
  PROVE  \E f \in [D -> S] : \A x \in D : f[x] = H[x][f]
<1> DEFINE Can(k) == \E g \in [D -> S] : Upto(D, m, H, k, g)
<1>0. m \in [D -> Nat] /\ H \in [D -> [[D -> S] -> S]]
  BY Zenon DEF Measured
<1>1. Can(0)
  <2>1. PICK s \in S : TRUE
    OBVIOUS
  <2>2. [x \in D |-> s] \in [D -> S] /\ Upto(D, m, H, 0, [x \in D |-> s])
    BY <1>0 DEF Upto
  <2> QED BY Zenon, <2>2
<1>2. ASSUME NEW k \in Nat, Can(k) PROVE Can(k + 1)
  <2>1. PICK g \in [D -> S] : Upto(D, m, H, k, g)
    BY Zenon, <1>2
  <2> DEFINE h == [x \in D |-> H[x][g]]
  <2>2. h \in [D -> S]
    BY <1>0
  <2>3. ASSUME NEW x \in D, m[x] < k + 1 PROVE h[x] = H[x][h]
    <3>1. ASSUME NEW y \in D, m[y] < m[x] PROVE g[y] = h[y]
      <4>1. m[y] < k
        BY <1>0, <2>3, <3>1
      <4> QED BY <2>1, <4>1 DEF Upto
    <3>2. H[x][g] = H[x][h]
      <4> HIDE DEF h
      <4> QED BY <2>2, <3>1 DEF Measured
    <3> QED BY <3>2
  <2> HIDE DEF h
  <2>4. Upto(D, m, H, k + 1, h)
    BY <2>3 DEF Upto
  <2> QED BY Zenon, <2>2, <2>4
<1>3. ASSUME NEW k \in Nat PROVE Can(k)
  <2> DEFINE P == {v \in Nat : Can(v)}
  <2> HIDE DEF Can
  <2>1. 0 \in P /\ \A v \in Nat : v \in P => v + 1 \in P
    BY <1>1, <1>2
  <2>2. k \in P
    <3> HIDE DEF P
    <3> QED BY Zenon, <2>1, NumberInduction
  <2> QED BY <2>2
<1> DEFINE G(k) == CHOOSE g \in [D -> S] : Upto(D, m, H, k, g)
           f == [x \in D |-> G(m[x] + 1)[x]]
<1>5. ASSUME NEW k \in Nat PROVE G(k) \in [D -> S] /\ Upto(D, m, H, k, G(k))
  BY Zenon, <1>3
<1> HIDE DEF G
<1>6. ASSUME NEW x \in D PROVE m[x] + 1 \in Nat /\ f[x] = G(m[x] + 1)[x] /\ G(m[x] + 1)[x] \in S
  <2>1. m[x] + 1 \in Nat
    BY <1>0
  <2> QED BY <1>5, <2>1
<1>7. f \in [D -> S]
  BY <1>6
<1> HIDE DEF f
<1>8. ASSUME NEW x \in D PROVE f[x] = H[x][f]
  <2> DEFINE g == G(m[x] + 1)
  <2>1. g \in [D -> S] /\ Upto(D, m, H, m[x] + 1, g) /\ m[x] + 1 \in Nat
    BY <1>5, <1>6
  <2>2. ASSUME NEW y \in D, m[y] < m[x] PROVE f[y] = g[y]
    <3> DEFINE h == G(m[y] + 1)
    <3>1. m[y] + 1 \in Nat /\ h \in [D -> S] /\ Upto(D, m, H, m[y] + 1, h) /\ f[y] = h[y]
      BY <1>5, <1>6
    <3>2. m[y] < m[y] + 1 /\ m[y] < m[x] + 1
      BY <1>0, <2>2
    <3> HIDE DEF g, h
    <3>3. h[y] = g[y]
      BY <2>1, <3>1, <3>2, SameComputed
    <3> QED BY <3>1, <3>3
  <2>3. H[x][f] = H[x][g]
    <3> HIDE DEF g
    <3> QED BY Zenon, <1>7, <2>1, <2>2 DEF Measured
  <2>4. f[x] = g[x]
    BY <1>6
  <2>5. m[x] < m[x] + 1
    BY <1>0
  <2> QED BY <2>1, <2>3, <2>4, <2>5 DEF Upto
<1> QED BY <1>7, <1>8

(* Induction over an interval.                                             *)
Inductive(lo, hi, P) ==
  lo \in Int /\ hi \in Int /\ lo \in P /\ \A k \in lo..hi : k # lo /\ k - 1 \in P => k \in P

(* What holds at the lower end and is handed on from each number to the    *)
(* next holds in the whole interval.                                       *)
LEMMA IntervalInduction ==
  ASSUME NEW lo, NEW hi, NEW P, Inductive(lo, hi, P)
  PROVE  \A k \in lo..hi : k \in P
<1> DEFINE D == lo..hi
           m == [k \in D |-> k - lo]
<1> USE DEF Inductive
<1>1. m \in [D -> Nat]
  OBVIOUS
<1>2. ASSUME NEW k \in D, \A i \in D : m[i] < m[k] => i \in P PROVE k \in P
  <2>1. CASE k = lo
    BY <2>1
  <2>2. CASE k # lo
    <3>1. k - 1 \in D /\ m[k - 1] < m[k]
      BY <2>2
    <3> QED BY <1>2, <2>2, <3>1
  <2> QED BY <2>1, <2>2
<1>3. \A k \in D : k \in P
  <2> HIDE DEF D, m
  <2> QED BY <1>1, <1>2, MeasureInduction
<1> QED BY <1>3

(* A loop over an interval: from a, turn k makes G[k] of the result of the *)
(* turn before.  f gives the results.                                      *)
LoopOf(lo, hi, S, a, G) ==
  lo \in Int /\ hi \in Int /\ a \in S /\ G \in [lo..hi -> [S -> S]]
Turns(lo, hi, S, a, G, f) ==
  f \in [lo..hi -> S] /\ \A k \in lo..hi : f[k] = IF k = lo THEN a ELSE G[k][f[k - 1]]

(* Every loop over an interval has results.                                *)
LEMMA Loop ==
  ASSUME NEW lo, NEW hi, NEW S, NEW a, NEW G, LoopOf(lo, hi, S, a, G)
  PROVE  \E f : Turns(lo, hi, S, a, G, f)
<1> DEFINE D == lo..hi
           m == [k \in D |-> k - lo]
           H == [k \in D |-> [f \in [D -> S] |-> IF k = lo THEN a ELSE G[k][f[k - 1]]]]
<1> USE DEF LoopOf
<1>1. ASSUME NEW k \in D, k # lo PROVE k - 1 \in D /\ m[k - 1] < m[k]
  BY <1>1
<1>2. m \in [D -> Nat]
  OBVIOUS
<1>3. H \in [D -> [[D -> S] -> S]]
  BY <1>1
<1>4. ASSUME NEW k \in D, NEW g \in [D -> S], NEW h \in [D -> S],
             \A y \in D : m[y] < m[k] => g[y] = h[y]
      PROVE  H[k][g] = H[k][h]
  <2>1. k # lo => g[k - 1] = h[k - 1]
    BY <1>1, <1>4
  <2> QED BY <2>1
<1>5. \E f \in [D -> S] : \A x \in D : f[x] = H[x][f]
  <2>0. S # {}
    OBVIOUS
  <2> HIDE DEF D, m, H
  <2>1. Measured(D, S, m, H)
    BY Zenon, <1>2, <1>3, <1>4 DEF Measured
  <2> QED BY <2>0, <2>1, Recursion
<1>6. PICK f \in [D -> S] : \A x \in D : f[x] = H[x][f]
  BY <1>5
<1>7. Turns(lo, hi, S, a, G, f)
  BY <1>6 DEF Turns
<1> QED BY <1>7

(* A function that follows the loop as long as its values are in S gives   *)
(* its results.                                                            *)
LEMMA LoopResults ==
  ASSUME NEW lo, NEW hi, NEW S, NEW a, NEW G, LoopOf(lo, hi, S, a, G), NEW F,
         F = [k \in lo..hi |-> F[k]],
         \A k \in lo..hi : IF k = lo THEN F[k] = a ELSE F[k - 1] \in S => F[k] = G[k][F[k - 1]]
  PROVE  Turns(lo, hi, S, a, G, F)
<1> DEFINE P == {k \in Int : k \in lo..hi => F[k] \in S}
<1>1. Inductive(lo, hi, P)
  <2>1. lo \in P
    BY DEF LoopOf
  <2>2. \A k \in lo..hi : k # lo /\ k - 1 \in P => k \in P
    <3> TAKE k \in lo..hi
    <3> HAVE k # lo /\ k - 1 \in P
    <3>1. k - 1 \in lo..hi
      BY DEF LoopOf
    <3>2. F[k] = G[k][F[k - 1]] /\ F[k - 1] \in S
      BY <3>1
    <3>3. F[k] \in S
      BY <3>2 DEF LoopOf
    <3> QED BY <3>3 DEF LoopOf
  <2> HIDE DEF P
  <2> QED BY <2>1, <2>2 DEF Inductive, LoopOf
<1>2. \A k \in lo..hi : k \in P
  <2> HIDE DEF P
  <2> QED BY <1>1, IntervalInduction
<1>3. \A k \in lo..hi : F[k] \in S
  BY <1>2 DEF LoopOf
<1>4. \A k \in lo..hi : k # lo => k - 1 \in lo..hi
  BY DEF LoopOf
<1>5. F \in [lo..hi -> S]
  BY <1>3
<1> QED BY <1>3, <1>4, <1>5 DEF Turns

(* The type invariant of the enumeration.                                  *)
AlgorithmsTypeOK == text \in Seq(Alphabet) /\ n \in Nat

(* The inputs tried are texts over the alphabet and natural numbers.       *)
LEMMA AlgorithmsTyped == AlgorithmsSpec => []AlgorithmsTypeOK
<1>1. AlgorithmsInit => AlgorithmsTypeOK
  BY DEF AlgorithmsInit, AlgorithmsTypeOK
<1>2. AlgorithmsTypeOK /\ [NextText \/ NextNumber]_<<text, n>> => AlgorithmsTypeOK'
  BY DEF AlgorithmsTypeOK, NextText, NextNumber
<1> QED BY <1>1, <1>2, PTL DEF AlgorithmsSpec
=============================================================================
