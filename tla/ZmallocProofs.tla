---------------------------- MODULE ZmallocProofs ----------------------------
(***************************************************************************)
(* used_memory of zmalloc.c is exact, with any number of threads, blocks   *)
(* and sizes that fit into the address space.  The invariant gives every   *)
(* block a share of used_memory, which the updates of the call on the      *)
(* block move between zero and the block's size.                           *)
(***************************************************************************)
EXTENDS Zmalloc, FiniteSetTheorems, WellFoundedInduction, TLAPS

-----------------------------------------------------------------------------
(* Sums over finite sets.  The fold of the library chooses an element of   *)
(* the set, adds its value and goes on with the rest: its table gives the  *)
(* sum of every subset.                                                    *)
Chosen(s) == CHOOSE x \in s : TRUE
Sums(f, D, W) == \A s \in D : W[s] = IF s = {} THEN 0 ELSE f[Chosen(s)] + W[s \ {Chosen(s)}]
SumBody(f, S, W) == [s \in SUBSET S |-> IF s = {} THEN 0 ELSE f[Chosen(s)] + W[s \ {Chosen(s)}]]
SumTable(f, S) == CHOOSE W : W = SumBody(f, S, W)
Total(f, S) == SumTable(f, S)[S]
Addable(f, S) == IsFiniteSet(S) /\ \A x \in S : f[x] \in Int

(* Among sets of finite sets there is one with the fewest elements.        *)
LEMMA SmallestSet ==
  ASSUME NEW T, T # {}, \A s \in T : IsFiniteSet(s)
  PROVE  \E s \in T : \A u \in T : ~(Cardinality(u) < Cardinality(s))
<1> DEFINE C == {Cardinality(s) : s \in T}
           R == OpToRel(<, Nat)
<1>1. C \subseteq Nat /\ C # {}
  BY FS_CardinalityType
<1>2. PICK n \in C : \A m \in C : ~(<<m, n>> \in R)
  <2>1. IsWellFoundedOn(R, Nat)
    BY Zenon, NatLessThanWellFounded
  <2> HIDE DEF R, C
  <2> QED BY Zenon, <1>1, <2>1, WFMin
<1>3. \A m \in C : ~(m < n)
  BY Zenon, <1>1, <1>2 DEF OpToRel
<1> QED BY <1>3

(* The chosen element and the rest of the set.                             *)
LEMMA ChosenFacts ==
  ASSUME NEW s, s # {}, IsFiniteSet(s)
  PROVE  /\ Chosen(s) \in s /\ s \ {Chosen(s)} \subseteq s
         /\ IsFiniteSet(s \ {Chosen(s)})
         /\ Cardinality(s) \in Nat /\ Cardinality(s) > 0
         /\ Cardinality(s \ {Chosen(s)}) = Cardinality(s) - 1
<1>1. Chosen(s) \in s
  BY DEF Chosen
<1>2. IsFiniteSet(s \ {Chosen(s)}) /\ Cardinality(s \ {Chosen(s)}) = Cardinality(s) - 1
  BY <1>1, FS_RemoveElement
<1>3. Cardinality(s) \in Nat /\ Cardinality(s) # 0
  BY FS_CardinalityType, FS_EmptySet
<1> QED BY <1>1, <1>2, <1>3

(* There is a table of the sums of all subsets.                            *)
LEMMA TableExists ==
  ASSUME NEW f, NEW S, Addable(f, S)
  PROVE  \E W \in [SUBSET S -> Int] : Sums(f, SUBSET S, W)
<1> DEFINE Upto(n) == {s \in SUBSET S : Cardinality(s) <= n}
           Good(n) == \E W \in [Upto(n) -> Int] : Sums(f, Upto(n), W)
<1>0. IsFiniteSet(S) /\ \A s \in SUBSET S : IsFiniteSet(s) /\ Cardinality(s) \in Nat /\ Cardinality(s) <= Cardinality(S)
  BY FS_Subset, FS_CardinalityType DEF Addable
<1>1. Good(0)
  <2> DEFINE W == [s \in Upto(0) |-> 0]
  <2>1. \A s \in Upto(0) : s = {}
    BY <1>0, FS_EmptySet
  <2>2. W \in [Upto(0) -> Int]
    OBVIOUS
  <2>3. Sums(f, Upto(0), W)
    BY <2>1 DEF Sums
  <2> QED BY Zenon, <2>2, <2>3
<1>2. ASSUME NEW n \in Nat, n # 0, Good(n - 1) PROVE Good(n)
  <2>1. PICK V \in [Upto(n - 1) -> Int] : Sums(f, Upto(n - 1), V)
    BY Zenon, <1>2
  <2> DEFINE W == [s \in Upto(n) |-> IF s \in Upto(n - 1) THEN V[s]
                                     ELSE f[Chosen(s)] + V[s \ {Chosen(s)}]]
  <2>2. ASSUME NEW s \in Upto(n), s # {}
        PROVE  Chosen(s) \in s /\ f[Chosen(s)] \in Int /\ s \ {Chosen(s)} \in Upto(n - 1)
    <3>1. /\ Chosen(s) \in s /\ s \ {Chosen(s)} \in SUBSET S /\ Cardinality(s) \in Nat
          /\ Cardinality(s \ {Chosen(s)}) = Cardinality(s) - 1
      BY <1>0, <2>2, ChosenFacts
    <3>2. Cardinality(s \ {Chosen(s)}) <= n - 1
      BY <3>1
    <3> QED BY <3>1, <3>2 DEF Addable
  <2>3. {} \in Upto(n - 1)
    <3>1. Cardinality({}) = 0 /\ {} \in SUBSET S
      BY FS_EmptySet
    <3>2. 0 <= n - 1
      BY <1>2
    <3> QED BY <3>1, <3>2
  <2>4. \A s \in Upto(n - 1) : s \in Upto(n)
    BY <1>0
  <2> HIDE DEF Upto
  <2>5. W \in [Upto(n) -> Int]
    <3>1. ASSUME NEW s \in Upto(n), s \notin Upto(n - 1)
          PROVE  f[Chosen(s)] + V[s \ {Chosen(s)}] \in Int
      <4>1. s # {}
        BY <2>3, <3>1
      <4>2. f[Chosen(s)] \in Int /\ V[s \ {Chosen(s)}] \in Int
        BY <2>2, <4>1
      <4> QED BY <4>2
    <3>2. ASSUME NEW s \in Upto(n), s \in Upto(n - 1) PROVE V[s] \in Int
      BY <3>2
    <3> QED BY <3>1, <3>2
  <2>6. ASSUME NEW s \in Upto(n)
        PROVE  W[s] = IF s = {} THEN 0 ELSE f[Chosen(s)] + W[s \ {Chosen(s)}]
    <3>1. CASE s = {}
      BY <2>1, <2>3, <3>1 DEF Sums
    <3>2. CASE s # {}
      <4>1. W[s \ {Chosen(s)}] = V[s \ {Chosen(s)}]
        BY <2>2, <2>4, <3>2
      <4>2. W[s] = f[Chosen(s)] + V[s \ {Chosen(s)}]
        BY <2>1, <3>2 DEF Sums
      <4> QED BY <3>2, <4>1, <4>2
    <3> QED BY <3>1, <3>2
  <2>7. Sums(f, Upto(n), W)
    BY Zenon, <2>6 DEF Sums
  <2> QED BY Zenon, <2>5, <2>7
<1> HIDE DEF Good
<1>3. ASSUME NEW n \in Nat PROVE Good(n)
  <2> SUFFICES ASSUME ~Good(n) PROVE FALSE
    OBVIOUS
  <2> DEFINE T == {m \in Nat : ~Good(m)}
             R == OpToRel(<, Nat)
  <2>1. T \subseteq Nat /\ T # {}
    OBVIOUS
  <2>2. PICK m \in T : \A k \in T : ~(<<k, m>> \in R)
    <3>1. IsWellFoundedOn(R, Nat)
      BY Zenon, NatLessThanWellFounded
    <3> HIDE DEF R, T
    <3> QED BY Zenon, <2>1, <3>1, WFMin
  <2>3. \A k \in T : ~(k < m)
    BY Zenon, <2>1, <2>2 DEF OpToRel
  <2>4. m # 0
    BY Zenon, <1>1, <2>2
  <2>5. m \in Nat /\ m - 1 \in Nat /\ m - 1 < m
    <3>1. m \in Nat
      BY Zenon, <2>1, <2>2
    <3> QED BY <2>4, <3>1
  <2>6. Good(m - 1)
    BY <2>3, <2>5
  <2> QED BY Zenon, <1>2, <2>2, <2>4, <2>6
<1>4. Good(Cardinality(S))
  BY <1>0, <1>3
<1>5. Upto(Cardinality(S)) = SUBSET S
  BY <1>0
<1> HIDE DEF Upto
<1> QED BY <1>4, <1>5 DEF Good

(* Two tables give the same sum of a set on which the values agree.        *)
LEMMA TablesAgree ==
  ASSUME NEW f, NEW g, NEW U, IsFiniteSet(U), \A x \in U : f[x] = g[x],
         NEW V, NEW W, Sums(f, SUBSET U, V), Sums(g, SUBSET U, W)
  PROVE  V[U] = W[U]
<1> SUFFICES ASSUME V[U] # W[U] PROVE FALSE
  OBVIOUS
<1> DEFINE T == {s \in SUBSET U : V[s] # W[s]}
<1>1. T # {} /\ \A s \in T : IsFiniteSet(s)
  BY FS_Subset
<1>2. PICK s \in T : \A u \in T : ~(Cardinality(u) < Cardinality(s))
  <2> HIDE DEF T
  <2> QED BY Zenon, <1>1, SmallestSet
<1>3. s # {}
  BY Zenon DEF Sums
<1>4. /\ Chosen(s) \in s /\ s \ {Chosen(s)} \subseteq s
      /\ Cardinality(s) \in Nat /\ Cardinality(s \ {Chosen(s)}) = Cardinality(s) - 1
  BY Zenon, <1>1, <1>3, ChosenFacts
<1>5. Cardinality(s \ {Chosen(s)}) < Cardinality(s)
  BY <1>4
<1>6. V[s \ {Chosen(s)}] = W[s \ {Chosen(s)}] /\ f[Chosen(s)] = g[Chosen(s)]
  BY <1>2, <1>4, <1>5
<1> QED BY Zenon, <1>3, <1>6 DEF Sums

(* The table of the fold is such a table.                                  *)
LEMMA TableRight ==
  ASSUME NEW f, NEW S, Addable(f, S)
  PROVE  /\ Sums(f, SUBSET S, SumTable(f, S))
         /\ \A s \in SUBSET S : SumTable(f, S)[s] \in Int
<1> DEFINE T == SumTable(f, S)
<1>1. PICK W \in [SUBSET S -> Int] : Sums(f, SUBSET S, W)
  BY Zenon, TableExists
<1>2. W = SumBody(f, S, W)
  <2>1. W = [s \in SUBSET S |-> W[s]]
    OBVIOUS
  <2> QED BY Zenon, <1>1, <2>1 DEF Sums, SumBody
<1>3. T = SumBody(f, S, T)
  BY Zenon, <1>2 DEF SumTable
<1> HIDE DEF T
<1>4. Sums(f, SUBSET S, T)
  <2> SUFFICES ASSUME NEW s \in SUBSET S
               PROVE  T[s] = IF s = {} THEN 0 ELSE f[Chosen(s)] + T[s \ {Chosen(s)}]
    BY Zenon DEF Sums
  <2>1. SumBody(f, S, T)[s] = IF s = {} THEN 0 ELSE f[Chosen(s)] + T[s \ {Chosen(s)}]
    BY DEF SumBody
  <2> QED BY Zenon, <1>3, <2>1
<1>5. ASSUME NEW s \in SUBSET S PROVE T[s] \in Int
  <2>1. Sums(f, SUBSET s, T) /\ Sums(f, SUBSET s, W)
    BY Zenon, <1>1, <1>4 DEF Sums
  <2>2. IsFiniteSet(s)
    BY FS_Subset DEF Addable
  <2>3. T[s] = W[s]
    BY <2>1, <2>2, TablesAgree
  <2> QED BY <2>3
<1> QED BY <1>4, <1>5 DEF T

(* Any element may be taken first.                                         *)
LEMMA AnyFirst ==
  ASSUME NEW f, NEW S, Addable(f, S), NEW W, Sums(f, SUBSET S, W),
         \A s \in SUBSET S : W[s] \in Int,
         NEW x \in S
  PROVE  W[S] = f[x] + W[S \ {x}]
<1> SUFFICES ASSUME W[S] # f[x] + W[S \ {x}] PROVE FALSE
  OBVIOUS
<1> DEFINE T == {s \in SUBSET S : \E y \in s : W[s] # f[y] + W[s \ {y}]}
<1>1. T # {} /\ \A s \in T : IsFiniteSet(s)
  <2>1. S \in T
    OBVIOUS
  <2> QED BY <2>1, FS_Subset DEF Addable
<1>2. PICK s \in T : \A u \in T : ~(Cardinality(u) < Cardinality(s))
  <2> HIDE DEF T
  <2> QED BY Zenon, <1>1, SmallestSet
<1>3. PICK y \in s : W[s] # f[y] + W[s \ {y}]
  BY <1>2
<1> DEFINE c == Chosen(s)
<1>4. c \in s /\ Cardinality(s) \in Nat /\ IsFiniteSet(s) /\ s \in SUBSET S
  BY Zenon, <1>1, <1>3, ChosenFacts
<1>5. W[s] = f[c] + W[s \ {c}]
  BY <1>3 DEF Sums
<1> HIDE DEF c
<1>6. c # y
  BY Zenon, <1>3, <1>5
<1>7. /\ Cardinality(s \ {c}) < Cardinality(s) /\ Cardinality(s \ {y}) < Cardinality(s)
  <2>1. Cardinality(s \ {c}) = Cardinality(s) - 1 /\ Cardinality(s \ {y}) = Cardinality(s) - 1
    BY Zenon, <1>3, <1>4, FS_RemoveElement
  <2> QED BY <1>4, <2>1
<1>8. s \ {c} \notin T /\ s \ {y} \notin T
  BY Zenon, <1>2, <1>7
<1>9. W[s \ {c}] = f[y] + W[(s \ {c}) \ {y}]
  BY Zenon, <1>3, <1>4, <1>6, <1>8
<1>10. W[s \ {y}] = f[c] + W[(s \ {y}) \ {c}]
  BY Zenon, <1>3, <1>4, <1>6, <1>8
<1>11. (s \ {c}) \ {y} = (s \ {y}) \ {c}
  OBVIOUS
<1>12. f[c] \in Int /\ f[y] \in Int /\ W[(s \ {y}) \ {c}] \in Int
  BY <1>3, <1>4 DEF Addable
<1> DEFINE A == W[(s \ {y}) \ {c}]
<1>13. /\ W[s] = f[c] + (f[y] + A) /\ f[y] + W[s \ {y}] = f[y] + (f[c] + A)
       /\ A \in Int
  BY Zenon, <1>5, <1>9, <1>10, <1>11, <1>12
<1> HIDE DEF A
<1>14. f[c] + (f[y] + A) = f[y] + (f[c] + A)
  BY <1>12, <1>13
<1> QED BY Zenon, <1>3, <1>13, <1>14

(* The empty sum.                                                          *)
LEMMA TotalEmpty ==
  ASSUME NEW f
  PROVE  Total(f, {}) = 0
<1>1. Addable(f, {})
  BY FS_EmptySet DEF Addable
<1> QED BY <1>1, TableRight DEF Total, Sums

(* A sum is a number and depends on the values only.                       *)
LEMMA TotalSame ==
  ASSUME NEW f, NEW g, NEW S, Addable(f, S), \A x \in S : f[x] = g[x]
  PROVE  Total(f, S) = Total(g, S) /\ Total(f, S) \in Int
<1>1. Addable(g, S) /\ IsFiniteSet(S)
  BY DEF Addable
<1>2. Sums(f, SUBSET S, SumTable(f, S)) /\ Sums(g, SUBSET S, SumTable(g, S))
      /\ SumTable(f, S)[S] \in Int
  BY Zenon, <1>1, TableRight
<1>3. SumTable(f, S)[S] = SumTable(g, S)[S]
  BY <1>1, <1>2, TablesAgree
<1> QED BY <1>2, <1>3 DEF Total

(* An element and the rest.                                                *)
LEMMA TotalSplit ==
  ASSUME NEW f, NEW S, Addable(f, S), NEW x \in S
  PROVE  /\ Addable(f, S \ {x}) /\ f[x] \in Int /\ Total(f, S \ {x}) \in Int
         /\ Total(f, S) = f[x] + Total(f, S \ {x})
<1> DEFINE R == S \ {x}
           V == SumTable(f, S)
           W == SumTable(f, R)
<1>1. Addable(f, R) /\ f[x] \in Int /\ IsFiniteSet(R)
  BY FS_RemoveElement DEF Addable
<1>2. Sums(f, SUBSET S, V) /\ \A s \in SUBSET S : V[s] \in Int
  BY Zenon, TableRight
<1>3. Sums(f, SUBSET R, W) /\ W[R] \in Int
  BY Zenon, <1>1, TableRight
<1>4. Sums(f, SUBSET R, V)
  BY <1>2 DEF Sums
<1> HIDE DEF V, W
<1>5. V[S] = f[x] + V[R]
  BY <1>2, AnyFirst
<1> HIDE DEF R
<1>6. V[R] = W[R]
  BY <1>1, <1>3, <1>4, TablesAgree
<1> QED BY <1>1, <1>3, <1>5, <1>6 DEF Total, V, W, R

(* A value that changes changes the sum by as much.                        *)
LEMMA TotalChange ==
  ASSUME NEW f, NEW g, NEW S, Addable(f, S), NEW x \in S, g[x] \in Int,
         \A y \in S : y # x => g[y] = f[y]
  PROVE  /\ Addable(g, S) /\ Total(f, S) \in Int /\ Total(g, S) \in Int
         /\ Total(g, S) = Total(f, S) + (g[x] - f[x])
<1>1. Addable(g, S)
  BY DEF Addable
<1>2. /\ Addable(f, S \ {x}) /\ f[x] \in Int /\ Total(f, S \ {x}) \in Int
      /\ Total(f, S) = f[x] + Total(f, S \ {x})
  BY TotalSplit
<1>3. Total(g, S) = g[x] + Total(g, S \ {x})
  BY <1>1, TotalSplit
<1>4. Total(f, S \ {x}) = Total(g, S \ {x})
  <2>1. \A y \in S \ {x} : f[y] = g[y]
    OBVIOUS
  <2> QED BY ZenonT(40), <1>2, <2>1, TotalSame
<1> QED BY <1>1, <1>2, <1>3, <1>4

(* The sum of values up to m over n elements is at most n * m.             *)
LEMMA TotalBound ==
  ASSUME NEW f, NEW S, IsFiniteSet(S), NEW m \in Nat, \A x \in S : f[x] \in 0..m
  PROVE  Total(f, S) \in 0..(Cardinality(S) * m)
<1> DEFINE Over(s) == Total(f, s) \notin 0..(Cardinality(s) * m)
           T == {s \in SUBSET S : Over(s)}
<1> SUFFICES ASSUME Over(S) PROVE FALSE
  OBVIOUS
<1>1. T # {} /\ \A s \in T : IsFiniteSet(s)
  BY FS_Subset
<1>2. PICK s \in T : \A u \in T : ~(Cardinality(u) < Cardinality(s))
  <2> HIDE DEF T
  <2> QED BY Zenon, <1>1, SmallestSet
<1>3. s # {}
  <2> SUFFICES ASSUME s = {} PROVE FALSE
    OBVIOUS
  <2>1. Total(f, s) = 0 /\ Cardinality(s) = 0
    BY TotalEmpty, FS_EmptySet
  <2>2. 0 \in 0..(0 * m)
    OBVIOUS
  <2> QED BY <1>2, <2>1, <2>2
<1>4. PICK x \in s : TRUE
  BY <1>3
<1> DEFINE r == s \ {x}
<1>5. IsFiniteSet(s) /\ IsFiniteSet(r) /\ Cardinality(r) = Cardinality(s) - 1
      /\ Cardinality(s) \in Nat /\ Cardinality(r) \in Nat
  BY <1>1, <1>4, FS_RemoveElement, FS_CardinalityType
<1>6. Addable(f, s) /\ f[x] \in 0..m
  BY <1>2, <1>4, <1>5 DEF Addable
<1>7. Total(f, s) = f[x] + Total(f, r)
  BY <1>4, <1>6, TotalSplit
<1>8. ~Over(r)
  <2>1. Cardinality(r) < Cardinality(s) /\ r \in SUBSET S
    BY <1>2, <1>5
  <2> QED BY <1>2, <2>1
<1> HIDE DEF r
<1> DEFINE N == Cardinality(r)
           P == N * m
<1>9. (N + 1) * m = P + m /\ P \in Nat /\ Cardinality(s) = N + 1
  BY <1>5
<1>10. Total(f, r) \in 0..P
  BY <1>8
<1> HIDE DEF P, N
<1>11. f[x] + Total(f, r) \in 0..(P + m)
  BY <1>6, <1>9, <1>10
<1> QED BY <1>2, <1>7, <1>9, <1>11

-----------------------------------------------------------------------------
(* The bytes counted for a block of n bytes.                               *)
SizeOf(n) == RoundUp(n) + PREFIX_SIZE
Fits(m) == /\ m \in Nat /\ Cardinality(Blocks) * m < SizeT
           /\ \A n \in Sizes : SizeOf(n) <= m
Owed(t) == Total(todo[t], DOMAIN todo[t])
Counted(b) == IF b \in InUse THEN SizeOf(header[b]) ELSE 0
ZmallocTypes ==
  /\ used_memory \in Nat
  /\ header \in [Blocks -> Sizes \cup {None}]
  /\ using \in [Allocators -> Blocks \cup {None}]
  /\ frees \in [Allocators -> BOOLEAN]
  /\ DOMAIN todo = Allocators /\ DOMAIN loaded = Allocators

(* What a call still has to do, by what it does with a block of n bytes.   *)
Freeing(q, n) == q = << >> \/ q = <<-SizeOf(n)>>
Filling(q, n) ==
  \/ q = << >> \/ q = <<SizeOf(n)>> \/ q = <<RoundUp(n)>>
  \/ \E o \in Sizes : q = <<-RoundUp(o), RoundUp(n)>>
CallOf(t) ==
  /\ using[t] = None => todo[t] = << >> /\ frees[t] = FALSE
  /\ using[t] # None => /\ header[using[t]] \in Sizes
                        /\ frees[t] = TRUE => Freeing(todo[t], header[using[t]])
                        /\ frees[t] = FALSE => Filling(todo[t], header[using[t]])
  /\ loaded[t] # None =>
       zmalloc_thread_safe = FALSE /\ loaded[t] = used_memory /\ todo[t] # << >>
OneUser == \A t, u \in Allocators : using[t] = using[u] /\ using[t] # None => t = u
Solo ==
  /\ started \subseteq Allocators /\ zmalloc_thread_safe \in BOOLEAN
  /\ zmalloc_thread_safe = FALSE =>
       started = {MainThread} /\ \A t \in Allocators : t # MainThread => using[t] = None

(* What used_memory holds of each block.                                   *)
Share(c) ==
  /\ c \in [Blocks -> Int]
  /\ used_memory = Total(c, Blocks)
  /\ used_memory + Total([t \in Allocators |-> Owed(t)], Allocators)
       = Total([b \in Blocks |-> Counted(b)], Blocks)
  /\ \A t \in Allocators, b \in Blocks : using[t] = b => c[b] = Counted(b) - Owed(t)
  /\ \A b \in Blocks : (\A t \in Allocators : using[t] # b) => c[b] = Counted(b)
Calls == /\ ZmallocTypes /\ OneUser /\ Solo
         /\ \A t \in Allocators : CallOf(t)
Shared == \E c : Share(c)
(* What the calls in progress say of the sums.                             *)
Numbers ==
  /\ \A u \in Allocators : Owed(u) \in Int
  /\ \A u \in Allocators : using[u] = None => Owed(u) = 0
  /\ \A x \in Blocks : Counted(x) \in Int
  /\ \A u \in Allocators, x \in Blocks : using[u] = x =>
       Counted(x) = IF frees[u] = TRUE THEN 0 ELSE SizeOf(header[x])
  /\ \A x \in Blocks : (\A u \in Allocators : using[u] # x) =>
       Counted(x) = IF header[x] = None THEN 0 ELSE SizeOf(header[x])
  /\ \A m, u, x : Fits(m) /\ u \in Allocators /\ x \in Blocks /\ using[u] = x =>
       Counted(x) - Owed(u) \in 0..m

(* Rounding up: the prefix is a whole word.                                *)
LEMMA RoundUpFacts ==
  ASSUME NEW n \in Nat
  PROVE  RoundUp(n) \in Nat /\ RoundUp(n + PREFIX_SIZE) = SizeOf(n) /\ SizeOf(n) \in Nat
         /\ PREFIX_SIZE \in Nat /\ SizeOf(n) = RoundUp(n) + PREFIX_SIZE
<1>1. Word \in Nat /\ Word > 0
  BY ZmallocAssumption
<1> DEFINE k == n + Word
           q == n \div Word
           r == n % Word
           p == k \div Word
           s == k % Word
<1>2. /\ q \in Int /\ r \in 0..(Word - 1) /\ n = Word * q + r
      /\ p \in Int /\ s \in 0..(Word - 1) /\ k = Word * p + s
  BY <1>1
<1>3. k = n + Word /\ k \in Nat
  BY <1>1
<1>4. s = r
  <2> HIDE DEF k, q, r, p, s
  <2> DEFINE d == p - (q + 1)
  <2>1. Word * d = r - s /\ d \in Int
    <3>1. Word * d = Word * p - (Word * q + Word)
      BY <1>1, <1>2
    <3>2. Word * p \in Int /\ Word * q \in Int
      BY <1>1, <1>2
    <3> QED BY <1>1, <1>2, <1>3, <3>1, <3>2
  <2> HIDE DEF d
  <2>2. CASE d >= 1
    <3>1. Word * d >= Word
      BY <1>1, <2>1, <2>2
    <3> QED BY <1>1, <1>2, <2>1, <3>1
  <2>3. CASE d <= -1
    <3>1. Word * d <= -Word
      BY <1>1, <2>1, <2>3
    <3> QED BY <1>1, <1>2, <2>1, <3>1
  <2>4. CASE d = 0
    <3>1. Word * d = 0
      BY <1>1, <2>4
    <3> QED BY <1>2, <2>1, <3>1
  <2> QED BY <2>1, <2>2, <2>3, <2>4
<1>5. /\ RoundUp(n) = IF r = 0 THEN n ELSE n + (Word - r)
      /\ RoundUp(n + PREFIX_SIZE) = IF s = 0 THEN k ELSE k + (Word - s)
  BY DEF RoundUp, PREFIX_SIZE
<1> HIDE DEF k, q, r, p, s
<1> QED BY <1>1, <1>2, <1>3, <1>4, <1>5 DEF SizeOf, PREFIX_SIZE

(* Sums of the updates a call makes: there are at most two.                *)
LEMMA SumOfUpdates ==
  ASSUME NEW x \in Int, NEW y \in Int
  PROVE  /\ Total(<< >>, DOMAIN << >>) = 0 /\ Total(<<x>>, DOMAIN <<x>>) = x
         /\ Total(<<x, y>>, DOMAIN <<x, y>>) = x + y
<1>1. Total(<< >>, DOMAIN << >>) = 0
  <2>1. DOMAIN << >> = {}
    OBVIOUS
  <2> QED BY <2>1, TotalEmpty
<1>2. IsFiniteSet({1}) /\ IsFiniteSet({1, 2})
  <2>1. IsFiniteSet({1})
    BY Zenon, FS_Singleton
  <2>2. IsFiniteSet({1} \cup {2})
    BY <2>1, FS_AddElement
  <2>3. {1, 2} = {1} \cup {2}
    OBVIOUS
  <2> QED BY <2>1, <2>2, <2>3
<1>3. Total(<<x>>, {1}) = x
  <2>1. Addable(<<x>>, {1}) /\ {1} \ {1} = {} /\ <<x>>[1] = x
    BY <1>2 DEF Addable
  <2>2. Total(<<x>>, {1}) = <<x>>[1] + Total(<<x>>, {1} \ {1})
    BY <2>1, TotalSplit
  <2> QED BY <2>1, <2>2, TotalEmpty
<1>4. Total(<<x, y>>, {1, 2}) = x + y
  <2>1. /\ Addable(<<x, y>>, {1, 2}) /\ {1, 2} \ {1} = {2} /\ {2} \ {2} = {}
        /\ <<x, y>>[1] = x /\ <<x, y>>[2] = y
    BY <1>2 DEF Addable
  <2>2. Total(<<x, y>>, {1, 2}) = <<x, y>>[1] + Total(<<x, y>>, {1, 2} \ {1})
        /\ Addable(<<x, y>>, {1, 2} \ {1})
    BY Zenon, <2>1, TotalSplit
  <2>3. Total(<<x, y>>, {2}) = <<x, y>>[2] + Total(<<x, y>>, {2} \ {2})
    BY <2>1, <2>2, TotalSplit
  <2> QED BY <2>1, <2>2, <2>3, TotalEmpty
<1>5. DOMAIN <<x>> = {1} /\ DOMAIN <<x, y>> = {1, 2}
  OBVIOUS
<1> QED BY <1>1, <1>3, <1>4, <1>5

(* The updates of a call, one after the other, never take more from a      *)
(* block's share than is there, nor add more than fits.                    *)
LEMMA UpdateFacts ==
  ASSUME NEW n \in Sizes, NEW m, Fits(m), NEW q, NEW k,
         \/ Freeing(q, n) /\ k = 0
         \/ Filling(q, n) /\ k = SizeOf(n)
  PROVE  /\ Total(q, DOMAIN q) \in Int /\ k - Total(q, DOMAIN q) \in 0..m
         /\ q # << >> =>
              /\ Head(q) \in Int
              /\ Total(Tail(q), DOMAIN Tail(q)) \in Int
              /\ Total(Tail(q), DOMAIN Tail(q)) = Total(q, DOMAIN q) - Head(q)
              /\ k - Total(Tail(q), DOMAIN Tail(q)) \in 0..m
              /\ (Freeing(q, n) => Freeing(Tail(q), n))
              /\ (Filling(q, n) => Filling(Tail(q), n))
<1>1. n \in Nat /\ RoundUp(n) \in Nat /\ PREFIX_SIZE \in Nat
      /\ SizeOf(n) \in Nat /\ SizeOf(n) = RoundUp(n) + PREFIX_SIZE /\ SizeOf(n) <= m /\ m \in Nat
  BY ZmallocAssumption, RoundUpFacts DEF Fits
<1>2. Total(<< >>, DOMAIN << >>) = 0
  <2>1. 0 \in Int
    OBVIOUS
  <2> QED BY Zenon, <2>1, SumOfUpdates
<1>3. ASSUME q = << >>
      PROVE  Total(q, DOMAIN q) \in Int /\ k - Total(q, DOMAIN q) \in 0..m
  BY <1>1, <1>2, <1>3
<1>4. ASSUME NEW x \in Int, q = <<x>>, k - x \in 0..m
      PROVE  /\ Total(q, DOMAIN q) = x /\ Head(q) = x /\ Tail(q) = << >>
             /\ k \in 0..m
  <2>1. Total(<<x>>, DOMAIN <<x>>) = x
    BY Zenon, SumOfUpdates
  <2>2. Head(<<x>>) = x /\ Tail(<<x>>) = << >>
    OBVIOUS
  <2>3. k \in 0..m
    BY <1>1
  <2> QED BY <1>4, <2>1, <2>2, <2>3
<1>5. ASSUME NEW x \in Int, q = <<x>>, k - x \in 0..m
      PROVE  /\ Total(q, DOMAIN q) \in Int /\ k - Total(q, DOMAIN q) \in 0..m
             /\ Head(q) \in Int
             /\ Total(Tail(q), DOMAIN Tail(q)) \in Int
             /\ Total(Tail(q), DOMAIN Tail(q)) = Total(q, DOMAIN q) - Head(q)
             /\ k - Total(Tail(q), DOMAIN Tail(q)) \in 0..m
             /\ Freeing(Tail(q), n) /\ Filling(Tail(q), n)
  <2>1. /\ Total(q, DOMAIN q) = x /\ Head(q) = x /\ Tail(q) = << >>
        /\ k \in 0..m
    BY <1>4, <1>5
  <2>2. Total(Tail(q), DOMAIN Tail(q)) = 0
    BY Zenon, <1>2, <2>1
  <2>3. Freeing(Tail(q), n) /\ Filling(Tail(q), n)
    BY <2>1 DEF Freeing, Filling
  <2> QED BY <1>1, <1>5, <2>1, <2>2, <2>3
<1>6. CASE Freeing(q, n) /\ k = 0
  <2>1. CASE q = << >>
    BY <1>3, <2>1
  <2>2. CASE q # << >>
    <3>1. q = <<-SizeOf(n)>> /\ -SizeOf(n) \in Int /\ k - (-SizeOf(n)) \in 0..m
      BY <1>1, <1>6, <2>2 DEF Freeing
    <3> QED BY Zenon, <1>5, <3>1
  <2> QED BY <2>1, <2>2
<1>7. CASE Filling(q, n) /\ k = SizeOf(n)
  <2>1. CASE q = << >>
    BY <1>3, <2>1
  <2>2. CASE q = <<SizeOf(n)>>
    <3>1. SizeOf(n) \in Int /\ k - SizeOf(n) \in 0..m
      BY <1>1, <1>7
    <3> QED BY <1>5, <2>2, <3>1
  <2>3. CASE q = <<RoundUp(n)>>
    <3>1. RoundUp(n) \in Int /\ k - RoundUp(n) \in 0..m
      BY <1>1, <1>7
    <3> QED BY <1>5, <2>3, <3>1
  <2>4. ASSUME NEW o \in Sizes, q = <<-RoundUp(o), RoundUp(n)>>
        PROVE  /\ Total(q, DOMAIN q) \in Int /\ k - Total(q, DOMAIN q) \in 0..m
               /\ Head(q) \in Int
               /\ Total(Tail(q), DOMAIN Tail(q)) \in Int
               /\ Total(Tail(q), DOMAIN Tail(q)) = Total(q, DOMAIN q) - Head(q)
               /\ k - Total(Tail(q), DOMAIN Tail(q)) \in 0..m
               /\ Filling(Tail(q), n) /\ ~Freeing(q, n)
    <3> DEFINE x == RoundUp(o)
               y == RoundUp(n)
    <3>1. x \in Nat /\ y \in Nat /\ x + PREFIX_SIZE <= m
      BY <1>1, ZmallocAssumption, RoundUpFacts DEF Fits
    <3>2. q = <<-x, y>> /\ -x \in Int
      BY <2>4, <3>1
    <3>3. Filling(<<y>>, n)
      BY DEF Filling
    <3>4. k = y + PREFIX_SIZE
      BY <1>1, <1>7
    <3> HIDE DEF x, y
    <3>5. Head(q) = -x /\ Tail(q) = <<y>> /\ ~Freeing(q, n)
      BY <3>2 DEF Freeing
    <3>6. Total(q, DOMAIN q) = (-x) + y
      <4>1. y \in Int
        BY <3>1
      <4> QED BY Zenon, <3>2, <4>1, SumOfUpdates
    <3>7. Total(<<y>>, DOMAIN <<y>>) = y
      <4>1. y \in Int
        BY <3>1
      <4> QED BY Zenon, <4>1, SumOfUpdates
    <3>8. /\ k - ((-x) + y) \in 0..m /\ k - y \in 0..m /\ y = ((-x) + y) - (-x)
          /\ (-x) + y \in Int /\ y \in Int
      BY <1>1, <3>1, <3>4
    <3> QED BY <3>2, <3>3, <3>5, <3>6, <3>7, <3>8
  <2> QED BY Zenon, <1>7, <2>1, <2>2, <2>3, <2>4 DEF Filling
<1> QED BY <1>6, <1>7

(* A change of what is counted of one block.                               *)
LEMMA CountedChange ==
  ASSUME NEW b \in Blocks, \A x \in Blocks : Counted(x) \in Int, Counted(b)' \in Int,
         \A x \in Blocks : x # b => Counted(x)' = Counted(x)
  PROVE  /\ Total([x \in Blocks |-> Counted(x)'], Blocks)
              = Total([x \in Blocks |-> Counted(x)], Blocks) + (Counted(b)' - Counted(b))
         /\ Total([x \in Blocks |-> Counted(x)], Blocks) \in Int
<1> DEFINE k == [x \in Blocks |-> Counted(x)]
           l == [x \in Blocks |-> Counted(x)']
<1>1. /\ Addable(k, Blocks) /\ l[b] \in Int /\ l[b] = Counted(b)' /\ k[b] = Counted(b)
      /\ \A x \in Blocks : x # b => l[x] = k[x]
  BY ZmallocAssumption DEF Addable
<1> HIDE DEF k, l
<1>2. Total(l, Blocks) = Total(k, Blocks) + (l[b] - k[b]) /\ Total(k, Blocks) \in Int
  BY Zenon, <1>1, TotalChange
<1>3. Total(l, Blocks) = Total(k, Blocks) + (Counted(b)' - Counted(b)) /\ Total(k, Blocks) \in Int
  BY <1>1, <1>2
<1> QED BY <1>3 DEF k, l

(* A change of the share of one block.                                     *)
LEMMA ShareChange ==
  ASSUME NEW c, c \in [Blocks -> Int], NEW b \in Blocks, NEW v \in Int
  PROVE  Total([c EXCEPT ![b] = v], Blocks) = Total(c, Blocks) + (v - c[b])
<1> DEFINE e == [c EXCEPT ![b] = v]
<1>1. /\ Addable(c, Blocks) /\ e[b] \in Int /\ e[b] = v
      /\ \A x \in Blocks : x # b => e[x] = c[x]
  BY ZmallocAssumption DEF Addable
<1> HIDE DEF e
<1>2. Total(e, Blocks) = Total(c, Blocks) + (e[b] - c[b])
  BY <1>1, TotalChange
<1>3. Total(e, Blocks) = Total(c, Blocks) + (v - c[b])
  BY <1>1, <1>2
<1> QED BY <1>3 DEF e

(* A step of thread t on block b that gives the block the share v.         *)
LEMMA ShareMove ==
  ASSUME NEW c, Share(c), NEW t \in Allocators, NEW b \in Blocks, NEW v \in Int,
         \A u \in Allocators : Owed(u) \in Int, \A x \in Blocks : Counted(x) \in Int,
         Owed(t)' \in Int, Counted(b)' \in Int,
         \A u \in Allocators : u # t => using'[u] = using[u] /\ Owed(u)' = Owed(u) /\ using[u] # b,
         \A x \in Blocks : x # b => Counted(x)' = Counted(x),
         using[t] = b \/ (using[t] = None /\ Owed(t) = 0),
         using'[t] = b \/ (using'[t] = None /\ Owed(t)' = 0),
         v = Counted(b)' - Owed(t)',
         used_memory \in Int, used_memory' = used_memory + (v - c[b])
  PROVE  Share([c EXCEPT ![b] = v])'
<1> DEFINE e == [c EXCEPT ![b] = v]
           o == [u \in Allocators |-> Owed(u)]
           p == [u \in Allocators |-> Owed(u)']
           k == [x \in Blocks |-> Counted(x)]
           l == [x \in Blocks |-> Counted(x)']
<1>0. None \notin Blocks /\ IsFiniteSet(Blocks) /\ IsFiniteSet(Allocators)
  BY SpaceAssumption, ZmallocAssumption
<1>1. /\ c \in [Blocks -> Int] /\ used_memory = Total(c, Blocks)
      /\ used_memory + Total(o, Allocators) = Total(k, Blocks)
      /\ \A u \in Allocators, x \in Blocks : using[u] = x => c[x] = Counted(x) - Owed(u)
      /\ \A x \in Blocks : (\A u \in Allocators : using[u] # x) => c[x] = Counted(x)
  BY DEF Share
<1>2. c[b] = Counted(b) - Owed(t)
  <2>1. CASE using[t] = b
    BY <1>0, <1>1, <2>1
  <2>2. CASE using[t] = None /\ Owed(t) = 0
    <3>1. c[b] = Counted(b)
      BY <1>0, <1>1, <2>2
    <3> QED BY <2>2, <3>1
  <2> QED BY <2>1, <2>2
<1>3. e \in [Blocks -> Int] /\ e[b] = v /\ \A x \in Blocks : x # b => e[x] = c[x]
  BY <1>1
<1> HIDE DEF e
<1>4. Total(e, Blocks) = Total(c, Blocks) + (v - c[b])
  BY Zenon, <1>1, ShareChange DEF e
<1>5. Total(p, Allocators) = Total(o, Allocators) + (Owed(t)' - Owed(t))
      /\ Total(o, Allocators) \in Int
  <2>1. Addable(o, Allocators) /\ p[t] \in Int /\ p[t] = Owed(t)' /\ o[t] = Owed(t)
        /\ \A u \in Allocators : u # t => p[u] = o[u]
    BY <1>0 DEF Addable
  <2> HIDE DEF o, p
  <2>2. Total(p, Allocators) = Total(o, Allocators) + (p[t] - o[t]) /\ Total(o, Allocators) \in Int
    BY SMTT(30), <2>1, TotalChange
  <2> QED BY <2>1, <2>2
<1>6. Total(l, Blocks) = Total(k, Blocks) + (Counted(b)' - Counted(b))
      /\ Total(k, Blocks) \in Int
  BY Zenon, CountedChange
<1>7. used_memory' + Total(p, Allocators) = Total(l, Blocks)
  <2> DEFINE a == Total(o, Allocators)
             d == Owed(t)
             f == Owed(t)'
             g == Counted(b)
             h == Counted(b)'
  <2>1. a \in Int /\ d \in Int /\ f \in Int /\ g \in Int /\ h \in Int
    BY <1>5
  <2>2. used_memory' = used_memory + ((h - f) - (g - d))
    BY <1>2
  <2>3. Total(p, Allocators) = a + (f - d) /\ Total(l, Blocks) = (used_memory + a) + (h - g)
    BY <1>1, <1>5, <1>6
  <2> HIDE DEF a, d, f, g, h, o, p, k, l
  <2> QED BY <2>1, <2>2, <2>3
<1>8. ASSUME NEW u \in Allocators, NEW x \in Blocks, using'[u] = x
      PROVE  e[x] = Counted(x)' - Owed(u)'
  <2>1. CASE u = t
    BY <1>0, <1>3, <1>8, <2>1
  <2>2. CASE u # t
    <3>1. using[u] = x /\ Owed(u)' = Owed(u) /\ x # b /\ Counted(x)' = Counted(x)
      BY <1>8, <2>2
    <3> QED BY <1>1, <1>3, <3>1
  <2> QED BY <2>1, <2>2
<1>9. ASSUME NEW x \in Blocks, \A u \in Allocators : using'[u] # x PROVE e[x] = Counted(x)'
  <2>1. CASE x = b
    <3>1. Owed(t)' = 0
      BY <1>9, <2>1
    <3> QED BY <1>3, <2>1, <3>1
  <2>2. CASE x # b
    <3>1. \A u \in Allocators : using[u] # x
      BY <1>0, <1>9, <2>2
    <3> QED BY <1>1, <1>3, <2>2, <3>1
  <2> QED BY <2>1, <2>2
<1>10. Share(e)'
  BY <1>1, <1>3, <1>4, <1>7, <1>8, <1>9 DEF Share
<1> QED BY <1>10 DEF e

(* The largest block fits as often as there are blocks, and None is        *)
(* neither a block nor a size.                                             *)
LEMMA SomeFit ==
  /\ \E m : Fits(m)
  /\ None \notin Blocks /\ None \notin Sizes
BY SpaceAssumption, ZmallocAssumption DEF Fits, SizeOf, None

(* The shape of the calls in progress gives what is counted of each block  *)
(* and what each thread still adds.                                        *)
LEMMA CallNumbers ==
  Calls => Numbers
<1> SUFFICES ASSUME Calls PROVE Numbers
  OBVIOUS
<1>0. /\ None \notin Blocks /\ None \notin Sizes
      /\ header \in [Blocks -> Sizes \cup {None}]
      /\ using \in [Allocators -> Blocks \cup {None}]
      /\ frees \in [Allocators -> BOOLEAN]
      /\ \A u \in Allocators : CallOf(u)
      /\ OneUser
  BY SomeFit DEF Calls, ZmallocTypes
<1>1. ASSUME NEW n \in Sizes PROVE SizeOf(n) \in Int
  BY RoundUpFacts, ZmallocAssumption
<1>2. ASSUME NEW x \in Blocks PROVE Counted(x) \in Int
  BY <1>0, <1>1 DEF Counted, InUse
<1>3. ASSUME NEW u \in Allocators, NEW x \in Blocks, using[u] = x
      PROVE  Counted(x) = IF frees[u] = TRUE THEN 0 ELSE SizeOf(header[x])
  <2>1. header[x] \in Sizes /\ header[x] # None
    BY <1>0, <1>3 DEF CallOf
  <2>2. CASE frees[u] = TRUE
    <3>1. x \notin InUse
      BY <1>3, <2>2 DEF InUse
    <3> QED BY <2>2, <3>1 DEF Counted
  <2>3. CASE frees[u] = FALSE
    <3>1. \A w \in Allocators : using[w] = x => w = u
      BY <1>0, <1>3 DEF OneUser
    <3>2. x \in InUse
      BY Zenon, <2>1, <2>3, <3>1 DEF InUse
    <3> QED BY <2>3, <3>2 DEF Counted
  <2> QED BY Zenon, <1>0, <2>2, <2>3
<1>4. ASSUME NEW x \in Blocks, \A u \in Allocators : using[u] # x
      PROVE  Counted(x) = IF header[x] = None THEN 0 ELSE SizeOf(header[x])
  BY <1>4 DEF Counted, InUse
<1>5. ASSUME NEW u \in Allocators, using[u] = None PROVE Owed(u) = 0
  <2>1. todo[u] = << >>
    BY <1>0, <1>5 DEF CallOf
  <2>2. Total(<< >>, DOMAIN << >>) = 0
    <3>1. 0 \in Int
      OBVIOUS
    <3> QED BY Zenon, <3>1, SumOfUpdates
  <2> QED BY <2>1, <2>2 DEF Owed
<1>6. ASSUME NEW m, NEW u, NEW x, Fits(m), u \in Allocators, x \in Blocks, using[u] = x
      PROVE  Owed(u) \in Int /\ Counted(x) - Owed(u) \in 0..m
  <2> DEFINE q == todo[u]
             n == header[x]
             k == Counted(x)
  <2>1. n \in Sizes /\ (frees[u] = TRUE => Freeing(q, n)) /\ (frees[u] = FALSE => Filling(q, n))
    BY <1>0, <1>6 DEF CallOf
  <2>2. (frees[u] = TRUE => k = 0) /\ (frees[u] = FALSE => k = SizeOf(n))
    BY Zenon, <1>3, <1>6
  <2>3. frees[u] \in BOOLEAN
    BY <1>0, <1>6
  <2>4. \/ Freeing(q, n) /\ k = 0
        \/ Filling(q, n) /\ k = SizeOf(n)
    BY Zenon, <2>1, <2>2, <2>3
  <2>5. Owed(u) = Total(q, DOMAIN q)
    BY DEF Owed
  <2> HIDE DEF q, n, k
  <2>6. Total(q, DOMAIN q) \in Int /\ k - Total(q, DOMAIN q) \in 0..m
    BY Zenon, <1>6, <2>1, <2>4, UpdateFacts
  <2> QED BY <2>5, <2>6 DEF k
<1>7. ASSUME NEW u \in Allocators PROVE Owed(u) \in Int
  BY <1>0, <1>5, <1>6, SomeFit
<1> QED BY Zenon, <1>2, <1>3, <1>4, <1>5, <1>6, <1>7 DEF Numbers

(* The same of the next state.                                             *)
LEMMA NumbersNext ==
  Calls' => Numbers'
BY CallNumbers, PTL

(* A call that begins or goes on with block b, or ends, leaves what is     *)
(* counted of the other blocks.                                            *)
LEMMA OthersCounted ==
  ASSUME NEW t \in Allocators, NEW b \in Blocks, NEW x \in Blocks, x # b,
         header'[x] = header[x],
         \A u \in Allocators : u # t => using'[u] = using[u] /\ frees'[u] = frees[u],
         using[t] \in {b, None}, using'[t] \in {b, None}
  PROVE  Counted(x)' = Counted(x)
<1>1. using[t] # x /\ using'[t] # x
  BY SomeFit
<1>2. x \in InUse' <=> x \in InUse
  BY Zenon, <1>1 DEF InUse
<1> QED BY <1>2 DEF Counted

(* At the start nothing is allocated and nothing is counted.               *)
LEMMA CallsInit ==
  ZmallocInit => Calls /\ Shared
<1> SUFFICES ASSUME ZmallocInit PROVE Calls /\ Shared
  OBVIOUS
<1>0. /\ used_memory = 0 /\ zmalloc_thread_safe = FALSE /\ started = {MainThread}
      /\ header = [b \in Blocks |-> None] /\ todo = [t \in Allocators |-> << >>]
      /\ loaded = [t \in Allocators |-> None] /\ using = [t \in Allocators |-> None]
      /\ frees = [t \in Allocators |-> FALSE] /\ MainThread \in Allocators
  BY ZmallocAssumption DEF ZmallocInit
<1>1. ZmallocTypes
  BY <1>0 DEF ZmallocTypes
<1>2. OneUser /\ Solo
  BY Zenon, <1>0 DEF OneUser, Solo
<1>3. ASSUME NEW t \in Allocators PROVE CallOf(t)
  BY <1>0 DEF CallOf
<1>4. Calls
  BY <1>1, <1>2, <1>3 DEF Calls
<1>5. Shared
  <2> DEFINE c == [b \in Blocks |-> 0]
             o == [t \in Allocators |-> Owed(t)]
             k == [b \in Blocks |-> Counted(b)]
  <2>1. (\A t \in Allocators : Owed(t) = 0) /\ \A b \in Blocks : Counted(b) = 0
    <3>1. Numbers
      BY <1>4, CallNumbers
    <3>2. ASSUME NEW t \in Allocators PROVE Owed(t) = 0
      <4>1. using[t] = None
        BY <1>0
      <4> QED BY <3>1, <4>1 DEF Numbers
    <3>3. ASSUME NEW b \in Blocks PROVE Counted(b) = 0
      <4>1. header[b] = None /\ \A t \in Allocators : using[t] # b
        BY <1>0, SomeFit
      <4> QED BY <3>1, <4>1 DEF Numbers
    <3> QED BY <3>2, <3>3
  <2>2. ASSUME NEW S, NEW f, IsFiniteSet(S), \A x \in S : f[x] = 0
        PROVE  Total(f, S) = 0
    <3>1. Total(f, S) \in 0..(Cardinality(S) * 0)
      <4>1. 0 \in Nat /\ \A x \in S : f[x] \in 0..0
        BY <2>2
      <4> QED BY <2>2, <4>1, TotalBound
    <3>2. Cardinality(S) * 0 = 0
      BY <2>2, FS_CardinalityType
    <3> QED BY <3>1, <3>2
  <2>3. IsFiniteSet(Allocators) /\ IsFiniteSet(Blocks)
    BY ZmallocAssumption
  <2>4. \A t \in Allocators : o[t] = 0
    BY <2>1
  <2>5. (\A b \in Blocks : k[b] = 0) /\ \A b \in Blocks : c[b] = 0
    BY <2>1
  <2>6. c \in [Blocks -> Int]
    OBVIOUS
  <2> HIDE DEF c, o, k
  <2>7. Total(o, Allocators) = 0 /\ Total(c, Blocks) = 0 /\ Total(k, Blocks) = 0
    BY <2>2, <2>3, <2>4, <2>5
  <2>8. \A t \in Allocators, b \in Blocks : using[t] = b => c[b] = Counted(b) - Owed(t)
    BY <2>1, <2>5
  <2>9. \A b \in Blocks : (\A t \in Allocators : using[t] # b) => c[b] = Counted(b)
    BY <2>1, <2>5
  <2>10. used_memory = Total(c, Blocks) /\ used_memory + Total(o, Allocators) = Total(k, Blocks)
    BY <1>0, <2>7
  <2>11. Share(c)
    BY <2>6, <2>8, <2>9, <2>10 DEF Share, o, k
  <2> QED BY <2>11 DEF Shared
<1> QED BY <1>4, <1>5

(* A call by thread t begins with block b.                                 *)
Begins(t, b, n, f, q) ==
  /\ t \in started /\ using[t] = None /\ \A u \in Allocators : using[u] # b
  /\ header' = [header EXCEPT ![b] = n]
  /\ todo' = [todo EXCEPT ![t] = q]
  /\ using' = [using EXCEPT ![t] = b] /\ frees' = [frees EXCEPT ![t] = f]
  /\ UNCHANGED <<used_memory, zmalloc_thread_safe, started, loaded>>

(* A call that begins with a block nobody uses keeps the shape of all      *)
(* calls.                                                                  *)
LEMMA BeginsKeepsCalls ==
  ASSUME Calls, NEW t \in Allocators, NEW b \in Blocks, NEW n \in Sizes, NEW f \in BOOLEAN, NEW q,
         Begins(t, b, n, f, q), f = TRUE => Freeing(q, n), f = FALSE => Filling(q, n)
  PROVE  Calls'
<1>0. /\ used_memory \in Nat /\ None \notin Blocks
      /\ header \in [Blocks -> Sizes \cup {None}]
      /\ using \in [Allocators -> Blocks \cup {None}]
      /\ frees \in [Allocators -> BOOLEAN]
      /\ DOMAIN todo = Allocators /\ DOMAIN loaded = Allocators
      /\ OneUser /\ Solo /\ \A u \in Allocators : CallOf(u)
  BY SomeFit DEF Calls, ZmallocTypes
<1>1. /\ t \in started /\ using[t] = None /\ \A u \in Allocators : using[u] # b
      /\ header' = [header EXCEPT ![b] = n]
      /\ todo' = [todo EXCEPT ![t] = q]
      /\ using' = [using EXCEPT ![t] = b] /\ frees' = [frees EXCEPT ![t] = f]
      /\ used_memory' = used_memory /\ zmalloc_thread_safe' = zmalloc_thread_safe
      /\ started' = started /\ loaded' = loaded
  BY DEF Begins
<1>2. ZmallocTypes'
  BY <1>0, <1>1 DEF ZmallocTypes
<1>3. /\ using'[t] = b /\ frees'[t] = f /\ todo'[t] = q /\ header'[b] = n
      /\ \A u \in Allocators : u # t => using'[u] = using[u] /\ frees'[u] = frees[u] /\ todo'[u] = todo[u]
      /\ \A x \in Blocks : x # b => header'[x] = header[x]
  BY <1>0, <1>1
<1>4. OneUser'
  BY <1>0, <1>1, <1>3 DEF OneUser
<1>5. Solo'
  BY <1>0, <1>1, <1>3 DEF Solo
<1>6. CallOf(t)'
  <2>1. loaded[t] = None
    BY <1>0, <1>1 DEF CallOf
  <2> QED BY <1>0, <1>1, <1>3, <2>1 DEF CallOf
<1>7. ASSUME NEW u \in Allocators, u # t PROVE CallOf(u)'
  <2>1. using[u] \in Blocks \cup {None} /\ using[u] # b
    BY <1>0, <1>1
  <2>2. using[u] # None => header'[using[u]] = header[using[u]]
    BY <1>3, <2>1
  <2> QED BY ZenonT(40), <1>0, <1>1, <1>3, <1>7, <2>2 DEF CallOf
<1>8. \A u \in Allocators : CallOf(u)'
  BY <1>6, <1>7
<1> QED BY <1>2, <1>4, <1>5, <1>8 DEF Calls

(* A call that begins leaves each block's share: what it still adds makes  *)
(* up for the change of what is counted.                                   *)
LEMMA BeginsKeepsShares ==
  ASSUME Calls, Calls', Shared, NEW t \in Allocators, NEW b \in Blocks, NEW n \in Sizes, NEW f \in BOOLEAN,
         NEW q, Begins(t, b, n, f, q), Counted(b) = Counted(b)' - Owed(t)'
  PROVE  Shared'
<1>0. /\ used_memory \in Nat
      /\ header \in [Blocks -> Sizes \cup {None}]
      /\ using \in [Allocators -> Blocks \cup {None}]
      /\ frees \in [Allocators -> BOOLEAN]
      /\ DOMAIN todo = Allocators
  BY DEF Calls, ZmallocTypes
<1>1. /\ using[t] = None /\ \A u \in Allocators : using[u] # b
      /\ using'[t] = b
      /\ \A u \in Allocators : u # t => using'[u] = using[u] /\ frees'[u] = frees[u] /\ todo'[u] = todo[u]
      /\ \A x \in Blocks : x # b => header'[x] = header[x]
      /\ used_memory' = used_memory
  BY <1>0 DEF Begins
<1>2. Numbers /\ Numbers'
  BY CallNumbers, NumbersNext
<1>3. PICK c : Share(c)
  BY DEF Shared
<1>4. c[b] = Counted(b)
  BY <1>1, <1>3 DEF Share
<1>5. \A x \in Blocks : x # b => Counted(x)' = Counted(x)
  BY <1>1, OthersCounted
<1>6. \A u \in Allocators : u # t => using'[u] = using[u] /\ Owed(u)' = Owed(u) /\ using[u] # b
  BY <1>1 DEF Owed
<1>7. /\ \A u \in Allocators : Owed(u) \in Int
      /\ \A x \in Blocks : Counted(x) \in Int
      /\ Owed(t)' \in Int /\ Counted(b)' \in Int /\ Owed(t) = 0
  BY <1>1, <1>2 DEF Numbers
<1> PICK v \in Int : v = Counted(b)
  BY <1>7
<1>8. v \in Int /\ used_memory \in Int
      /\ used_memory' = used_memory + (v - c[b]) /\ v = Counted(b)' - Owed(t)'
  <2>1. v = Counted(b)' - Owed(t)' /\ c[b] = v
    BY Zenon, <1>4
  <2> QED BY <1>0, <1>1, <2>1
<1>9. Share([c EXCEPT ![b] = v])'
  BY Zenon, <1>1, <1>3, <1>5, <1>6, <1>7, <1>8, ShareMove
<1> QED BY <1>9 DEF Shared

(* zmalloc: a block that was free had no share.                            *)
LEMMA MallocKeeps ==
  ASSUME Calls, Shared, NEW t \in Allocators, NEW b \in Blocks, NEW n \in Sizes, zmalloc(t, b, n)
  PROVE  Calls' /\ Shared'
<1> DEFINE q == <<SizeOf(n)>>
<1>0. /\ n \in Nat /\ SizeOf(n) \in Int /\ RoundUp(n + PREFIX_SIZE) = SizeOf(n)
      /\ None \notin Blocks /\ None \notin Sizes
  BY ZmallocAssumption, RoundUpFacts, SomeFit
<1>1. \A u \in Allocators : using[u] # b
  BY <1>0 DEF zmalloc, Calls, CallOf
<1>2. Begins(t, b, n, FALSE, q) /\ header[b] = None
  BY Zenon, <1>0, <1>1 DEF zmalloc, Ready, Uses, Begins
<1>3. Filling(q, n)
  BY DEF Filling
<1>4. Calls'
  BY Zenon, <1>2, <1>3, BeginsKeepsCalls
<1>5. using'[t] = b /\ frees'[t] = FALSE /\ header'[b] = n /\ todo'[t] = q
  BY <1>2 DEF Begins, Calls, ZmallocTypes
<1>6. Counted(b) = 0
  BY <1>1, <1>2, CallNumbers DEF Numbers
<1>7. Counted(b)' = SizeOf(n)
  BY Zenon, <1>4, <1>5, NumbersNext DEF Numbers
<1>8. Owed(t)' = SizeOf(n)
  BY Zenon, <1>0, <1>5, SumOfUpdates DEF Owed
<1>9. Counted(b) = Counted(b)' - Owed(t)'
  BY <1>0, <1>6, <1>7, <1>8
<1> QED BY Zenon, <1>2, <1>4, <1>9, BeginsKeepsShares

(* zrealloc: the share is the old size, whose rounding goes and whose      *)
(* prefix stays.                                                           *)
LEMMA ReallocKeeps ==
  ASSUME Calls, Shared, NEW t \in Allocators, NEW b \in Blocks, NEW n \in Sizes, zrealloc(t, b, n)
  PROVE  Calls' /\ Shared'
<1>0. /\ header[b] \in Sizes /\ \A u \in Allocators : using[u] # b
      /\ None \notin Sizes
  BY SomeFit DEF zrealloc, Usable, Calls, ZmallocTypes
<1> PICK o \in Sizes : o = header[b]
  BY <1>0
<1> DEFINE q == <<-RoundUp(o), RoundUp(n)>>
<1>1. /\ RoundUp(n) \in Int /\ RoundUp(o) \in Int /\ -RoundUp(o) \in Int /\ PREFIX_SIZE \in Int
      /\ SizeOf(n) = RoundUp(n) + PREFIX_SIZE /\ SizeOf(o) = RoundUp(o) + PREFIX_SIZE
  BY ZmallocAssumption, RoundUpFacts
<1>2. Begins(t, b, n, FALSE, q)
  BY <1>0 DEF zrealloc, Ready, Uses, Begins
<1>3. Filling(q, n)
  BY DEF Filling
<1>4. Calls'
  BY Zenon, <1>2, <1>3, BeginsKeepsCalls
<1>5. using'[t] = b /\ frees'[t] = FALSE /\ header'[b] = n /\ todo'[t] = q
  BY <1>2 DEF Begins, Calls, ZmallocTypes
<1>6. Counted(b) = SizeOf(o)
  BY <1>0, CallNumbers DEF Numbers
<1>7. Counted(b)' = SizeOf(n)
  BY <1>4, <1>5, NumbersNext DEF Numbers
<1>8. Owed(t)' = (-RoundUp(o)) + RoundUp(n)
  <2>1. Total(q, DOMAIN q) = (-RoundUp(o)) + RoundUp(n)
    BY Zenon, <1>1, SumOfUpdates
  <2> QED BY <1>5, <2>1 DEF Owed
<1>9. Counted(b) = Counted(b)' - Owed(t)'
  BY <1>1, <1>6, <1>7, <1>8
<1> QED BY Zenon, <1>2, <1>4, <1>9, BeginsKeepsShares

(* zfree: the share is what the call is about to subtract.                 *)
LEMMA FreeKeeps ==
  ASSUME Calls, Shared, NEW t \in Allocators, NEW b \in Blocks, zfree(t, b)
  PROVE  Calls' /\ Shared'
<1>0. /\ header[b] \in Sizes /\ \A u \in Allocators : using[u] # b
      /\ None \notin Sizes /\ header \in [Blocks -> Sizes \cup {None}]
  BY SomeFit DEF zfree, Usable, Calls, ZmallocTypes
<1> PICK n \in Sizes : n = header[b]
  BY <1>0
<1> DEFINE q == <<-SizeOf(n)>>
<1>1. /\ n \in Nat /\ SizeOf(n) \in Int /\ -SizeOf(n) \in Int
      /\ RoundUp(n + PREFIX_SIZE) = SizeOf(n)
  BY ZmallocAssumption, RoundUpFacts
<1>2. Begins(t, b, n, TRUE, q)
  <2>1. [header EXCEPT ![b] = n] = header
    BY <1>0
  <2> QED BY Zenon, <1>0, <1>1, <2>1 DEF zfree, Ready, Uses, Begins
<1>3. Freeing(q, n)
  BY DEF Freeing
<1>4. Calls'
  BY Zenon, <1>2, <1>3, BeginsKeepsCalls
<1>5. using'[t] = b /\ frees'[t] = TRUE /\ todo'[t] = q
  BY <1>2 DEF Begins, Calls, ZmallocTypes
<1>6. Counted(b) = SizeOf(n)
  BY <1>0, CallNumbers DEF Numbers
<1>7. Counted(b)' = 0
  BY <1>4, <1>5, NumbersNext DEF Numbers
<1>8. Owed(t)' = -SizeOf(n)
  <2>1. Total(q, DOMAIN q) = -SizeOf(n)
    BY Zenon, <1>1, SumOfUpdates
  <2> QED BY <1>5, <2>1 DEF Owed
<1>9. Counted(b) = Counted(b)' - Owed(t)'
  BY <1>1, <1>6, <1>7, <1>8
<1> QED BY Zenon, <1>2, <1>4, <1>9, BeginsKeepsShares

(* The end of a call, and with it the free: nothing is left to add.        *)
LEMMA ReturnKeeps ==
  ASSUME Calls, Shared, NEW t \in Allocators, CallReturns(t)
  PROVE  Calls' /\ Shared'
<1>0. /\ used_memory \in Nat /\ None \notin Blocks /\ None \notin Sizes
      /\ header \in [Blocks -> Sizes \cup {None}]
      /\ using \in [Allocators -> Blocks \cup {None}]
      /\ frees \in [Allocators -> BOOLEAN]
      /\ DOMAIN todo = Allocators /\ DOMAIN loaded = Allocators
      /\ OneUser /\ Solo /\ \A u \in Allocators : CallOf(u)
  BY SomeFit DEF Calls, ZmallocTypes
<1>1. using[t] \in Blocks
  BY <1>0 DEF CallReturns
<1> PICK b \in Blocks : b = using[t]
  BY <1>1
<1>2. /\ todo[t] = << >> /\ header[b] \in Sizes
      /\ header' = IF frees[t] THEN [header EXCEPT ![b] = None] ELSE header
      /\ using' = [using EXCEPT ![t] = None] /\ frees' = [frees EXCEPT ![t] = FALSE]
      /\ used_memory' = used_memory /\ zmalloc_thread_safe' = zmalloc_thread_safe
      /\ started' = started /\ todo' = todo /\ loaded' = loaded
  BY <1>0 DEF CallReturns, Uses, CallOf
<1>3. /\ frees[t] = TRUE => header' = [header EXCEPT ![b] = None]
      /\ frees[t] = FALSE => header' = header
      /\ frees[t] \in BOOLEAN
  BY Zenon, <1>0, <1>2
<1>4. /\ using'[t] = None /\ frees'[t] = FALSE
      /\ \A u \in Allocators : u # t => using'[u] = using[u] /\ frees'[u] = frees[u]
      /\ \A u \in Allocators : using'[u] # b
      /\ \A u \in Allocators : u # t => using[u] # b
  BY <1>0, <1>2 DEF OneUser
<1>5. /\ \A x \in Blocks : x # b => header'[x] = header[x]
      /\ frees[t] = TRUE => header'[b] = None
      /\ frees[t] = FALSE => header'[b] = header[b]
      /\ header' \in [Blocks -> Sizes \cup {None}]
  <2>1. CASE frees[t] = TRUE
    BY <1>0, <1>3, <2>1
  <2>2. CASE frees[t] = FALSE
    BY <1>0, <1>3, <2>2
  <2> QED BY Zenon, <1>3, <2>1, <2>2
<1>6. Calls'
  <2>1. ZmallocTypes'
    BY <1>0, <1>2, <1>5 DEF ZmallocTypes
  <2>2. OneUser' /\ Solo'
    BY <1>0, <1>2, <1>4 DEF OneUser, Solo
  <2>3. CallOf(t)'
    BY <1>0, <1>2, <1>4 DEF CallOf
  <2>4. ASSUME NEW u \in Allocators, u # t PROVE CallOf(u)'
    <3>1. using[u] \in Blocks \cup {None} /\ using[u] # b
      BY <1>0, <1>4, <2>4
    <3>2. using[u] # None => header'[using[u]] = header[using[u]]
      BY <1>5, <3>1
    <3> QED BY Zenon, <1>0, <1>2, <1>4, <2>4, <3>2 DEF CallOf
  <2>5. \A u \in Allocators : CallOf(u)'
    BY <2>3, <2>4
  <2> QED BY <2>1, <2>2, <2>5 DEF Calls
<1>7. Numbers /\ Numbers'
  BY <1>6, CallNumbers, NumbersNext
<1>8. Owed(t)' = 0 /\ Owed(t) = 0
  <2>1. Owed(t)' = 0
    BY <1>4, <1>7 DEF Numbers
  <2>2. Owed(t)' = Owed(t)
    BY <1>2 DEF Owed
  <2> QED BY <2>1, <2>2
<1>9. Counted(b)' = Counted(b) /\ Counted(b) \in Int
  <2>1. Counted(b) = IF frees[t] = TRUE THEN 0 ELSE SizeOf(header[b])
    BY <1>7 DEF Numbers
  <2>2. Counted(b)' = IF header'[b] = None THEN 0 ELSE SizeOf(header'[b])
    BY Zenon, <1>4, <1>7 DEF Numbers
  <2>3. Counted(b) \in Int
    BY <1>7 DEF Numbers
  <2>4. header[b] # None
    BY <1>0, <1>2
  <2> QED BY Zenon, <1>3, <1>5, <2>1, <2>2, <2>3, <2>4
<1>10. PICK c : Share(c)
  BY DEF Shared
<1> PICK v \in Int : v = Counted(b)
  BY <1>9
<1>11. c[b] = Counted(b) - Owed(t)
  BY <1>10 DEF Share
<1>12. v \in Int /\ used_memory \in Int
       /\ used_memory' = used_memory + (v - c[b]) /\ v = Counted(b)' - Owed(t)'
  BY <1>0, <1>2, <1>8, <1>9, <1>11
<1>13. \A x \in Blocks : x # b => Counted(x)' = Counted(x)
  BY <1>4, <1>5, OthersCounted
<1>14. \A u \in Allocators : u # t => using'[u] = using[u] /\ Owed(u)' = Owed(u) /\ using[u] # b
  BY <1>2, <1>4 DEF Owed
<1>15. /\ \A u \in Allocators : Owed(u) \in Int
       /\ \A x \in Blocks : Counted(x) \in Int
       /\ Owed(t)' \in Int /\ Counted(b)' \in Int
  BY <1>7 DEF Numbers
<1>16. Share([c EXCEPT ![b] = v])'
  BY Zenon, <1>4, <1>8, <1>10, <1>12, <1>13, <1>14, <1>15, ShareMove
<1> QED BY <1>6, <1>16 DEF Shared

(* Where a thread is between its read and its write, no other thread runs. *)
LEMMA UpdateIsAlone ==
  ASSUME Calls, NEW t \in Allocators, AtomicUpdate(t) \/ Store(t)
  PROVE  /\ used_memory' = (used_memory + Head(todo[t])) % SizeT /\ todo[t] # << >>
         /\ DOMAIN loaded' = Allocators /\ \A u \in Allocators : loaded'[u] = None
         /\ todo' = [todo EXCEPT ![t] = Tail(todo[t])]
         /\ header' = header /\ using' = using /\ frees' = frees
         /\ started' = started /\ zmalloc_thread_safe' = zmalloc_thread_safe
<1>0. Solo /\ (\A u \in Allocators : CallOf(u)) /\ DOMAIN loaded = Allocators
  BY DEF Calls, ZmallocTypes
<1>1. CASE AtomicUpdate(t)
  <2>1. \A u \in Allocators : loaded[u] = None
    BY Zenon, <1>0, <1>1 DEF CallOf, AtomicUpdate
  <2> QED BY Zenon, <1>0, <1>1, <2>1 DEF AtomicUpdate
<1>2. CASE Store(t)
  <2>1. loaded[t] = used_memory /\ todo[t] # << >> /\ zmalloc_thread_safe = FALSE
    BY <1>0, <1>2 DEF CallOf, Store
  <2>2. ASSUME NEW u \in Allocators, loaded[u] # None PROVE u = MainThread
    BY <1>0, <2>1, <2>2 DEF CallOf, Solo
  <2>3. \A u \in Allocators : u # t => loaded[u] = None
    BY <1>2, <2>2 DEF Store
  <2> QED BY <1>0, <1>2, <2>1, <2>3 DEF Store
<1> QED BY <1>1, <1>2

(* update_zmalloc_stat_alloc and _free, atomic or not: the sum is below    *)
(* the number of values of size_t, so that nothing wraps around.           *)
LEMMA UpdateKeeps ==
  ASSUME Calls, Shared, NEW t \in Allocators, AtomicUpdate(t) \/ Store(t)
  PROVE  Calls' /\ Shared'
<1>0. /\ used_memory \in Nat /\ None \notin Blocks /\ None \notin Sizes
      /\ header \in [Blocks -> Sizes \cup {None}]
      /\ using \in [Allocators -> Blocks \cup {None}]
      /\ frees \in [Allocators -> BOOLEAN]
      /\ DOMAIN todo = Allocators
      /\ OneUser /\ Solo /\ \A u \in Allocators : CallOf(u)
  BY SomeFit DEF Calls, ZmallocTypes
<1>1. /\ used_memory' = (used_memory + Head(todo[t])) % SizeT /\ todo[t] # << >>
      /\ DOMAIN loaded' = Allocators /\ \A u \in Allocators : loaded'[u] = None
      /\ todo' = [todo EXCEPT ![t] = Tail(todo[t])]
      /\ header' = header /\ using' = using /\ frees' = frees
      /\ started' = started /\ zmalloc_thread_safe' = zmalloc_thread_safe
  BY UpdateIsAlone
<1>2. using[t] \in Blocks
  BY <1>0, <1>1 DEF CallOf
<1> PICK b \in Blocks : b = using[t]
  BY <1>2
<1>3. /\ todo'[t] = Tail(todo[t]) /\ DOMAIN todo' = Allocators
      /\ \A u \in Allocators : u # t => todo'[u] = todo[u]
  BY <1>0, <1>1
<1>4. PICK m : Fits(m)
  BY SomeFit
<1>5. PICK c : Share(c)
  BY DEF Shared
<1>6. Numbers
  BY CallNumbers
<1> DEFINE q == todo[t]
           n == header[b]
           k == Counted(b)
<1>7. /\ n \in Sizes /\ frees[t] \in BOOLEAN
      /\ frees[t] = TRUE => Freeing(q, n) /\ k = 0
      /\ frees[t] = FALSE => Filling(q, n) /\ k = SizeOf(n)
  <2>1. /\ n \in Sizes /\ (frees[t] = TRUE => Freeing(q, n)) /\ (frees[t] = FALSE => Filling(q, n))
        /\ frees[t] \in BOOLEAN
    BY <1>0, <1>2 DEF CallOf
  <2>2. k = IF frees[t] = TRUE THEN 0 ELSE SizeOf(n)
    BY <1>6 DEF Numbers
  <2> QED BY <2>1, <2>2
<1>8. /\ Head(q) \in Int /\ Owed(t)' \in Int /\ Owed(t)' = Owed(t) - Head(q)
      /\ k - Owed(t)' \in 0..m
      /\ (Freeing(q, n) => Freeing(todo'[t], n)) /\ (Filling(q, n) => Filling(todo'[t], n))
  <2>1. \/ Freeing(q, n) /\ k = 0
        \/ Filling(q, n) /\ k = SizeOf(n)
    BY Zenon, <1>7
  <2>2. Owed(t)' = Total(Tail(q), DOMAIN Tail(q)) /\ Owed(t) = Total(q, DOMAIN q)
    BY <1>3 DEF Owed
  <2>3. q # << >> /\ n \in Sizes
    BY <1>1, <1>7
  <2>4. todo'[t] = Tail(q)
    BY <1>3
  <2> HIDE DEF q, n, k
  <2>5. /\ Head(q) \in Int
        /\ Total(Tail(q), DOMAIN Tail(q)) \in Int
        /\ Total(Tail(q), DOMAIN Tail(q)) = Total(q, DOMAIN q) - Head(q)
        /\ k - Total(Tail(q), DOMAIN Tail(q)) \in 0..m
        /\ (Freeing(q, n) => Freeing(Tail(q), n))
        /\ (Filling(q, n) => Filling(Tail(q), n))
    BY Zenon, <1>4, <2>1, <2>3, UpdateFacts
  <2> QED BY <2>2, <2>4, <2>5
<1>9. used_memory' \in Nat
  <2>1. Head(q) \in Int /\ SizeT \in Nat /\ SizeT > 0
    BY <1>8, ZmallocAssumption
  <2>2. used_memory' = (used_memory + Head(q)) % SizeT
    BY <1>1
  <2> HIDE DEF q, n, k
  <2> QED BY <1>0, <2>1, <2>2
<1>10. Calls'
  <2>1. ZmallocTypes'
    BY <1>0, <1>1, <1>3, <1>9 DEF ZmallocTypes
  <2>2. OneUser' /\ Solo'
    BY <1>0, <1>1 DEF OneUser, Solo
  <2>3. CallOf(t)'
    <3>1. using'[t] # None /\ header'[using'[t]] \in Sizes /\ loaded'[t] = None
      BY <1>0, <1>1, <1>2, <1>7
    <3>2. (frees'[t] = TRUE => Freeing(todo'[t], n)) /\ (frees'[t] = FALSE => Filling(todo'[t], n))
          /\ n = header'[using'[t]]
      BY Zenon, <1>1, <1>7, <1>8
    <3> HIDE DEF q, n, k
    <3> QED BY <3>1, <3>2 DEF CallOf
  <2>4. ASSUME NEW u \in Allocators, u # t PROVE CallOf(u)'
    <3>1. CallOf(u) /\ loaded'[u] = None /\ todo'[u] = todo[u]
      BY <1>0, <1>1, <1>3, <2>4
    <3> QED BY Zenon, <1>1, <3>1 DEF CallOf
  <2>5. \A u \in Allocators : CallOf(u)'
    BY <2>3, <2>4
  <2> QED BY <2>1, <2>2, <2>5 DEF Calls
<1>11. \A x \in Blocks : Counted(x)' = Counted(x)
  BY Zenon, <1>1 DEF Counted, InUse
<1>12. PICK v \in 0..m : v = k - Owed(t)'
  BY <1>8
<1>13. c[b] = k - Owed(t) /\ c \in [Blocks -> Int] /\ used_memory = Total(c, Blocks)
  BY <1>5 DEF Share
<1>14. /\ \A u \in Allocators : Owed(u) \in Int
       /\ \A x \in Blocks : Counted(x) \in Int
       /\ Owed(t)' \in Int /\ Counted(b)' \in Int /\ v = Counted(b)' - Owed(t)'
       /\ v \in Int /\ m \in Nat
  <2>1. /\ \A u \in Allocators : Owed(u) \in Int
        /\ \A x \in Blocks : Counted(x) \in Int
    BY Zenon, <1>6 DEF Numbers
  <2>2. b \in Blocks /\ Counted(b)' = k
    BY Zenon, <1>2, <1>11
  <2>3. Counted(b)' \in Int /\ v = Counted(b)' - Owed(t)'
    BY Zenon, <1>11, <1>12, <2>1, <2>2
  <2>4. m \in Nat
    BY Zenon, <1>4 DEF Fits
  <2>5. v \in Int
    BY <1>12, <2>4
  <2> QED BY Zenon, <1>8, <2>1, <2>3, <2>4, <2>5
<1>15. v - c[b] = Head(q)
  <2>1. k \in Int /\ Owed(t) \in Int
    BY <1>14
  <2> HIDE DEF q, n, k
  <2> QED BY <1>8, <1>12, <1>13, <2>1
<1> DEFINE e == [c EXCEPT ![b] = v]
<1>16. e[b] = v /\ \A x \in Blocks : x # b => e[x] = c[x]
  BY <1>13
<1> HIDE DEF e
<1>17. \A x \in Blocks : e[x] \in 0..m
  <2>1. ASSUME NEW x \in Blocks, NEW u \in Allocators, using[u] = x PROVE c[x] \in 0..m
    <3>1. Counted(x) - Owed(u) \in 0..m
      BY Zenon, <1>4, <1>6, <2>1 DEF Numbers
    <3>2. c[x] = Counted(x) - Owed(u)
      BY <1>5, <2>1 DEF Share
    <3> QED BY <3>1, <3>2
  <2>2. ASSUME NEW x \in Blocks, \A u \in Allocators : using[u] # x PROVE c[x] \in 0..m
    <3>1. c[x] = Counted(x)
      BY <1>5, <2>2 DEF Share
    <3>2. Counted(x) = IF header[x] = None THEN 0 ELSE SizeOf(header[x])
      BY <1>6, <2>2 DEF Numbers
    <3>3. CASE header[x] = None
      BY <1>14, <3>1, <3>2, <3>3
    <3>4. CASE header[x] # None
      <4>1. header[x] \in Sizes
        BY <1>0, <3>4
      <4>2. SizeOf(header[x]) \in Nat /\ SizeOf(header[x]) <= m
        BY Zenon, <1>4, <4>1, RoundUpFacts, ZmallocAssumption DEF Fits
      <4> QED BY <1>14, <3>1, <3>2, <3>4, <4>2
    <3> QED BY <3>3, <3>4
  <2> QED BY <1>12, <1>16, <2>1, <2>2
<1>18. Total(e, Blocks) \in 0..(Cardinality(Blocks) * m) /\ Cardinality(Blocks) * m < SizeT
       /\ Cardinality(Blocks) * m \in Nat /\ SizeT \in Nat
  <2>1. IsFiniteSet(Blocks) /\ SizeT \in Nat /\ Cardinality(Blocks) * m < SizeT
    BY <1>4, ZmallocAssumption DEF Fits
  <2>2. Cardinality(Blocks) \in Nat
    BY <2>1, FS_CardinalityType
  <2>3. Total(e, Blocks) \in 0..(Cardinality(Blocks) * m)
    BY <1>14, <1>17, <2>1, TotalBound
  <2>4. Cardinality(Blocks) * m \in Nat
    BY <1>14, <2>2
  <2> QED BY <2>1, <2>3, <2>4
<1>19. Total(e, Blocks) = used_memory + (v - c[b])
  <2>1. Total(e, Blocks) = Total(c, Blocks) + (v - c[b])
    BY Zenon, <1>13, <1>14, ShareChange DEF e
  <2> QED BY <1>13, <2>1
<1>20. used_memory' = used_memory + (v - c[b])
  <2> DEFINE z == used_memory + Head(q)
  <2>1. z = Total(e, Blocks) /\ used_memory' = z % SizeT
    BY <1>1, <1>15, <1>19
  <2> HIDE DEF z
  <2>2. z \in Nat /\ z < SizeT
    BY <1>18, <2>1
  <2>3. z % SizeT = z
    BY <1>18, <2>2
  <2> QED BY <1>19, <2>1, <2>3
<1>21. /\ \A u \in Allocators : u # t => using'[u] = using[u] /\ Owed(u)' = Owed(u) /\ using[u] # b
       /\ using[t] = b /\ using'[t] = b
  BY <1>0, <1>1, <1>2, <1>3 DEF Owed, OneUser
<1>22. Share([c EXCEPT ![b] = v])'
  BY <1>0, <1>5, <1>11, <1>14, <1>20, <1>21, ShareMove
<1> QED BY <1>10, <1>22 DEF Shared

(* Steps that neither touch a block nor used_memory.                       *)
LEMMA SharedStays ==
  ASSUME Shared, used_memory' = used_memory, header' = header, todo' = todo,
         using' = using, frees' = frees
  PROVE  Shared'
<1>1. PICK c : Share(c)
  BY DEF Shared
<1>2. \A t \in Allocators : Owed(t)' = Owed(t)
  BY DEF Owed
<1>3. \A b \in Blocks : Counted(b)' = Counted(b)
  BY DEF Counted, InUse
<1>4. Share(c)'
  BY <1>1, <1>2, <1>3 DEF Share
<1> QED BY <1>4 DEF Shared

(* Thread safety is switched on between two calls; a read of used_memory   *)
(* changes nothing else.                                                   *)
LEMMA QuietKeeps ==
  ASSUME Calls, Shared,
         \/ zmalloc_enable_thread_safeness \/ UNCHANGED zmallocVars
         \/ \E t \in Allocators : Load(t)
  PROVE  Calls' /\ Shared'
<1>0. /\ ZmallocTypes /\ OneUser /\ Solo /\ \A u \in Allocators : CallOf(u)
  BY DEF Calls
<1>1. CASE zmalloc_enable_thread_safeness
  <2>1. /\ zmalloc_thread_safe = FALSE /\ started' = Allocators /\ zmalloc_thread_safe' = TRUE
        /\ using[MainThread] = None
        /\ used_memory' = used_memory /\ header' = header /\ todo' = todo
        /\ using' = using /\ frees' = frees /\ loaded' = loaded
    BY Zenon, <1>0, <1>1 DEF zmalloc_enable_thread_safeness, Ready, Solo
  <2>2. \A u \in Allocators : loaded[u] = None
    BY <1>0, <2>1 DEF CallOf, Solo
  <2>3. ZmallocTypes' /\ OneUser' /\ Solo'
    BY <1>0, <2>1 DEF ZmallocTypes, OneUser, Solo
  <2>4. \A u \in Allocators : CallOf(u)'
    BY Zenon, <1>0, <2>1, <2>2 DEF CallOf
  <2> QED BY <2>1, <2>3, <2>4, SharedStays DEF Calls
<1>2. CASE UNCHANGED zmallocVars
  <2>1. /\ used_memory' = used_memory /\ header' = header /\ todo' = todo
        /\ using' = using /\ frees' = frees /\ loaded' = loaded
        /\ zmalloc_thread_safe' = zmalloc_thread_safe /\ started' = started
    BY <1>2 DEF zmallocVars
  <2>2. Calls'
    BY Zenon, <1>0, <2>1 DEF Calls, ZmallocTypes, OneUser, Solo, CallOf
  <2> QED BY <2>1, <2>2, SharedStays
<1>3. ASSUME NEW t \in Allocators, Load(t) PROVE Calls' /\ Shared'
  <2>1. /\ todo[t] # << >> /\ loaded' = [loaded EXCEPT ![t] = used_memory]
        /\ used_memory' = used_memory /\ header' = header /\ todo' = todo
        /\ using' = using /\ frees' = frees
        /\ zmalloc_thread_safe' = zmalloc_thread_safe /\ started' = started
    BY <1>3 DEF Load
  <2>2. zmalloc_thread_safe = FALSE
    BY Zenon, <1>0, <1>3 DEF Load, Solo
  <2>3. ZmallocTypes' /\ OneUser' /\ Solo'
    BY <1>0, <2>1 DEF ZmallocTypes, OneUser, Solo
  <2>4. ASSUME NEW u \in Allocators PROVE CallOf(u)'
    <3>1. u = t \/ loaded'[u] = loaded[u]
      BY <1>0, <2>1 DEF ZmallocTypes
    <3>2. loaded'[t] = used_memory
      BY <1>0, <2>1 DEF ZmallocTypes
    <3> QED BY Zenon, <1>0, <2>1, <2>2, <3>1, <3>2 DEF CallOf
  <2> QED BY <2>1, <2>3, <2>4, SharedStays DEF Calls
<1> QED BY <1>1, <1>2, <1>3

(* Every step keeps the shape of the calls and the shares of the blocks.   *)
LEMMA ZmallocStep ==
  Calls /\ Shared /\ [ZmallocNext]_zmallocVars => Calls' /\ Shared'
<1> SUFFICES ASSUME Calls, Shared, [ZmallocNext]_zmallocVars PROVE Calls' /\ Shared'
  OBVIOUS
<1>1. CASE \/ zmalloc_enable_thread_safeness \/ UNCHANGED zmallocVars
           \/ \E t \in Allocators : Load(t)
  BY <1>1, QuietKeeps
<1>2. ASSUME NEW t \in Allocators, NEW b \in Blocks, NEW n \in Sizes, zmalloc(t, b, n) \/ zrealloc(t, b, n)
      PROVE  Calls' /\ Shared'
  BY <1>2, MallocKeeps, ReallocKeeps
<1>3. ASSUME NEW t \in Allocators, NEW b \in Blocks, zfree(t, b) PROVE Calls' /\ Shared'
  BY <1>3, FreeKeeps
<1>4. ASSUME NEW t \in Allocators, CallReturns(t) PROVE Calls' /\ Shared'
  BY <1>4, ReturnKeeps
<1>5. ASSUME NEW t \in Allocators, AtomicUpdate(t) \/ Store(t) PROVE Calls' /\ Shared'
  BY <1>5, UpdateKeeps
<1> QED BY Zenon, <1>1, <1>2, <1>3, <1>4, <1>5 DEF ZmallocNext

(* Leaving out what adds nothing leaves the sum.                           *)
LEMMA TotalZeros ==
  ASSUME NEW f, NEW S, Addable(f, S), NEW R, R \subseteq S, \A x \in S \ R : f[x] = 0
  PROVE  Total(f, S) = Total(f, R)
<1> SUFFICES ASSUME Total(f, S) # Total(f, R) PROVE FALSE
  OBVIOUS
<1> DEFINE T == {s \in SUBSET S : R \subseteq s /\ Total(f, s) # Total(f, R)}
<1>0. \A s \in SUBSET S : IsFiniteSet(s) /\ Addable(f, s)
  BY FS_Subset DEF Addable
<1>1. T # {} /\ \A s \in T : IsFiniteSet(s)
  BY <1>0
<1>2. PICK s \in T : \A u \in T : ~(Cardinality(u) < Cardinality(s))
  <2> HIDE DEF T
  <2> QED BY <1>1, SmallestSet
<1>3. s \in SUBSET S /\ R \subseteq s /\ Total(f, s) # Total(f, R)
  OBVIOUS
<1>4. PICK x \in s : x \notin R
  BY <1>3
<1>5. s \ {x} \in SUBSET S /\ R \subseteq s \ {x} /\ f[x] = 0
  BY <1>3, <1>4
<1>6. Total(f, s) = f[x] + Total(f, s \ {x}) /\ Total(f, s \ {x}) \in Int
  BY <1>0, <1>3, <1>4, TotalSplit
<1>7. Total(f, s) = Total(f, s \ {x})
  BY <1>5, <1>6
<1>8. s \ {x} \in T
  BY <1>3, <1>5, <1>7
<1>9. Cardinality(s \ {x}) = Cardinality(s) - 1 /\ Cardinality(s) \in Nat
  BY Zenon, <1>0, <1>3, <1>4, FS_RemoveElement, FS_CardinalityType
<1>10. Cardinality(s \ {x}) < Cardinality(s)
  BY <1>9
<1> QED BY <1>2, <1>8, <1>10

(* The folds of the model are these sums.                                  *)
LEMMA PendingIsOwed ==
  ASSUME NEW t
  PROVE  Pending(t) = Owed(t)
BY Zenon DEF Pending, FoldFunction, FoldFunctionOnSet, MapThenFoldSet, Owed, Total,
             SumTable, SumBody, Chosen

(* The sum of the pending updates, as the invariant folds it.              *)
LEMMA PendingSum ==
  ASSUME \A t \in Allocators : Owed(t) \in Int
  PROVE  MapThenSumSet(Pending, Allocators) = Total([t \in Allocators |-> Owed(t)], Allocators)
<1> DEFINE B(W) == [s \in SUBSET Allocators |->
                      IF s = {} THEN 0 ELSE Pending(Chosen(s)) + W[s \ {Chosen(s)}]]
           f == [t \in Allocators |-> Owed(t)]
           V == SumTable(f, Allocators)
           U == [s \in SUBSET Allocators |-> V[s]]
           X == CHOOSE W : W = B(W)
<1>1. MapThenSumSet(Pending, Allocators) = X[Allocators]
  BY Zenon DEF MapThenSumSet, MapThenFoldSet, Chosen
<1>2. Addable(f, Allocators) /\ IsFiniteSet(Allocators)
  BY ZmallocAssumption DEF Addable
<1>3. \A s \in SUBSET Allocators : s # {} => Chosen(s) \in s /\ Pending(Chosen(s)) = f[Chosen(s)]
  BY PendingIsOwed DEF Chosen
<1> HIDE DEF f
<1>4. Sums(f, SUBSET Allocators, V)
  BY <1>2, TableRight
<1> HIDE DEF V
<1>5. U = B(U)
  <2>1. ASSUME NEW s \in SUBSET Allocators PROVE U[s] = B(U)[s]
    <3>1. V[s] = IF s = {} THEN 0 ELSE f[Chosen(s)] + V[s \ {Chosen(s)}]
      BY Zenon, <1>4 DEF Sums
    <3>2. U[s] = V[s] /\ s \ {Chosen(s)} \in SUBSET Allocators
          /\ U[s \ {Chosen(s)}] = V[s \ {Chosen(s)}]
      OBVIOUS
    <3> QED BY <1>3, <3>1, <3>2
  <2> HIDE DEF V
  <2> QED BY Zenon, <2>1
<1>6. X = B(X)
  <2> HIDE DEF U
  <2> QED BY Zenon, <1>5
<1>7. Sums(f, SUBSET Allocators, X)
  <2>1. ASSUME NEW s \in SUBSET Allocators
        PROVE  X[s] = IF s = {} THEN 0 ELSE f[Chosen(s)] + X[s \ {Chosen(s)}]
    <3> HIDE DEF X
    <3>1. X[s] = IF s = {} THEN 0 ELSE Pending(Chosen(s)) + X[s \ {Chosen(s)}]
      BY Zenon, <1>6
    <3> QED BY <1>3, <3>1
  <2> HIDE DEF X
  <2> QED BY <2>1 DEF Sums
<1>8. X[Allocators] = V[Allocators]
  <2> HIDE DEF X
  <2> QED BY <1>2, <1>4, <1>7, TablesAgree
<1> QED BY Zenon, <1>1, <1>8 DEF V, Total, f

(* The sum of the sizes of the blocks in use, as the invariant folds it.   *)
LEMMA InUseSum ==
  ASSUME \A b \in Blocks : Counted(b) \in Int
  PROVE  MapThenSumSet(zmalloc_size, InUse) = Total([b \in Blocks |-> Counted(b)], Blocks)
<1> DEFINE B(W) == [s \in SUBSET InUse |->
                      IF s = {} THEN 0 ELSE zmalloc_size(Chosen(s)) + W[s \ {Chosen(s)}]]
           f == [b \in Blocks |-> Counted(b)]
           V == SumTable(f, InUse)
           U == [s \in SUBSET InUse |-> V[s]]
           X == CHOOSE W : W = B(W)
<1>1. MapThenSumSet(zmalloc_size, InUse) = X[InUse]
  BY Zenon DEF MapThenSumSet, MapThenFoldSet, Chosen
<1>2. /\ Addable(f, Blocks) /\ InUse \subseteq Blocks /\ \A b \in Blocks \ InUse : f[b] = 0
      /\ Addable(f, InUse) /\ IsFiniteSet(InUse)
  <2>1. InUse \subseteq Blocks
    BY DEF InUse
  <2>2. IsFiniteSet(Blocks) /\ IsFiniteSet(InUse)
    BY <2>1, ZmallocAssumption, FS_Subset
  <2>3. \A b \in Blocks \ InUse : f[b] = 0
    BY DEF Counted
  <2> QED BY <2>1, <2>2, <2>3 DEF Addable
<1>3. \A s \in SUBSET InUse : s # {} => Chosen(s) \in s /\ zmalloc_size(Chosen(s)) = f[Chosen(s)]
  <2>1. ASSUME NEW b \in InUse PROVE zmalloc_size(b) = f[b]
    BY <1>2 DEF zmalloc_size, Counted, SizeOf
  <2>2. \A s \in SUBSET InUse : s # {} => Chosen(s) \in s
    BY DEF Chosen
  <2> HIDE DEF f
  <2> QED BY <2>1, <2>2
<1> HIDE DEF f
<1>4. Sums(f, SUBSET InUse, V)
  BY <1>2, TableRight
<1> HIDE DEF V
<1>5. U = B(U)
  <2>1. ASSUME NEW s \in SUBSET InUse PROVE U[s] = B(U)[s]
    <3>1. V[s] = IF s = {} THEN 0 ELSE f[Chosen(s)] + V[s \ {Chosen(s)}]
      BY <1>4 DEF Sums
    <3>2. U[s] = V[s] /\ s \ {Chosen(s)} \in SUBSET InUse
          /\ U[s \ {Chosen(s)}] = V[s \ {Chosen(s)}]
      OBVIOUS
    <3> QED BY <1>3, <3>1, <3>2
  <2> QED BY Zenon, <2>1
<1>6. X = B(X)
  <2> HIDE DEF U
  <2> QED BY Zenon, <1>5
<1>7. Sums(f, SUBSET InUse, X)
  <2>1. ASSUME NEW s \in SUBSET InUse
        PROVE  X[s] = IF s = {} THEN 0 ELSE f[Chosen(s)] + X[s \ {Chosen(s)}]
    <3> HIDE DEF X
    <3>1. X[s] = IF s = {} THEN 0 ELSE zmalloc_size(Chosen(s)) + X[s \ {Chosen(s)}]
      BY Zenon, <1>6
    <3> QED BY <1>3, <3>1
  <2> HIDE DEF X
  <2> QED BY <2>1 DEF Sums
<1>8. X[InUse] = V[InUse]
  <2> HIDE DEF X
  <2> QED BY <1>2, <1>4, <1>7, TablesAgree
<1>9. Total(f, Blocks) = Total(f, InUse)
  BY <1>2, TotalZeros
<1> QED BY Zenon, <1>1, <1>8, <1>9 DEF V, Total, f

(* zmalloc.c: used_memory and the updates that are still to come add up to *)
(* the sizes of the blocks in use, whatever the number of threads, blocks  *)
(* and sizes and however the threads interleave, if the blocks fit into    *)
(* the address space.                                                      *)
THEOREM UsedMemoryStaysExact ==
  ZmallocSpec => []UsedMemoryIsExact
<1>1. Calls /\ Shared => UsedMemoryIsExact
  <2> SUFFICES ASSUME Calls, Shared PROVE UsedMemoryIsExact
    OBVIOUS
  <2>1. Numbers
    BY CallNumbers
  <2>2. MapThenSumSet(Pending, Allocators) = Total([t \in Allocators |-> Owed(t)], Allocators)
    BY <2>1, PendingSum DEF Numbers
  <2>3. MapThenSumSet(zmalloc_size, InUse) = Total([b \in Blocks |-> Counted(b)], Blocks)
    BY <2>1, InUseSum DEF Numbers
  <2>4. used_memory + Total([t \in Allocators |-> Owed(t)], Allocators)
          = Total([b \in Blocks |-> Counted(b)], Blocks)
    BY Zenon DEF Shared, Share
  <2> QED BY Zenon, <2>2, <2>3, <2>4 DEF UsedMemoryIsExact
<1> QED BY <1>1, CallsInit, ZmallocStep, PTL DEF ZmallocSpec
=============================================================================
