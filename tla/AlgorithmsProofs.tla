-------------------------- MODULE AlgorithmsProofs --------------------------
(***************************************************************************)
(* The algorithms of the C++ examples are right for every input:           *)
(* quick_sort returns its list in ascending order, the blocks of           *)
(* parallel_accumlate add up to the whole, and the prime tables of the     *)
(* googletest samples agree with each other and with the definition of a   *)
(* prime.                                                                  *)
(***************************************************************************)
EXTENDS RecursionProofs, FiniteSetTheorems

-----------------------------------------------------------------------------
(* parallel_accumlate.                                                     *)

PartialSums(range, from, to, init, s) ==
  /\ s \in [from..to -> Int] /\ s[from] = init
  /\ \A k \in (from + 1)..to : s[k] = s[k - 1] + range[k]

Summable(range, from, to, init) ==
  /\ from \in Int /\ to \in Int /\ from <= to /\ init \in Int
  /\ \A k \in (from + 1)..to : range[k] \in Int

(* accumulate_block over a range is the loop over its elements.            *)
LEMMA AccumulateRule ==
  ASSUME NEW range, NEW from, NEW to, NEW init, Summable(range, from, to, init)
  PROVE  \E s : PartialSums(range, from, to, init, s) /\ Accumulate(range, from, to, init) = s[to]
<1> DEFINE D == from..to
           G == [k \in D |-> [v \in Int |-> IF k = from THEN init ELSE v + range[k]]]
           Body(s) == [k \in from..to |-> IF k = from THEN init ELSE s[k - 1] + range[k]]
           V == CHOOSE s : s = Body(s)
<1> USE DEF Summable
<1>0. ASSUME NEW k \in D, k # from PROVE k - 1 \in D /\ range[k] \in Int /\ k \in (from + 1)..to
  BY <1>0
<1>1. LoopOf(from, to, Int, init, G)
  <2>1. G \in [D -> [Int -> Int]]
    BY <1>0
  <2> HIDE DEF G
  <2> QED BY Zenon, <2>1 DEF LoopOf
<1>2. \A k \in D : k # from => \A v \in Int : G[k][v] = v + range[k]
  BY <1>0
<1> HIDE DEF G
<1>3. PICK f : Turns(from, to, Int, init, G, f)
  BY <1>1, Loop
<1>4. f = Body(f)
  <2>1. f \in [D -> Int]
    BY <1>3 DEF Turns
  <2>2. ASSUME NEW k \in D PROVE f[k] = IF k = from THEN init ELSE f[k - 1] + range[k]
    <3>1. k # from => f[k - 1] \in Int
      BY <1>0, <2>1
    <3>2. k # from => G[k][f[k - 1]] = f[k - 1] + range[k]
      BY <1>2, <3>1
    <3> QED BY <1>3, <3>2 DEF Turns
  <2> QED BY <2>1, <2>2
<1>5. V = Body(V)
  BY Zenon, <1>4
<1>6. Accumulate(range, from, to, init) = V[to]
  BY DEF Accumulate
<1> HIDE DEF V
<1>7. \A k \in D : V[k] = IF k = from THEN init ELSE V[k - 1] + range[k]
  BY <1>5
<1>8. V = [k \in D |-> V[k]]
  BY <1>5
<1>9. Turns(from, to, Int, init, G, V)
  <2>1. \A k \in from..to : IF k = from THEN V[k] = init ELSE V[k - 1] \in Int => V[k] = G[k][V[k - 1]]
    BY <1>2, <1>7
  <2> QED BY Zenon, <1>1, <1>8, <2>1, LoopResults
<1>10. V \in [D -> Int]
  BY <1>9 DEF Turns
<1>11. PartialSums(range, from, to, init, V)
  BY <1>7, <1>10 DEF PartialSums
<1> QED BY <1>6, <1>11

(* The sum of a block is the difference of two sums from the start.        *)
LEMMA BlockSum ==
  ASSUME NEW range, NEW N \in Nat, \A k \in 1..N : range[k] \in Int,
         NEW W, PartialSums(range, 0, N, 0, W),
         NEW a \in 0..N, NEW b \in a..N, NEW init \in Int
  PROVE  Accumulate(range, a, b, init) = init + W[b] - W[a]
<1>1. PICK s : PartialSums(range, a, b, init, s) /\ Accumulate(range, a, b, init) = s[b]
  <2>1. Summable(range, a, b, init)
    BY DEF Summable
  <2> QED BY <2>1, AccumulateRule
<1>2. W \in [0..N -> Int] /\ \A k \in 1..N : W[k] = W[k - 1] + range[k]
  BY DEF PartialSums
<1> DEFINE P == {k \in a..b : s[k] = init + W[k] - W[a]}
<1>3. Inductive(a, b, P)
  <2>1. a \in P
    BY <1>1, <1>2 DEF PartialSums
  <2>2. ASSUME NEW k \in a..b, k # a, k - 1 \in P PROVE k \in P
    <3>1. k \in (a + 1)..b /\ k \in 1..N /\ k - 1 \in 0..N
      BY <2>2
    <3>2. s[k] = s[k - 1] + range[k] /\ W[k] = W[k - 1] + range[k]
      BY <1>1, <1>2, <3>1 DEF PartialSums
    <3>3. W[k] \in Int /\ W[k - 1] \in Int /\ W[a] \in Int /\ range[k] \in Int
      BY <1>2, <3>1
    <3> QED BY <2>2, <3>2, <3>3
  <2> HIDE DEF P
  <2> QED BY <2>1, <2>2 DEF Inductive
<1>4. \A k \in a..b : k \in P
  <2> HIDE DEF P
  <2> QED BY <1>3, IntervalInduction
<1> QED BY <1>1, <1>4

(* Where the block of thread k ends.                                       *)
Cut(k, num, size, length) == IF k < num THEN k * size ELSE length

(* num blocks of size elements are in a range of length elements.          *)
Divided(num, size, length) ==
  length \in Nat /\ num \in Nat \ {0} /\ size \in Nat /\ num * size <= length

(* Block k is a block of the range.                                        *)
BlockIn(k, num, size, length) ==
  /\ Cut(k - 1, num, size, length) = (k - 1) * size
  /\ Cut(k - 1, num, size, length) \in 0..length
  /\ Cut(k, num, size, length) \in Cut(k - 1, num, size, length)..length

(* Each block ends at or after its beginning, within the range.            *)
LEMMA CutsInOrder ==
  ASSUME NEW length, NEW num, NEW size, Divided(num, size, length)
  PROVE  \A k \in 1..num : BlockIn(k, num, size, length)
<1> TAKE k \in 1..num
<1> USE DEF Divided
<1>1. k * size \in Nat /\ (k - 1) * size \in Nat /\ num * size \in Nat
  OBVIOUS
<1>2. k * size = (k - 1) * size + size
  OBVIOUS
<1>3. k * size <= num * size
  <2>1. num * size = k * size + (num - k) * size /\ (num - k) * size \in Nat
    OBVIOUS
  <2> QED BY <1>1, <2>1
<1>4. k - 1 < num
  OBVIOUS
<1>5. Cut(k - 1, num, size, length) = (k - 1) * size
  BY <1>4 DEF Cut
<1> QED BY <1>1, <1>2, <1>3, <1>5 DEF Cut, BlockIn

(* results holds the sums of the blocks.                                   *)
BlockSums(range, num, size, results) ==
  \A i \in 1..num : results[i] =
     Accumulate(range, (i - 1) * size, IF i < num THEN i * size ELSE Len(range), 0)

(* The sums of all blocks add up to the sum of the range.                  *)
LEMMA BlocksAddUp ==
  ASSUME NEW range \in Seq(Int), NEW num, NEW size, Divided(num, size, Len(range)),
         NEW init \in Int, NEW results, BlockSums(range, num, size, results)
  PROVE  Accumulate(results, 0, num, init) = Accumulate(range, 0, Len(range), init)
<1> DEFINE N == Len(range)
           C(k) == Cut(k, num, size, N)
<1>0. N \in Nat /\ \A k \in 1..N : range[k] \in Int
  OBVIOUS
<1>00. num \in Nat \ {0} /\ size \in Nat /\ Divided(num, size, N)
  BY DEF Divided
<1>1. PICK W : PartialSums(range, 0, N, 0, W)
  <2>1. Summable(range, 0, N, 0)
    BY <1>0 DEF Summable
  <2> HIDE DEF N
  <2> QED BY <2>1, AccumulateRule
<1>2. W \in [0..N -> Int] /\ W[0] = 0
  BY <1>1 DEF PartialSums
<1>3. ASSUME NEW k \in 1..num
      PROVE  C(k - 1) \in 0..N /\ C(k) \in C(k - 1)..N /\ C(k) \in 0..N /\ results[k] = W[C(k)] - W[C(k - 1)]
  <2>0. BlockIn(k, num, size, N)
    <3> HIDE DEF N
    <3> QED BY <1>00, CutsInOrder
  <2>1. C(k - 1) = (k - 1) * size /\ C(k) = (IF k < num THEN k * size ELSE N)
        /\ C(k - 1) \in 0..N /\ C(k) \in C(k - 1)..N
    BY Zenon, <2>0 DEF BlockIn, Cut
  <2> HIDE DEF C
  <2>2. results[k] = Accumulate(range, C(k - 1), C(k), 0)
    BY <2>1 DEF BlockSums
  <2>3. Accumulate(range, C(k - 1), C(k), 0) = 0 + W[C(k)] - W[C(k - 1)]
    <3> DEFINE a == C(k - 1)
               b == C(k)
               o == 0
    <3>1. o \in Int /\ a \in 0..N /\ b \in a..N
      BY <2>1
    <3> HIDE DEF N, a, b, o
    <3>2. Accumulate(range, a, b, o) = o + W[b] - W[a]
      BY <1>0, <1>1, <3>1, BlockSum
    <3> QED BY <3>2 DEF a, b, o
  <2>4. C(k) \in 0..N
    BY <2>1
  <2>5. W[C(k)] \in Int /\ W[C(k - 1)] \in Int
    BY <1>2, <2>1, <2>4
  <2> QED BY <2>1, <2>2, <2>3, <2>4, <2>5
<1>4. C(0) = 0 /\ C(num) = N
  BY <1>0, <1>00 DEF Cut
<1> HIDE DEF C, N
<1>5. \A k \in 1..num : results[k] \in Int
  <2> TAKE k \in 1..num
  <2>1. W[C(k)] \in Int /\ W[C(k - 1)] \in Int
    BY <1>2, <1>3
  <2> QED BY <1>3, <2>1
<1>6. PICK s : PartialSums(results, 0, num, init, s) /\ Accumulate(results, 0, num, init) = s[num]
  <2>1. Summable(results, 0, num, init)
    BY <1>00, <1>5 DEF Summable
  <2> QED BY <2>1, AccumulateRule
<1> DEFINE P == {k \in 0..num : s[k] = init + W[C(k)]}
<1>7. Inductive(0, num, P)
  <2>1. 0 \in P
    BY <1>00, <1>2, <1>4, <1>6 DEF PartialSums
  <2>2. ASSUME NEW k \in 0..num, k # 0, k - 1 \in P PROVE k \in P
    <3>1. k \in 1..num
      BY <2>2
    <3>2. s[k] = s[k - 1] + results[k]
      BY <1>6, <3>1 DEF PartialSums
    <3>3. W[C(k)] \in Int /\ W[C(k - 1)] \in Int /\ results[k] = W[C(k)] - W[C(k - 1)]
      BY <1>2, <1>3, <3>1
    <3> QED BY <2>2, <3>2, <3>3
  <2> HIDE DEF P
  <2> QED BY <1>00, <2>1, <2>2 DEF Inductive
<1>8. \A k \in 0..num : k \in P
  <2> HIDE DEF P
  <2> QED BY <1>7, IntervalInduction
<1>9. s[num] = init + W[N]
  <2>1. num \in P
    <3> HIDE DEF P
    <3> QED BY <1>00, <1>8
  <2> QED BY <1>4, <2>1
<1>10. Accumulate(range, 0, N, init) = init + W[N] - W[0]
  <2>1. 0 \in 0..N /\ N \in 0..N
    BY <1>0
  <2> QED BY <1>0, <1>1, <2>1, BlockSum
<1>11. W[N] \in Int
  BY <1>0, <1>2
<1> QED BY <1>2, <1>6, <1>9, <1>10, <1>11 DEF N

(* Dividing a length rounds down, and not to zero when the length reaches  *)
(* the divisor.                                                            *)
LEMMA Division ==
  ASSUME NEW a \in Nat, NEW b \in Nat \ {0}
  PROVE  a \div b \in Nat /\ b * (a \div b) <= a /\ (a >= b => a \div b >= 1)
OBVIOUS

(* parallel_accumlate computes the sum, whatever the number of processors. *)
LEMMA ParallelSum ==
  ASSUME NEW range \in Seq(Int), NEW init \in Int, NEW hardware_threads \in Nat
  PROVE  parallel_accumlate(range, init, hardware_threads) = Accumulate(range, 0, Len(range), init)
<1> DEFINE length      == Len(range)
           max_threads == (length + MinPerThread - 1) \div MinPerThread
           hardware    == IF hardware_threads # 0 THEN hardware_threads ELSE 2
           num_threads == IF max_threads < hardware THEN max_threads ELSE hardware
           block_size  == length \div num_threads
           results == [i \in 1..num_threads |->
                      Accumulate(range, (i - 1) * block_size,
                                 IF i < num_threads THEN i * block_size ELSE length, 0)]
<1>1. CASE length = 0
  <2>1. parallel_accumlate(range, init, hardware_threads) = init
    BY <1>1 DEF parallel_accumlate
  <2>2. PICK s : PartialSums(range, 0, 0, init, s) /\ Accumulate(range, 0, 0, init) = s[0]
    <3>1. Summable(range, 0, 0, init)
      BY DEF Summable
    <3> QED BY <3>1, AccumulateRule
  <2> QED BY <1>1, <2>1, <2>2 DEF PartialSums
<1>2. CASE length # 0
  <2>0. length \in Nat \ {0} /\ MinPerThread \in Nat \ {0} /\ hardware \in Nat \ {0}
    BY <1>2, MinPerThreadAssumption
  <2>1. max_threads \in Nat \ {0}
    <3>1. length + MinPerThread - 1 \in Nat /\ length + MinPerThread - 1 >= MinPerThread
      BY <2>0
    <3> HIDE DEF length
    <3> QED BY <2>0, <3>1, Division
  <2>2. num_threads \in Nat \ {0}
    <3> HIDE DEF max_threads, hardware
    <3> QED BY <2>0, <2>1
  <2>3. block_size \in Nat /\ num_threads * block_size <= length
    <3> HIDE DEF num_threads, length
    <3> QED BY <2>0, <2>2, Division
  <2>4. parallel_accumlate(range, init, hardware_threads) = Accumulate(results, 0, num_threads, init)
    BY <1>2 DEF parallel_accumlate
  <2> HIDE DEF num_threads, block_size
  <2>5. Accumulate(results, 0, num_threads, init) = Accumulate(range, 0, length, init)
    <3>1. BlockSums(range, num_threads, block_size, results)
      BY DEF BlockSums
    <3>2. Divided(num_threads, block_size, Len(range))
      BY <2>0, <2>2, <2>3 DEF Divided
    <3> HIDE DEF results
    <3> QED BY <3>1, <3>2, BlocksAddUp
  <2> QED BY <2>4, <2>5
<1> QED BY <1>1, <1>2

-----------------------------------------------------------------------------
(* quick_sort.                                                             *)

(* The occurrences of c among the first k elements of t.                   *)
Count(t, c, k) == Cardinality({i \in 1..k : t[i] = c})

Counts(t, c) ==
  /\ Count(t, c, 0) = 0
  /\ \A k \in Nat : Count(t, c, k) \in Nat
  /\ \A k \in Nat : Count(t, c, k + 1) = Count(t, c, k) + IF t[k + 1] = c THEN 1 ELSE 0

(* Count follows its recursion.                                            *)
LEMMA CountRule == ASSUME NEW t, NEW c PROVE Counts(t, c)
<1> DEFINE A(k) == {i \in 1..k : t[i] = c}
<1>1. A(0) = {}
  OBVIOUS
<1>2. ASSUME NEW k \in Nat PROVE IsFiniteSet(A(k))
  <2>1. IsFiniteSet(1..k)
    BY FS_Interval
  <2>2. A(k) \subseteq 1..k
    OBVIOUS
  <2> HIDE DEF A
  <2> QED BY <2>1, <2>2, FS_Subset
<1>3. ASSUME NEW k \in Nat PROVE Cardinality(A(k)) \in Nat
  <2> HIDE DEF A
  <2> QED BY <1>2, FS_CardinalityType
<1>4. ASSUME NEW k \in Nat
      PROVE  Cardinality(A(k + 1)) = Cardinality(A(k)) + IF t[k + 1] = c THEN 1 ELSE 0
  <2>1. CASE t[k + 1] = c
    <3>1. A(k + 1) = A(k) \cup {k + 1} /\ k + 1 \notin A(k)
      BY <2>1
    <3> HIDE DEF A
    <3>2. Cardinality(A(k) \cup {k + 1}) = Cardinality(A(k)) + 1
      BY <1>2, <3>1, FS_AddElement
    <3> QED BY <2>1, <3>1, <3>2
  <2>2. CASE t[k + 1] # c
    <3>1. A(k + 1) = A(k)
      BY <2>2
    <3> HIDE DEF A
    <3> QED BY <1>3, <2>2, <3>1
  <2> QED BY <2>1, <2>2
<1>5. Cardinality({}) = 0
  BY FS_EmptySet
<1> HIDE DEF A
<1>6. Cardinality(A(0)) = 0
  BY <1>1, <1>5
<1>7. \A k : Count(t, c, k) = Cardinality(A(k))
  BY DEF Count, A
<1> QED BY <1>3, <1>4, <1>6, <1>7 DEF Counts

(* What t counts up to k depends on its first k elements only.             *)
LEMMA SameCount ==
  ASSUME NEW s, NEW t, NEW c, NEW k \in Nat, \A i \in 1..k : s[i] = t[i]
  PROVE  Count(s, c, k) = Count(t, c, k)
<1>1. {i \in 1..k : s[i] = c} = {i \in 1..k : t[i] = c}
  OBVIOUS
<1> QED BY <1>1 DEF Count

(* Counting by the recursion counts the positions.                         *)
LEMMA OccurrencesIsCount ==
  \A t, c : Occurrences(t, c) = Count(t, c, Len(t))
BY DEF Occurrences, Count

(* Occurrences in two lists add up.                                        *)
LEMMA ConcatOccurrences ==
  ASSUME NEW s \in Seq(Int), NEW t \in Seq(Int), NEW c
  PROVE  Occurrences(s \o t, c) = Occurrences(s, c) + Occurrences(t, c)
<1> DEFINE u == s \o t
           M == Len(s)
           N == Len(t)
<1>1. M \in Nat /\ N \in Nat /\ Len(u) = M + N
  OBVIOUS
<1>2. (\A i \in 1..M : u[i] = s[i]) /\ (\A i \in 1..N : u[M + i] = t[i])
  OBVIOUS
<1> HIDE DEF u, M, N
<1>3. Count(u, c, M) = Count(s, c, M)
  BY <1>1, <1>2, SameCount
<1>4. /\ \A k \in Nat : Count(u, c, k) \in Nat /\ Count(t, c, k) \in Nat /\ Count(s, c, k) \in Nat
      /\ \A k \in Nat : Count(u, c, k + 1) = Count(u, c, k) + IF u[k + 1] = c THEN 1 ELSE 0
      /\ \A k \in Nat : Count(t, c, k + 1) = Count(t, c, k) + IF t[k + 1] = c THEN 1 ELSE 0
      /\ Count(t, c, 0) = 0
  <2>1. Counts(u, c) /\ Counts(s, c) /\ Counts(t, c)
    BY CountRule
  <2> QED BY Zenon, <2>1 DEF Counts
<1> DEFINE P == {k \in 0..N : Count(u, c, M + k) = Count(s, c, M) + Count(t, c, k)}
<1>5. Inductive(0, N, P)
  <2>1. 0 \in P
    <3>1. M + 0 = M
      BY <1>1
    <3> QED BY <1>1, <1>3, <1>4, <3>1
  <2>2. ASSUME NEW k \in 0..N, k # 0, k - 1 \in P PROVE k \in P
    <3> DEFINE j == k - 1
    <3>1. j \in Nat /\ k = j + 1 /\ M + j \in Nat /\ M + k = (M + j) + 1 /\ k \in 1..N
      BY <1>1, <2>2
    <3>2. Count(u, c, M + j) = Count(s, c, M) + Count(t, c, j)
      BY <2>2
    <3>3. u[(M + j) + 1] = t[j + 1]
      BY <1>2, <3>1
    <3> HIDE DEF j
    <3>4. Count(u, c, (M + j) + 1) = Count(u, c, M + j) + IF u[(M + j) + 1] = c THEN 1 ELSE 0
      BY Zenon, <1>4, <3>1
    <3>5. Count(t, c, j + 1) = Count(t, c, j) + IF t[j + 1] = c THEN 1 ELSE 0
      BY <1>4, <3>1
    <3>6. Count(u, c, M + j) \in Nat /\ Count(s, c, M) \in Nat /\ Count(t, c, j) \in Nat
      BY Zenon, <1>1, <1>4, <3>1
    <3>7. Count(u, c, (M + j) + 1) = Count(s, c, M) + Count(t, c, j + 1)
      BY <3>2, <3>3, <3>4, <3>5, <3>6
    <3> QED BY <3>1, <3>7
  <2> HIDE DEF P
  <2> QED BY <1>1, <2>1, <2>2 DEF Inductive
<1>6. \A k \in 0..N : k \in P
  <2> HIDE DEF P
  <2> QED BY <1>5, IntervalInduction
<1>7. Count(u, c, M + N) = Count(s, c, M) + Count(t, c, N)
  BY <1>1, <1>6
<1> QED BY Zenon, <1>1, <1>7, OccurrencesIsCount DEF u, M, N

(* An element behind a list counts once for itself.                        *)
LEMMA AppendOccurrences ==
  ASSUME NEW s \in Seq(Int), NEW e \in Int, NEW c
  PROVE  Occurrences(Append(s, e), c) = Occurrences(s, c) + IF e = c THEN 1 ELSE 0
<1> DEFINE u == Append(s, e)
           M == Len(s)
<1>1. M \in Nat /\ Len(u) = M + 1 /\ u[M + 1] = e /\ \A i \in 1..M : u[i] = s[i]
  OBVIOUS
<1> HIDE DEF u, M
<1>2. Count(u, c, M) = Count(s, c, M)
  BY <1>1, SameCount
<1>3. Count(u, c, M + 1) = Count(u, c, M) + IF u[M + 1] = c THEN 1 ELSE 0
  <2>1. Counts(u, c)
    BY CountRule
  <2> QED BY Zenon, <1>1, <2>1 DEF Counts
<1> QED BY Zenon, <1>1, <1>2, <1>3, OccurrencesIsCount DEF u, M

(* An element occurs in a list exactly if the count is positive.           *)
LEMMA OccurrencesPositive ==
  ASSUME NEW t \in Seq(Int), NEW c
  PROVE  /\ Occurrences(t, c) \in Nat
         /\ Occurrences(t, c) > 0 <=> \E i \in 1..Len(t) : t[i] = c
<1> DEFINE A == {i \in 1..Len(t) : t[i] = c}
<1>1. IsFiniteSet(A)
  <2>1. IsFiniteSet(1..Len(t))
    BY FS_Interval
  <2>2. A \subseteq 1..Len(t)
    OBVIOUS
  <2> HIDE DEF A
  <2> QED BY Zenon, <2>1, <2>2, FS_Subset
<1>2. Cardinality(A) \in Nat /\ (Cardinality(A) = 0 <=> A = {})
  <2> HIDE DEF A
  <2> QED BY <1>1, FS_CardinalityType, FS_EmptySet
<1>3. Occurrences(t, c) = Cardinality(A)
  BY DEF Occurrences
<1>4. A = {} <=> ~\E i \in 1..Len(t) : t[i] = c
  OBVIOUS
<1> HIDE DEF A
<1> QED BY <1>2, <1>3, <1>4

(* part is the part of input on one side of the pivot.                     *)
PartOf(input, pivot, low, part) ==
  /\ part \in Seq(Int) /\ Len(part) <= Len(input)
  /\ \A c \in Int : Occurrences(part, c) =
       IF (c < pivot) = low THEN Occurrences(input, c) ELSE 0

(* std::partition keeps the elements on one side of the pivot, each as     *)
(* often as it was in the list.                                            *)
LEMMA PartRule ==
  ASSUME NEW t \in Seq(Int), NEW pivot \in Int, NEW low \in BOOLEAN
  PROVE  PartOf(t, pivot, low, Part(t, pivot, low))
<1> DEFINE N == Len(t)
           S == Seq(Int)
           In(k) == (t[k] < pivot) = low
           G == [k \in 0..N |-> [v \in S |-> IF k = 0 THEN << >> ELSE IF In(k) THEN Append(v, t[k]) ELSE v]]
           Body(s) == [k \in 0..Len(t) |-> IF k = 0 THEN << >>
                         ELSE IF In(k) THEN Append(s[k - 1], t[k]) ELSE s[k - 1]]
           V == CHOOSE s : s = Body(s)
<1>0. N \in Nat /\ N = Len(t)
  OBVIOUS
<1>01. ASSUME NEW k \in 0..N, k # 0 PROVE k - 1 \in 0..N /\ t[k] \in Int /\ k \in 1..N
  BY <1>0, <1>01
<1>02. << >> \in S /\ \A v \in S : \A e \in Int : Append(v, e) \in S
  OBVIOUS
<1> HIDE DEF S, In
<1>1. LoopOf(0, N, S, << >>, G)
  <2>1. G \in [0..N -> [S -> S]]
    <3>1. ASSUME NEW k \in 0..N, NEW v \in S
          PROVE  (IF k = 0 THEN << >> ELSE IF In(k) THEN Append(v, t[k]) ELSE v) \in S
      BY <1>01, <1>02
    <3> QED BY <3>1
  <2> HIDE DEF G, N
  <2> QED BY <1>0, <1>02, <2>1 DEF LoopOf
<1>2. \A k \in 0..N : k # 0 => \A v \in S : G[k][v] = IF In(k) THEN Append(v, t[k]) ELSE v
  OBVIOUS
<1> HIDE DEF G
<1>3. PICK f : Turns(0, N, S, << >>, G, f)
  BY <1>1, Loop
<1>4. f = Body(f)
  <2>1. f \in [0..N -> S]
    BY <1>3 DEF Turns
  <2>2. ASSUME NEW k \in 0..N
        PROVE f[k] = IF k = 0 THEN << >> ELSE IF In(k) THEN Append(f[k - 1], t[k]) ELSE f[k - 1]
    <3>1. k # 0 => f[k - 1] \in S
      BY <1>01, <2>1
    <3>2. k # 0 => G[k][f[k - 1]] = IF In(k) THEN Append(f[k - 1], t[k]) ELSE f[k - 1]
      BY <1>2, <3>1
    <3> QED BY Zenon, <1>3, <3>2 DEF Turns
  <2> QED BY <2>1, <2>2
<1>5. V = Body(V)
  BY Zenon, <1>4
<1>6. Part(t, pivot, low) = V[Len(t)]
  BY DEF Part, In
<1> HIDE DEF V
<1>7. \A k \in 0..N : V[k] = IF k = 0 THEN << >> ELSE IF In(k) THEN Append(V[k - 1], t[k]) ELSE V[k - 1]
  BY Zenon, <1>5
<1>8. V = [k \in 0..N |-> V[k]]
  BY <1>5
<1>9. Turns(0, N, S, << >>, G, V)
  <2>1. \A k \in 0..N : IF k = 0 THEN V[k] = << >> ELSE V[k - 1] \in S => V[k] = G[k][V[k - 1]]
    BY <1>2, <1>7
  <2> HIDE DEF N
  <2> QED BY Zenon, <1>1, <1>8, <2>1, LoopResults
<1>10. \A k \in 0..N : V[k] \in Seq(Int)
  BY <1>9 DEF Turns, S
<1> DEFINE P == {k \in 0..N : /\ Len(V[k]) <= k
                              /\ \A c \in Int : Occurrences(V[k], c) =
                                   IF (c < pivot) = low THEN Count(t, c, k) ELSE 0}
<1> HIDE DEF N
<1>11. Inductive(0, N, P)
  <2>1. 0 \in P
    <3>1. V[0] = << >> /\ Len(V[0]) = 0
      BY <1>0, <1>7
    <3>2. \A c : Occurrences(V[0], c) = 0 /\ Count(t, c, 0) = 0
      BY <3>1, CountRule, OccurrencesIsCount DEF Counts
    <3> QED BY <1>0, <3>1, <3>2
  <2>2. ASSUME NEW k \in 0..N, k # 0, k - 1 \in P PROVE k \in P
    <3> DEFINE j == k - 1
    <3>1. j \in 0..N /\ j \in Nat /\ k = j + 1 /\ t[k] \in Int
      BY <1>0, <1>01, <2>2
    <3>2. Len(V[j]) <= j /\ \A c \in Int : Occurrences(V[j], c) =
                                   IF (c < pivot) = low THEN Count(t, c, j) ELSE 0
      BY <2>2
    <3>3. V[k] = IF In(k) THEN Append(V[j], t[k]) ELSE V[j]
      BY <1>7, <2>2
    <3>4. V[j] \in Seq(Int)
      BY <1>10, <3>1
    <3> HIDE DEF j, P
    <3>5. Len(V[k]) <= k
      BY <3>1, <3>2, <3>3, <3>4
    <3>6. ASSUME NEW c \in Int
          PROVE  Occurrences(V[k], c) = IF (c < pivot) = low THEN Count(t, c, k) ELSE 0
      <4>1. Count(t, c, k) = Count(t, c, j) + (IF t[k] = c THEN 1 ELSE 0) /\ Count(t, c, j) \in Nat
        <5>1. Counts(t, c)
          BY CountRule
        <5> QED BY <3>1, <5>1 DEF Counts
      <4>2. In(k) => Occurrences(V[k], c) = Occurrences(V[j], c) + IF t[k] = c THEN 1 ELSE 0
        BY <3>1, <3>3, <3>4, AppendOccurrences
      <4>3. ~In(k) => Occurrences(V[k], c) = Occurrences(V[j], c)
        BY <3>3
      <4>4. t[k] = c => (In(k) <=> (c < pivot) = low)
        BY DEF In
      <4>5. Occurrences(V[j], c) = IF (c < pivot) = low THEN Count(t, c, j) ELSE 0
        BY <3>2
      <4> DEFINE L == (c < pivot) = low
      <4> HIDE DEF L
      <4>6. Occurrences(V[j], c) = IF L THEN Count(t, c, j) ELSE 0
        BY <4>5 DEF L
      <4>7. t[k] = c => (In(k) <=> L)
        BY <4>4 DEF L
      <4>8. Occurrences(V[k], c) = IF L THEN Count(t, c, k) ELSE 0
        BY <4>1, <4>2, <4>3, <4>6, <4>7
      <4> QED BY <4>8 DEF L
    <3> QED BY <3>5, <3>6 DEF P
  <2> HIDE DEF P
  <2> QED BY <1>0, <2>1, <2>2 DEF Inductive
<1>12. \A k \in 0..N : k \in P
  <2> HIDE DEF P
  <2> QED BY <1>11, IntervalInduction
<1>13. N \in P /\ V[N] \in Seq(Int)
  <2> HIDE DEF P
  <2> QED BY <1>0, <1>10, <1>12
<1> QED BY <1>0, <1>6, <1>13, OccurrencesIsCount DEF PartOf

(* The result for input, from those for its parts.                         *)
SortOf(input, q) ==
  IF input = << >> THEN << >>
  ELSE q[Part(Tail(input), Head(input), TRUE)] \o <<Head(input)>>
         \o q[Part(Tail(input), Head(input), FALSE)]

(* Both parts of the tail are shorter than the list.                       *)
LEMMA PartsShorter ==
  ASSUME NEW input \in Seq(Int), input # << >>, NEW low \in BOOLEAN
  PROVE  /\ Part(Tail(input), Head(input), low) \in Seq(Int)
         /\ Len(Part(Tail(input), Head(input), low)) < Len(input)
<1>1. Head(input) \in Int /\ Tail(input) \in Seq(Int) /\ Len(Tail(input)) = Len(input) - 1 /\ Len(input) \in Nat
  OBVIOUS
<1> DEFINE h == Head(input)
           t == Tail(input)
           p == Part(t, h, low)
<1>2. PartOf(t, h, low, p)
  <2> HIDE DEF h, t
  <2>1. h \in Int /\ t \in Seq(Int)
    BY <1>1 DEF h, t
  <2> QED BY <2>1, PartRule
<1> HIDE DEF p
<1>3. p \in Seq(Int) /\ Len(p) <= Len(t)
  BY <1>2 DEF PartOf
<1>4. Len(p) \in Nat
  BY <1>3
<1> QED BY <1>1, <1>3, <1>4 DEF p

(* quick_sort follows its recursion, which ends as the parts become        *)
(* shorter.                                                                *)
LEMMA SortRule ==
  \A input \in Seq(Int) : quick_sort[input] = SortOf(input, quick_sort)
<1> DEFINE S == Seq(Int)
           m == [s \in S |-> Len(s)]
           H == [s \in S |-> [g \in [S -> S] |-> SortOf(s, g)]]
<1>1. ASSUME NEW s \in S, NEW g \in [S -> S] PROVE SortOf(s, g) \in S
  <2>1. CASE s = << >>
    BY <2>1 DEF SortOf
  <2>2. CASE s # << >>
    <3> DEFINE a == g[Part(Tail(s), Head(s), TRUE)]
               b == g[Part(Tail(s), Head(s), FALSE)]
    <3>1. Part(Tail(s), Head(s), TRUE) \in S /\ Part(Tail(s), Head(s), FALSE) \in S
      BY Zenon, <2>2, PartsShorter
    <3>2. a \in S /\ b \in S
      <4> HIDE DEF S
      <4> QED BY Zenon, <3>1
    <3>3. SortOf(s, g) = a \o <<Head(s)>> \o b
      BY Zenon, <2>2 DEF SortOf
    <3> HIDE DEF a, b
    <3>4. Head(s) \in Int
      BY <2>2
    <3> QED BY <3>2, <3>3, <3>4
  <2> QED BY <2>1, <2>2
<1>2. Measured(S, S, m, H)
  <2>1. m \in [S -> Nat]
    OBVIOUS
  <2>2. H \in [S -> [[S -> S] -> S]]
    <3> HIDE DEF S
    <3> QED BY <1>1
  <2>3. ASSUME NEW s \in S, NEW g \in [S -> S], NEW h \in [S -> S],
               \A y \in S : m[y] < m[s] => g[y] = h[y]
        PROVE  H[s][g] = H[s][h]
    <3>1. ASSUME s # << >>, NEW low \in BOOLEAN
          PROVE  g[Part(Tail(s), Head(s), low)] = h[Part(Tail(s), Head(s), low)]
      <4> DEFINE p == Part(Tail(s), Head(s), low)
      <4>1. p \in S /\ Len(p) < Len(s)
        BY <3>1, PartsShorter
      <4> HIDE DEF p
      <4>2. m[p] < m[s]
        BY <4>1
      <4> QED BY <2>3, <4>1, <4>2 DEF p
    <3>2. SortOf(s, g) = SortOf(s, h)
      BY Zenon, <3>1 DEF SortOf
    <3> HIDE DEF S
    <3> QED BY <3>2
  <2> HIDE DEF m, H, S
  <2> QED BY Zenon, <2>1, <2>2, <2>3 DEF Measured
<1>3. << >> \in S
  OBVIOUS
<1> HIDE DEF S
<1>4. PICK f \in [S -> S] : \A s \in S : f[s] = H[s][f]
  <2> HIDE DEF H, m
  <2>1. S # {}
    BY Zenon, <1>3
  <2>2. \E f \in [S -> S] : \A x \in S : f[x] = H[x][f]
    BY <1>2, <2>1, Recursion
  <2> QED BY <2>2
<1>5. f = [s \in S |-> SortOf(s, f)]
  BY <1>4
<1>6. quick_sort = [s \in S |-> SortOf(s, quick_sort)]
  BY Zenon, <1>5 DEF quick_sort, SortOf, S
<1> QED BY <1>6 DEF S

Sorted(s) == \A i, j \in 1..Len(s) : i < j => s[i] <= s[j]

(* Two sorted lists on either side of a pivot make a sorted list.          *)
LEMMA SortedAround ==
  ASSUME NEW a \in Seq(Int), NEW p \in Int, NEW b \in Seq(Int), Sorted(a), Sorted(b),
         \A i \in 1..Len(a) : a[i] < p, \A i \in 1..Len(b) : p <= b[i]
  PROVE  a \o <<p>> \o b \in Seq(Int) /\ Sorted(a \o <<p>> \o b)
<1> DEFINE u == a \o <<p>> \o b
           M == Len(a)
           N == Len(b)
<1>1. u \in Seq(Int) /\ M \in Nat /\ N \in Nat /\ Len(u) = M + 1 + N
  OBVIOUS
<1>2. (\A i \in 1..M : u[i] = a[i]) /\ u[M + 1] = p /\ \A i \in 1..N : u[M + 1 + i] = b[i]
  OBVIOUS
<1>3. \A i \in 1..M : a[i] \in Int
  OBVIOUS
<1>4. \A i \in 1..N : b[i] \in Int
  OBVIOUS
<1>5. /\ \A i, j \in 1..M : i < j => a[i] <= a[j]
      /\ \A i, j \in 1..N : i < j => b[i] <= b[j]
      /\ \A i \in 1..M : a[i] < p
      /\ \A i \in 1..N : p <= b[i]
  BY DEF Sorted
<1> HIDE DEF u, M, N
<1>6. ASSUME NEW i \in 1..Len(u), i > M + 1 PROVE i - M - 1 \in 1..N /\ u[i] = b[i - M - 1]
  <2>1. i - M - 1 \in 1..N /\ M + 1 + (i - M - 1) = i
    BY <1>1, <1>6
  <2> QED BY <1>2, <2>1
<1>7. ASSUME NEW i \in 1..Len(u), NEW j \in 1..Len(u), i < j PROVE u[i] <= u[j]
  <2>1. CASE i <= M
    <3>1. i \in 1..M /\ u[i] = a[i]
      BY <1>1, <1>2, <2>1
    <3>2. CASE j <= M
      <4>1. j \in 1..M /\ u[j] = a[j]
        BY <1>1, <1>2, <3>2
      <4> QED BY <1>5, <1>7, <3>1, <4>1
    <3>3. CASE j = M + 1
      BY <1>2, <1>3, <1>5, <3>1, <3>3
    <3>4. CASE j > M + 1
      <4>1. j - M - 1 \in 1..N /\ u[j] = b[j - M - 1]
        BY <1>6, <3>4
      <4>2. p <= b[j - M - 1] /\ a[i] < p /\ b[j - M - 1] \in Int /\ a[i] \in Int
        BY <1>3, <1>4, <1>5, <3>1, <4>1
      <4> QED BY <3>1, <4>1, <4>2
    <3> QED BY <1>1, <3>2, <3>3, <3>4
  <2>2. CASE i = M + 1
    <3>1. j > M + 1
      BY <1>7, <2>2
    <3> QED BY Zenon, <1>2, <1>5, <1>6, <2>2, <3>1
  <2>3. CASE i > M + 1
    <3>1. j > M + 1
      BY <1>1, <1>7, <2>3
    <3>2. i - M - 1 \in 1..N /\ u[i] = b[i - M - 1] /\ j - M - 1 \in 1..N /\ u[j] = b[j - M - 1]
      BY <1>6, <2>3, <3>1
    <3>3. i - M - 1 < j - M - 1
      BY <1>1, <1>7
    <3> QED BY <1>5, <3>2, <3>3
  <2> QED BY <1>1, <2>1, <2>2, <2>3
<1>8. Sorted(u)
  BY <1>7 DEF Sorted
<1> QED BY <1>1, <1>8 DEF u

(* r is a sorted list of the elements of t.                                *)
SortedVersion(t, r) ==
  r \in Seq(Int) /\ Sorted(r) /\ \A c \in Int : Occurrences(r, c) = Occurrences(t, c)

(* A list of one element holds that element once.                          *)
LEMMA SingleOccurrence ==
  ASSUME NEW p \in Int, NEW c \in Int
  PROVE  Occurrences(<<p>>, c) = IF p = c THEN 1 ELSE 0
<1> DEFINE e == << >>
<1>1. e \in Seq(Int) /\ Append(e, p) = <<p>> /\ Len(e) = 0
  OBVIOUS
<1> HIDE DEF e
<1>2. Occurrences(e, c) = 0
  <2>1. Counts(e, c)
    BY CountRule
  <2> QED BY <1>1, <2>1, OccurrencesIsCount DEF Counts
<1>3. Occurrences(Append(e, p), c) = Occurrences(e, c) + IF p = c THEN 1 ELSE 0
  BY ZenonT(40), <1>1, AppendOccurrences
<1> QED BY <1>1, <1>2, <1>3

(* quick_sort returns the elements of its list in ascending order, for     *)
(* every list of integers.                                                 *)
LEMMA SortRight == \A t \in Seq(Int) : SortedVersion(t, quick_sort[t])
<1> DEFINE S == Seq(Int)
           m == [t \in S |-> Len(t)]
           P == {t \in S : SortedVersion(t, quick_sort[t])}
<1>1. m \in [S -> Nat]
  OBVIOUS
<1>2. ASSUME NEW t \in S, \A y \in S : m[y] < m[t] => y \in P PROVE t \in P
  <2>1. CASE t = << >>
    <3>1. quick_sort[t] = << >>
      BY Zenon, <2>1, SortRule DEF SortOf
    <3>2. Sorted(<< >>)
      BY DEF Sorted
    <3> QED BY Zenon, <2>1, <3>1, <3>2 DEF SortedVersion
  <2>2. CASE t # << >>
    <3> DEFINE h == Head(t)
               r == Tail(t)
               Side(low) == Part(r, h, low)
    <3>1. h \in Int /\ r \in Seq(Int) /\ t = <<h>> \o r
      BY <2>2
    <3>2. ASSUME NEW low \in BOOLEAN
          PROVE  PartOf(r, h, low, Side(low)) /\ SortedVersion(Side(low), quick_sort[Side(low)])
      <4>1. Side(low) \in S /\ Len(Side(low)) < Len(t)
        BY <2>2, PartsShorter
      <4>2. PartOf(r, h, low, Side(low))
        <5> HIDE DEF h, r
        <5> QED BY <3>1, PartRule
      <4> HIDE DEF Side
      <4>3. Side(low) \in P
        <5>1. m[Side(low)] < m[t]
          BY <4>1
        <5> HIDE DEF P, m
        <5> QED BY <1>2, <4>1, <5>1
      <4> QED BY <4>2, <4>3
    <3> DEFINE a == quick_sort[Side(TRUE)]
               b == quick_sort[Side(FALSE)]
               q == quick_sort[t]
    <3>3. q = a \o <<h>> \o b
      BY Zenon, <2>2, SortRule DEF SortOf
    <3> HIDE DEF h, r, Side, q
    <3>4. ASSUME NEW low \in BOOLEAN, NEW c \in Int
          PROVE  Occurrences(quick_sort[Side(low)], c) = IF (c < h) = low THEN Occurrences(r, c) ELSE 0
      BY <3>2 DEF PartOf, SortedVersion
    <3>5. a \in Seq(Int) /\ Sorted(a) /\ b \in Seq(Int) /\ Sorted(b)
      BY Zenon, <3>2 DEF SortedVersion
    <3>6. ASSUME NEW c \in Int
          PROVE  /\ Occurrences(a, c) = IF c < h THEN Occurrences(r, c) ELSE 0
                 /\ Occurrences(b, c) = IF c < h THEN 0 ELSE Occurrences(r, c)
      <4>1. Occurrences(a, c) = IF (c < h) = TRUE THEN Occurrences(r, c) ELSE 0
        BY Zenon, <3>4
      <4>2. Occurrences(b, c) = IF (c < h) = FALSE THEN Occurrences(r, c) ELSE 0
        BY Zenon, <3>4
      <4>3. (c < h) \in BOOLEAN
        BY <3>1
      <4> HIDE DEF a, b
      <4> QED BY <4>1, <4>2, <4>3
    <3> HIDE DEF a, b
    <3>7. ASSUME NEW i \in 1..Len(a) PROVE a[i] < h
      <4>1. a[i] \in Int
        BY <3>5
      <4>2. Occurrences(a, a[i]) > 0
        BY <3>5, OccurrencesPositive
      <4> QED BY <3>6, <4>1, <4>2
    <3>8. ASSUME NEW i \in 1..Len(b) PROVE h <= b[i]
      <4>1. b[i] \in Int
        BY <3>5
      <4>2. Occurrences(b, b[i]) > 0
        BY <3>5, OccurrencesPositive
      <4> QED BY <3>1, <3>6, <4>1, <4>2
    <3>9. q \in Seq(Int) /\ Sorted(q)
      BY Zenon, <3>1, <3>3, <3>5, <3>7, <3>8, SortedAround
    <3>10. ASSUME NEW c \in Int PROVE Occurrences(q, c) = Occurrences(t, c)
      <4> DEFINE x == a \o <<h>>
                 y == <<h>>
      <4>0. x \in Seq(Int)
        BY <3>1, <3>5
      <4>1. x \in Seq(Int) /\ y \in Seq(Int) /\ x = a \o y /\ q = x \o b /\ t = y \o r
        BY <3>1, <3>3, <3>5
      <4>2. Occurrences(y, c) = IF h = c THEN 1 ELSE 0
        BY <3>1, SingleOccurrence
      <4> HIDE DEF x, y
      <4>3. Occurrences(q, c) = Occurrences(x, c) + Occurrences(b, c)
        <5>1. Occurrences(x \o b, c) = Occurrences(x, c) + Occurrences(b, c)
          BY <3>5, <4>0, ConcatOccurrences
        <5> QED BY Zenon, <4>1, <5>1
      <4>4. Occurrences(x, c) = Occurrences(a, c) + Occurrences(y, c)
        BY <3>5, <4>1, ConcatOccurrences
      <4>5. Occurrences(t, c) = Occurrences(y, c) + Occurrences(r, c)
        <5>1. Occurrences(y \o r, c) = Occurrences(y, c) + Occurrences(r, c)
          BY <3>1, <4>1, ConcatOccurrences
        <5> QED BY Zenon, <4>1, <5>1
      <4>6. Occurrences(r, c) \in Nat
        BY <3>1, OccurrencesPositive
      <4> QED BY <3>6, <4>2, <4>3, <4>4, <4>5, <4>6
    <3> QED BY <3>9, <3>10 DEF q, SortedVersion
  <2> QED BY <2>1, <2>2
<1>3. \A t \in S : t \in P
  <2> HIDE DEF P, m, S
  <2> QED BY <1>1, <1>2, MeasureInduction
<1> QED BY <1>3

(* The divided work is right in every state of the enumeration.            *)
LEMMA DividedRight == AlgorithmsTypeOK => DividedWorkIsWhole
<1> SUFFICES ASSUME text \in Seq(Alphabet) PROVE DividedWorkIsWhole
  BY DEF AlgorithmsTypeOK
<1>1. Alphabet \subseteq Int
  BY AlgorithmsAssumption
<1>2. text \in Seq(Int)
  <2>1. Len(text) \in Nat /\ text = [i \in 1..Len(text) |-> text[i]]
    OBVIOUS
  <2>2. ASSUME NEW i \in 1..Len(text) PROVE text[i] \in Int
    <3>1. text[i] \in Alphabet
      OBVIOUS
    <3> QED BY Zenon, <1>1, <3>1
  <2> QED BY <2>1, <2>2
<1> DEFINE sorted == quick_sort[text]
<1>3. SortedVersion(text, sorted)
  BY <1>2, SortRight
<1> HIDE DEF sorted
<1>4. \A c \in Alphabet : Occurrences(sorted, c) = Occurrences(text, c)
  BY <1>1, <1>3 DEF SortedVersion
<1>5. \A i, j \in 1..Len(sorted) : i < j => sorted[i] <= sorted[j]
  BY <1>3 DEF SortedVersion, Sorted
<1>6. ASSUME NEW hardware_threads \in 0..3, NEW init \in {0, 5}
      PROVE  parallel_accumlate(text, init, hardware_threads) = Accumulate(text, 0, Len(text), init)
  <2>1. init \in Int /\ hardware_threads \in Nat
    OBVIOUS
  <2> QED BY <1>2, <2>1, ParallelSum
<1> QED BY Zenon, <1>4, <1>5, <1>6 DEF DividedWorkIsWhole, sorted

(* The lists that parallel quick_sort sorts apart are together the input   *)
(* in ascending order, and the blocks of parallel_accumlate add up to the  *)
(* sum of the whole range, for every list and every minimum of elements    *)
(* per thread.                                                             *)
THEOREM DividedWorkIsWholeAlways == AlgorithmsSpec => []DividedWorkIsWhole
BY AlgorithmsTyped, DividedRight, PTL

-----------------------------------------------------------------------------
(* Trial division.                                                         *)

(* Quotient and remainder of a division.                                   *)
LEMMA ModRule ==
  ASSUME NEW a \in Nat, NEW d \in Nat \ {0}
  PROVE  /\ a \div d \in Nat /\ a % d \in Nat /\ a % d < d
         /\ a = d * (a \div d) + (a % d)
OBVIOUS

(* n % d = 0 says that n is a multiple of d.                               *)
LEMMA ModZero ==
  ASSUME NEW a \in Nat, NEW d \in Nat \ {0}
  PROVE  a % d = 0 <=> \E q \in Nat : a = d * q
<1> DEFINE q == a \div d
           r == a % d
<1>1. q \in Nat /\ r \in Nat /\ r < d /\ a = d * q + r
  BY ModRule
<1> HIDE DEF q, r
<1>2. ASSUME r = 0 PROVE a = d * q
  BY <1>1, <1>2
<1>3. ASSUME NEW k \in Nat, a = d * k PROVE r = 0
  <2>1. d * k \in Nat /\ d * q \in Nat
    BY <1>1
  <2>2. CASE k = q
    BY <1>1, <1>3, <2>1, <2>2
  <2>3. CASE k < q
    <3>1. d * q = d * k + d * (q - k) /\ d * (q - k) >= d
      BY <1>1, <2>3
    <3> QED BY <1>1, <1>3, <2>1, <3>1
  <2>4. CASE k > q
    <3>1. d * k = d * q + d * (k - q) /\ d * (k - q) >= d
      BY <1>1, <2>4
    <3> QED BY <1>1, <1>3, <2>1, <3>1
  <2> QED BY <1>1, <2>2, <2>3, <2>4
<1> QED BY Zenon, <1>1, <1>2, <1>3 DEF r

(* Division without remainder is transitive.                               *)
LEMMA ModTransitive ==
  ASSUME NEW a \in Nat, NEW d \in Nat \ {0}, NEW e \in Nat \ {0}, a % d = 0, d % e = 0
  PROVE  a % e = 0
<1>1. PICK q \in Nat : a = d * q
  BY Zenon, ModZero
<1>2. PICK k \in Nat : d = e * k
  BY ModZero
<1>3. a = e * (k * q) /\ k * q \in Nat
  BY <1>1, <1>2
<1> QED BY <1>3, ModZero

(* None of the numbers whose square is at most k divides it.               *)
NoneUpToRoot(k) == \A d \in Nat : d >= 2 /\ d * d <= k => k % d # 0

(* A number without divisors up to its root has none.                      *)
LEMMA RootIsEnough ==
  ASSUME NEW k \in Nat, k > 1
  PROVE  NoneUpToRoot(k) <=> Prime(k)
<1>1. ASSUME Prime(k), NEW d \in Nat, d >= 2, d * d <= k PROVE k % d # 0
  <2>1. d < k
    <3>1. d * d >= 2 * d
      BY <1>1
    <3> QED BY <1>1, <3>1
  <2> QED BY <1>1, <2>1 DEF Prime
<1>2. ASSUME NoneUpToRoot(k), NEW d \in 2..(k - 1), k % d = 0 PROVE FALSE
  <2>1. PICK q \in Nat : k = d * q
    BY <1>2, ModZero
  <2>2. q >= 2
    <3>1. q # 0 /\ q # 1
      BY <2>1
    <3> QED BY <3>1
  <2>3. CASE d <= q
    <3>1. d * d <= d * q
      BY <2>3
    <3> QED BY <1>2, <2>1, <3>1 DEF NoneUpToRoot
  <2>4. CASE q < d
    <3>1. q * q <= d * q /\ k = q * d
      BY <2>1, <2>4
    <3>2. k % q = 0
      BY <2>2, <3>1, ModZero
    <3> QED BY <1>2, <2>1, <2>2, <3>1, <3>2 DEF NoneUpToRoot
  <2> QED BY <2>3, <2>4
<1> QED BY <1>1, <1>2 DEF NoneUpToRoot, Prime

Positive == Nat \ {0}

(* The trial divisions of k by i, i + s, i + 2 * s, ... as long as the     *)
(* square is at most k.                                                    *)
Trials(k, s, f) ==
  f \in [Positive -> BOOLEAN] /\ \A i \in Positive : f[i] <=> i * i > k \/ (k % i # 0 /\ f[i + s])

(* The trial divisions end: their results exist.                           *)
LEMMA TrialsExist ==
  ASSUME NEW k \in Nat, NEW s \in Positive
  PROVE  \E f : Trials(k, s, f)
<1> DEFINE m == [i \in Positive |-> IF i * i > k THEN 0 ELSE k + 1 - i]
           H == [i \in Positive |-> [f \in [Positive -> BOOLEAN] |->
                   IF i * i > k \/ (k % i # 0 /\ f[i + s]) THEN TRUE ELSE FALSE]]
<1>1. ASSUME NEW i \in Positive
      PROVE  /\ i * i \in Nat /\ i + s \in Positive /\ m[i] \in Nat
             /\ ~(i * i > k) => m[i + s] < m[i]
  <2>1. i * i \in Nat /\ i + s \in Positive /\ i * i >= i
    BY DEF Positive
  <2>2. ~(i * i > k) => m[i] = k + 1 - i /\ i <= k
    BY <2>1 DEF Positive
  <2>3. m[i + s] = 0 \/ m[i + s] = k + 1 - (i + s)
    BY <2>1
  <2>4. (i * i > k) => m[i] = 0
    OBVIOUS
  <2> HIDE DEF m
  <2> QED BY <2>1, <2>2, <2>3, <2>4 DEF Positive
<1>2. Measured(Positive, BOOLEAN, m, H)
  <2>1. m \in [Positive -> Nat]
    BY Zenon, <1>1
  <2>2. H \in [Positive -> [[Positive -> BOOLEAN] -> BOOLEAN]]
    OBVIOUS
  <2>3. ASSUME NEW i \in Positive, NEW g \in [Positive -> BOOLEAN], NEW h \in [Positive -> BOOLEAN],
               \A y \in Positive : m[y] < m[i] => g[y] = h[y]
        PROVE  H[i][g] = H[i][h]
    <3>1. i * i > k \/ g[i + s] = h[i + s]
      BY Zenon, <1>1, <2>3
    <3> QED BY Zenon, <3>1
  <2> HIDE DEF m, H
  <2> QED BY Zenon, <2>1, <2>2, <2>3 DEF Measured
<1>3. PICK f \in [Positive -> BOOLEAN] : \A x \in Positive : f[x] = H[x][f]
  <2> HIDE DEF m, H
  <2>1. BOOLEAN # {}
    BY Zenon
  <2> DEFINE B == BOOLEAN
  <2>2. B # {} /\ Measured(Positive, B, m, H)
    BY <1>2, <2>1
  <2> HIDE DEF B
  <2>3. \E f \in [Positive -> B] : \A x \in Positive : f[x] = H[x][f]
    BY <2>2, Recursion
  <2> QED BY <2>3 DEF B
<1>4. ASSUME NEW i \in Positive PROVE f[i] <=> i * i > k \/ (k % i # 0 /\ f[i + s])
  <2>1. H[i][f] <=> i * i > k \/ (k % i # 0 /\ f[i + s])
    BY Zenon, <1>3
  <2>2. f[i] = H[i][f]
    BY Zenon, <1>3
  <2> QED BY Zenon, <2>1, <2>2
<1> QED BY <1>3, <1>4 DEF Trials

(* What the trial divisions from i find out.                               *)
LEMMA TrialsFind ==
  ASSUME NEW k \in Nat, NEW s \in Positive, NEW f, Trials(k, s, f)
  PROVE  \A i \in Positive : f[i] <=> \A j \in Nat : (i + j * s) * (i + j * s) <= k => k % (i + j * s) # 0
<1> DEFINE m == [i \in Positive |-> IF i * i > k THEN 0 ELSE k + 1 - i]
           Finds(i) == \A j \in Nat : (i + j * s) * (i + j * s) <= k => k % (i + j * s) # 0
           P == {i \in Positive : f[i] <=> Finds(i)}
<1>1. ASSUME NEW i \in Positive
      PROVE  /\ i * i \in Nat /\ i + s \in Positive /\ m[i] \in Nat
             /\ ~(i * i > k) => m[i + s] < m[i]
  <2>1. i * i \in Nat /\ i + s \in Positive /\ i * i >= i
    BY DEF Positive
  <2>2. ~(i * i > k) => m[i] = k + 1 - i /\ i <= k
    BY <2>1 DEF Positive
  <2>3. m[i + s] = 0 \/ m[i + s] = k + 1 - (i + s)
    BY <2>1
  <2>4. (i * i > k) => m[i] = 0
    OBVIOUS
  <2> HIDE DEF m
  <2> QED BY <2>1, <2>2, <2>3, <2>4 DEF Positive
<1>2. m \in [Positive -> Nat]
  BY Zenon, <1>1
<1>3. ASSUME NEW i \in Positive, \A y \in Positive : m[y] < m[i] => y \in P PROVE i \in P
  <2>0. f[i] <=> i * i > k \/ (k % i # 0 /\ f[i + s])
    BY DEF Trials
  <2>1. CASE i * i > k
    <3>1. ASSUME NEW j \in Nat PROVE (i + j * s) * (i + j * s) >= i * i
      <4>1. j * s \in Nat
        BY DEF Positive
      <4> DEFINE e == j * s
      <4> HIDE DEF e
      <4>2. e \in Nat
        BY <4>1 DEF e
      <4>3. (i + e) * (i + e) = i * i + (i * e + e * i + e * e) /\ i * e + e * i + e * e \in Nat
        BY <4>2 DEF Positive
      <4>4. (i + e) * (i + e) >= i * i
        <5> DEFINE x == i * i
                   y == i * e + e * i + e * e
        <5>1. x \in Nat /\ y \in Nat
          BY Zenon, <1>1, <4>3
        <5> HIDE DEF x, y
        <5>2. x + y >= x
          BY <5>1
        <5> QED BY <4>3, <5>2 DEF x, y
      <4> QED BY <4>4 DEF e
    <3>2. Finds(i)
      <4> TAKE j \in Nat
      <4> DEFINE x == (i + j * s) * (i + j * s)
                 y == i * i
      <4>1. x \in Int /\ y \in Int /\ x >= y /\ y > k
        BY <1>1, <2>1, <3>1 DEF Positive
      <4> HIDE DEF x, y
      <4>2. ~(x <= k)
        BY <4>1
      <4> QED BY <4>2 DEF x
    <3> HIDE DEF Finds
    <3> QED BY <2>0, <2>1, <3>2
  <2>2. CASE ~(i * i > k)
    <3>1. i + s \in P
      BY Zenon, <1>1, <1>3, <2>2
    <3>2. Finds(i) <=> k % i # 0 /\ Finds(i + s)
      <4>1. ASSUME Finds(i) PROVE k % i # 0 /\ Finds(i + s)
        <5>1. i + 0 * s = i
          BY DEF Positive
        <5>2. k % i # 0
          <6>1. (i + 0 * s) * (i + 0 * s) <= k => k % (i + 0 * s) # 0
            BY <4>1
          <6>2. i * i <= k
            <7> DEFINE x == i * i
            <7>1. x \in Nat /\ ~(x > k)
              BY Zenon, <1>1, <2>2
            <7> HIDE DEF x
            <7>2. x <= k
              BY <7>1
            <7> QED BY <7>2 DEF x
          <6> QED BY <5>1, <6>1, <6>2
        <5>3. ASSUME NEW j \in Nat PROVE (i + s) + j * s = i + (j + 1) * s /\ j + 1 \in Nat
          BY DEF Positive
        <5> QED BY <4>1, <5>2, <5>3
      <4>2. ASSUME k % i # 0, Finds(i + s) PROVE Finds(i)
        <5> TAKE j \in Nat
        <5>1. CASE j = 0
          <6>1. i + j * s = i
            BY <5>1 DEF Positive
          <6> QED BY <4>2, <6>1
        <5>2. CASE j # 0
          <6>1. (i + s) + (j - 1) * s = i + j * s /\ j - 1 \in Nat
            BY <5>2 DEF Positive
          <6> QED BY <4>2, <6>1
        <5> QED BY <5>1, <5>2
      <4> HIDE DEF Finds
      <4> QED BY <4>1, <4>2
    <3> HIDE DEF Finds
    <3> QED BY <2>0, <2>2, <3>1, <3>2
  <2> QED BY <2>1, <2>2
<1>4. \A i \in Positive : i \in P
  <2> HIDE DEF P, m
  <2> QED BY <1>2, <1>3, MeasureInduction
<1> QED BY <1>4

(* The loop of PrimeOnTheFly::isPrime tries the divisors in turn.          *)
LEMMA NoDivisorRule ==
  ASSUME NEW k \in Nat
  PROVE  \E f : Trials(k, 1, f) /\ NoDivisor(k) = f[2]
<1> DEFINE Body(f) == [i \in Nat \ {0} |-> i * i > k \/ (k % i # 0 /\ f[i + 1])]
           V == CHOOSE f : f = Body(f)
<1>1. PICK f : Trials(k, 1, f)
  <2>1. 1 \in Positive
    BY DEF Positive
  <2> QED BY <2>1, TrialsExist
<1>2. f = Body(f)
  <2>1. f = [i \in Nat \ {0} |-> f[i]]
    BY <1>1 DEF Trials, Positive
  <2>2. ASSUME NEW i \in Nat \ {0} PROVE f[i] = (i * i > k \/ (k % i # 0 /\ f[i + 1]))
    <3>1. f[i] \in BOOLEAN /\ (f[i] <=> i * i > k \/ (k % i # 0 /\ f[i + 1]))
      BY <1>1 DEF Trials, Positive
    <3> QED BY Zenon, <3>1
  <2>3. [i \in Nat \ {0} |-> f[i]] = Body(f)
    BY Zenon, <2>2
  <2> QED BY Zenon, <2>1, <2>3
<1>3. V = Body(V)
  BY Zenon, <1>2
<1>4. NoDivisor(k) = V[2]
  BY DEF NoDivisor
<1> HIDE DEF V
<1>5. ASSUME NEW i \in Nat \ {0} PROVE V[i] = (i * i > k \/ (k % i # 0 /\ V[i + 1]))
  BY Zenon, <1>3
<1>6. \A i \in Nat \ {0} : V[i] \in BOOLEAN /\ (V[i] <=> i * i > k \/ (k % i # 0 /\ V[i + 1]))
  <2> TAKE i \in Nat \ {0}
  <2>1. (i * i > k \/ (k % i # 0 /\ V[i + 1])) \in BOOLEAN
    BY Zenon
  <2> QED BY Zenon, <1>5, <2>1
<1>7. V \in [Nat \ {0} -> BOOLEAN]
  <2>1. V = [i \in Nat \ {0} |-> V[i]]
    BY Zenon, <1>3
  <2> QED BY Zenon, <1>6, <2>1
<1>8. Trials(k, 1, V)
  BY Zenon, <1>6, <1>7 DEF Trials, Positive
<1> QED BY <1>4, <1>8

(* The trial division of the on-the-fly table tells the primes, for every  *)
(* number.                                                                 *)
LEMMA OnTheFlyRight ==
  ASSUME NEW k \in Nat
  PROVE  OnTheFlyIsPrime(k) <=> Prime(k)
<1>1. PICK f : Trials(k, 1, f) /\ NoDivisor(k) = f[2]
  BY NoDivisorRule
<1>2. f[2] <=> \A j \in Nat : (2 + j * 1) * (2 + j * 1) <= k => k % (2 + j * 1) # 0
  <2>1. 1 \in Positive /\ 2 \in Positive
    BY DEF Positive
  <2> QED BY Zenon, <1>1, <2>1, TrialsFind
<1>3. NoDivisor(k) <=> NoneUpToRoot(k)
  <2>1. ASSUME NoneUpToRoot(k), NEW j \in Nat, (2 + j * 1) * (2 + j * 1) <= k
        PROVE  k % (2 + j * 1) # 0
    <3>1. 2 + j * 1 \in Nat /\ 2 + j * 1 >= 2
      OBVIOUS
    <3> QED BY Zenon, <2>1, <3>1 DEF NoneUpToRoot
  <2>2. ASSUME f[2], NEW d \in Nat, d >= 2, d * d <= k PROVE k % d # 0
    <3>1. d - 2 \in Nat /\ 2 + (d - 2) * 1 = d
      BY <2>2
    <3>2. (2 + (d - 2) * 1) * (2 + (d - 2) * 1) <= k => k % (2 + (d - 2) * 1) # 0
      BY Zenon, <1>2, <2>2, <3>1
    <3> QED BY Zenon, <2>2, <3>1, <3>2
  <2> QED BY Zenon, <1>1, <1>2, <2>1, <2>2 DEF NoneUpToRoot
<1>4. k > 1 => (NoneUpToRoot(k) <=> Prime(k))
  BY RootIsEnough
<1>5. Prime(k) => k > 1
  BY DEF Prime
<1> QED BY Zenon, <1>3, <1>4, <1>5 DEF OnTheFlyIsPrime

(* The loop condition i <= n / i says that the square of i is at most n.   *)
LEMMA QuotientIsRoot ==
  ASSUME NEW k \in Nat, NEW i \in Nat \ {0}
  PROVE  (i > k \div i) <=> (i * i > k)
<1> DEFINE q == k \div i
           r == k % i
           x == i * i
<1>1. q \in Nat /\ r \in Nat /\ r < i /\ k = i * q + r
  BY ModRule
<1> HIDE DEF q, r
<1>2. ASSUME i > q PROVE i * i > k
  <2>1. i * i = i * (q + 1) + i * (i - q - 1) /\ i * (i - q - 1) \in Nat /\ i * (q + 1) = i * q + i
    BY <1>1, <1>2
  <2>2. i * q \in Nat
    BY <1>1
  <2> QED BY <1>1, <2>1, <2>2
<1>3. ASSUME ~(i > q) PROVE ~(i * i > k)
  <2>1. i * q = i * i + i * (q - i) /\ i * (q - i) \in Nat /\ i * i \in Nat
    BY <1>1, <1>3
  <2> QED BY <1>1, <2>1
<1> QED BY <1>2, <1>3 DEF q

(* The loop of the sample's IsPrime tries the odd divisors in turn.        *)
LEMMA NoOddDivisorRule ==
  ASSUME NEW k \in Nat
  PROVE  \E f : Trials(k, 2, f) /\ NoOddDivisor(k) = f[3]
<1> DEFINE Body(f) == [i \in Nat \ {0} |-> i > k \div i \/ (k % i # 0 /\ f[i + 2])]
           V == CHOOSE f : f = Body(f)
<1>0. \A i \in Nat \ {0} : (i > k \div i) <=> (i * i > k)
  BY QuotientIsRoot
<1>1. PICK f : Trials(k, 2, f)
  <2>1. 2 \in Positive
    BY DEF Positive
  <2> QED BY <2>1, TrialsExist
<1>2. f = Body(f)
  <2>1. f = [i \in Nat \ {0} |-> f[i]]
    BY <1>1 DEF Trials, Positive
  <2>2. ASSUME NEW i \in Nat \ {0} PROVE f[i] = (i > k \div i \/ (k % i # 0 /\ f[i + 2]))
    <3>1. f[i] \in BOOLEAN /\ (f[i] <=> i * i > k \/ (k % i # 0 /\ f[i + 2]))
      BY <1>1 DEF Trials, Positive
    <3> QED BY Zenon, <1>0, <3>1
  <2>3. [i \in Nat \ {0} |-> f[i]] = Body(f)
    BY Zenon, <2>2
  <2> QED BY Zenon, <2>1, <2>3
<1>3. V = Body(V)
  BY Zenon, <1>2
<1>4. NoOddDivisor(k) = V[3]
  BY DEF NoOddDivisor
<1> HIDE DEF V
<1>5. ASSUME NEW i \in Nat \ {0} PROVE V[i] = (i > k \div i \/ (k % i # 0 /\ V[i + 2]))
  BY Zenon, <1>3
<1>6. \A i \in Nat \ {0} : V[i] \in BOOLEAN /\ (V[i] <=> i * i > k \/ (k % i # 0 /\ V[i + 2]))
  <2> TAKE i \in Nat \ {0}
  <2>1. (i > k \div i \/ (k % i # 0 /\ V[i + 2])) \in BOOLEAN
    BY Zenon
  <2> QED BY Zenon, <1>0, <1>5, <2>1
<1>7. V \in [Nat \ {0} -> BOOLEAN]
  <2>1. V = [i \in Nat \ {0} |-> V[i]]
    BY Zenon, <1>3
  <2> QED BY Zenon, <1>6, <2>1
<1>8. Trials(k, 2, V)
  BY Zenon, <1>6, <1>7 DEF Trials, Positive
<1> QED BY <1>4, <1>8

(* IsPrime of the first sample tells the primes, for every number.         *)
LEMMA SampleRight ==
  ASSUME NEW k \in Nat
  PROVE  SampleIsPrime(k) <=> Prime(k)
<1>1. CASE k <= 1
  BY <1>1 DEF SampleIsPrime, Prime
<1>2. CASE k > 1 /\ k % 2 = 0
  <2>1. SampleIsPrime(k) <=> k = 2
    BY <1>2 DEF SampleIsPrime
  <2>2. k = 2 => Prime(k)
    BY DEF Prime
  <2>3. k # 2 => 2 \in 2..(k - 1)
    BY <1>2
  <2>4. k # 2 => ~Prime(k)
    BY <1>2, <2>3 DEF Prime
  <2> QED BY <2>1, <2>2, <2>4
<1>3. CASE k > 1 /\ k % 2 # 0
  <2>1. SampleIsPrime(k) <=> NoOddDivisor(k)
    BY <1>3 DEF SampleIsPrime
  <2>2. PICK f : Trials(k, 2, f) /\ NoOddDivisor(k) = f[3]
    BY NoOddDivisorRule
  <2>3. f[3] <=> \A j \in Nat : (3 + j * 2) * (3 + j * 2) <= k => k % (3 + j * 2) # 0
    <3>1. 2 \in Positive /\ 3 \in Positive
      BY DEF Positive
    <3> QED BY ZenonT(40), <2>2, <3>1, TrialsFind
  <2>4. ASSUME NoneUpToRoot(k), NEW j \in Nat, (3 + j * 2) * (3 + j * 2) <= k
        PROVE  k % (3 + j * 2) # 0
    <3>1. 3 + j * 2 \in Nat /\ 3 + j * 2 >= 2
      OBVIOUS
    <3> QED BY Zenon, <2>4, <3>1 DEF NoneUpToRoot
  <2>5. ASSUME f[3], NEW d \in Nat, d >= 2, d * d <= k PROVE k % d # 0
    <3>1. CASE d % 2 = 0
      <4>1. 2 \in Nat \ {0} /\ d \in Nat \ {0}
        BY <2>5
      <4>2. k % d = 0 => k % 2 = 0
        BY Zenon, <3>1, <4>1, ModTransitive
      <4> QED BY <1>3, <4>2
    <3>2. CASE d % 2 # 0
      <4> DEFINE j == (d - 3) \div 2
      <4>1. j \in Nat /\ 3 + j * 2 = d
        BY <2>5, <3>2
      <4> HIDE DEF j
      <4>2. (3 + j * 2) * (3 + j * 2) <= k => k % (3 + j * 2) # 0
        BY Zenon, <2>3, <2>5, <4>1
      <4> QED BY Zenon, <2>5, <4>1, <4>2
    <3> QED BY <3>1, <3>2
  <2>6. NoOddDivisor(k) <=> NoneUpToRoot(k)
    BY Zenon, <2>2, <2>3, <2>4, <2>5 DEF NoneUpToRoot
  <2> QED BY <1>3, <2>1, <2>6, RootIsEnough
<1>4. k <= 1 \/ k > 1
  OBVIOUS
<1> QED BY Zenon, <1>1, <1>2, <1>3, <1>4

-----------------------------------------------------------------------------
(* The sieve and the next prime.                                           *)

(* table tells of the numbers up to max whether one of 2..i, smaller than  *)
(* the number, divides it.                                                 *)
Sifted(max, i, table) ==
  /\ table \in [0..max -> BOOLEAN]
  /\ \A j \in 0..max : table[j] <=> j > 1 /\ \A d \in 2..i : d < j => j % d # 0

(* A turn of the sieve strikes out the multiples of its number.            *)
LEMMA SieveTurnSifts ==
  ASSUME NEW max \in Nat, NEW i \in 2..max, NEW table, Sifted(max, i - 1, table)
  PROVE  Sifted(max, i, SieveTurn(table, i))
<1> DEFINE T == SieveTurn(table, i)
           Old(j) == \A d \in 2..(i - 1) : d < j => j % d # 0
           New(j) == \A d \in 2..i : d < j => j % d # 0
<1>0. table \in [0..max -> BOOLEAN] /\ \A j \in 0..max : table[j] <=> j > 1 /\ Old(j)
  BY DEF Sifted
<1>1. ASSUME NEW j \in 0..max PROVE New(j) <=> Old(j) /\ (i < j => j % i # 0)
  <2>1. \A d : d \in 2..i <=> d \in 2..(i - 1) \/ d = i
    OBVIOUS
  <2> QED BY Zenon, <2>1
<1>2. i \in 0..max /\ i \in Nat \ {0} /\ i > 1
  OBVIOUS
<1>3. CASE ~table[i]
  <2>1. T = table
    BY <1>3 DEF SieveTurn
  <2>2. PICK d \in 2..(i - 1) : d < i /\ i % d = 0
    BY Zenon, <1>0, <1>2, <1>3
  <2>3. ASSUME NEW j \in 0..max, i < j, j % i = 0 PROVE ~Old(j)
    <3>1. d \in Nat \ {0} /\ j \in Nat /\ d < j
      BY <1>2, <2>3
    <3>2. j % d = 0
      BY Zenon, <1>2, <2>2, <2>3, <3>1, ModTransitive
    <3> QED BY <3>1, <3>2
  <2>4. \A j \in 0..max : New(j) <=> Old(j)
    <3> HIDE DEF New, Old
    <3> QED BY <1>1, <2>3
  <2> HIDE DEF T
  <2>5. \A j \in 0..max : T[j] <=> j > 1 /\ New(j)
    <3> HIDE DEF New, Old
    <3> QED BY Zenon, <1>0, <2>1, <2>4
  <2>6. T \in [0..max -> BOOLEAN]
    BY <1>0, <2>1
  <2> QED BY Zenon, <2>5, <2>6 DEF Sifted, T
<1>4. CASE table[i]
  <2>1. T = [j \in 0..max |-> table[j] /\ ~(j >= 2 * i /\ j % i = 0)]
    <3>1. DOMAIN table = 0..max
      BY <1>0
    <3> QED BY Zenon, <1>4, <3>1 DEF SieveTurn
  <2>2. ASSUME NEW j \in 0..max PROVE (j >= 2 * i /\ j % i = 0) <=> (i < j /\ j % i = 0)
    <3>1. j >= 2 * i => i < j
      BY <1>2
    <3>2. ASSUME i < j, j % i = 0 PROVE j >= 2 * i
      <4>0. j \in Nat
        OBVIOUS
      <4>1. PICK q \in Nat : j = i * q
        BY Zenon, <1>2, <3>2, <4>0, ModZero
      <4>2. q # 0 /\ q # 1
        BY <1>2, <3>2, <4>1
      <4>3. i * q = 2 * i + i * (q - 2) /\ i * (q - 2) \in Nat
        BY <1>2, <4>2
      <4> QED BY <1>2, <4>1, <4>3
    <3> QED BY <3>1, <3>2
  <2>3. T \in [0..max -> BOOLEAN]
    <3>1. \A j \in 0..max : (table[j] /\ ~(j >= 2 * i /\ j % i = 0)) \in BOOLEAN
      BY Zenon
    <3> HIDE DEF T
    <3> QED BY Zenon, <2>1, <3>1
  <2> HIDE DEF T
  <2>4. ASSUME NEW j \in 0..max PROVE T[j] <=> j > 1 /\ New(j)
    <3>1. T[j] <=> table[j] /\ ~(j >= 2 * i /\ j % i = 0)
      BY Zenon, <2>1
    <3> HIDE DEF New, Old
    <3>2. T[j] <=> table[j] /\ ~(i < j /\ j % i = 0)
      BY Zenon, <2>2, <3>1
    <3> QED BY Zenon, <1>0, <1>1, <3>2
  <2> QED BY Zenon, <2>3, <2>4 DEF Sifted, T
<1> QED BY <1>3, <1>4

(* After all its turns the sieve keeps the numbers above 1 that no smaller *)
(* number above 1 divides.                                                 *)
LEMMA SieveRule ==
  ASSUME NEW max \in Nat \ {0}, NEW start, Sifted(max, 1, start)
  PROVE  Sifted(max, max, Sieve(start, max))
<1> DEFINE S == [0..max -> BOOLEAN]
           G == [i \in 1..max |-> [v \in S |-> IF i = 1 THEN start ELSE SieveTurn(v, i)]]
           Body(f) == [i \in 1..max |-> IF i = 1 THEN start ELSE SieveTurn(f[i - 1], i)]
           V == CHOOSE f : f = Body(f)
<1>0. start \in S
  BY DEF Sifted
<1>1. ASSUME NEW v \in S, NEW i \in 1..max PROVE SieveTurn(v, i) \in S
  <2>1. DOMAIN v = 0..max
    OBVIOUS
  <2>2. CASE ~v[i]
    BY <2>2 DEF SieveTurn
  <2>3. CASE v[i]
    <3>1. SieveTurn(v, i) = [j \in 0..max |-> v[j] /\ ~(j >= 2 * i /\ j % i = 0)]
      BY Zenon, <2>1, <2>3 DEF SieveTurn
    <3>2. \A j \in 0..max : (v[j] /\ ~(j >= 2 * i /\ j % i = 0)) \in BOOLEAN
      BY Zenon
    <3> QED BY Zenon, <3>1, <3>2
  <2> QED BY Zenon, <2>2, <2>3
<1> HIDE DEF S
<1>2. LoopOf(1, max, S, start, G)
  <2>1. G \in [1..max -> [S -> S]]
    BY <1>0, <1>1
  <2> HIDE DEF G
  <2> QED BY <1>0, <2>1 DEF LoopOf
<1>3. \A i \in 1..max : i # 1 => \A v \in S : G[i][v] = SieveTurn(v, i)
  OBVIOUS
<1> HIDE DEF G
<1>4. PICK f : Turns(1, max, S, start, G, f)
  BY <1>2, Loop
<1>5. f = Body(f)
  <2>1. f \in [1..max -> S]
    BY <1>4 DEF Turns
  <2>2. ASSUME NEW i \in 1..max PROVE f[i] = IF i = 1 THEN start ELSE SieveTurn(f[i - 1], i)
    <3>1. i # 1 => f[i - 1] \in S
      BY <2>1
    <3>2. i # 1 => G[i][f[i - 1]] = SieveTurn(f[i - 1], i)
      BY <1>3, <3>1
    <3> QED BY <1>4, <3>2 DEF Turns
  <2> QED BY <2>1, <2>2
<1>6. V = Body(V)
  BY Zenon, <1>5
<1>7. Sieve(start, max) = V[max]
  BY DEF Sieve
<1> HIDE DEF V
<1>8. \A i \in 1..max : V[i] = IF i = 1 THEN start ELSE SieveTurn(V[i - 1], i)
  BY <1>6
<1> DEFINE P == {i \in 1..max : Sifted(max, i, V[i])}
<1>9. Inductive(1, max, P)
  <2>1. 1 \in P
    BY <1>8
  <2>2. ASSUME NEW i \in 1..max, i # 1, i - 1 \in P PROVE i \in P
    <3>1. i \in 2..max /\ Sifted(max, i - 1, V[i - 1])
      BY <2>2
    <3>2. Sifted(max, i, SieveTurn(V[i - 1], i))
      BY <3>1, SieveTurnSifts
    <3>3. V[i] = SieveTurn(V[i - 1], i)
      BY <1>8, <2>2
    <3> QED BY <3>2, <3>3
  <2> HIDE DEF P
  <2> QED BY <2>1, <2>2 DEF Inductive
<1>10. \A i \in 1..max : i \in P
  <2> HIDE DEF P
  <2> QED BY <1>9, IntervalInduction
<1>11. max \in P
  <2> HIDE DEF P
  <2> QED BY <1>10
<1> QED BY <1>7, <1>11

(* The sieve finds the primes.                                             *)
LEMMA SieveRight ==
  ASSUME NEW max \in Nat \ {0}
  PROVE  /\ CalculatePrimesUpTo(max) \in [0..max -> BOOLEAN]
         /\ \A j \in 0..max : CalculatePrimesUpTo(max)[j] <=> Prime(j)
<1> DEFINE start == [j \in 0..max |-> j > 1]
           T == CalculatePrimesUpTo(max)
<1>1. Sifted(max, 1, start)
  <2>1. start \in [0..max -> BOOLEAN]
    <3>1. \A j \in 0..max : (j > 1) \in BOOLEAN
      OBVIOUS
    <3> QED BY Zenon, <3>1
  <2>2. \A j \in 0..max : start[j] <=> j > 1
    BY Zenon
  <2>3. \A d : ~(d \in 2..1)
    OBVIOUS
  <2> HIDE DEF start
  <2> QED BY Zenon, <2>1, <2>2, <2>3 DEF Sifted
<1>2. Sifted(max, max, T)
  <2>1. T = Sieve(start, max)
    BY DEF CalculatePrimesUpTo
  <2> HIDE DEF start, T
  <2> QED BY <1>1, <2>1, SieveRule
<1> HIDE DEF T
<1>3. ASSUME NEW j \in 0..max PROVE T[j] <=> Prime(j)
  <2>1. T[j] <=> j > 1 /\ \A d \in 2..max : d < j => j % d # 0
    BY Zenon, <1>2 DEF Sifted
  <2>2. \A d : d \in 2..(j - 1) <=> d \in 2..max /\ d < j
    OBVIOUS
  <2> QED BY Zenon, <2>1, <2>2 DEF Prime
<1> QED BY <1>2, <1>3 DEF Sifted, T

(* q is the smallest prime above p.                                        *)
NextAbove(p, q) == q \in Nat /\ Prime(q) /\ q > p /\ \A k \in Nat : Prime(k) /\ k > p => q <= k

(* There is at most one next prime.                                        *)
LEMMA NextAboveUnique ==
  ASSUME NEW p, NEW q, NEW r, NextAbove(p, q), NextAbove(p, r)
  PROVE  q = r
<1>1. q \in Nat /\ r \in Nat /\ q <= r /\ r <= q
  BY DEF NextAbove
<1> QED BY <1>1

(* The search from p finds what the search from p + 1 finds, unless p + 1  *)
(* is prime.                                                               *)
LEMMA NextAboveStep ==
  ASSUME NEW p \in Nat
  PROVE  /\ Prime(p + 1) => NextAbove(p, p + 1)
         /\ ~Prime(p + 1) => \A q : NextAbove(p, q) <=> NextAbove(p + 1, q)
<1>1. Prime(p + 1) => NextAbove(p, p + 1)
  BY DEF NextAbove
<1>2. ASSUME ~Prime(p + 1) PROVE \A k \in Nat : Prime(k) => (k > p <=> k > p + 1)
  <2> TAKE k \in Nat
  <2> HAVE Prime(k)
  <2>1. k # p + 1
    BY Zenon, <1>2
  <2> QED BY <2>1
<1>3. ASSUME ~Prime(p + 1), NEW q PROVE NextAbove(p, q) <=> NextAbove(p + 1, q)
  BY Zenon, <1>2, <1>3 DEF NextAbove
<1> QED BY <1>1, <1>3

NextOf(p, f) == IF OnTheFlyIsPrime(p + 1) THEN p + 1 ELSE f[p + 1]

(* GetNextPrime of the on-the-fly table tries the numbers in turn until    *)
(* one is prime.                                                           *)
LEMMA NextPrimeRule ==
  \A p \in Nat : OnTheFlyNextPrime[p] = NextOf(p, OnTheFlyNextPrime)
<1> DEFINE f == [p \in Nat |-> IF \E q : NextAbove(p, q) THEN CHOOSE q : NextAbove(p, q) ELSE 0]
<1>1. ASSUME NEW p \in Nat PROVE f[p] = NextOf(p, f)
  <2>0. p + 1 \in Nat
    OBVIOUS
  <2>1. CASE Prime(p + 1)
    <3>1. NextAbove(p, p + 1)
      BY <2>1, NextAboveStep
    <3>2. NextAbove(p, f[p])
      BY Zenon, <3>1
    <3>3. f[p] = p + 1
      <4> HIDE DEF f
      <4> QED BY Zenon, <3>1, <3>2, NextAboveUnique
    <3>4. OnTheFlyIsPrime(p + 1)
      BY <2>0, <2>1, OnTheFlyRight
    <3> QED BY Zenon, <3>3, <3>4 DEF NextOf
  <2>2. CASE ~Prime(p + 1)
    <3>1. \A q : NextAbove(p, q) <=> NextAbove(p + 1, q)
      BY Zenon, <2>2, NextAboveStep
    <3>2. CASE \E q : NextAbove(p, q)
      <4>1. NextAbove(p, f[p])
        BY Zenon, <3>2
      <4>2. NextAbove(p + 1, f[p + 1])
        BY Zenon, <2>0, <3>1, <3>2
      <4>3. NextAbove(p, f[p + 1])
        BY Zenon, <3>1, <4>2
      <4> HIDE DEF f
      <4>4. f[p] = f[p + 1]
        BY Zenon, <4>1, <4>3, NextAboveUnique
      <4>5. ~OnTheFlyIsPrime(p + 1)
        BY <2>0, <2>2, OnTheFlyRight
      <4> QED BY Zenon, <4>4, <4>5 DEF NextOf
    <3>3. CASE ~\E q : NextAbove(p, q)
      <4>1. f[p] = 0 /\ f[p + 1] = 0
        BY Zenon, <2>0, <3>1, <3>3
      <4> HIDE DEF f
      <4>2. ~OnTheFlyIsPrime(p + 1)
        BY <2>0, <2>2, OnTheFlyRight
      <4> QED BY Zenon, <4>1, <4>2 DEF NextOf
    <3> QED BY Zenon, <3>2, <3>3
  <2> QED BY Zenon, <2>1, <2>2
<1>2. f = [p \in Nat |-> f[p]]
  OBVIOUS
<1> HIDE DEF f
<1>3. f = [p \in Nat |-> NextOf(p, f)]
  BY Zenon, <1>1, <1>2
<1>4. OnTheFlyNextPrime = [p \in Nat |-> NextOf(p, OnTheFlyNextPrime)]
  BY Zenon, <1>3 DEF OnTheFlyNextPrime, NextOf
<1> QED BY <1>4

(* The search finds the smallest prime above p, if there is one.           *)
LEMMA NextPrimeRight ==
  ASSUME NEW k \in Nat, Prime(k)
  PROVE  \A p \in Nat : p < k => NextAbove(p, OnTheFlyNextPrime[p])
<1> DEFINE m == [p \in Nat |-> IF p < k THEN k - p ELSE 0]
           P == {p \in Nat : p < k => NextAbove(p, OnTheFlyNextPrime[p])}
<1>1. m \in [Nat -> Nat]
  OBVIOUS
<1>2. ASSUME NEW p \in Nat, \A y \in Nat : m[y] < m[p] => y \in P PROVE p \in P
  <2> SUFFICES ASSUME p < k PROVE NextAbove(p, OnTheFlyNextPrime[p])
    OBVIOUS
  <2>0. OnTheFlyNextPrime[p] = NextOf(p, OnTheFlyNextPrime) /\ p + 1 \in Nat
    BY NextPrimeRule
  <2>1. OnTheFlyIsPrime(p + 1) <=> Prime(p + 1)
    BY <2>0, OnTheFlyRight
  <2>2. CASE Prime(p + 1)
    <3>1. OnTheFlyNextPrime[p] = p + 1
      BY Zenon, <2>0, <2>1, <2>2 DEF NextOf
    <3>2. NextAbove(p, p + 1)
      BY <2>2, NextAboveStep
    <3> QED BY Zenon, <3>1, <3>2
  <2>3. CASE ~Prime(p + 1)
    <3>1. OnTheFlyNextPrime[p] = OnTheFlyNextPrime[p + 1]
      BY Zenon, <2>0, <2>1, <2>3 DEF NextOf
    <3>2. p + 1 # k
      BY Zenon, <2>3
    <3>3. p + 1 < k /\ m[p + 1] < m[p]
      BY <3>2
    <3>4. NextAbove(p + 1, OnTheFlyNextPrime[p + 1])
      BY <1>2, <2>0, <3>3
    <3>5. \A q : NextAbove(p, q) <=> NextAbove(p + 1, q)
      BY Zenon, <2>3, NextAboveStep
    <3> QED BY Zenon, <3>1, <3>4, <3>5
  <2> QED BY Zenon, <2>2, <2>3
<1>3. \A p \in Nat : p \in P
  <2> HIDE DEF P, m
  <2> QED BY <1>1, <1>2, MeasureInduction
<1> QED BY <1>3

(* The tables agree in every state of the enumeration.                     *)
LEMMA PrimesRight == AlgorithmsTypeOK => PrimeTablesAgree
<1> SUFFICES ASSUME n \in Nat \ {0} PROVE PrimeTablesAgree
  BY DEF AlgorithmsTypeOK, PrimeTablesAgree
<1> DEFINE table == CalculatePrimesUpTo(n)
           Higher == {k \in 1..n : Prime(k)}
<1>0. \A k : Prime(k) \in BOOLEAN
  BY Zenon DEF Prime
<1>1. SampleIsPrime(n) = Prime(n)
  <2>1. SampleIsPrime(n) <=> Prime(n)
    BY SampleRight
  <2>2. SampleIsPrime(n) \in BOOLEAN
    <3>1. PICK f : Trials(n, 2, f) /\ NoOddDivisor(n) = f[3]
      BY NoOddDivisorRule
    <3>2. f[3] \in BOOLEAN
      BY <3>1 DEF Trials, Positive
    <3>3. NoOddDivisor(n) \in BOOLEAN /\ (n = 2) \in BOOLEAN
      BY Zenon, <3>1, <3>2
    <3> QED BY Zenon, <3>3 DEF SampleIsPrime
  <2> QED BY Zenon, <1>0, <2>1, <2>2
<1>2. OnTheFlyIsPrime(n) = Prime(n)
  <2>1. OnTheFlyIsPrime(n) <=> Prime(n)
    BY OnTheFlyRight
  <2>2. OnTheFlyIsPrime(n) \in BOOLEAN
    BY Zenon DEF OnTheFlyIsPrime
  <2> QED BY Zenon, <1>0, <2>1, <2>2
<1>3. table \in [0..n -> BOOLEAN] /\ \A j \in 0..n : table[j] <=> Prime(j)
  BY SieveRight
<1> HIDE DEF table
<1>4. DOMAIN table = 0..n
  BY <1>3
<1>5. ASSUME NEW k \in -1..(n + 1) PROVE PreCalculatedIsPrime(table, k) = (k <= n /\ Prime(k))
  <2>1. k \notin 0..n => ~(k <= n /\ Prime(k))
    BY DEF Prime
  <2>2. k \in 0..n => k <= n
    OBVIOUS
  <2>3. PreCalculatedIsPrime(table, k) <=> (k <= n /\ Prime(k))
    BY Zenon, <1>3, <1>4, <2>1, <2>2 DEF PreCalculatedIsPrime
  <2>4. PreCalculatedIsPrime(table, k) \in BOOLEAN /\ (k <= n /\ Prime(k)) \in BOOLEAN
    BY Zenon DEF PreCalculatedIsPrime
  <2> QED BY Zenon, <2>3, <2>4
<1>6. ASSUME NEW p \in 0..n
      PROVE  PreCalculatedNextPrime(table, p) =
               IF \E k \in Higher : k > p THEN OnTheFlyNextPrime[p] ELSE -1
  <2> DEFINE found == {q \in DOMAIN table : q > p /\ table[q]}
             Least(q) == q \in found /\ \A k \in found : q <= k
  <2>1. \A q : q \in found <=> q \in 0..n /\ q > p /\ Prime(q)
    BY Zenon, <1>3, <1>4
  <2>2. \A q : q \in found => q \in Higher /\ q \in Nat
    BY <2>1
  <2>3. \A q \in Higher : q > p => q \in found
    BY <2>1
  <2>4. PreCalculatedNextPrime(table, p) =
          IF found = {} THEN -1 ELSE CHOOSE q \in found : \A k \in found : q <= k
    BY Zenon DEF PreCalculatedNextPrime
  <2> HIDE DEF found
  <2>5. CASE \E k \in Higher : k > p
    <3>1. PICK k \in found : TRUE
      BY Zenon, <2>3, <2>5
    <3>2. k \in Nat /\ Prime(k) /\ p < k /\ p \in Nat /\ k <= n
      BY <2>1
    <3> DEFINE q == OnTheFlyNextPrime[p]
    <3>3. NextAbove(p, q)
      BY <3>2, NextPrimeRight
    <3> HIDE DEF q
    <3>4. q \in found
      <4>1. q \in Nat /\ Prime(q) /\ q > p /\ q <= k
        BY <3>2, <3>3 DEF NextAbove
      <4>2. q \in 0..n
        BY <3>2, <4>1
      <4> QED BY Zenon, <2>1, <4>1, <4>2
    <3>5. \A j \in found : q <= j
      <4> TAKE j \in found
      <4>1. j \in Nat /\ Prime(j) /\ j > p
        BY <2>1
      <4> QED BY <3>3, <4>1 DEF NextAbove
    <3> DEFINE c == CHOOSE q1 \in found : \A j \in found : q1 <= j
    <3>6. c \in found /\ \A j \in found : c <= j
      BY Zenon, <3>4, <3>5
    <3> HIDE DEF c
    <3>7. c = q
      <4>1. c \in Nat /\ q \in Nat
        BY <2>1, <3>4, <3>6
      <4>2. c <= q /\ q <= c
        BY Zenon, <3>4, <3>5, <3>6
      <4> QED BY <4>1, <4>2
    <3>8. found # {}
      BY Zenon, <3>4
    <3> QED BY Zenon, <2>4, <2>5, <3>7, <3>8 DEF c, q
  <2>6. CASE ~\E k \in Higher : k > p
    <3>1. found = {}
      BY Zenon, <2>1, <2>2, <2>6
    <3> QED BY Zenon, <2>4, <2>6, <3>1
  <2> QED BY Zenon, <2>5, <2>6
<1> QED BY Zenon, <1>1, <1>2, <1>5, <1>6 DEF PrimeTablesAgree, table

(* Trial division and sieve agree on what is prime and on the next prime   *)
(* within the capacity of the sieve, for every capacity.                   *)
THEOREM PrimeTablesAgreeAlways == AlgorithmsSpec => []PrimeTablesAgree
BY AlgorithmsTyped, PrimesRight, PTL
=============================================================================
