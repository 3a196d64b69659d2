----------------------------- MODULE Algorithms -----------------------------
(***************************************************************************)
(* Pure algorithms of the example programs: the parallel sum and the list  *)
(* sort of Cpp-Concurrency-in-Action (chap2 and chap4), and the prime      *)
(* tests of the googletest samples (sample1.cc and the two tables of       *)
(* prime_tables.h).  Loops and recursions are recursive functions.         *)
(***************************************************************************)
EXTENDS Integers, Sequences, FiniteSets

CONSTANT MinPerThread     \* min_per_thread, 25 in the code

ASSUME MinPerThreadAssumption == MinPerThread \in Nat \ {0}

\* ---- chap2/2_8.cpp ----

\* std::accumulate from the element after position from to position to.
Accumulate(range, from, to, init) ==
    LET sum[k \in from..to] == IF k = from THEN init ELSE sum[k - 1] + range[k]
    IN  sum[to]

\* Mutant: the caller sums a block like the others.
parallel_accumlateEqualBlocks(range, init, hardware_threads) ==
    LET length      == Len(range)
        max_threads == (length + MinPerThread - 1) \div MinPerThread
        hardware    == IF hardware_threads # 0 THEN hardware_threads ELSE 2
        num_threads == IF max_threads < hardware THEN max_threads ELSE hardware
        block_size  == length \div num_threads
        results == [i \in 1..num_threads |->
                      Accumulate(range, (i - 1) * block_size, i * block_size, 0)]
    IN  IF length = 0 THEN init ELSE Accumulate(results, 0, num_threads, init)

\* Every thread sums block_size elements, the caller the rest; each sum starts
\* from an element of results, which is 0.
parallel_accumlate(range, init, hardware_threads) ==
    LET length      == Len(range)
        max_threads == (length + MinPerThread - 1) \div MinPerThread
        hardware    == IF hardware_threads # 0 THEN hardware_threads ELSE 2
        num_threads == IF max_threads < hardware THEN max_threads ELSE hardware
        block_size  == length \div num_threads
        results == [i \in 1..num_threads |->
                      Accumulate(range, (i - 1) * block_size,
                                 IF i < num_threads THEN i * block_size ELSE length, 0)]
    IN  IF length = 0 THEN init ELSE Accumulate(results, 0, num_threads, init)

\* ---- chap4/4_12.cpp and 4_13.cpp ----

\* std::partition: the elements t with t < pivot (low), or those without.
Part(input, pivot, low) ==
    LET part[i \in 0..Len(input)] ==
          IF i = 0 THEN << >>
          ELSE IF (input[i] < pivot) = low THEN Append(part[i - 1], input[i]) ELSE part[i - 1]
    IN  part[Len(input)]

\* The first element is the pivot, spliced out of the input; the parallel
\* version sorts the lower part in another thread and joins it with get().
quick_sort[input \in Seq(Int)] ==
    IF input = << >> THEN << >>
    ELSE quick_sort[Part(Tail(input), Head(input), TRUE)] \o <<Head(input)>>
           \o quick_sort[Part(Tail(input), Head(input), FALSE)]

\* ---- googletest/gtest/sample1.cc ----

\* Odd divisors i = 3, 5, ... while i <= n / i.
NoOddDivisor(n) ==
    LET none[i \in Nat \ {0}] == i > n \div i \/ (n % i # 0 /\ none[i + 2])
    IN  none[3]

SampleIsPrime(n) ==
    IF n <= 1 THEN FALSE
    ELSE IF n % 2 = 0 THEN n = 2
    ELSE NoOddDivisor(n)

\* ---- googletest/gtest/prime_tables.h ----

NoDivisor(n) ==
    LET none[i \in Nat \ {0}] == i * i > n \/ (n % i # 0 /\ none[i + 1])
    IN  none[2]

OnTheFlyIsPrime(n) == n > 1 /\ NoDivisor(n)

OnTheFlyNextPrime[p \in Nat] ==
    IF OnTheFlyIsPrime(p + 1) THEN p + 1 ELSE OnTheFlyNextPrime[p + 1]

\* A turn of the sieve: the multiples of i are marked unless i is.
SieveTurn(is_prime, i) ==
    IF ~is_prime[i] THEN is_prime
    ELSE [j \in DOMAIN is_prime |-> is_prime[j] /\ ~(j >= 2 * i /\ j % i = 0)]

\* The sieve: is_prime after the turns up to i.
Sieve(is_prime, max) ==
    LET table[i \in 1..max] == IF i = 1 THEN is_prime ELSE SieveTurn(table[i - 1], i)
    IN  table[max]

\* Mutant: 1 is left in the table.
CalculatePrimesUpToWithOne(max) == Sieve([j \in 0..max |-> j > 0], max)

CalculatePrimesUpTo(max) == Sieve([j \in 0..max |-> j > 1], max)

PreCalculatedIsPrime(table, n) == n \in DOMAIN table /\ table[n]

\* The smallest prime above p that the table holds, or -1.
PreCalculatedNextPrime(table, p) ==
    LET found == {n \in DOMAIN table : n > p /\ table[n]}
    IN  IF found = {} THEN -1 ELSE CHOOSE n \in found : \A k \in found : n <= k
=============================================================================
