---------------------------- MODULE MCAlgorithms ----------------------------
(***************************************************************************)
(* The pure algorithms against reference definitions.  The two variables   *)
(* enumerate inputs: every text over the alphabet up to MaxText bytes, and *)
(* every number up to MaxNumber.                                           *)
(***************************************************************************)
EXTENDS SdsText, Algorithms

CONSTANTS Alphabet, MaxText, MaxNumber, InitialSlots

ASSUME AlgorithmsAssumption == Alphabet \subseteq 0..255 /\ InitialSlots \in Nat \ {0}

VARIABLES text, n

AlgorithmsInit == text = << >> /\ n = 0

NextText ==
    /\ n = 0 /\ Len(text) < MaxText
    /\ text' \in {Append(text, c) : c \in Alphabet} /\ UNCHANGED n

NextNumber == text = << >> /\ n < MaxNumber /\ n' = n + 1 /\ UNCHANGED text

AlgorithmsSpec == AlgorithmsInit /\ [][NextText \/ NextNumber]_<<text, n>>
-----------------------------------------------------------------------------
\* The separators tried: every non-empty text of at most two bytes.
Separators == [1..1 -> Alphabet] \cup [1..2 -> Alphabet]

\* sep stands nowhere in t.
Free(t, sep) == \A j \in 1..(Len(t) - Len(sep) + 1) : ~SepAt(t, sep, j)
HasNul(t) == \E i \in 1..Len(t) : t[i] = 0

\* sdssplitlen cuts at the separators and only there: sdsjoin puts a text
\* without NUL bytes together again, the tokens before the last end at the
\* first separator that follows them and the last holds none, an empty text
\* has no tokens, and no token is stored past the array ("We are sure there
\* is room in the tokens array", sds.c:1060).
SplitIsInverseOfJoin ==
    \A sep \in Separators :
        LET r == sdssplitlen(text, sep, InitialSlots)
        IN  /\ r.fits
            /\ ~HasNul(text) /\ ~HasNul(sep) => sdsjoin(r.tokens, sep) = text
            /\ (text = << >>) = (r.tokens = << >>)
            /\ \A i \in 1..Len(r.tokens) :
                   IF i = Len(r.tokens) THEN Free(r.tokens[i], sep)
                   ELSE \A j \in 1..Len(r.tokens[i]) : ~SepAt(r.tokens[i] \o sep, sep, j)

\* What sdscatrepr writes, sdssplitargs reads back byte for byte, also when
\* several quoted strings stand on one line with a blank between them ("able
\* to convert back a string into a quoted string in the same format
\* sdssplitargs() is able to parse", sds.c:1186).
ReprIsReadBack ==
    \A other \in {<< >>} \cup [1..1 -> Alphabet] :
        sdssplitargs(sdscatrepr(Append(sdscatrepr(<< >>, other), 32), text))
            = [ok |-> TRUE, args |-> <<other, text>>]

\* The value a text of digits with an optional sign denotes.
Unsigned(t) ==
    LET value[i \in 0..Len(t)] == IF i = 0 THEN 0 ELSE 10 * value[i - 1] + (t[i] - 48)
    IN  value[Len(t)]
Denotes(t) == IF t[1] = 45 THEN -Unsigned(Tail(t)) ELSE Unsigned(t)
Canonical(t) == Len(t) > 1 => t[1] # 48 /\ (t[1] = 45 => t[2] # 48)

\* The decimal conversions write the number they are given, without leading
\* zeros, from the smallest to the largest value of the type.
DecimalDenotesValue ==
    n <= ULLONG_MAX =>
        LET value == IF n <= ULLONG_MAX \div 2 THEN n ELSE n - (ULLONG_MAX + 1)
        IN  /\ Denotes(sdsull2str(n)) = n /\ Canonical(sdsull2str(n))
            /\ Denotes(sdsll2str(value)) = value /\ Canonical(sdsll2str(value))

Occurrences(t, c) == Cardinality({i \in 1..Len(t) : t[i] = c})

\* The work that is divided among threads has the result it has in one: the
\* lists sorted apart are together the same elements in ascending order, and
\* the sums of the blocks, however many processors there are and whatever
\* remains for the last block, add up to the sum of the whole range.
DividedWorkIsWhole ==
    LET sorted == quick_sort[text]
    IN  /\ \A c \in Alphabet : Occurrences(sorted, c) = Occurrences(text, c)
        /\ \A i, j \in 1..Len(sorted) : i < j => sorted[i] <= sorted[j]
        /\ \A hardware_threads \in 0..3, init \in {0, 5} :
               parallel_accumlate(text, init, hardware_threads)
                 = Accumulate(text, 0, Len(text), init)

Prime(k) == k > 1 /\ \A d \in 2..(k - 1) : k % d # 0

\* The trial divisions and the sieve agree on what is prime, and both tables
\* name the same next prime as long as it is within the capacity of the
\* sieve, which answers -1 beyond it.
PrimeTablesAgree ==
    n >= 1 =>
        LET table == CalculatePrimesUpTo(n)
            Higher == {k \in 1..n : Prime(k)}
        IN  /\ SampleIsPrime(n) = Prime(n) /\ OnTheFlyIsPrime(n) = Prime(n)
            /\ \A k \in -1..(n + 1) : PreCalculatedIsPrime(table, k) = (k <= n /\ Prime(k))
            /\ \A p \in 0..n :
                   PreCalculatedNextPrime(table, p) =
                     IF \E k \in Higher : k > p THEN OnTheFlyNextPrime[p] ELSE -1
=============================================================================
