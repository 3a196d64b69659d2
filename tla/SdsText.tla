------------------------------ MODULE SdsText -------------------------------
(***************************************************************************)
(* The text algorithms of src/redis-3.0-network/src/sds.c that build new   *)
(* strings: splitting and joining, the quoted representation and the       *)
(* argument parser that reads it back, and the decimal conversions.  A     *)
(* string is a sequence of byte values (ASCII codes); a loop is a function *)
(* of the state in which a turn begins.                                    *)
(***************************************************************************)
EXTENDS Integers, Sequences

CONSTANT ULLONG_MAX     \* the largest unsigned long long, 2^64 - 1

ASSUME UllongAssumption == ULLONG_MAX \in Nat /\ ULLONG_MAX % 2 = 1

ByteString == Seq(0..255)

\* ---- sdssplitlen and sdsjoin ----

\* The separator stands at (1-based) position j of str.
SepAt(str, sep, j) == SubSeq(str, j, j + Len(sep) - 1) = sep

\* The state of the loop of sdssplitlen: the position, the start of the current
\* token, the tokens so far, the slots allocated, and whether every store hit
\* a slot.
SplitState == [j : Nat \ {0}, start : Nat \ {0}, tokens : Seq(ByteString), slots : Nat,
               fits : BOOLEAN]

\* Mutant: no slot is kept for the last token.
SplitTurnTight(str, sep, at, loop) ==
    LET room == IF at.slots < Len(at.tokens) + 1 THEN 2 * at.slots ELSE at.slots
    IN  IF at.j > Len(str) - (Len(sep) - 1)
        THEN [tokens |-> Append(at.tokens, SubSeq(str, at.start, Len(str))),
              fits   |-> at.fits /\ Len(at.tokens) < at.slots]
        ELSE IF SepAt(str, sep, at.j)
        THEN loop[[j |-> at.j + Len(sep), start |-> at.j + Len(sep),
                   tokens |-> Append(at.tokens, SubSeq(str, at.start, at.j - 1)),
                   slots |-> room, fits |-> at.fits /\ Len(at.tokens) < room]]
        ELSE loop[[at EXCEPT !.j = @ + 1, !.slots = room]]

\* A turn of the loop; loop gives the result of the turns that follow.
SplitTurn(str, sep, at, loop) ==
    LET room == IF at.slots < Len(at.tokens) + 2 THEN 2 * at.slots ELSE at.slots
    IN  IF at.j > Len(str) - (Len(sep) - 1)
        THEN [tokens |-> Append(at.tokens, SubSeq(str, at.start, Len(str))),
              fits   |-> at.fits /\ Len(at.tokens) < at.slots]
        ELSE IF SepAt(str, sep, at.j)
        THEN loop[[j |-> at.j + Len(sep), start |-> at.j + Len(sep),
                   tokens |-> Append(at.tokens, SubSeq(str, at.start, at.j - 1)),
                   slots |-> room, fits |-> at.fits /\ Len(at.tokens) < room]]
        ELSE loop[[at EXCEPT !.j = @ + 1, !.slots = room]]

SplitLoop(str, sep, slots0) ==
    LET loop[at \in SplitState] == SplitTurn(str, sep, at, loop)
    IN  loop[[j |-> 1, start |-> 1, tokens |-> << >>, slots |-> slots0, fits |-> TRUE]]

\* slots0 is the first size of the token array (5 in the code).
sdssplitlen(str, sep, slots0) ==
    IF Len(str) = 0 THEN [tokens |-> << >>, fits |-> TRUE]
    ELSE SplitLoop(str, sep, slots0)

\* What strlen sees of a byte sequence.
CString(t) ==
    SubSeq(t, 1, CHOOSE k \in 0..Len(t) : /\ \A i \in 1..k : t[i] # 0
                                          /\ k < Len(t) => t[k + 1] = 0)

sdsjoin(argv, sep) ==
    LET join[j \in 0..Len(argv)] ==
          IF j = 0 THEN << >>
          ELSE join[j - 1] \o CString(argv[j])
                 \o (IF j # Len(argv) THEN CString(sep) ELSE << >>)
    IN  join[Len(argv)]

\* ---- sdscatrepr and sdssplitargs ----

Backslash == 92
DoubleQuote == 34
SingleQuote == 39

isprint(c) == c \in 32..126
isspace(c) == c \in {9, 10, 11, 12, 13, 32}

\* '0'..'9' and 'a'..'f', as %02x prints them.
HexDigit(d) == IF d < 10 THEN 48 + d ELSE 87 + d

is_hex_digit(c) == c \in 48..57 \cup 97..102 \cup 65..70

hex_digit_to_int(c) ==
    CASE c \in 48..57 -> c - 48
      [] c \in 97..102 -> c - 87
      [] c \in 65..70 -> c - 55
      [] OTHER -> 0

\* \n, \r, \t, \a and \b and the letters that stand for them.
Letter == [c \in {10, 13, 9, 7, 8} |->
             CASE c = 10 -> 110 [] c = 13 -> 114 [] c = 9 -> 116
               [] c = 7 -> 97 [] c = 8 -> 98]

\* Mutant: the backslash is not escaped.
EscapeQuoteOnly(c) ==
    IF c = DoubleQuote THEN <<Backslash, c>>
    ELSE IF c \in DOMAIN Letter THEN <<Backslash, Letter[c]>>
    ELSE IF isprint(c) THEN <<c>>
    ELSE <<Backslash, 120, HexDigit(c \div 16), HexDigit(c % 16)>>

Escape(c) ==
    IF c \in {Backslash, DoubleQuote} THEN <<Backslash, c>>
    ELSE IF c \in DOMAIN Letter THEN <<Backslash, Letter[c]>>
    ELSE IF isprint(c) THEN <<c>>
    ELSE <<Backslash, 120, HexDigit(c \div 16), HexDigit(c % 16)>>

sdscatrepr(str, p) ==
    LET repr[i \in 0..Len(p)] ==
          IF i = 0 THEN Append(str, DoubleQuote) ELSE repr[i - 1] \o Escape(p[i])
    IN  Append(repr[Len(p)], DoubleQuote)

Unescape(c) ==
    IF \E b \in DOMAIN Letter : Letter[b] = c
    THEN CHOOSE b \in DOMAIN Letter : Letter[b] = c ELSE c

\* The byte at position p of a C string; 0 is its end.
At(line, p) == IF p <= Len(line) THEN line[p] ELSE 0

Unbalanced == [ok |-> FALSE, args |-> << >>]

\* The parser at position p.  mode: between arguments (skip), in an argument
\* outside quotes (plain), in double quotes (inq), in single quotes (insq).
ParseState == [p : Nat \ {0}, mode : {"skip", "plain", "inq", "insq"}, current : ByteString,
               vector : Seq(ByteString)]

\* The parser reads what stands at p; parse gives the result of what follows.
ParseTurn(line, at, parse) ==
    LET c == At(line, at.p)
        next == At(line, at.p + 1)
        Go(n, mode) == parse[[at EXCEPT !.p = @ + n, !.mode = mode]]
        Put(b, n) == parse[[at EXCEPT !.p = @ + n, !.current = Append(@, b)]]
        Done(n) == parse[[p |-> at.p + n, mode |-> "skip", current |-> << >>,
                          vector |-> Append(at.vector, at.current)]]
        Close == IF next = 0 \/ isspace(next) THEN Done(1) ELSE Unbalanced
    IN  CASE at.mode = "skip" ->
               IF c = 0 THEN [ok |-> TRUE, args |-> at.vector]
               ELSE IF isspace(c) THEN Go(1, "skip") ELSE Go(0, "plain")
          [] at.mode = "plain" ->
               IF c \in {32, 10, 13, 9} THEN Done(1)
               ELSE IF c = 0 THEN Done(0)
               ELSE IF c = DoubleQuote THEN Go(1, "inq")
               ELSE IF c = SingleQuote THEN Go(1, "insq")
               ELSE Put(c, 1)
          [] at.mode = "inq" ->
               IF /\ c = Backslash /\ next = 120
                  /\ is_hex_digit(At(line, at.p + 2)) /\ is_hex_digit(At(line, at.p + 3))
               THEN Put(hex_digit_to_int(At(line, at.p + 2)) * 16
                          + hex_digit_to_int(At(line, at.p + 3)), 4)
               ELSE IF c = Backslash /\ next # 0 THEN Put(Unescape(next), 2)
               ELSE IF c = DoubleQuote THEN Close
               ELSE IF c = 0 THEN Unbalanced
               ELSE Put(c, 1)
          [] at.mode = "insq" ->
               IF c = Backslash /\ next = SingleQuote THEN Put(SingleQuote, 2)
               ELSE IF c = SingleQuote THEN Close
               ELSE IF c = 0 THEN Unbalanced
               ELSE Put(c, 1)

sdssplitargs(line) ==
    LET parse[at \in ParseState] == ParseTurn(line, at, parse)
    IN  parse[[p |-> 1, mode |-> "skip", current |-> << >>, vector |-> << >>]]

\* ---- sdsll2str and sdsull2str ----

\* The do/while loop: the digits of v, the last one first.
Digits[v \in Nat] ==
    <<48 + (v % 10)>> \o (IF v \div 10 = 0 THEN << >> ELSE Digits[v \div 10])

\* The loop that reverses the string.
Reversed(s) == [i \in 1..Len(s) |-> s[Len(s) - i + 1]]

sdsull2str(v) == Reversed(Digits[v])

\* Mutant: the negation is kept in the width of the magnitude.
sdsll2strNarrow(value) ==
    LET v == (IF value < 0 THEN -value ELSE value) % (ULLONG_MAX \div 2 + 1)
    IN  Reversed(IF value < 0 THEN Append(Digits[v], 45) ELSE Digits[v])

\* -value is taken modulo 2^64: the smallest value is its own negation.
sdsll2str(value) ==
    LET v == (IF value < 0 THEN -value ELSE value) % (ULLONG_MAX + 1)
    IN  Reversed(IF value < 0 THEN Append(Digits[v], 45) ELSE Digits[v])
=============================================================================
