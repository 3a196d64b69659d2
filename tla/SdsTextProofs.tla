--------------------------- MODULE SdsTextProofs ----------------------------
(***************************************************************************)
(* The text functions of sds.c are right for texts of every length over    *)
(* any bytes: what sdssplitlen cuts sdsjoin puts together, what sdscatrepr *)
(* writes sdssplitargs reads, and the decimal conversions write their      *)
(* numbers. A loop is a recursive function; a measure that falls with      *)
(* every turn shows that it exists, so that its turns determine it, and an *)
(* invariant of its turns shows what it returns.                           *)
(***************************************************************************)
EXTENDS RecursionProofs, SequenceTheorems

-----------------------------------------------------------------------------
(* Texts.                                                                  *)

(* A piece of a text is a text.                                            *)
LEMMA SubText ==
  ASSUME NEW str \in ByteString, NEW a \in Nat \ {0}, NEW b \in Int, b <= Len(str)
  PROVE  /\ SubSeq(str, a, b) \in ByteString
         /\ Len(SubSeq(str, a, b)) = IF a <= b THEN b - a + 1 ELSE 0
         /\ \A i \in 1..(b - a + 1) : SubSeq(str, a, b)[i] = str[a + i - 1]
<1>1. \A i \in a..b : str[i] \in 0..255
  <2> TAKE i \in a..b
  <2>1. i \in 1..Len(str)
    BY DEF ByteString
  <2> QED BY Zenon, <2>1, ElementOfSeq DEF ByteString
<1> QED BY <1>1, SubSeqProperties DEF ByteString

(* Two texts behind each other are a text.                                 *)
LEMMA ConcatTexts ==
  ASSUME NEW x \in ByteString, NEW y \in ByteString
  PROVE  x \o y \in ByteString
BY ConcatProperties DEF ByteString

(* The empty sequence is a text.                                           *)
LEMMA EmptyText == << >> \in ByteString
BY EmptySeq DEF ByteString

(* A text over the alphabet is a byte string.                              *)
LEMMA TextIsBytes == AlgorithmsTypeOK => text \in ByteString
<1>1. Alphabet \subseteq 0..255
  BY AlgorithmsAssumption
<1> DEFINE B == 0..255
<1>2. Alphabet \subseteq B
  BY <1>1
<1> HIDE DEF B
<1>3. ASSUME NEW t \in Seq(Alphabet) PROVE t \in Seq(B)
  BY Zenon, <1>2, SeqMonotonic
<1> QED BY Zenon, <1>3 DEF AlgorithmsTypeOK, ByteString, B

(* Bytes of the alphabet in a row are a text.                              *)
LEMMA BytesOf ==
  ASSUME NEW k \in Nat, NEW s \in [1..k -> Alphabet]
  PROVE  s \in ByteString /\ Len(s) = k
<1>1. \A a \in Alphabet : a \in 0..255
  BY AlgorithmsAssumption
<1>2. s \in Seq(Alphabet) /\ Len(s) = k
  OBVIOUS
<1>3. s \in Seq(0..255)
  BY SMTT(30), <1>1, <1>2
<1> QED BY <1>2, <1>3 DEF ByteString

-----------------------------------------------------------------------------
(* The loop of sdssplitlen.                                                *)

SplitResult == [tokens : Seq(ByteString), fits : BOOLEAN]

(* The room for tokens after the turn at "at".                             *)
RoomOf(at) == IF at.slots < Len(at.tokens) + 2 THEN 2 * at.slots ELSE at.slots

(* The states after a separator at at.j, and after any other byte.         *)
AfterSep(str, sep, at) ==
  [j |-> at.j + Len(sep), start |-> at.j + Len(sep),
   tokens |-> Append(at.tokens, SubSeq(str, at.start, at.j - 1)),
   slots |-> RoomOf(at), fits |-> at.fits /\ Len(at.tokens) < RoomOf(at)]
AfterByte(at) == [at EXCEPT !.j = @ + 1, !.slots = RoomOf(at)]
AtEnd(str, at) ==
  [tokens |-> Append(at.tokens, SubSeq(str, at.start, Len(str))),
   fits   |-> at.fits /\ Len(at.tokens) < at.slots]

(* A turn ends, goes behind a separator or goes on by a byte.              *)
LEMMA SplitTurnIs ==
  ASSUME NEW str, NEW sep, NEW at, NEW loop
  PROVE  SplitTurn(str, sep, at, loop) =
           IF at.j > Len(str) - (Len(sep) - 1) THEN AtEnd(str, at)
           ELSE IF SepAt(str, sep, at.j) THEN loop[AfterSep(str, sep, at)]
           ELSE loop[AfterByte(at)]
BY Zenon DEF SplitTurn, AtEnd, AfterSep, AfterByte, RoomOf

(* A turn leads to a state of the loop, further on in the text.            *)
LEMMA SplitTyped ==
  ASSUME NEW str \in ByteString, NEW sep \in ByteString, NEW at \in SplitState, Len(sep) >= 1
  PROVE  /\ AtEnd(str, at) \in SplitResult
         /\ ~(at.j > Len(str) - (Len(sep) - 1)) =>
              /\ AfterSep(str, sep, at) \in SplitState /\ AfterSep(str, sep, at).j > at.j
              /\ AfterByte(at) \in SplitState /\ AfterByte(at).j > at.j
              /\ at.j <= Len(str)
<1>1. /\ at.j \in Nat \ {0} /\ at.start \in Nat \ {0} /\ at.tokens \in Seq(ByteString)
      /\ at.slots \in Nat /\ at.fits \in BOOLEAN
  BY DEF SplitState
<1>2. Len(sep) \in Nat /\ Len(str) \in Nat /\ Len(at.tokens) \in Nat
  BY <1>1 DEF ByteString
<1>3. RoomOf(at) \in Nat
  BY <1>1, <1>2 DEF RoomOf
<1>4. AtEnd(str, at) \in SplitResult
  <2>1. SubSeq(str, at.start, Len(str)) \in ByteString
    BY <1>1, <1>2, SubText
  <2> QED BY <1>1, <2>1 DEF AtEnd, SplitResult
<1>5. ASSUME ~(at.j > Len(str) - (Len(sep) - 1)) PROVE AfterSep(str, sep, at) \in SplitState
  <2>0. at.j - 1 \in Int /\ at.j - 1 <= Len(str)
    BY <1>1, <1>2, <1>5
  <2>1. SubSeq(str, at.start, at.j - 1) \in ByteString
    BY SMTT(30), <1>1, <2>0, SubText
  <2>2. Append(at.tokens, SubSeq(str, at.start, at.j - 1)) \in Seq(ByteString)
    <3> HIDE DEF ByteString
    <3> QED BY <1>1, <2>1
  <2>3. at.j + Len(sep) \in Nat \ {0}
    BY <1>1, <1>2
  <2>4. (at.fits /\ Len(at.tokens) < RoomOf(at)) \in BOOLEAN
    OBVIOUS
  <2> QED BY <1>3, <2>2, <2>3, <2>4 DEF AfterSep, SplitState
<1>6. AfterByte(at) \in SplitState
  <2>1. at.j + 1 \in Nat \ {0}
    BY <1>1
  <2> HIDE DEF ByteString
  <2> QED BY Zenon, <1>3, <2>1 DEF AfterByte, SplitState
<1>7. AfterSep(str, sep, at).j = at.j + Len(sep)
  BY DEF AfterSep
<1>8. AfterByte(at).j = at.j + 1
  BY DEF AfterByte, SplitState
<1> QED BY <1>1, <1>2, <1>4, <1>5, <1>6, <1>7, <1>8

SplitLoopIs(str, sep, loop) == \A at \in SplitState : loop[at] = SplitTurn(str, sep, at, loop)

(* The turns yet to come.                                                  *)
SplitMeasure(str) == [at \in SplitState |-> IF at.j > Len(str) THEN 0 ELSE Len(str) + 1 - at.j]

(* Each turn leaves fewer to come.                                         *)
LEMMA SplitMeasured ==
  ASSUME NEW str \in ByteString
  PROVE  /\ SplitMeasure(str) \in [SplitState -> Nat]
         /\ \A at, to \in SplitState : at.j <= Len(str) /\ to.j > at.j => SplitMeasure(str)[to] < SplitMeasure(str)[at]
<1>1. Len(str) \in Nat /\ \A at \in SplitState : at.j \in Nat \ {0}
  BY DEF ByteString, SplitState
<1> QED BY <1>1 DEF SplitMeasure

(* The loop of sdssplitlen ends for every text, so its turns determine     *)
(* what it returns.                                                        *)
LEMMA SplitRule ==
  ASSUME NEW str \in ByteString, NEW sep \in ByteString, Len(sep) >= 1, NEW slots0
  PROVE  \E loop : SplitLoopIs(str, sep, loop) /\ SplitLoop(str, sep, slots0) =
           loop[[j |-> 1, start |-> 1, tokens |-> << >>, slots |-> slots0, fits |-> TRUE]]
<1> DEFINE D == SplitState
           S == SplitResult
           m == SplitMeasure(str)
           H == [at \in D |-> [g \in [D -> S] |-> SplitTurn(str, sep, at, g)]]
           V == CHOOSE f : f = [at \in SplitState |-> SplitTurn(str, sep, at, f)]
<1>1. m \in [D -> Nat]
  BY SplitMeasured
<1>2. ASSUME NEW at \in D, NEW g \in [D -> S] PROVE SplitTurn(str, sep, at, g) \in S
  <2>1. AtEnd(str, at) \in S /\ (~(at.j > Len(str) - (Len(sep) - 1)) =>
          AfterSep(str, sep, at) \in D /\ AfterByte(at) \in D)
    BY SplitTyped
  <2> HIDE DEF D, S
  <2> QED BY <2>1, SplitTurnIs
<1>3. ASSUME NEW at \in D, NEW g \in [D -> S], NEW h \in [D -> S],
             \A y \in D : m[y] < m[at] => g[y] = h[y]
      PROVE  H[at][g] = H[at][h]
  <2> DEFINE end == at.j > Len(str) - (Len(sep) - 1)
             a == AfterSep(str, sep, at)
             b == AfterByte(at)
  <2>1. ~end => a \in D /\ a.j > at.j /\ b \in D /\ b.j > at.j /\ at.j <= Len(str)
    BY SplitTyped
  <2> HIDE DEF a, b, end
  <2>2. ~end => m[a] < m[at] /\ m[b] < m[at]
    <3> HIDE DEF D
    <3> QED BY <2>1, SplitMeasured DEF D
  <2>3. ~end => g[a] = h[a] /\ g[b] = h[b]
    <3> HIDE DEF m, D, S, H
    <3> QED BY <1>3, <2>1, <2>2
  <2>4. SplitTurn(str, sep, at, g) = SplitTurn(str, sep, at, h)
    BY Zenon, <2>3, SplitTurnIs DEF a, b, end
  <2> HIDE DEF D, S, m
  <2> QED BY <2>4
<1> HIDE DEF D, S, m
<1>4. H \in [D -> [[D -> S] -> S]]
  BY <1>2
<1>5. S # {}
  <2>1. [tokens |-> << >>, fits |-> TRUE] \in S
    BY DEF S, SplitResult
  <2> QED BY Zenon, <2>1
<1>6. \E f \in [D -> S] : \A x \in D : f[x] = H[x][f]
  <2> HIDE DEF H
  <2>1. Measured(D, S, m, H)
    BY Zenon, <1>1, <1>3, <1>4 DEF Measured
  <2> QED BY <1>5, <2>1, Recursion
<1>7. PICK f \in [D -> S] : \A x \in D : f[x] = H[x][f]
  BY <1>6
<1>8. f = [at \in D |-> SplitTurn(str, sep, at, f)]
  BY <1>7
<1>9. V = [at \in D |-> SplitTurn(str, sep, at, V)]
  BY Zenon, <1>8 DEF D
<1>10. SplitLoop(str, sep, slots0) = V[[j |-> 1, start |-> 1, tokens |-> << >>, slots |-> slots0, fits |-> TRUE]]
  BY Zenon DEF SplitLoop
<1> HIDE DEF V
<1>11. SplitLoopIs(str, sep, V)
  BY <1>9 DEF SplitLoopIs, D
<1> QED BY <1>10, <1>11

(* u and str are the same bytes, those of u off places further in str.     *)
Shifted(u, str, off, M) ==
  /\ u \in ByteString /\ str \in ByteString /\ off \in Nat /\ M \in Nat
  /\ M <= Len(u) /\ off + M <= Len(str) /\ \A x \in 1..M : u[x] = str[off + x]

(* A separator stands at the same place of a piece and of the text it was  *)
(* taken from.                                                             *)
LEMMA ShiftedSep ==
  ASSUME NEW u, NEW str, NEW off, NEW M, Shifted(u, str, off, M),
         NEW sep \in ByteString, NEW k \in Nat \ {0}, k + Len(sep) - 1 <= M
  PROVE  SepAt(u, sep, k) <=> SepAt(str, sep, off + k)
<1> DEFINE L == Len(sep)
           x == SubSeq(u, k, k + L - 1)
           y == SubSeq(str, off + k, off + k + L - 1)
<1>0. L \in Nat /\ off \in Nat /\ M \in Nat /\ u \in ByteString /\ str \in ByteString
  BY DEF ByteString, Shifted
<1>1. /\ k + L - 1 \in Int /\ k + L - 1 <= Len(u)
      /\ off + k \in Nat \ {0} /\ off + k + L - 1 \in Int /\ off + k + L - 1 <= Len(str)
  BY <1>0 DEF Shifted, ByteString
<1>2. /\ x \in ByteString
      /\ Len(x) = (IF k <= k + L - 1 THEN (k + L - 1) - k + 1 ELSE 0)
      /\ \A i \in 1..((k + L - 1) - k + 1) : x[i] = u[k + i - 1]
  BY <1>0, <1>1, SubText
<1>3. /\ y \in ByteString
      /\ Len(y) = (IF off + k <= off + k + L - 1 THEN (off + k + L - 1) - (off + k) + 1 ELSE 0)
      /\ \A i \in 1..((off + k + L - 1) - (off + k) + 1) : y[i] = str[(off + k) + i - 1]
  BY <1>0, <1>1, SubText
<1>4. Len(x) = L /\ Len(y) = L /\ (k + L - 1) - k + 1 = L /\ (off + k + L - 1) - (off + k) + 1 = L
  BY <1>0, <1>2, <1>3
<1> HIDE DEF x, y
<1>5. ASSUME NEW i \in 1..L PROVE x[i] = y[i]
  <2>1. x[i] = u[k + i - 1] /\ y[i] = str[(off + k) + i - 1]
    BY <1>2, <1>3, <1>4
  <2>2. k + i - 1 \in 1..M /\ (off + k) + i - 1 = off + (k + i - 1)
    BY <1>0
  <2> QED BY <2>1, <2>2 DEF Shifted
<1>6. x = y
  BY <1>2, <1>3, <1>4, <1>5, SeqEqual DEF ByteString
<1> QED BY Zenon, <1>6 DEF x, y, SepAt

(* Before the separator that ends it, a token has none.                    *)
TokenCut(t, sep) == \A k \in 1..Len(t) : ~SepAt(t \o sep, sep, k)

(* A token that ends at the first separator behind its start is cut        *)
(* rightly.                                                                *)
LEMMA TokenIsCut ==
  ASSUME NEW str \in ByteString, NEW sep \in ByteString, NEW a \in Nat \ {0}, NEW j \in Nat,
         a <= j, j + Len(sep) - 1 <= Len(str), SepAt(str, sep, j), Len(sep) >= 1,
         \A k \in a..(j - 1) : ~SepAt(str, sep, k)
  PROVE  TokenCut(SubSeq(str, a, j - 1), sep)
<1> DEFINE t == SubSeq(str, a, j - 1)
           u == t \o sep
           L == Len(sep)
           M == (j - a) + L
<1>0. L \in Nat /\ Len(str) \in Nat /\ j - 1 \in Int /\ j - 1 <= Len(str) /\ j \in Nat \ {0}
  BY DEF ByteString
<1>1. t \in ByteString /\ Len(t) = j - a /\ \A i \in 1..(j - a) : t[i] = str[a + i - 1]
  <2>1. /\ t \in ByteString
        /\ Len(t) = (IF a <= j - 1 THEN (j - 1) - a + 1 ELSE 0)
        /\ \A i \in 1..((j - 1) - a + 1) : t[i] = str[a + i - 1]
    BY <1>0, SubText
  <2> HIDE DEF t
  <2>2. (j - 1) - a + 1 = j - a
    OBVIOUS
  <2> QED BY <2>1, <2>2
<1>2. \A i \in 1..L : sep[i] = str[j + i - 1]
  <2>1. j + L - 1 \in Int /\ j + L - 1 <= Len(str) /\ (j + L - 1) - j + 1 = L
    BY <1>0
  <2>2. \A i \in 1..((j + L - 1) - j + 1) : SubSeq(str, j, j + L - 1)[i] = str[j + i - 1]
    BY <1>0, <2>1, SubText
  <2> QED BY <2>1, <2>2 DEF SepAt
<1> HIDE DEF t
<1>3. u \in ByteString /\ Len(u) = M
  <2> DEFINE B == 0..255
  <2>1. t \in Seq(B) /\ sep \in Seq(B)
    BY <1>1 DEF ByteString
  <2> HIDE DEF B
  <2>2. u \in Seq(B) /\ Len(u) = Len(t) + L
    BY <2>1, ConcatProperties
  <2> QED BY <1>1, <2>2 DEF B, ByteString
<1>4. \A i \in 1..M : u[i] = IF i <= j - a THEN t[i] ELSE sep[i - (j - a)]
  BY <1>0, <1>1 DEF ByteString
<1> HIDE DEF u
<1>5. ASSUME NEW i \in 1..M PROVE u[i] = str[(a - 1) + i]
  <2>1. CASE i <= j - a
    <3>1. i \in 1..(j - a) /\ a + i - 1 = (a - 1) + i
      BY <2>1
    <3> QED BY <1>1, <1>4, <2>1, <3>1
  <2>2. CASE ~(i <= j - a)
    <3>1. i - (j - a) \in 1..L /\ j + (i - (j - a)) - 1 = (a - 1) + i
      BY <1>0, <2>2
    <3> QED BY Zenon, <1>2, <1>4, <2>2, <3>1
  <2> QED BY <2>1, <2>2
<1>6. Shifted(u, str, a - 1, M)
  <2>1. a - 1 \in Nat /\ M \in Nat /\ M <= Len(u) /\ (a - 1) + M <= Len(str)
    BY <1>0, <1>3
  <2> HIDE DEF M
  <2> QED BY <1>3, <1>5, <2>1 DEF Shifted
<1>7. ASSUME NEW k \in 1..Len(t) PROVE ~SepAt(u, sep, k)
  <2>1. k \in Nat \ {0} /\ k + L - 1 <= M /\ (a - 1) + k \in a..(j - 1)
    BY <1>0, <1>1
  <2>2. SepAt(u, sep, k) <=> SepAt(str, sep, (a - 1) + k)
    <3> HIDE DEF M
    <3> QED BY <1>6, <2>1, ShiftedSep
  <2> QED BY <2>1, <2>2
<1> QED BY <1>7 DEF TokenCut, t, u

(* The rest from a on has no separator if none stands there.               *)
LEMMA RestIsFree ==
  ASSUME NEW str \in ByteString, NEW sep \in ByteString, NEW a \in Nat \ {0}, a <= Len(str) + 1,
         Len(sep) >= 1, \A k \in a..(Len(str) - (Len(sep) - 1)) : ~SepAt(str, sep, k)
  PROVE  Free(SubSeq(str, a, Len(str)), sep)
<1> DEFINE N == Len(str)
           t == SubSeq(str, a, N)
           M == N - a + 1
           L == Len(sep)
<1>0. L \in Nat /\ N \in Nat
  BY DEF ByteString
<1>1. t \in ByteString /\ Len(t) = M /\ \A i \in 1..M : t[i] = str[a + i - 1]
  <2>1. /\ t \in ByteString
        /\ Len(t) = (IF a <= N THEN N - a + 1 ELSE 0)
        /\ \A i \in 1..(N - a + 1) : t[i] = str[a + i - 1]
    BY <1>0, SubText
  <2> HIDE DEF t
  <2> QED BY <1>0, <2>1
<1> HIDE DEF t
<1>2. Shifted(t, str, a - 1, M)
  <2>1. a - 1 \in Nat /\ M \in Nat /\ M <= Len(t) /\ (a - 1) + M <= Len(str)
    BY <1>0, <1>1
  <2>2. \A i \in 1..M : a + i - 1 = (a - 1) + i
    OBVIOUS
  <2> HIDE DEF M
  <2> QED BY <1>1, <2>1, <2>2 DEF Shifted
<1>3. ASSUME NEW k \in 1..(Len(t) - L + 1) PROVE ~SepAt(t, sep, k)
  <2>1. k \in Nat \ {0} /\ k + L - 1 <= M /\ (a - 1) + k \in a..(N - (L - 1))
    BY <1>0, <1>1
  <2>2. SepAt(t, sep, k) <=> SepAt(str, sep, (a - 1) + k)
    <3> HIDE DEF M
    <3> QED BY <1>2, <2>1, ShiftedSep
  <2> QED BY <2>1, <2>2
<1> QED BY <1>3 DEF Free, t

(* A piece of a text without NUL bytes has none.                           *)
LEMMA SubTextNul ==
  ASSUME NEW str \in ByteString, NEW a \in Nat \ {0}, NEW b \in Int, b <= Len(str), ~HasNul(str)
  PROVE  ~HasNul(SubSeq(str, a, b))
<1> DEFINE t == SubSeq(str, a, b)
<1>1. /\ Len(t) = (IF a <= b THEN b - a + 1 ELSE 0)
      /\ \A i \in 1..(b - a + 1) : t[i] = str[a + i - 1]
  BY SubText
<1> HIDE DEF t
<1>2. ASSUME NEW i \in 1..Len(t) PROVE t[i] # 0
  <2>1. i \in 1..(b - a + 1) /\ a + i - 1 \in 1..Len(str)
    BY <1>1 DEF ByteString
  <2> QED BY <1>1, <2>1 DEF HasNul
<1> QED BY <1>2 DEF HasNul, t

(* The tokens, each with the separator that follows it, are what stands    *)
(* before start; J holds the prefixes.                                     *)
Glued(tokens, sep, str, start, J) ==
  /\ J \in [0..Len(tokens) -> ByteString] /\ J[0] = << >>
  /\ \A k \in 1..Len(tokens) : J[k] = J[k - 1] \o tokens[k] \o sep
  /\ J[Len(tokens)] = SubSeq(str, 1, start - 1)

TokensRight(str, sep, tokens) ==
  \A i \in 1..Len(tokens) :
     TokenCut(tokens[i], sep) /\ (~HasNul(str) => ~HasNul(tokens[i]))

SplitInv(str, sep, at) ==
  /\ at \in SplitState
  /\ at.start <= at.j /\ at.j <= Len(str) + 1
  /\ at.fits /\ Len(at.tokens) < at.slots
  /\ \A k \in at.start..(at.j - 1) : ~SepAt(str, sep, k)
  /\ \E J : Glued(at.tokens, sep, str, at.start, J)
  /\ TokensRight(str, sep, at.tokens)

(* The result: tokens and the rest, in which no separator stands.          *)
SplitDone(str, sep, r, toks, start, J) ==
  /\ r.fits /\ toks \in Seq(ByteString) /\ start \in 1..(Len(str) + 1)
  /\ r.tokens = Append(toks, SubSeq(str, start, Len(str)))
  /\ Glued(toks, sep, str, start, J) /\ TokensRight(str, sep, toks)
  /\ Free(SubSeq(str, start, Len(str)), sep)
  /\ ~HasNul(str) => ~HasNul(SubSeq(str, start, Len(str)))

Splits(str, sep) == str \in ByteString /\ sep \in ByteString /\ Len(sep) >= 1

(* The fields of a state of the loop.                                      *)
LEMMA StateFields ==
  ASSUME NEW at \in SplitState
  PROVE  /\ at.j \in Nat \ {0} /\ at.start \in Nat \ {0} /\ at.tokens \in Seq(ByteString)
         /\ at.slots \in Nat /\ at.fits \in BOOLEAN /\ Len(at.tokens) \in Nat
<1>1. at.tokens \in Seq(ByteString)
  BY DEF SplitState
<1> HIDE DEF ByteString
<1> QED BY <1>1 DEF SplitState

(* At the end of the text the last token is stored and the tokens are      *)
(* right.                                                                  *)
LEMMA EndIsRight ==
  ASSUME NEW str, NEW sep, Splits(str, sep), NEW at, SplitInv(str, sep, at),
         at.j > Len(str) - (Len(sep) - 1)
  PROVE  \E toks, start, J : SplitDone(str, sep, AtEnd(str, at), toks, start, J)
<1>0. /\ at.j \in Nat \ {0} /\ at.start \in Nat \ {0} /\ at.tokens \in Seq(ByteString)
      /\ at.slots \in Nat /\ Len(at.tokens) \in Nat
  BY StateFields DEF SplitInv
<1>1. Len(str) \in Nat /\ Len(sep) \in Nat /\ str \in ByteString /\ sep \in ByteString /\ Len(sep) >= 1
  BY DEF Splits, ByteString
<1>2. at.start \in 1..(Len(str) + 1)
  BY <1>0, <1>1 DEF SplitInv
<1>3. Free(SubSeq(str, at.start, Len(str)), sep)
  <2>1. \A k \in at.start..(Len(str) - (Len(sep) - 1)) : k \in at.start..(at.j - 1)
    BY <1>0, <1>1
  <2>2. \A k \in at.start..(Len(str) - (Len(sep) - 1)) : ~SepAt(str, sep, k)
    BY <2>1 DEF SplitInv
  <2>3. at.start <= Len(str) + 1
    BY <1>2
  <2> QED BY <1>0, <1>1, <2>2, <2>3, RestIsFree
<1>4. ~HasNul(str) => ~HasNul(SubSeq(str, at.start, Len(str)))
  BY <1>0, <1>1, SubTextNul
<1>5. /\ AtEnd(str, at).fits
      /\ AtEnd(str, at).tokens = Append(at.tokens, SubSeq(str, at.start, Len(str)))
  BY Zenon DEF AtEnd, SplitInv
<1>6. PICK J : Glued(at.tokens, sep, str, at.start, J)
  BY DEF SplitInv
<1>7. SplitDone(str, sep, AtEnd(str, at), at.tokens, at.start, J)
  BY <1>0, <1>2, <1>3, <1>4, <1>5, <1>6 DEF SplitDone, SplitInv
<1> QED BY <1>7

(* After the array is grown there is room for this token and the last one. *)
LEMMA RoomIsEnough ==
  ASSUME NEW at \in SplitState, Len(at.tokens) < at.slots
  PROVE  RoomOf(at) \in Nat /\ Len(at.tokens) + 1 < RoomOf(at)
BY StateFields DEF RoomOf

(* A turn that goes on by a byte keeps the invariant of the loop.          *)
LEMMA ByteStep ==
  ASSUME NEW str, NEW sep, Splits(str, sep), NEW at, SplitInv(str, sep, at),
         ~(at.j > Len(str) - (Len(sep) - 1)), ~SepAt(str, sep, at.j)
  PROVE  SplitInv(str, sep, AfterByte(at))
<1> DEFINE to == AfterByte(at)
<1>0. /\ at.j \in Nat \ {0} /\ at.start \in Nat \ {0} /\ at.tokens \in Seq(ByteString)
      /\ at.slots \in Nat /\ Len(at.tokens) \in Nat /\ at \in SplitState
  BY StateFields DEF SplitInv
<1>1. Len(str) \in Nat /\ Len(sep) \in Nat /\ str \in ByteString /\ sep \in ByteString /\ Len(sep) >= 1
  BY DEF Splits, ByteString
<1>2. to \in SplitState
  BY <1>0, <1>1, SplitTyped
<1>3. to.j = at.j + 1 /\ to.start = at.start /\ to.tokens = at.tokens /\ to.slots = RoomOf(at) /\ to.fits = at.fits
  BY <1>0 DEF AfterByte, SplitState
<1> HIDE DEF to
<1>4. to.start <= to.j /\ to.j <= Len(str) + 1
  BY <1>0, <1>1, <1>3 DEF SplitInv
<1>5. Len(to.tokens) < to.slots
  <2>1. Len(at.tokens) < at.slots
    BY DEF SplitInv
  <2>2. RoomOf(at) \in Nat /\ Len(at.tokens) + 1 < RoomOf(at)
    BY <1>0, <2>1, RoomIsEnough
  <2> QED BY <1>0, <1>3, <2>2
<1>6. \A k \in to.start..(to.j - 1) : ~SepAt(str, sep, k)
  <2> TAKE k \in to.start..(to.j - 1)
  <2>1. k \in at.start..(at.j - 1) \/ k = at.j
    BY <1>0, <1>3
  <2> QED BY <2>1 DEF SplitInv
<1>7. (\E J : Glued(to.tokens, sep, str, to.start, J)) /\ TokensRight(str, sep, to.tokens) /\ to.fits
  BY <1>3 DEF SplitInv
<1> QED BY <1>2, <1>4, <1>5, <1>6, <1>7 DEF SplitInv, to

(* A token that starts at a ends before the separator at j.                *)
PieceAt(str, sep, a, j) ==
  /\ str \in ByteString /\ sep \in ByteString /\ Len(sep) >= 1
  /\ a \in Nat \ {0} /\ j \in Nat /\ a <= j /\ j + Len(sep) - 1 <= Len(str)
  /\ SepAt(str, sep, j)

(* That token and separator follow what was cut before.                    *)
PieceGlues(str, sep, a, j) ==
  SubSeq(str, 1, (j + Len(sep)) - 1) = SubSeq(str, 1, a - 1) \o SubSeq(str, a, j - 1) \o sep

(* A token and its separator follow what was cut before.                   *)
LEMMA PieceFollows ==
  ASSUME NEW str, NEW sep, NEW a, NEW j, PieceAt(str, sep, a, j)
  PROVE  PieceGlues(str, sep, a, j)
<1> DEFINE B == 0..255
           L == Len(sep)
           N == Len(str)
<1>0. /\ L \in Nat /\ N \in Nat /\ str \in Seq(B) /\ str \in ByteString /\ sep \in ByteString
      /\ a \in Nat \ {0} /\ j \in Nat /\ a <= j /\ L >= 1 /\ j + L - 1 <= N /\ SepAt(str, sep, j)
  BY DEF PieceAt, ByteString
<1> HIDE DEF B
<1>1. SubSeq(str, 1, a - 1) \o SubSeq(str, (a - 1) + 1, j - 1) = SubSeq(str, 1, j - 1)
  <2>1. 1 \in 1..(N + 1) /\ a - 1 \in (1 - 1)..N /\ j - 1 \in (a - 1)..N
    BY <1>0
  <2> QED BY <1>0, <2>1, ConcatAdjacentSubSeq
<1>2. SubSeq(str, 1, j - 1) \o SubSeq(str, (j - 1) + 1, j + L - 1) = SubSeq(str, 1, j + L - 1)
  <2>1. 1 \in 1..(N + 1) /\ j - 1 \in (1 - 1)..N /\ j + L - 1 \in (j - 1)..N
    BY <1>0
  <2> QED BY <1>0, <2>1, ConcatAdjacentSubSeq
<1>3. (a - 1) + 1 = a /\ (j - 1) + 1 = j /\ (j + L) - 1 = j + L - 1
  BY <1>0
<1>4. SubSeq(str, j, j + L - 1) = sep
  BY <1>0 DEF SepAt
<1> QED BY Zenon, <1>1, <1>2, <1>3, <1>4 DEF PieceGlues

(* A token more: its separator and itself follow what was cut before.      *)
LEMMA GluedOn ==
  ASSUME NEW str \in ByteString, NEW sep, NEW tokens \in Seq(ByteString), NEW t \in ByteString,
         NEW a, NEW b \in Nat, b <= Len(str), NEW J, Glued(tokens, sep, str, a, J),
         SubSeq(str, 1, (b + 1) - 1) = SubSeq(str, 1, a - 1) \o t \o sep
  PROVE  \E K : Glued(Append(tokens, t), sep, str, b + 1, K)
<1> DEFINE n0 == Len(tokens)
           u == Append(tokens, t)
           w == SubSeq(str, 1, (b + 1) - 1)
           K == [k \in 0..(n0 + 1) |-> IF k <= n0 THEN J[k] ELSE w]
<1>0. n0 \in Nat
  OBVIOUS
<1>1. u \in Seq(ByteString) /\ Len(u) = n0 + 1 /\ u[n0 + 1] = t /\ \A k \in 1..n0 : u[k] = tokens[k]
  <2> HIDE DEF ByteString
  <2> QED OBVIOUS
<1>2. w \in ByteString
  <2>1. 1 \in Nat \ {0} /\ (b + 1) - 1 \in Int /\ (b + 1) - 1 <= Len(str)
    OBVIOUS
  <2> HIDE DEF w
  <2> QED BY <2>1, SubText DEF w
<1>3. J \in [0..n0 -> ByteString] /\ J[0] = << >> /\ J[n0] = SubSeq(str, 1, a - 1)
      /\ \A k \in 1..n0 : J[k] = J[k - 1] \o tokens[k] \o sep
  BY Zenon DEF Glued
<1>4. w = J[n0] \o t \o sep
  BY Zenon, <1>3
<1> HIDE DEF u, w, n0
<1>5. K \in [0..(n0 + 1) -> ByteString]
  <2>1. \A k \in 0..(n0 + 1) : (IF k <= n0 THEN J[k] ELSE w) \in ByteString
    <3> HIDE DEF ByteString
    <3> QED BY <1>0, <1>2, <1>3
  <2> QED BY <2>1
<1>6. K[0] = << >> /\ K[n0 + 1] = w
  BY <1>0, <1>3
<1>7. ASSUME NEW k \in 1..(n0 + 1) PROVE K[k] = K[k - 1] \o u[k] \o sep
  <2>1. CASE k <= n0
    <3>1. k \in 1..n0 /\ K[k] = J[k] /\ K[k - 1] = J[k - 1] /\ u[k] = tokens[k]
      BY <1>0, <1>1, <2>1
    <3> HIDE DEF K
    <3> QED BY Zenon, <1>3, <3>1
  <2>2. CASE k = n0 + 1
    <3>1. K[k] = w /\ K[k - 1] = J[n0] /\ u[k] = t
      BY <1>0, <1>1, <2>2
    <3> HIDE DEF K
    <3> QED BY Zenon, <1>4, <3>1
  <2> HIDE DEF K
  <2>3. k <= n0 \/ k = n0 + 1
    BY <1>0
  <2> QED BY Zenon, <2>1, <2>2, <2>3
<1> HIDE DEF K
<1>8. Glued(u, sep, str, b + 1, K)
  BY Zenon, <1>1, <1>5, <1>6, <1>7 DEF Glued, w
<1> QED BY <1>8 DEF u

(* A turn that cuts at a separator keeps the invariant of the loop.        *)
LEMMA SepStep ==
  ASSUME NEW str, NEW sep, Splits(str, sep), NEW at, SplitInv(str, sep, at),
         ~(at.j > Len(str) - (Len(sep) - 1)), SepAt(str, sep, at.j)
  PROVE  SplitInv(str, sep, AfterSep(str, sep, at))
<1> DEFINE to == AfterSep(str, sep, at)
           t == SubSeq(str, at.start, at.j - 1)
           L == Len(sep)
<1>0. /\ at.j \in Nat \ {0} /\ at.start \in Nat \ {0} /\ at.tokens \in Seq(ByteString)
      /\ at.slots \in Nat /\ Len(at.tokens) \in Nat /\ at \in SplitState
  BY StateFields DEF SplitInv
<1>1. Len(str) \in Nat /\ L \in Nat /\ str \in ByteString /\ sep \in ByteString /\ L >= 1
  BY DEF Splits, ByteString
<1>2. to \in SplitState
  BY <1>0, <1>1, SplitTyped
<1>3. /\ to.j = at.j + L /\ to.start = at.j + L /\ to.tokens = Append(at.tokens, t)
      /\ to.slots = RoomOf(at) /\ (to.fits <=> at.fits /\ Len(at.tokens) < RoomOf(at))
  BY Zenon DEF AfterSep
<1> HIDE DEF to
<1>4. at.start <= at.j /\ at.j - 1 \in Int /\ at.j - 1 <= Len(str) /\ at.j + L - 1 <= Len(str)
  BY <1>0, <1>1 DEF SplitInv
<1>5. t \in ByteString
  BY <1>0, <1>1, <1>4, SubText
<1>6. TokenCut(t, sep)
  <2>1. \A k \in at.start..(at.j - 1) : ~SepAt(str, sep, k)
    BY DEF SplitInv
  <2> QED BY Zenon, <1>0, <1>1, <1>4, <2>1, TokenIsCut
<1>7. ~HasNul(str) => ~HasNul(t)
  BY <1>0, <1>1, <1>4, SubTextNul
<1>8. SubSeq(str, 1, (at.j + L) - 1) = SubSeq(str, 1, at.start - 1) \o t \o sep
  <2> DEFINE j == at.j
             a == at.start
  <2>1. j \in Nat /\ a \in Nat \ {0} /\ a <= j /\ j + Len(sep) - 1 <= Len(str) /\ SepAt(str, sep, j)
    BY <1>0, <1>4
  <2> HIDE DEF j, a
  <2>2. SubSeq(str, 1, (j + Len(sep)) - 1) = SubSeq(str, 1, a - 1) \o SubSeq(str, a, j - 1) \o sep
    <3>1. PieceAt(str, sep, a, j)
      BY <1>1, <2>1 DEF PieceAt
    <3>2. PieceGlues(str, sep, a, j)
      BY <3>1, PieceFollows
    <3> QED BY Zenon, <3>2 DEF PieceGlues
  <2> QED BY Zenon, <2>2 DEF j, a
<1> HIDE DEF t
<1>9. \E K : Glued(to.tokens, sep, str, to.start, K)
  <2>1. PICK J : Glued(at.tokens, sep, str, at.start, J)
    BY DEF SplitInv
  <2> DEFINE b == at.j + L - 1
  <2>2. b \in Nat /\ b <= Len(str) /\ b + 1 = at.j + L
    BY <1>0, <1>1, <1>4
  <2> HIDE DEF b
  <2>3. \E K : Glued(Append(at.tokens, t), sep, str, b + 1, K)
    BY Zenon, <1>0, <1>1, <1>5, <1>8, <2>1, <2>2, GluedOn
  <2> QED BY <1>3, <2>2, <2>3
<1>10. TokensRight(str, sep, to.tokens)
  <2> DEFINE u == Append(at.tokens, t)
  <2>1. Len(u) = Len(at.tokens) + 1 /\ \A i \in 1..Len(u) : u[i] = IF i <= Len(at.tokens) THEN at.tokens[i] ELSE t
    <3> HIDE DEF ByteString
    <3> QED BY <1>0, <1>5
  <2> HIDE DEF u
  <2>2. ASSUME NEW i \in 1..Len(u)
        PROVE TokenCut(u[i], sep) /\ (~HasNul(str) => ~HasNul(u[i]))
    <3>1. CASE i <= Len(at.tokens)
      <4>1. i \in 1..Len(at.tokens) /\ u[i] = at.tokens[i]
        BY <1>0, <2>1, <3>1
      <4> QED BY <4>1 DEF SplitInv, TokensRight
    <3>2. CASE ~(i <= Len(at.tokens))
      BY <1>6, <1>7, <2>1, <3>2
    <3> QED BY <3>1, <3>2
  <2> QED BY <1>3, <2>2 DEF TokensRight, u
<1>11. Len(at.tokens) < RoomOf(at) /\ Len(at.tokens) + 1 < RoomOf(at)
  <2>1. Len(at.tokens) < at.slots
    BY DEF SplitInv
  <2>2. RoomOf(at) \in Nat /\ Len(at.tokens) + 1 < RoomOf(at)
    BY <1>0, <2>1, RoomIsEnough
  <2> QED BY <1>0, <2>2
<1>12. to.fits /\ Len(to.tokens) < to.slots
  <2>1. Len(Append(at.tokens, t)) = Len(at.tokens) + 1
    <3> HIDE DEF ByteString
    <3> QED BY <1>0, <1>5
  <2> QED BY <1>3, <1>11, <2>1 DEF SplitInv
<1>13. to.start <= to.j /\ to.j <= Len(str) + 1 /\ \A k \in to.start..(to.j - 1) : ~SepAt(str, sep, k)
  BY SMTT(30), <1>0, <1>1, <1>3, <1>4
<1> QED BY <1>2, <1>9, <1>10, <1>12, <1>13 DEF SplitInv, to

SplitsRight(str, sep, r) == \E toks, start, J : SplitDone(str, sep, r, toks, start, J)

(* From every state that satisfies the invariant the loop ends with the    *)
(* right tokens.                                                           *)
LEMMA SplitLoopRight ==
  ASSUME NEW str, NEW sep, Splits(str, sep), NEW loop, SplitLoopIs(str, sep, loop)
  PROVE  \A at \in SplitState : SplitInv(str, sep, at) => SplitsRight(str, sep, loop[at])
<1> DEFINE D == SplitState
           m == SplitMeasure(str)
           P == {at \in D : SplitInv(str, sep, at) => SplitsRight(str, sep, loop[at])}
<1>0. str \in ByteString /\ sep \in ByteString /\ Len(sep) >= 1
  BY DEF Splits
<1>1. m \in [D -> Nat]
  BY <1>0, SplitMeasured
<1>2. ASSUME NEW at \in D, \A y \in D : m[y] < m[at] => y \in P PROVE at \in P
  <2> SUFFICES ASSUME SplitInv(str, sep, at) PROVE SplitsRight(str, sep, loop[at])
    OBVIOUS
  <2> DEFINE end == at.j > Len(str) - (Len(sep) - 1)
             a == AfterSep(str, sep, at)
             b == AfterByte(at)
  <2>0. loop[at] = IF end THEN AtEnd(str, at) ELSE IF SepAt(str, sep, at.j) THEN loop[a] ELSE loop[b]
    BY Zenon, SplitTurnIs DEF SplitLoopIs
  <2>1. CASE end
    <3>1. \E toks, start, J : SplitDone(str, sep, AtEnd(str, at), toks, start, J)
      BY <2>1, EndIsRight
    <3> QED BY Zenon, <2>0, <2>1, <3>1 DEF SplitsRight
  <2>2. CASE ~end
    <3>1. a \in D /\ a.j > at.j /\ b \in D /\ b.j > at.j /\ at.j <= Len(str)
      BY <1>0, <2>2, SplitTyped
    <3>2. SepAt(str, sep, at.j) => SplitInv(str, sep, a)
      BY <2>2, SepStep
    <3>3. ~SepAt(str, sep, at.j) => SplitInv(str, sep, b)
      BY <2>2, ByteStep
    <3> HIDE DEF a, b, end
    <3>4. m[a] < m[at] /\ m[b] < m[at]
      BY <1>0, <3>1, SplitMeasured
    <3>5. a \in P /\ b \in P
      <4> HIDE DEF P, m, D
      <4> QED BY <1>2, <3>1, <3>4
    <3>6. SepAt(str, sep, at.j) => SplitsRight(str, sep, loop[a])
      BY <3>2, <3>5
    <3>7. ~SepAt(str, sep, at.j) => SplitsRight(str, sep, loop[b])
      BY <3>3, <3>5
    <3> QED BY Zenon, <2>0, <2>2, <3>6, <3>7
  <2> QED BY Zenon, <2>1, <2>2
<1>3. \A at \in D : at \in P
  <2> HIDE DEF P, m, D
  <2> QED BY <1>1, <1>2, MeasureInduction
<1> QED BY <1>3

(* sdssplitlen cuts every text rightly, whatever the first size of the     *)
(* array.                                                                  *)
LEMMA SplitRight ==
  ASSUME NEW str, NEW sep, Splits(str, sep), NEW slots0 \in Nat \ {0}
  PROVE  SplitsRight(str, sep, SplitLoop(str, sep, slots0))
<1> DEFINE at == [j |-> 1, start |-> 1, tokens |-> << >>, slots |-> slots0, fits |-> TRUE]
<1>0. str \in ByteString /\ sep \in ByteString /\ Len(sep) >= 1 /\ Len(str) \in Nat
  BY DEF Splits, ByteString
<1>1. PICK loop : SplitLoopIs(str, sep, loop) /\ SplitLoop(str, sep, slots0) = loop[at]
  BY <1>0, SplitRule
<1>2. at \in SplitState
  <2>1. << >> \in Seq(ByteString)
    BY EmptySeq
  <2> HIDE DEF ByteString
  <2> QED BY <2>1 DEF SplitState
<1>3. SplitInv(str, sep, at)
  <2>0. at.j = 1 /\ at.start = 1 /\ at.tokens = << >> /\ at.slots = slots0 /\ at.fits = TRUE
    OBVIOUS
  <2> HIDE DEF at
  <2>1. at.start <= at.j /\ at.j <= Len(str) + 1 /\ Len(at.tokens) < at.slots /\ at.fits
    BY <1>0, <2>0
  <2>2. \A k \in at.start..(at.j - 1) : ~SepAt(str, sep, k)
    BY <2>0
  <2>3. TokensRight(str, sep, at.tokens)
    BY <2>0 DEF TokensRight
  <2>4. Glued(at.tokens, sep, str, at.start, [k \in 0..0 |-> << >>])
    <3>1. Len(at.tokens) = 0 /\ SubSeq(str, 1, at.start - 1) = << >>
      BY <2>0, SubSeqEmpty
    <3>2. << >> \in ByteString
      BY DEF ByteString
    <3> QED BY <2>0, <3>1, <3>2 DEF Glued
  <2> QED BY <1>2, <2>1, <2>2, <2>3, <2>4 DEF SplitInv
<1> HIDE DEF at
<1>4. SplitsRight(str, sep, loop[at])
  BY <1>1, <1>2, <1>3, SplitLoopRight
<1> QED BY <1>1, <1>4

-----------------------------------------------------------------------------
(* sdsjoin.                                                                *)

(* Without a NUL byte strlen sees all of a text.                           *)
LEMMA WholeCString ==
  ASSUME NEW t \in ByteString, ~HasNul(t)
  PROVE  CString(t) = t
<1> DEFINE Ends(k) == (\A i \in 1..k : t[i] # 0) /\ (k < Len(t) => t[k + 1] = 0)
<1>0. Len(t) \in Nat /\ \A i \in 1..Len(t) : t[i] # 0
  BY DEF ByteString, HasNul
<1>1. Len(t) \in 0..Len(t) /\ Ends(Len(t))
  BY <1>0
<1>2. \A k \in 0..Len(t) : Ends(k) => k = Len(t)
  BY <1>0
<1> DEFINE c == CHOOSE k \in 0..Len(t) : Ends(k)
<1>3. c \in 0..Len(t) /\ Ends(c)
  <2> HIDE DEF Ends
  <2> QED BY Zenon, <1>1
<1>4. c = Len(t)
  <2> HIDE DEF c, Ends
  <2> QED BY <1>2, <1>3
<1>5. CString(t) = SubSeq(t, 1, c)
  BY Zenon DEF CString
<1> HIDE DEF c
<1>6. SubSeq(t, 1, Len(t)) = t
  BY SubSeqFull DEF ByteString
<1> QED BY Zenon, <1>4, <1>5, <1>6

JoinTurn(argv, sep, k, v) == v \o CString(argv[k]) \o (IF k # Len(argv) THEN CString(sep) ELSE << >>)

(* V holds what sdsjoin has put together after each text.                  *)
Joined(argv, sep, V) ==
  /\ V[0] = << >>
  /\ \A k \in 1..Len(argv) : V[k] = JoinTurn(argv, sep, k, V[k - 1])

(* The loop of sdsjoin puts the texts together one after the other.        *)
LEMMA JoinRule ==
  ASSUME NEW argv \in Seq(ByteString), NEW sep \in ByteString, ~HasNul(sep),
         \A i \in 1..Len(argv) : ~HasNul(argv[i])
  PROVE  \E V : Joined(argv, sep, V) /\ sdsjoin(argv, sep) = V[Len(argv)]
<1> DEFINE N == Len(argv)
           S == ByteString
           G == [k \in 0..N |-> [v \in S |-> IF k = 0 THEN << >> ELSE JoinTurn(argv, sep, k, v)]]
           Body(f) == [k \in 0..Len(argv) |-> IF k = 0 THEN << >> ELSE JoinTurn(argv, sep, k, f[k - 1])]
           V == CHOOSE f : f = Body(f)
<1>0. N \in Nat /\ N = Len(argv)
  OBVIOUS
<1>01. ASSUME NEW k \in 0..N, k # 0 PROVE k - 1 \in 0..N /\ k \in 1..N /\ argv[k] \in S /\ ~HasNul(argv[k])
  <2>1. k - 1 \in 0..N /\ k \in 1..N
    BY <1>0, <1>01
  <2> HIDE DEF S
  <2>2. argv[k] \in ByteString
    BY <2>1, ElementOfSeq
  <2> QED BY <2>1, <2>2 DEF S
<1>02. << >> \in S
  BY EmptyText
<1>03. ASSUME NEW k \in 0..N, k # 0, NEW v \in S PROVE JoinTurn(argv, sep, k, v) \in S
  <2>1. CString(argv[k]) \in S
    BY <1>01, <1>03, WholeCString
  <2>2. CString(sep) \in S
    BY WholeCString
  <2> DEFINE x == CString(argv[k])
             y == IF k # Len(argv) THEN CString(sep) ELSE << >>
  <2>3. y \in S
    BY <1>02, <2>2
  <2> HIDE DEF x, y
  <2>4. v \o x \in S
    BY <2>1, ConcatTexts DEF x
  <2>5. (v \o x) \o y \in S
    BY <2>3, <2>4, ConcatTexts
  <2> QED BY Zenon, <2>5 DEF JoinTurn, x, y
<1> HIDE DEF S
<1>1. LoopOf(0, N, S, << >>, G)
  <2>1. G \in [0..N -> [S -> S]]
    <3>1. ASSUME NEW k \in 0..N, NEW v \in S PROVE (IF k = 0 THEN << >> ELSE JoinTurn(argv, sep, k, v)) \in S
      BY <1>02, <1>03
    <3> QED BY <3>1
  <2> HIDE DEF G, N
  <2> QED BY <1>0, <1>02, <2>1 DEF LoopOf
<1>2. \A k \in 0..N : k # 0 => \A v \in S : G[k][v] = JoinTurn(argv, sep, k, v)
  OBVIOUS
<1> HIDE DEF G
<1>3. PICK f : Turns(0, N, S, << >>, G, f)
  BY <1>1, Loop
<1>4. f = Body(f)
  <2>1. f \in [0..N -> S]
    BY <1>3 DEF Turns
  <2>2. ASSUME NEW k \in 0..N PROVE f[k] = IF k = 0 THEN << >> ELSE JoinTurn(argv, sep, k, f[k - 1])
    <3>1. k # 0 => f[k - 1] \in S
      BY <1>01, <2>1
    <3>2. k # 0 => G[k][f[k - 1]] = JoinTurn(argv, sep, k, f[k - 1])
      BY <1>2, <3>1
    <3> QED BY <1>3, <3>2 DEF Turns
  <2> QED BY <2>1, <2>2
<1>5. V = Body(V)
  BY Zenon, <1>4
<1>6. sdsjoin(argv, sep) = V[Len(argv)]
  BY Zenon DEF sdsjoin, JoinTurn
<1> HIDE DEF V
<1>7. \A k \in 0..N : V[k] = IF k = 0 THEN << >> ELSE JoinTurn(argv, sep, k, V[k - 1])
  BY <1>5
<1>8. Joined(argv, sep, V)
  BY <1>0, <1>7 DEF Joined
<1> QED BY <1>6, <1>8

(* Joining what was cut gives the text again.                              *)
LEMMA JoinRight ==
  ASSUME NEW str, NEW sep, Splits(str, sep), NEW r, NEW toks, NEW start, NEW J,
         SplitDone(str, sep, r, toks, start, J), ~HasNul(str), ~HasNul(sep)
  PROVE  sdsjoin(r.tokens, sep) = str
<1> DEFINE last == SubSeq(str, start, Len(str))
           argv == Append(toks, last)
           M == Len(toks)
<1>0. /\ str \in ByteString /\ sep \in ByteString /\ Len(str) \in Nat
      /\ toks \in Seq(ByteString) /\ start \in Nat \ {0} /\ start <= Len(str) + 1 /\ M \in Nat
  <2>1. str \in ByteString /\ sep \in ByteString /\ Len(str) \in Nat
    BY DEF Splits, ByteString
  <2>2. toks \in Seq(ByteString) /\ start \in 1..(Len(str) + 1)
    BY DEF SplitDone
  <2> HIDE DEF ByteString
  <2>3. M \in Nat
    BY <2>2
  <2> QED BY <2>1, <2>2, <2>3
<1>1. last \in ByteString
  BY <1>0, SubText
<1>2. ~HasNul(last)
  BY DEF SplitDone
<1>3. r.tokens = argv
  BY DEF SplitDone
<1> HIDE DEF last
<1>4. argv \in Seq(ByteString) /\ Len(argv) = M + 1 /\ argv[M + 1] = last /\ \A i \in 1..M : argv[i] = toks[i]
  <2> HIDE DEF ByteString
  <2> QED BY <1>0, <1>1
<1> HIDE DEF argv
<1>5. ASSUME NEW i \in 1..Len(argv) PROVE argv[i] \in ByteString /\ ~HasNul(argv[i])
  <2>1. argv[i] \in ByteString
    BY <1>4, ElementOfSeq
  <2>2. CASE i <= M
    <3>1. i \in 1..M /\ argv[i] = toks[i]
      BY <1>0, <1>4, <2>2
    <3> QED BY <2>1, <3>1 DEF SplitDone, TokensRight
  <2>3. CASE i = M + 1
    BY <1>2, <1>4, <2>1, <2>3
  <2> QED BY <1>0, <1>4, <2>2, <2>3
<1>6. PICK V : Joined(argv, sep, V) /\ sdsjoin(argv, sep) = V[Len(argv)]
  BY <1>0, <1>4, <1>5, JoinRule
<1>7. /\ J[0] = << >> /\ J[M] = SubSeq(str, 1, start - 1)
      /\ \A k \in 1..M : J[k] = J[k - 1] \o toks[k] \o sep
  BY Zenon DEF SplitDone, Glued
<1> DEFINE P == {k \in 0..M : V[k] = J[k]}
<1>8. Inductive(0, M, P)
  <2>1. 0 \in P
    BY <1>0, <1>6, <1>7 DEF Joined
  <2>2. ASSUME NEW k \in 0..M, k # 0, k - 1 \in P PROVE k \in P
    <3>1. k \in 1..M /\ k \in 1..Len(argv) /\ k # Len(argv)
      BY <1>0, <1>4, <2>2
    <3>2. V[k] = JoinTurn(argv, sep, k, V[k - 1])
      BY <1>6, <3>1 DEF Joined
    <3>3. CString(argv[k]) = toks[k] /\ CString(sep) = sep
      BY <1>0, <1>4, <1>5, <3>1, WholeCString
    <3>4. V[k - 1] = J[k - 1]
      BY <2>2
    <3>5. V[k] = J[k]
      BY Zenon, <1>7, <3>1, <3>2, <3>3, <3>4 DEF JoinTurn
    <3> QED BY <3>5
  <2> HIDE DEF P, M
  <2> QED BY <1>0, <2>1, <2>2 DEF Inductive
<1>9. \A k \in 0..M : k \in P
  <2> HIDE DEF P, M
  <2> QED BY <1>8, IntervalInduction
<1>10. V[M] = SubSeq(str, 1, start - 1)
  BY <1>0, <1>7, <1>9
<1>11. V[M + 1] = V[M] \o last \o << >>
  <2>1. M + 1 \in 1..Len(argv) /\ (M + 1) - 1 = M /\ M + 1 = Len(argv)
    BY <1>0, <1>4
  <2>2. V[M + 1] = JoinTurn(argv, sep, M + 1, V[(M + 1) - 1])
    BY <1>6, <2>1 DEF Joined
  <2>3. CString(argv[M + 1]) = last
    BY <1>1, <1>2, <1>4, WholeCString
  <2> HIDE DEF M
  <2> QED BY Zenon, <2>1, <2>2, <2>3 DEF JoinTurn
<1>12. SubSeq(str, 1, start - 1) \o last = str
  <2> DEFINE B == 0..255
             N == Len(str)
  <2>1. str \in Seq(B) /\ N \in Nat
    BY <1>0 DEF ByteString
  <2> HIDE DEF B
  <2>2. 1 \in 1..(N + 1) /\ start - 1 \in (1 - 1)..N /\ N \in (start - 1)..N /\ (start - 1) + 1 = start
    BY <1>0
  <2>3. SubSeq(str, 1, start - 1) \o SubSeq(str, (start - 1) + 1, N) = SubSeq(str, 1, N)
    BY Zenon, <2>1, <2>2, ConcatAdjacentSubSeq
  <2>4. SubSeq(str, 1, N) = str
    BY <2>1, SubSeqFull
  <2> QED BY Zenon, <2>2, <2>3, <2>4 DEF last
<1>13. str \o << >> = str
  BY <1>0, ConcatEmptySeq DEF ByteString
<1> HIDE DEF M
<1> QED BY Zenon, <1>3, <1>4, <1>6, <1>10, <1>11, <1>12, <1>13

(* What SplitIsInverseOfJoin says of a text that is not empty.             *)
LEMMA SplitTextRight ==
  ASSUME NEW str \in ByteString, NEW sep, Splits(str, sep), str # << >>
  PROVE  LET r == sdssplitlen(str, sep, InitialSlots)
         IN  /\ r.fits
             /\ ~HasNul(str) /\ ~HasNul(sep) => sdsjoin(r.tokens, sep) = str
             /\ r.tokens # << >>
             /\ \A i \in 1..Len(r.tokens) :
                   IF i = Len(r.tokens) THEN Free(r.tokens[i], sep)
                   ELSE \A j \in 1..Len(r.tokens[i]) : ~SepAt(r.tokens[i] \o sep, sep, j)
<1> DEFINE r == sdssplitlen(str, sep, InitialSlots)
<1>1. r = SplitLoop(str, sep, InitialSlots)
  <2>1. Len(str) # 0
    BY DEF ByteString
  <2> QED BY Zenon, <2>1 DEF sdssplitlen
<1> HIDE DEF r
<1>2. SplitsRight(str, sep, r)
  BY <1>1, SplitRight, AlgorithmsAssumption
<1>3. PICK toks, start, J : SplitDone(str, sep, r, toks, start, J)
  BY <1>2 DEF SplitsRight
<1> DEFINE last == SubSeq(str, start, Len(str))
           t == r.tokens
<1>4. r.fits /\ toks \in Seq(ByteString) /\ t = Append(toks, last) /\ Free(last, sep)
  BY <1>3 DEF SplitDone
<1>5. ~HasNul(str) /\ ~HasNul(sep) => sdsjoin(t, sep) = str
  BY <1>3, JoinRight
<1>6. last \in ByteString
  <2>1. start \in Nat \ {0} /\ Len(str) \in Int /\ Len(str) <= Len(str)
    BY <1>3 DEF SplitDone, ByteString
  <2> QED BY <2>1, SubText
<1> HIDE DEF last, t
<1>7. Len(t) = Len(toks) + 1 /\ Len(toks) \in Nat /\ t # << >>
      /\ \A i \in 1..Len(t) : t[i] = IF i = Len(t) THEN last ELSE toks[i]
  <2> HIDE DEF ByteString
  <2> QED BY <1>4, <1>6
<1>8. ASSUME NEW i \in 1..Len(t)
      PROVE  IF i = Len(t) THEN Free(t[i], sep) ELSE \A j \in 1..Len(t[i]) : ~SepAt(t[i] \o sep, sep, j)
  <2>1. CASE i = Len(t)
    <3>1. t[i] = last
      BY <1>7, <2>1
    <3> QED BY Zenon, <1>4, <2>1, <3>1
  <2>2. CASE i # Len(t)
    <3>1. t[i] = toks[i] /\ i \in 1..Len(toks)
      BY <1>7, <2>2
    <3>2. TokenCut(toks[i], sep)
      BY <1>3, <3>1 DEF SplitDone, TokensRight
    <3> QED BY Zenon, <2>2, <3>1, <3>2 DEF TokenCut
  <2> QED BY Zenon, <2>1, <2>2
<1> QED BY Zenon, <1>4, <1>5, <1>7, <1>8 DEF r, t

(* SplitIsInverseOfJoin holds in every state of the enumeration.           *)
LEMMA SplitAlways == AlgorithmsTypeOK => SplitIsInverseOfJoin
<1> SUFFICES ASSUME AlgorithmsTypeOK, NEW sep \in Separators
             PROVE  LET r == sdssplitlen(text, sep, InitialSlots)
                    IN  /\ r.fits
                        /\ ~HasNul(text) /\ ~HasNul(sep) => sdsjoin(r.tokens, sep) = text
                        /\ (text = << >>) = (r.tokens = << >>)
                        /\ \A i \in 1..Len(r.tokens) :
                              IF i = Len(r.tokens) THEN Free(r.tokens[i], sep)
                              ELSE \A j \in 1..Len(r.tokens[i]) : ~SepAt(r.tokens[i] \o sep, sep, j)
  BY Zenon DEF SplitIsInverseOfJoin
<1>1. text \in ByteString
  BY TextIsBytes
<1>2. sep \in ByteString /\ Len(sep) >= 1
  <2>1. sep \in [1..1 -> Alphabet] \/ sep \in [1..2 -> Alphabet]
    BY Zenon DEF Separators
  <2>2. sep \in ByteString /\ (Len(sep) = 1 \/ Len(sep) = 2)
    BY Zenon, <2>1, BytesOf
  <2>3. Len(sep) >= 1
    BY <2>2
  <2> QED BY <2>2, <2>3
<1>3. Splits(text, sep)
  BY <1>1, <1>2 DEF Splits
<1>4. CASE text # << >>
  <2> DEFINE r == sdssplitlen(text, sep, InitialSlots)
  <2>1. /\ r.fits
        /\ ~HasNul(text) /\ ~HasNul(sep) => sdsjoin(r.tokens, sep) = text
        /\ r.tokens # << >>
        /\ \A i \in 1..Len(r.tokens) :
              IF i = Len(r.tokens) THEN Free(r.tokens[i], sep)
              ELSE \A j \in 1..Len(r.tokens[i]) : ~SepAt(r.tokens[i] \o sep, sep, j)
    BY <1>1, <1>3, <1>4, SplitTextRight
  <2> HIDE DEF r
  <2> QED BY Zenon, <1>4, <2>1 DEF r
<1>5. CASE text = << >>
  <2> DEFINE e == << >>
             r == [tokens |-> e, fits |-> TRUE]
  <2>1. Len(text) = 0 /\ text = e
    BY <1>5
  <2>2. sdssplitlen(text, sep, InitialSlots) = r
    BY Zenon, <2>1 DEF sdssplitlen
  <2>3. r.fits /\ r.tokens = e
    OBVIOUS
  <2>4. ~HasNul(sep) => sdsjoin(e, sep) = e
    <3>1. e \in Seq(ByteString) /\ Len(e) = 0
      BY EmptySeq
    <3>2. \A i \in 1..Len(e) : FALSE
      BY <3>1
    <3> HIDE DEF e
    <3>3. ~HasNul(sep) => \E V : Joined(e, sep, V) /\ sdsjoin(e, sep) = V[Len(e)]
      BY Zenon, <1>2, <3>1, <3>2, JoinRule
    <3> QED BY <3>1, <3>3 DEF Joined, e
  <2>5. \A i \in 1..Len(e) : FALSE
    OBVIOUS
  <2> HIDE DEF r, e
  <2> QED BY Zenon, <2>1, <2>2, <2>3, <2>4, <2>5 DEF e
<1> QED BY Zenon, <1>4, <1>5

(* sdssplitlen cuts at the separators and only there, within its array,    *)
(* and sdsjoin puts the tokens together again, for texts of every length   *)
(* over any bytes and every first size of the array.                       *)
THEOREM SplitIsInverseOfJoinAlways == AlgorithmsSpec => []SplitIsInverseOfJoin
BY AlgorithmsTyped, SplitAlways, PTL

-----------------------------------------------------------------------------
(* The steps of sdssplitargs.                                              *)

ParseResult == [ok : BOOLEAN, args : Seq(ByteString)]
Gone(at, n0, mode) == [at EXCEPT !.p = @ + n0, !.mode = mode]
Taken(at, b, n0) == [at EXCEPT !.p = @ + n0, !.current = Append(@, b)]
Finished(at, n0) == [p |-> at.p + n0, mode |-> "skip", current |-> << >>,
                     vector |-> Append(at.vector, at.current)]

(* The parser ends at this state, or goes on in another.                   *)
ParseEnds(line, at, r) == \A g : ParseTurn(line, at, g) = r
ParseGoes(line, at, to) == \A g : ParseTurn(line, at, g) = g[to]

(* What the parser does between two arguments.                             *)
LEMMA SkipTurn ==
  ASSUME NEW line, NEW at, at.mode = "skip"
  PROVE  /\ At(line, at.p) = 0 => ParseEnds(line, at, [ok |-> TRUE, args |-> at.vector])
         /\ At(line, at.p) # 0 =>
              IF isspace(At(line, at.p)) THEN ParseGoes(line, at, Gone(at, 1, "skip"))
              ELSE ParseGoes(line, at, Gone(at, 0, "plain"))
BY Zenon DEF ParseTurn, ParseEnds, ParseGoes, Gone

(* What the parser does outside quotes.                                    *)
LEMMA PlainTurn ==
  ASSUME NEW line, NEW at, at.mode = "plain"
  PROVE  LET c == At(line, at.p) IN
         IF c \in {32, 10, 13, 9} THEN ParseGoes(line, at, Finished(at, 1))
         ELSE IF c = 0 THEN ParseGoes(line, at, Finished(at, 0))
         ELSE IF c = DoubleQuote THEN ParseGoes(line, at, Gone(at, 1, "inq"))
         ELSE IF c = SingleQuote THEN ParseGoes(line, at, Gone(at, 1, "insq"))
         ELSE ParseGoes(line, at, Taken(at, c, 1))
BY DEF ParseTurn, ParseGoes, Gone, Taken, Finished

(* What a closing quote does.                                              *)
Closes(line, at) ==
  LET next == At(line, at.p + 1)
  IN  IF next = 0 \/ isspace(next) THEN ParseGoes(line, at, Finished(at, 1))
      ELSE ParseEnds(line, at, Unbalanced)

(* What the parser does in double quotes.                                  *)
LEMMA QuotedTurn ==
  ASSUME NEW line, NEW at, at.mode = "inq"
  PROVE  LET c == At(line, at.p)
             next == At(line, at.p + 1) IN
         IF /\ c = Backslash /\ next = 120
            /\ is_hex_digit(At(line, at.p + 2)) /\ is_hex_digit(At(line, at.p + 3))
         THEN ParseGoes(line, at, Taken(at, hex_digit_to_int(At(line, at.p + 2)) * 16
                                              + hex_digit_to_int(At(line, at.p + 3)), 4))
         ELSE IF c = Backslash /\ next # 0 THEN ParseGoes(line, at, Taken(at, Unescape(next), 2))
         ELSE IF c = DoubleQuote THEN Closes(line, at)
         ELSE IF c = 0 THEN ParseEnds(line, at, Unbalanced)
         ELSE ParseGoes(line, at, Taken(at, c, 1))
BY DEF ParseTurn, ParseGoes, ParseEnds, Taken, Closes, Finished

(* What the parser does in single quotes.                                  *)
LEMMA SingleQuotedTurn ==
  ASSUME NEW line, NEW at, at.mode = "insq"
  PROVE  LET c == At(line, at.p) IN
         IF c = Backslash /\ At(line, at.p + 1) = SingleQuote THEN ParseGoes(line, at, Taken(at, SingleQuote, 2))
         ELSE IF c = SingleQuote THEN Closes(line, at)
         ELSE IF c = 0 THEN ParseEnds(line, at, Unbalanced)
         ELSE ParseGoes(line, at, Taken(at, c, 1))
BY DEF ParseTurn, ParseGoes, ParseEnds, Taken, Closes, Finished

Modes == {"skip", "plain", "inq", "insq"}

(* The fields of a state of the parser.                                    *)
LEMMA ParseFields ==
  ASSUME NEW at \in ParseState
  PROVE  /\ at.p \in Nat \ {0} /\ at.mode \in Modes /\ at.current \in ByteString /\ at.vector \in Seq(ByteString)
         /\ at = [p |-> at.p, mode |-> at.mode, current |-> at.current, vector |-> at.vector]
BY DEF ParseState, Modes

(* The state after a change of mode.                                       *)
LEMMA GoneIs ==
  ASSUME NEW at \in ParseState, NEW n0 \in Nat, NEW mode \in Modes
  PROVE  /\ Gone(at, n0, mode) = [p |-> at.p + n0, mode |-> mode, current |-> at.current, vector |-> at.vector]
         /\ Gone(at, n0, mode) \in ParseState
         /\ Gone(at, n0, mode).p = at.p + n0 /\ Gone(at, n0, mode).mode = mode
<1> DEFINE to == Gone(at, n0, mode)
<1>1. at.p + n0 \in Nat \ {0}
  BY ParseFields
<1>2. to \in ParseState
  <2> HIDE DEF ByteString
  <2> QED BY Zenon, <1>1 DEF ParseState, Modes, Gone
<1>3. to.p = at.p + n0 /\ to.mode = mode /\ to.current = at.current /\ to.vector = at.vector
  <2> HIDE DEF ByteString
  <2> QED BY DEF ParseState, Gone
<1> HIDE DEF to
<1>4. to = [p |-> to.p, mode |-> to.mode, current |-> to.current, vector |-> to.vector]
  BY Zenon, <1>2, ParseFields
<1>5. to = [p |-> at.p + n0, mode |-> mode, current |-> at.current, vector |-> at.vector]
  BY Zenon, <1>3, <1>4
<1> QED BY Zenon, <1>2, <1>3, <1>5 DEF to

(* The state after a byte was read.                                        *)
LEMMA TakenIs ==
  ASSUME NEW at \in ParseState, NEW n0 \in Nat, NEW b \in 0..255
  PROVE  /\ Taken(at, b, n0) = [p |-> at.p + n0, mode |-> at.mode, current |-> Append(at.current, b),
                                vector |-> at.vector]
         /\ Taken(at, b, n0) \in ParseState
         /\ Taken(at, b, n0).p = at.p + n0
<1> DEFINE to == Taken(at, b, n0)
<1>1. at.p + n0 \in Nat \ {0} /\ at.current \in ByteString
  BY ParseFields
<1>2. Append(at.current, b) \in ByteString
  BY <1>1 DEF ByteString
<1>3. to \in ParseState
  <2> HIDE DEF ByteString
  <2> QED BY Zenon, <1>1, <1>2 DEF ParseState, Taken
<1>4. to.p = at.p + n0 /\ to.mode = at.mode /\ to.current = Append(at.current, b) /\ to.vector = at.vector
  <2> HIDE DEF ByteString
  <2> QED BY DEF ParseState, Taken
<1> HIDE DEF to
<1>5. to = [p |-> to.p, mode |-> to.mode, current |-> to.current, vector |-> to.vector]
  BY Zenon, <1>3, ParseFields
<1>6. to = [p |-> at.p + n0, mode |-> at.mode, current |-> Append(at.current, b), vector |-> at.vector]
  BY Zenon, <1>4, <1>5
<1> QED BY Zenon, <1>3, <1>4, <1>6 DEF to

(* The state after an argument ended.                                      *)
LEMMA FinishedIs ==
  ASSUME NEW at \in ParseState, NEW n0 \in Nat
  PROVE  Finished(at, n0) \in ParseState /\ Finished(at, n0).p = at.p + n0 /\ Finished(at, n0).mode = "skip"
<1>1. at.p + n0 \in Nat \ {0} /\ at.current \in ByteString /\ at.vector \in Seq(ByteString)
  BY ParseFields
<1>2. Append(at.vector, at.current) \in Seq(ByteString)
  <2> HIDE DEF ByteString
  <2> QED BY <1>1
<1>3. << >> \in ByteString
  BY EmptyText
<1> HIDE DEF ByteString
<1> QED BY <1>1, <1>2, <1>3 DEF ParseState, Finished

(* Every position of the line holds a byte, and 0 behind its end.          *)
LEMMA ByteAt ==
  ASSUME NEW line \in ByteString, NEW p \in Nat \ {0}
  PROVE  At(line, p) \in 0..255 /\ (At(line, p) # 0 => p <= Len(line))
<1>1. Len(line) \in Nat /\ \A i \in 1..Len(line) : line[i] \in 0..255
  BY ElementOfSeq DEF ByteString
<1>2. CASE p <= Len(line)
  <2>1. p \in 1..Len(line) /\ At(line, p) = line[p]
    BY <1>1, <1>2 DEF At
  <2>2. line[p] \in 0..255
    BY <1>1, <2>1
  <2> QED BY <1>2, <2>1, <2>2
<1>3. CASE ~(p <= Len(line))
  <2>1. At(line, p) = 0
    BY <1>3 DEF At
  <2> QED BY <2>1
<1> QED BY <1>2, <1>3

(* Two hexadecimal digits are a byte.                                      *)
LEMMA HexByte ==
  ASSUME NEW c \in 0..255, NEW d \in 0..255
  PROVE  hex_digit_to_int(c) * 16 + hex_digit_to_int(d) \in 0..255
<1>1. ASSUME NEW x \in 0..255 PROVE hex_digit_to_int(x) \in 0..15
  BY DEF hex_digit_to_int
<1>2. hex_digit_to_int(c) \in 0..15 /\ hex_digit_to_int(d) \in 0..15
  BY Zenon, <1>1
<1> QED BY <1>2

(* What an escape stands for is a byte.                                    *)
LEMMA LetterByte ==
  ASSUME NEW c \in 0..255
  PROVE  Unescape(c) \in 0..255
<1> DEFINE Q(b) == Letter[b] = c
<1>1. (\E b \in DOMAIN Letter : Q(b)) => (CHOOSE b \in DOMAIN Letter : Q(b)) \in DOMAIN Letter
  BY Zenon
<1>2. DOMAIN Letter \subseteq 0..255
  <2>1. DOMAIN Letter = {10, 13, 9, 7, 8}
    BY Zenon DEF Letter
  <2> QED BY <2>1
<1> QED BY <1>1, <1>2 DEF Unescape

(* What the parser still has to do.                                        *)
ParseMeasure(line) ==
  [at \in ParseState |->
     IF At(line, at.p) = 0 THEN (IF at.mode = "skip" THEN 0 ELSE 1)
     ELSE 2 * (Len(line) + 1 - at.p) + (IF at.mode = "skip" THEN 3 ELSE 2)]

(* at is closer to the end than to was.                                    *)
Closer(line, to, at) == to \in ParseState /\ ParseMeasure(line)[to] < ParseMeasure(line)[at]

(* The steps of the parser lower the measure.                              *)
LEMMA ParseMeasured ==
  ASSUME NEW line \in ByteString
  PROVE  /\ ParseMeasure(line) \in [ParseState -> Nat]
         /\ \A at, to \in ParseState :
              (\/ At(line, at.p) # 0 /\ to.p > at.p
               \/ At(line, at.p) # 0 /\ to.p = at.p /\ at.mode = "skip" /\ to.mode = "plain"
               \/ At(line, at.p) = 0 /\ to.p = at.p /\ at.mode = "plain" /\ to.mode = "skip")
              => Closer(line, to, at)
<1>1. Len(line) \in Nat /\ \A at \in ParseState : at.p \in Nat \ {0} /\ (At(line, at.p) # 0 => at.p <= Len(line))
  <2>1. Len(line) \in Nat
    BY DEF ByteString
  <2>2. ASSUME NEW at \in ParseState
        PROVE  at.p \in Nat \ {0} /\ (At(line, at.p) # 0 => at.p <= Len(line))
    <3>1. at.p \in Nat \ {0}
      BY ParseFields
    <3>2. At(line, at.p) # 0 => at.p <= Len(line)
      <4> DEFINE p == at.p
      <4> SUFFICES At(line, p) # 0 => p <= Len(line)
        OBVIOUS
      <4>1. p \in Nat \ {0}
        BY <3>1
      <4> HIDE DEF p
      <4> QED BY <4>1, ByteAt
    <3> QED BY <3>1, <3>2
  <2> QED BY Zenon, <2>1, <2>2
<1> DEFINE M(at) == IF At(line, at.p) = 0 THEN (IF at.mode = "skip" THEN 0 ELSE 1)
                    ELSE 2 * (Len(line) + 1 - at.p) + (IF at.mode = "skip" THEN 3 ELSE 2)
<1>2. ASSUME NEW at \in ParseState PROVE M(at) \in Nat
  BY <1>1
<1>3. ASSUME NEW at \in ParseState, NEW to \in ParseState,
             \/ At(line, at.p) # 0 /\ to.p > at.p
             \/ At(line, at.p) # 0 /\ to.p = at.p /\ at.mode = "skip" /\ to.mode = "plain"
             \/ At(line, at.p) = 0 /\ to.p = at.p /\ at.mode = "plain" /\ to.mode = "skip"
      PROVE  M(to) < M(at)
  <2> DEFINE p == at.p
             q == to.p
  <2>1. p \in Nat \ {0} /\ q \in Nat \ {0} /\ Len(line) \in Nat
    BY <1>1
  <2>2. (At(line, p) # 0 => p <= Len(line)) /\ (At(line, q) # 0 => q <= Len(line))
    BY <1>1
  <2>3. \/ At(line, p) # 0 /\ q > p
        \/ At(line, p) # 0 /\ q = p /\ at.mode = "skip" /\ to.mode = "plain"
        \/ At(line, p) = 0 /\ q = p /\ at.mode = "plain" /\ to.mode = "skip"
    BY <1>3
  <2> SUFFICES (IF At(line, q) = 0 THEN (IF to.mode = "skip" THEN 0 ELSE 1)
                ELSE 2 * (Len(line) + 1 - q) + (IF to.mode = "skip" THEN 3 ELSE 2))
               < (IF At(line, p) = 0 THEN (IF at.mode = "skip" THEN 0 ELSE 1)
                  ELSE 2 * (Len(line) + 1 - p) + (IF at.mode = "skip" THEN 3 ELSE 2))
    OBVIOUS
  <2> HIDE DEF p, q
  <2> QED BY <2>1, <2>2, <2>3
<1>4. ParseMeasure(line) = [at \in ParseState |-> M(at)]
  BY Zenon DEF ParseMeasure
<1> HIDE DEF M
<1>5. ParseMeasure(line) \in [ParseState -> Nat] /\ \A at \in ParseState : ParseMeasure(line)[at] = M(at)
  BY <1>2, <1>4
<1> QED BY Zenon, <1>3, <1>5 DEF Closer

(* In every state the parser has its result or comes closer to it.         *)
ParseStep(line, at) ==
  \/ \E r \in ParseResult : ParseEnds(line, at, r)
  \/ \E to : Closer(line, to, at) /\ ParseGoes(line, at, to)

(* In every state sdssplitargs has its result or comes closer to it.       *)
LEMMA ParseNext ==
  ASSUME NEW line \in ByteString, NEW at \in ParseState
  PROVE  ParseStep(line, at)
<1> DEFINE c == At(line, at.p)
           next == At(line, at.p + 1)
<1>0. /\ at.p \in Nat \ {0} /\ at.mode \in Modes /\ at.vector \in Seq(ByteString)
      /\ at.p + 1 \in Nat \ {0} /\ at.p + 2 \in Nat \ {0} /\ at.p + 3 \in Nat \ {0}
  BY ParseFields
<1>1. /\ c \in 0..255 /\ next \in 0..255
      /\ At(line, at.p + 2) \in 0..255 /\ At(line, at.p + 3) \in 0..255
  BY ZenonT(40), <1>0, ByteAt
<1>2. ASSUME c # 0, NEW n0 \in {1, 2, 4}, NEW b \in 0..255 PROVE Closer(line, Taken(at, b, n0), at)
  <2>1. Taken(at, b, n0) \in ParseState /\ Taken(at, b, n0).p > at.p
    <3>1. n0 \in Nat /\ at.p + n0 > at.p
      BY <1>0
    <3>2. Taken(at, b, n0) \in ParseState /\ Taken(at, b, n0).p = at.p + n0
      BY ZenonT(40), <3>1, TakenIs
    <3> QED BY Zenon, <3>1, <3>2
  <2> QED BY <1>2, <2>1, ParseMeasured
<1>3. ASSUME c # 0 PROVE Closer(line, Finished(at, 1), at)
  <2>1. Finished(at, 1) \in ParseState /\ Finished(at, 1).p > at.p
    <3>1. 1 \in Nat /\ at.p + 1 > at.p
      BY <1>0
    <3>2. Finished(at, 1) \in ParseState /\ Finished(at, 1).p = at.p + 1
      BY Zenon, <3>1, FinishedIs
    <3> QED BY Zenon, <3>1, <3>2
  <2> QED BY <1>3, <2>1, ParseMeasured
<1>4. ASSUME c # 0, NEW mode \in Modes PROVE Closer(line, Gone(at, 1, mode), at)
  <2>1. Gone(at, 1, mode) \in ParseState /\ Gone(at, 1, mode).p > at.p
    <3>1. 1 \in Nat /\ at.p + 1 > at.p
      BY <1>0
    <3>2. Gone(at, 1, mode) \in ParseState /\ Gone(at, 1, mode).p = at.p + 1
      BY ZenonT(40), <3>1, GoneIs
    <3> QED BY Zenon, <3>1, <3>2
  <2> QED BY <1>4, <2>1, ParseMeasured
<1>5. Unbalanced \in ParseResult /\ [ok |-> TRUE, args |-> at.vector] \in ParseResult
  <2>1. << >> \in Seq(ByteString)
    BY EmptySeq
  <2> HIDE DEF ByteString
  <2> QED BY <1>0, <2>1 DEF ParseResult, Unbalanced
<1>6. ASSUME NEW r \in ParseResult, ParseEnds(line, at, r) PROVE ParseStep(line, at)
  BY Zenon, <1>6 DEF ParseStep
<1>7. ASSUME NEW to, Closer(line, to, at), ParseGoes(line, at, to) PROVE ParseStep(line, at)
  BY Zenon, <1>7 DEF ParseStep
<1>8. ASSUME c # 0, Closes(line, at) PROVE ParseStep(line, at)
  BY Zenon, <1>3, <1>5, <1>6, <1>7, <1>8 DEF Closes
<1>9. "skip" \in Modes /\ "plain" \in Modes /\ "inq" \in Modes /\ "insq" \in Modes
  BY DEF Modes
<1>10. CASE at.mode = "skip"
  <2>1. ASSUME c # 0 PROVE Closer(line, Gone(at, 0, "plain"), at)
    <3>1. Gone(at, 0, "plain") \in ParseState /\ Gone(at, 0, "plain").p = at.p /\ Gone(at, 0, "plain").mode = "plain"
      <4>1. 0 \in Nat /\ at.p + 0 = at.p
        BY <1>0
      <4> QED BY Zenon, <1>9, <4>1, GoneIs
    <3> QED BY <1>10, <2>1, <3>1, ParseMeasured
  <2> QED BY Zenon, <1>4, <1>5, <1>6, <1>7, <1>9, <1>10, <2>1, SkipTurn
<1>11. CASE at.mode = "plain"
  <2>1. ASSUME c = 0 PROVE Closer(line, Finished(at, 0), at)
    <3>1. Finished(at, 0) \in ParseState /\ Finished(at, 0).p = at.p /\ Finished(at, 0).mode = "skip"
      BY SMTT(30), <1>0, FinishedIs
    <3> QED BY <1>11, <2>1, <3>1, ParseMeasured
  <2>2. c \in {32, 10, 13, 9} => c # 0
    OBVIOUS
  <2>3. c # 0 => Closer(line, Taken(at, c, 1), at)
    BY Zenon, <1>1, <1>2
  <2> QED BY Zenon, <1>3, <1>4, <1>7, <1>9, <1>11, <2>1, <2>2, <2>3, PlainTurn
<1> DEFINE h == hex_digit_to_int(At(line, at.p + 2)) * 16 + hex_digit_to_int(At(line, at.p + 3))
<1>12. CASE at.mode = "inq"
  <2>1. h \in 0..255 /\ Unescape(next) \in 0..255
    BY Zenon, <1>1, HexByte, LetterByte
  <2>2. c = Backslash \/ c = DoubleQuote => c # 0
    BY DEF Backslash, DoubleQuote
  <2> HIDE DEF h
  <2>3. c # 0 => Closer(line, Taken(at, c, 1), at) /\ Closer(line, Taken(at, h, 4), at)
                   /\ Closer(line, Taken(at, Unescape(next), 2), at)
    BY ZenonT(40), <1>1, <1>2, <2>1
  <2> QED BY Zenon, <1>5, <1>6, <1>7, <1>8, <1>12, <2>2, <2>3, QuotedTurn DEF h
<1>13. CASE at.mode = "insq"
  <2>1. c = Backslash \/ c = SingleQuote => c # 0
    BY DEF Backslash, SingleQuote
  <2>2. SingleQuote \in 0..255
    BY DEF SingleQuote
  <2>3. c # 0 => Closer(line, Taken(at, c, 1), at) /\ Closer(line, Taken(at, SingleQuote, 2), at)
    BY Zenon, <1>1, <1>2, <2>2
  <2> QED BY Zenon, <1>5, <1>6, <1>7, <1>8, <1>13, <2>1, <2>3, SingleQuotedTurn
<1> QED BY Zenon, <1>0, <1>10, <1>11, <1>12, <1>13 DEF Modes

ParseIs(line, parse) == \A at \in ParseState : parse[at] = ParseTurn(line, at, parse)

(* sdssplitargs ends for every line, so its steps determine its result.    *)
LEMMA ParseRule ==
  ASSUME NEW line \in ByteString
  PROVE  \E parse : ParseIs(line, parse) /\ sdssplitargs(line) =
           parse[[p |-> 1, mode |-> "skip", current |-> << >>, vector |-> << >>]]
<1> DEFINE D == ParseState
           S == ParseResult
           m == ParseMeasure(line)
           H == [at \in D |-> [g \in [D -> S] |-> ParseTurn(line, at, g)]]
           V == CHOOSE f : f = [at \in ParseState |-> ParseTurn(line, at, f)]
<1>1. m \in [D -> Nat]
  BY ParseMeasured
<1>2. ASSUME NEW at \in D PROVE
        \/ \E r \in S : \A g : ParseTurn(line, at, g) = r
        \/ \E to \in D : m[to] < m[at] /\ \A g : ParseTurn(line, at, g) = g[to]
  BY Zenon, ParseNext DEF ParseStep, ParseEnds, ParseGoes, Closer
<1>3. S # {}
  <2>1. Unbalanced \in S
    BY EmptySeq DEF Unbalanced, ParseResult
  <2> QED BY <2>1
<1> HIDE DEF D, S, m
<1>4. ASSUME NEW at \in D, NEW g \in [D -> S] PROVE ParseTurn(line, at, g) \in S
  BY <1>2
<1>5. ASSUME NEW at \in D, NEW g \in [D -> S], NEW h \in [D -> S],
             \A y \in D : m[y] < m[at] => g[y] = h[y]
      PROVE  H[at][g] = H[at][h]
  <2>1. ParseTurn(line, at, g) = ParseTurn(line, at, h)
    <3>1. CASE \E r \in S : \A f : ParseTurn(line, at, f) = r
      BY Zenon, <3>1
    <3>2. ASSUME NEW to \in D, m[to] < m[at], \A f : ParseTurn(line, at, f) = f[to]
          PROVE  ParseTurn(line, at, g) = ParseTurn(line, at, h)
      <4>1. g[to] = h[to]
        BY <1>5, <3>2
      <4> QED BY Zenon, <3>2, <4>1
    <3> QED BY Zenon, <1>2, <3>1, <3>2
  <2> QED BY <2>1
<1>6. H \in [D -> [[D -> S] -> S]]
  BY <1>4
<1>7. \A at \in D : \A g \in [D -> S] : H[at][g] = ParseTurn(line, at, g)
  OBVIOUS
<1> HIDE DEF H
<1>8. Measured(D, S, m, H)
  BY Zenon, <1>1, <1>5, <1>6 DEF Measured
<1>9. PICK f \in [D -> S] : \A x \in D : f[x] = H[x][f]
  BY <1>3, <1>8, Recursion
<1>10. f = [at \in ParseState |-> ParseTurn(line, at, f)]
  <2>1. \A at \in D : f[at] = ParseTurn(line, at, f)
    BY <1>7, <1>9
  <2> QED BY <2>1 DEF D
<1>11. V = [at \in ParseState |-> ParseTurn(line, at, V)]
  BY Zenon, <1>10
<1>12. sdssplitargs(line) = V[[p |-> 1, mode |-> "skip", current |-> << >>, vector |-> << >>]]
  BY Zenon DEF sdssplitargs
<1> HIDE DEF V
<1>13. ParseIs(line, V)
  BY <1>11 DEF ParseIs
<1> QED BY Zenon, <1>12, <1>13

-----------------------------------------------------------------------------
(* sdscatrepr, and reading back what it writes.                            *)

(* t stands at position x of the line.                                     *)
Stands(line, x, t) ==
  /\ t \in ByteString /\ x \in Nat \ {0} /\ x + Len(t) - 1 <= Len(line)
  /\ \A i \in 1..Len(t) : line[x + i - 1] = t[i]

(* Where two texts stand behind each other each of them stands.            *)
LEMMA StandsConcat ==
  ASSUME NEW line \in ByteString, NEW x, NEW s \in ByteString, NEW t \in ByteString, Stands(line, x, s \o t)
  PROVE  Stands(line, x, s) /\ Stands(line, x + Len(s), t)
<1> DEFINE B == 0..255
<1>1. s \in Seq(B) /\ t \in Seq(B) /\ Len(s) \in Nat /\ Len(t) \in Nat /\ Len(line) \in Nat
  BY DEF ByteString
<1>2. x \in Nat \ {0} /\ x + Len(s \o t) - 1 <= Len(line) /\ \A i \in 1..Len(s \o t) : line[x + i - 1] = (s \o t)[i]
  BY DEF Stands
<1> HIDE DEF B
<1>3. /\ Len(s \o t) = Len(s) + Len(t)
      /\ \A i \in 1..(Len(s) + Len(t)) : (s \o t)[i] = IF i <= Len(s) THEN s[i] ELSE t[i - Len(s)]
  BY <1>1, ConcatProperties
<1>4. ASSUME NEW i \in 1..Len(s) PROVE line[x + i - 1] = s[i]
  <2>1. i \in 1..Len(s \o t) /\ i \in 1..(Len(s) + Len(t)) /\ i <= Len(s)
    BY <1>1, <1>3
  <2> QED BY Zenon, <1>2, <1>3, <2>1
<1>5. ASSUME NEW i \in 1..Len(t) PROVE line[(x + Len(s)) + i - 1] = t[i]
  <2> DEFINE k == Len(s) + i
  <2>1. k \in 1..Len(s \o t) /\ k \in 1..(Len(s) + Len(t)) /\ ~(k <= Len(s)) /\ k - Len(s) = i
        /\ (x + Len(s)) + i - 1 = x + k - 1
    BY <1>1, <1>2, <1>3
  <2> HIDE DEF k
  <2>2. (s \o t)[k] = t[k - Len(s)] /\ line[x + k - 1] = (s \o t)[k]
    BY Zenon, <1>2, <1>3, <2>1
  <2> QED BY Zenon, <2>1, <2>2
<1>6. x + Len(s) - 1 <= Len(line) /\ (x + Len(s)) + Len(t) - 1 <= Len(line) /\ x + Len(s) \in Nat \ {0}
  BY <1>1, <1>2, <1>3
<1> QED BY <1>2, <1>4, <1>5, <1>6 DEF Stands

(* The bytes of a text that stands in the line are read there.             *)
LEMMA StandsAt ==
  ASSUME NEW line \in ByteString, NEW x, NEW t, Stands(line, x, t), NEW i \in 1..Len(t)
  PROVE  At(line, x + i - 1) = t[i]
<1>1. x \in Nat \ {0} /\ x + Len(t) - 1 <= Len(line) /\ line[x + i - 1] = t[i] /\ Len(t) \in Nat /\ Len(line) \in Nat
  BY DEF Stands, ByteString
<1>2. x + i - 1 <= Len(line)
  BY <1>1
<1> QED BY <1>1, <1>2 DEF At

(* Where a text with a last byte stands, the text stands and the byte is   *)
(* read behind it.                                                         *)
LEMMA StandsAppend ==
  ASSUME NEW line \in ByteString, NEW x, NEW s \in ByteString, NEW b \in 0..255, Stands(line, x, Append(s, b))
  PROVE  Stands(line, x, s) /\ At(line, x + Len(s)) = b
<1>1. <<b>> \in ByteString /\ Append(s, b) = s \o <<b>> /\ Len(<<b>>) = 1 /\ <<b>>[1] = b
  BY DEF ByteString
<1>2. Stands(line, x, s) /\ Stands(line, x + Len(s), <<b>>)
  BY <1>1, StandsConcat
<1>3. At(line, (x + Len(s)) + 1 - 1) = b
  <2>1. 1 \in 1..Len(<<b>>)
    BY <1>1
  <2> DEFINE w == <<b>>
             y == x + Len(s)
  <2> HIDE DEF w, y
  <2>2. At(line, y + 1 - 1) = w[1]
    BY <1>2, <2>1, StandsAt DEF w, y
  <2> QED BY Zenon, <1>1, <2>2 DEF w, y
<1>4. (x + Len(s)) + 1 - 1 = x + Len(s)
  BY DEF Stands, ByteString
<1> QED BY <1>2, <1>3, <1>4

(* ---- the bytes of an escape ---- *)

(* hex_digit_to_int reads back what %02x writes.                           *)
LEMMA HexRight ==
  ASSUME NEW d \in 0..15
  PROVE  HexDigit(d) \in 1..255 /\ is_hex_digit(HexDigit(d)) /\ hex_digit_to_int(HexDigit(d)) = d
<1>1. CASE d < 10
  BY <1>1 DEF HexDigit, is_hex_digit, hex_digit_to_int
<1>2. CASE ~(d < 10)
  BY <1>2 DEF HexDigit, is_hex_digit, hex_digit_to_int
<1> QED BY <1>1, <1>2

(* A byte is its two hexadecimal digits.                                   *)
LEMMA Nibbles ==
  ASSUME NEW c \in 0..255
  PROVE  c \div 16 \in 0..15 /\ c % 16 \in 0..15 /\ (c \div 16) * 16 + (c % 16) = c
OBVIOUS

(* The letters of the escapes.                                             *)
LEMMA LetterValues ==
  /\ DOMAIN Letter = {10, 13, 9, 7, 8}
  /\ Letter[10] = 110 /\ Letter[13] = 114 /\ Letter[9] = 116 /\ Letter[7] = 97 /\ Letter[8] = 98
<1> DEFINE L(c) == CASE c = 10 -> 110 [] c = 13 -> 114 [] c = 9 -> 116 [] c = 7 -> 97 [] c = 8 -> 98
<1>1. L(10) = 110 /\ L(13) = 114 /\ L(9) = 116 /\ L(7) = 97 /\ L(8) = 98
  OBVIOUS
<1>2. Letter = [c \in {10, 13, 9, 7, 8} |-> L(c)]
  BY Zenon DEF Letter
<1> HIDE DEF L
<1> QED BY <1>1, <1>2

(* The letter of an escape is read back as its control character, and is   *)
(* not taken for the beginning of a hexadecimal escape.                    *)
LEMMA LetterRight ==
  ASSUME NEW c \in DOMAIN Letter
  PROVE  Letter[c] \in 1..255 /\ Letter[c] # 120 /\ Unescape(Letter[c]) = c
<1>1. \A b \in DOMAIN Letter : Letter[b] = Letter[c] => b = c
  BY LetterValues
<1>2. Letter[c] \in 1..255 /\ Letter[c] # 120
  BY LetterValues
<1>3. Unescape(Letter[c]) = c
  <2> DEFINE l == Letter[c]
  <2> DEFINE z == CHOOSE b \in DOMAIN Letter : Letter[b] = l
  <2>1. \E b \in DOMAIN Letter : Letter[b] = l
    BY Zenon
  <2>2. z \in DOMAIN Letter /\ Letter[z] = l
    BY Zenon, <2>1
  <2>3. Unescape(l) = z
    BY Zenon, <2>1 DEF Unescape
  <2> HIDE DEF z
  <2> QED BY Zenon, <1>1, <2>2, <2>3
<1> QED BY <1>2, <1>3

(* A backslash or a quote behind a backslash stands for itself.            *)
LEMMA OwnEscape ==
  ASSUME NEW c \in {Backslash, DoubleQuote}
  PROVE  c \in 1..255 /\ c # 120 /\ Unescape(c) = c
<1>1. c \in 1..255 /\ c # 120 /\ ~ \E b \in DOMAIN Letter : Letter[b] = c
  BY LetterValues DEF Backslash, DoubleQuote
<1> QED BY Zenon, <1>1 DEF Unescape

(* The parser takes the escape of a byte for that byte.                    *)
LEMMA EscapeStep ==
  ASSUME NEW line \in ByteString, NEW at \in ParseState, at.mode = "inq", NEW c \in 0..255,
         Stands(line, at.p, Escape(c))
  PROVE  ParseGoes(line, at, Taken(at, c, Len(Escape(c))))
<1> DEFINE e == Escape(c)
           c0 == At(line, at.p)
           c1 == At(line, at.p + 1)
           c2 == At(line, at.p + 2)
           c3 == At(line, at.p + 3)
<1>0. at.p \in Nat \ {0} /\ at.p + 1 - 1 = at.p /\ at.p + 2 - 1 = at.p + 1 /\ at.p + 3 - 1 = at.p + 2 /\ at.p + 4 - 1 = at.p + 3
  BY ParseFields
<1>1. \A i \in 1..Len(e) : At(line, at.p + i - 1) = e[i]
  BY StandsAt
<1>2. (1 \in 1..Len(e) => c0 = e[1]) /\ (2 \in 1..Len(e) => c1 = e[2])
      /\ (3 \in 1..Len(e) => c2 = e[3]) /\ (4 \in 1..Len(e) => c3 = e[4])
  <2> HIDE DEF e
  <2> QED BY Zenon, <1>0, <1>1
<1> DEFINE Hex == c0 = Backslash /\ c1 = 120 /\ is_hex_digit(c2) /\ is_hex_digit(c3)
<1>3. /\ Hex => ParseGoes(line, at, Taken(at, hex_digit_to_int(c2) * 16 + hex_digit_to_int(c3), 4))
      /\ ~Hex /\ c0 = Backslash /\ c1 # 0 => ParseGoes(line, at, Taken(at, Unescape(c1), 2))
      /\ c0 # Backslash /\ c0 # DoubleQuote /\ c0 # 0 => ParseGoes(line, at, Taken(at, c0, 1))
  BY Zenon, QuotedTurn
<1> HIDE DEF e, c0, c1, c2, c3
<1>4. CASE c \in {Backslash, DoubleQuote}
  <2>1. e = <<Backslash, c>>
    BY Zenon, <1>4 DEF e, Escape
  <2>2. Len(e) = 2 /\ c0 = Backslash /\ c1 = c
    BY <1>2, <2>1
  <2>3. c1 # 0 /\ c1 # 120 /\ Unescape(c1) = c
    BY <1>4, <2>2, OwnEscape
  <2> QED BY Zenon, <1>3, <2>2, <2>3 DEF e
<1>5. CASE c \notin {Backslash, DoubleQuote} /\ c \in DOMAIN Letter
  <2>1. e = <<Backslash, Letter[c]>>
    BY Zenon, <1>5 DEF e, Escape
  <2>2. Len(e) = 2 /\ c0 = Backslash /\ c1 = Letter[c]
    BY <1>2, <2>1
  <2>3. c1 # 0 /\ c1 # 120 /\ Unescape(c1) = c
    BY <1>5, <2>2, LetterRight
  <2> QED BY Zenon, <1>3, <2>2, <2>3 DEF e
<1>6. CASE c \notin {Backslash, DoubleQuote} /\ c \notin DOMAIN Letter /\ isprint(c)
  <2>1. e = <<c>>
    BY Zenon, <1>6 DEF e, Escape
  <2>2. Len(e) = 1 /\ c0 = c
    BY <1>2, <2>1
  <2>3. c0 # 0
    BY <1>6, <2>2 DEF isprint
  <2> QED BY Zenon, <1>3, <1>6, <2>2, <2>3 DEF e
<1>7. CASE c \notin {Backslash, DoubleQuote} /\ c \notin DOMAIN Letter /\ ~isprint(c)
  <2> DEFINE hi == c \div 16
             lo == c % 16
  <2>0. hi \in 0..15 /\ lo \in 0..15 /\ hi * 16 + lo = c
    BY Nibbles
  <2>1. e = <<Backslash, 120, HexDigit(hi), HexDigit(lo)>>
    BY Zenon, <1>7 DEF e, Escape
  <2> HIDE DEF hi, lo
  <2>2. Len(e) = 4 /\ c0 = Backslash /\ c1 = 120 /\ c2 = HexDigit(hi) /\ c3 = HexDigit(lo)
    BY <1>2, <2>1
  <2>3. is_hex_digit(c2) /\ is_hex_digit(c3) /\ hex_digit_to_int(c2) = hi /\ hex_digit_to_int(c3) = lo
    BY Zenon, <2>0, <2>2, HexRight
  <2> QED BY Zenon, <1>3, <2>0, <2>2, <2>3 DEF e
<1> QED BY Zenon, <1>4, <1>5, <1>6, <1>7

(* The escape of a byte is a text.                                         *)
LEMMA EscapeTyped ==
  ASSUME NEW c \in 0..255
  PROVE  Escape(c) \in ByteString
<1>1. Backslash \in 0..255
  BY DEF Backslash
<1>2. c \in DOMAIN Letter => Letter[c] \in 0..255
  BY LetterRight
<1>3. HexDigit(c \div 16) \in 0..255 /\ HexDigit(c % 16) \in 0..255
  <2>1. c \div 16 \in 0..15 /\ c % 16 \in 0..15
    BY Nibbles
  <2>2. HexDigit(c \div 16) \in 1..255 /\ HexDigit(c % 16) \in 1..255
    BY Zenon, <2>1, HexRight
  <2> QED BY <2>2
<1> DEFINE a == HexDigit(c \div 16)
           b == HexDigit(c % 16)
           l == Letter[c]
           s == Backslash
<1>4. <<s, c>> \in ByteString /\ <<c>> \in ByteString
  BY <1>1 DEF ByteString
<1>5. c \in DOMAIN Letter => <<s, l>> \in ByteString
  <2> HIDE DEF l
  <2> QED BY <1>1, <1>2 DEF ByteString, l
<1>6. <<s, 120, a, b>> \in ByteString
  <2> HIDE DEF a, b
  <2> QED BY <1>1, <1>3 DEF ByteString, a, b
<1> QED BY Zenon, <1>4, <1>5, <1>6 DEF Escape

(* R holds what sdscatrepr has written after each byte of w.               *)
Written(pre, w, R) ==
  /\ R \in [0..Len(w) -> ByteString] /\ R[0] = Append(pre, DoubleQuote)
  /\ \A k \in 1..Len(w) : R[k] = R[k - 1] \o Escape(w[k])

(* The loop of sdscatrepr appends the escapes one after the other.         *)
LEMMA ReprRule ==
  ASSUME NEW pre \in ByteString, NEW w \in ByteString
  PROVE  \E R : Written(pre, w, R) /\ sdscatrepr(pre, w) = Append(R[Len(w)], DoubleQuote)
<1> DEFINE N == Len(w)
           S == ByteString
           a == Append(pre, DoubleQuote)
           G == [k \in 0..N |-> [v \in S |-> IF k = 0 THEN << >> ELSE v \o Escape(w[k])]]
           Body(f) == [i \in 0..Len(w) |-> IF i = 0 THEN Append(pre, DoubleQuote) ELSE f[i - 1] \o Escape(w[i])]
           V == CHOOSE f : f = Body(f)
<1>0. N \in Nat /\ a \in S /\ << >> \in S
  BY EmptyText DEF ByteString, DoubleQuote
<1>01. ASSUME NEW k \in 0..N, k # 0 PROVE k - 1 \in 0..N /\ k \in 1..N /\ Escape(w[k]) \in S
  <2>1. k - 1 \in 0..N /\ k \in 1..N
    BY <1>0, <1>01
  <2>2. w[k] \in 0..255
    BY <2>1, ElementOfSeq DEF ByteString
  <2> QED BY Zenon, <2>1, <2>2, EscapeTyped
<1>02. ASSUME NEW k \in 0..N, k # 0, NEW v \in S PROVE v \o Escape(w[k]) \in S
  <2> DEFINE y == Escape(w[k])
  <2>1. y \in S
    BY <1>01, <1>02
  <2> HIDE DEF y
  <2> QED BY <2>1, ConcatTexts DEF y
<1> HIDE DEF S, a
<1>1. LoopOf(0, N, S, a, G)
  <2>1. G \in [0..N -> [S -> S]]
    <3>1. ASSUME NEW k \in 0..N, NEW v \in S PROVE (IF k = 0 THEN << >> ELSE v \o Escape(w[k])) \in S
      BY <1>0, <1>02
    <3> QED BY <3>1
  <2> HIDE DEF G, N
  <2> QED BY <1>0, <2>1 DEF LoopOf
<1>2. \A k \in 0..N : k # 0 => \A v \in S : G[k][v] = v \o Escape(w[k])
  OBVIOUS
<1> HIDE DEF G
<1>3. PICK f : Turns(0, N, S, a, G, f)
  BY <1>1, Loop
<1>30. f \in [0..N -> S]
  BY <1>3 DEF Turns
<1>4. f = Body(f)
  <2>2. ASSUME NEW k \in 0..N PROVE f[k] = IF k = 0 THEN a ELSE f[k - 1] \o Escape(w[k])
    <3>1. k # 0 => f[k - 1] \in S
      BY <1>01, <1>30
    <3>2. k # 0 => G[k][f[k - 1]] = f[k - 1] \o Escape(w[k])
      BY Zenon, <1>2, <3>1
    <3> QED BY Zenon, <1>3, <3>2 DEF Turns
  <2> QED BY <1>30, <2>2 DEF a
<1>5. V = Body(V)
  BY Zenon, <1>4
<1>6. sdscatrepr(pre, w) = Append(V[Len(w)], DoubleQuote)
  BY Zenon DEF sdscatrepr
<1> HIDE DEF V
<1>7. \A k \in 0..N : V[k] = IF k = 0 THEN a ELSE V[k - 1] \o Escape(w[k])
  BY <1>5 DEF a
<1>70. LoopOf(0, N, S, a, G) /\ V = [k \in 0..N |-> V[k]]
  BY <1>1, <1>5
<1>71. \A k \in 0..N : IF k = 0 THEN V[k] = a ELSE V[k - 1] \in S => V[k] = G[k][V[k - 1]]
  BY Zenon, <1>2, <1>7
<1>8. Turns(0, N, S, a, G, V)
  <2> DEFINE z == 0
  <2> HIDE DEF z, N
  <2>1. LoopOf(z, N, S, a, G) /\ V = [k \in z..N |-> V[k]]
        /\ \A k \in z..N : IF k = z THEN V[k] = a ELSE V[k - 1] \in S => V[k] = G[k][V[k - 1]]
    BY Zenon, <1>70, <1>71 DEF z
  <2>2. Turns(z, N, S, a, G, V)
    BY Zenon, <2>1, LoopResults
  <2> QED BY Zenon, <2>2 DEF z
<1>9. Written(pre, w, V)
  <2>1. V \in [0..N -> S]
    BY <1>8 DEF Turns
  <2>2. V[0] = a
    BY <1>0, <1>7
  <2>3. ASSUME NEW k \in 1..N PROVE V[k] = V[k - 1] \o Escape(w[k])
    <3>1. k \in 0..N /\ k # 0
      BY <1>0
    <3> QED BY Zenon, <1>7, <3>1
  <2> QED BY Zenon, <2>1, <2>2, <2>3 DEF Written, a, S
<1> QED BY Zenon, <1>6, <1>9

(* What was written up to the end was written up to every byte.            *)
LEMMA WrittenStands ==
  ASSUME NEW line \in ByteString, NEW pre \in ByteString, NEW w \in ByteString, NEW R, Written(pre, w, R),
         Stands(line, 1, R[Len(w)])
  PROVE  /\ \A k \in 0..Len(w) : Stands(line, 1, R[k])
         /\ \A k \in 1..Len(w) : Stands(line, 1 + Len(R[k - 1]), Escape(w[k]))
<1> DEFINE N == Len(w)
           P == {k \in 0..N : Stands(line, 1, R[N - k])}
<1>0. N \in Nat
  BY DEF ByteString
<1>1. ASSUME NEW k \in 1..N, Stands(line, 1, R[k])
      PROVE  Stands(line, 1, R[k - 1]) /\ Stands(line, 1 + Len(R[k - 1]), Escape(w[k]))
  <2> DEFINE s == R[k - 1]
             t == Escape(w[k])
             x == 1
  <2>0. k - 1 \in 0..N
    BY <1>0
  <2>1. s \in ByteString
    BY <2>0 DEF Written
  <2>2. w[k] \in 0..255
    BY ElementOfSeq DEF ByteString
  <2>3. t \in ByteString
    BY Zenon, <2>2, EscapeTyped
  <2>4. R[k] = s \o t
    BY DEF Written
  <2> HIDE DEF s, t, x
  <2>5. Stands(line, x, s \o t)
    BY Zenon, <1>1, <2>4 DEF x
  <2>6. Stands(line, x, s) /\ Stands(line, x + Len(s), t)
    BY Zenon, <2>1, <2>3, <2>5, StandsConcat
  <2> QED BY Zenon, <2>6 DEF s, t, x
<1>2. Inductive(0, N, P)
  <2>1. 0 \in P
    <3>1. N - 0 = N
      BY <1>0
    <3> QED BY <1>0, <3>1
  <2>2. ASSUME NEW k \in 0..N, k # 0, k - 1 \in P PROVE k \in P
    <3>1. N - (k - 1) \in 1..N /\ (N - (k - 1)) - 1 = N - k
      BY <1>0, <2>2
    <3>2. Stands(line, 1, R[N - (k - 1)])
      BY <2>2
    <3>3. Stands(line, 1, R[(N - (k - 1)) - 1])
      BY Zenon, <1>1, <3>1, <3>2
    <3> QED BY <3>1, <3>3
  <2> HIDE DEF P, N
  <2> QED BY <1>0, <2>1, <2>2 DEF Inductive
<1>3. \A k \in 0..N : k \in P
  <2> HIDE DEF P, N
  <2> QED BY <1>2, IntervalInduction
<1>4. ASSUME NEW k \in 0..N PROVE Stands(line, 1, R[k])
  <2>1. N - k \in 0..N /\ N - (N - k) = k
    BY <1>0
  <2>2. Stands(line, 1, R[N - (N - k)])
    BY <1>3, <2>1
  <2> QED BY Zenon, <2>1, <2>2
<1>5. ASSUME NEW k \in 1..N PROVE Stands(line, 1 + Len(R[k - 1]), Escape(w[k]))
  <2>1. k \in 0..N
    BY <1>0
  <2> QED BY Zenon, <1>1, <1>4, <2>1
<1> QED BY Zenon, <1>4, <1>5

ReadState(p, mode, current, vector) == [p |-> p, mode |-> mode, current |-> current, vector |-> vector]

(* From both states the parser comes to the same result.                   *)
SameEnd(parse, at, to) == parse[at] = parse[to]

(* The parser between two arguments, after an opening quote, and in quotes. *)
Between(p, vector) == ReadState(p, "skip", << >>, vector)
Opened(p, vector) == ReadState(p, "inq", << >>, vector)
Quoted(p, current, vector) == ReadState(p, "inq", current, vector)

(* The fields of a state that is given by its fields.                      *)
LEMMA ReadStateIs ==
  ASSUME NEW p \in Nat \ {0}, NEW mode \in Modes, NEW current \in ByteString, NEW vector \in Seq(ByteString)
  PROVE  /\ ReadState(p, mode, current, vector) \in ParseState
         /\ ReadState(p, mode, current, vector).p = p /\ ReadState(p, mode, current, vector).mode = mode
         /\ ReadState(p, mode, current, vector).current = current
         /\ ReadState(p, mode, current, vector).vector = vector
<1> HIDE DEF ByteString
<1> QED BY DEF ReadState, ParseState, Modes

(* Between the quotes the parser reads back what was written.              *)
LEMMA QuotedRead ==
  ASSUME NEW line \in ByteString, NEW pre \in ByteString, NEW w \in ByteString, NEW R, Written(pre, w, R),
         Stands(line, 1, R[Len(w)]), NEW parse, ParseIs(line, parse), NEW v \in Seq(ByteString)
  PROVE  SameEnd(parse, Opened(1 + Len(R[0]), v), Quoted(1 + Len(R[Len(w)]), w, v))
<1> DEFINE N == Len(w)
           St(k) == ReadState(1 + Len(R[k]), "inq", SubSeq(w, 1, k), v)
           P == {k \in 0..N : parse[St(0)] = parse[St(k)]}
<1>0. N \in Nat /\ "inq" \in Modes
  BY DEF ByteString, Modes
<1>1. ASSUME NEW k \in 0..N
      PROVE  /\ 1 + Len(R[k]) \in Nat \ {0} /\ SubSeq(w, 1, k) \in ByteString /\ Len(R[k]) \in Nat
             /\ St(k) \in ParseState /\ St(k).p = 1 + Len(R[k]) /\ St(k).mode = "inq"
             /\ St(k).current = SubSeq(w, 1, k) /\ St(k).vector = v
  <2>1. R[k] \in ByteString
    BY DEF Written
  <2>2. 1 + Len(R[k]) \in Nat \ {0} /\ Len(R[k]) \in Nat
    BY <2>1 DEF ByteString
  <2>3. 1 \in Nat \ {0} /\ k \in Int /\ k <= Len(w)
    BY <1>0
  <2>4. SubSeq(w, 1, k) \in ByteString
    BY <2>3, SubText
  <2> DEFINE p == 1 + Len(R[k])
             u == SubSeq(w, 1, k)
  <2> HIDE DEF p, u
  <2> DEFINE q == "inq"
  <2> HIDE DEF q
  <2>5. /\ ReadState(p, q, u, v) \in ParseState /\ ReadState(p, q, u, v).p = p
        /\ ReadState(p, q, u, v).mode = q
        /\ ReadState(p, q, u, v).current = u /\ ReadState(p, q, u, v).vector = v
    <3>1. p \in Nat \ {0} /\ u \in ByteString /\ q \in Modes
      BY Zenon, <1>0, <2>2, <2>4 DEF p, u, q
    <3> QED BY ONLY <3>1, v \in Seq(ByteString), ReadStateIs
  <2> QED BY Zenon, <2>2, <2>4, <2>5 DEF p, u, q
<1> HIDE DEF St
<1>2. ASSUME NEW k \in 1..N PROVE parse[St(k - 1)] = parse[St(k)]
  <2> DEFINE at == St(k - 1)
             c == w[k]
             L == Len(Escape(c))
  <2>0. k - 1 \in 0..N /\ k \in 0..N
    BY <1>0
  <2>1. at \in ParseState /\ at.p = 1 + Len(R[k - 1]) /\ at.mode = "inq" /\ at.current = SubSeq(w, 1, k - 1) /\ at.vector = v
    BY <1>1, <2>0
  <2>2. c \in 0..255
    BY ElementOfSeq DEF ByteString
  <2>3. Stands(line, at.p, Escape(c))
    <3>1. Stands(line, 1 + Len(R[k - 1]), Escape(w[k]))
      BY Zenon, WrittenStands
    <3> QED BY Zenon, <2>1, <3>1
  <2>40. Escape(c) \in ByteString
    BY Zenon, <2>2, EscapeTyped
  <2>4. Escape(c) \in ByteString /\ L \in Nat
    <3> DEFINE y == Escape(c)
    <3> HIDE DEF y
    <3>1. y \in Seq(0..255)
      BY Zenon, <2>40 DEF y, ByteString
    <3> QED BY <2>40, <3>1 DEF y
  <2> HIDE DEF at, c
  <2>5. ParseGoes(line, at, Taken(at, c, L))
    BY Zenon, <2>1, <2>2, <2>3, EscapeStep
  <2>6. parse[at] = parse[Taken(at, c, L)]
    BY Zenon, <2>1, <2>5 DEF ParseIs, ParseGoes
  <2>7. Taken(at, c, L) = ReadState(at.p + L, at.mode, Append(at.current, c), at.vector)
    <3> HIDE DEF L
    <3> QED BY Zenon, <2>1, <2>2, <2>4, TakenIs DEF ReadState
  <2>8. at.p + L = 1 + Len(R[k])
    <3>1. R[k] = R[k - 1] \o Escape(c) /\ R[k - 1] \in ByteString
      BY Zenon, <2>0 DEF Written, c
    <3>2. Len(R[k]) = Len(R[k - 1]) + L
      BY <2>4, <3>1, ConcatProperties DEF ByteString
    <3> HIDE DEF L
    <3> QED BY <1>1, <2>0, <2>1, <2>4, <3>2
  <2>9. Append(at.current, c) = SubSeq(w, 1, k)
    <3>1. w \in Seq(0..255) /\ k \in 1..Len(w)
      BY DEF ByteString
    <3>2. Append(SubSeq(w, 1, k - 1), w[k]) = SubSeq(w, 1, k)
      BY <3>1
    <3> QED BY Zenon, <2>1, <3>2 DEF c
  <2> QED BY Zenon, <2>1, <2>6, <2>7, <2>8, <2>9 DEF at, St
<1>3. Inductive(0, N, P)
  <2>1. 0 \in P
    BY <1>0
  <2>2. ASSUME NEW k \in 0..N, k # 0, k - 1 \in P PROVE k \in P
    <3>1. k \in 1..N
      BY <1>0, <2>2
    <3>2. parse[St(0)] = parse[St(k - 1)]
      BY <2>2
    <3> QED BY <1>2, <3>1, <3>2
  <2> HIDE DEF P, N
  <2> QED BY <1>0, <2>1, <2>2 DEF Inductive
<1>4. \A k \in 0..N : k \in P
  <2> HIDE DEF P, N
  <2> QED BY <1>3, IntervalInduction
<1>5. parse[St(0)] = parse[St(N)]
  BY <1>0, <1>4
<1>6. SubSeq(w, 1, 0) = << >> /\ SubSeq(w, 1, N) = w
  <2>1. w \in Seq(0..255)
    BY DEF ByteString
  <2>2. SubSeq(w, 1, N) = w
    BY <2>1, SubSeqFull
  <2>3. SubSeq(w, 1, 0) = << >>
    BY <2>1, SubSeqEmpty
  <2> QED BY <2>2, <2>3
<1> QED BY Zenon, <1>5, <1>6 DEF St, SameEnd, Opened, Quoted

(* The state of the parser at this position, with these fields.            *)
StateAt(at, p, mode, current, vector) ==
  /\ at \in ParseState /\ at = ReadState(p, mode, current, vector)
  /\ at.p = p /\ at.mode = mode /\ at.current = current /\ at.vector = vector

(* Steps follow each other.                                                *)
LEMMA SameEndOn ==
  ASSUME NEW parse, NEW a, NEW b, NEW c, SameEnd(parse, a, b), SameEnd(parse, b, c)
  PROVE  SameEnd(parse, a, c)
BY Zenon DEF SameEnd

(* A state that is given by its fields has them.                           *)
LEMMA StateExists ==
  ASSUME NEW p \in Nat \ {0}, NEW mode \in Modes, NEW current \in ByteString, NEW vector \in Seq(ByteString)
  PROVE  StateAt(ReadState(p, mode, current, vector), p, mode, current, vector)
<1> DEFINE at == ReadState(p, mode, current, vector)
<1>1. at \in ParseState /\ at.p = p /\ at.mode = mode /\ at.current = current /\ at.vector = vector
  BY ReadStateIs
<1> QED BY Zenon, <1>1 DEF StateAt

(* A step does not change what the parser comes to.                        *)
LEMMA GoesTo ==
  ASSUME NEW line, NEW parse, ParseIs(line, parse), NEW at \in ParseState, NEW to, ParseGoes(line, at, to)
  PROVE  SameEnd(parse, at, to)
BY Zenon DEF ParseIs, ParseGoes, SameEnd

(* Before an opening quote the parser enters the quotes.                   *)
LEMMA OpensQuote ==
  ASSUME NEW line, NEW parse, ParseIs(line, parse), NEW p \in Nat \ {0}, NEW v \in Seq(ByteString),
         At(line, p) = DoubleQuote
  PROVE  SameEnd(parse, Between(p, v), Opened(p + 1, v))
<1> DEFINE e == << >>
           a == ReadState(p, "skip", e, v)
           b == ReadState(p, "plain", e, v)
<1>0. e \in ByteString /\ "skip" \in Modes /\ "plain" \in Modes /\ "inq" \in Modes /\ 0 \in Nat /\ 1 \in Nat
  BY EmptyText DEF Modes
<1>1. At(line, p) # 0 /\ ~isspace(At(line, p)) /\ At(line, p) \notin {32, 10, 13, 9} /\ p + 0 = p
  BY DEF DoubleQuote, isspace
<1> HIDE DEF e
<1>2. StateAt(a, p, "skip", e, v)
  BY <1>0, StateExists
<1>3. StateAt(b, p, "plain", e, v)
  BY <1>0, StateExists
<1> HIDE DEF a, b
<1>4. SameEnd(parse, a, b)
  <2>1. ParseGoes(line, a, Gone(a, 0, "plain"))
    BY Zenon, <1>1, <1>2, SkipTurn DEF StateAt
  <2>2. Gone(a, 0, "plain") = b
    <3>1. Gone(a, 0, "plain") = [p |-> a.p + 0, mode |-> "plain", current |-> a.current, vector |-> a.vector]
      BY Zenon, <1>0, <1>2, GoneIs DEF StateAt
    <3> QED BY Zenon, <1>1, <1>2, <1>3, <3>1 DEF StateAt, ReadState
  <2>3. a \in ParseState
    BY Zenon, <1>2 DEF StateAt
  <2>4. SameEnd(parse, a, Gone(a, 0, "plain"))
    BY <2>1, <2>3, GoesTo
  <2> QED BY Zenon, <2>2, <2>4
<1>5. SameEnd(parse, b, ReadState(p + 1, "inq", e, v))
  <2>1. ParseGoes(line, b, Gone(b, 1, "inq"))
    <3>1. b.mode = "plain" /\ b.p = p
      BY Zenon, <1>3 DEF StateAt
    <3>2. At(line, b.p) \notin {32, 10, 13, 9} /\ At(line, b.p) # 0 /\ At(line, b.p) = DoubleQuote
      BY Zenon, <1>1, <3>1
    <3> QED BY Zenon, <3>1, <3>2, PlainTurn
  <2>2. Gone(b, 1, "inq") = ReadState(p + 1, "inq", e, v)
    <3>1. Gone(b, 1, "inq") = [p |-> b.p + 1, mode |-> "inq", current |-> b.current, vector |-> b.vector]
      BY Zenon, <1>0, <1>3, GoneIs DEF StateAt
    <3> QED BY Zenon, <1>3, <3>1 DEF StateAt, ReadState
  <2>3. b \in ParseState
    BY Zenon, <1>3 DEF StateAt
  <2>4. SameEnd(parse, b, Gone(b, 1, "inq"))
    BY <2>1, <2>3, GoesTo
  <2> QED BY Zenon, <2>2, <2>4
<1> QED BY Zenon, <1>4, <1>5 DEF a, e, SameEnd, Between, Opened

(* A closing quote before a blank or the end ends the argument.            *)
LEMMA ClosesQuote ==
  ASSUME NEW line, NEW parse, ParseIs(line, parse), NEW p \in Nat \ {0}, NEW w \in ByteString,
         NEW v \in Seq(ByteString), At(line, p) = DoubleQuote,
         At(line, p + 1) = 0 \/ isspace(At(line, p + 1))
  PROVE  SameEnd(parse, Quoted(p, w, v), Between(p + 1, Append(v, w)))
<1> DEFINE a == ReadState(p, "inq", w, v)
<1>0. "inq" \in Modes
  BY DEF Modes
<1>1. DoubleQuote # Backslash
  BY DEF DoubleQuote, Backslash
<1>2. StateAt(a, p, "inq", w, v)
  BY <1>0, StateExists
<1> HIDE DEF a
<1>3. a.mode = "inq" /\ a.p = p /\ a.current = w /\ a.vector = v /\ a \in ParseState
  BY Zenon, <1>2 DEF StateAt
<1>4. Closes(line, a)
  BY Zenon, <1>1, <1>3, QuotedTurn
<1>5. ParseGoes(line, a, Finished(a, 1))
  BY Zenon, <1>3, <1>4 DEF Closes
<1>6. Finished(a, 1) = ReadState(p + 1, "skip", << >>, Append(v, w))
  BY Zenon, <1>3 DEF Finished, ReadState
<1>7. SameEnd(parse, a, Finished(a, 1))
  BY <1>3, <1>5, GoesTo
<1> QED BY Zenon, <1>6, <1>7 DEF a, Quoted, Between

(* The parser reads one quoted text.                                       *)
LEMMA QuotedArg ==
  ASSUME NEW line \in ByteString, NEW parse, ParseIs(line, parse), NEW pre \in ByteString, NEW w \in ByteString,
         NEW v \in Seq(ByteString), NEW q, q = sdscatrepr(pre, w), Stands(line, 1, q),
         At(line, 1 + Len(q)) = 0 \/ isspace(At(line, 1 + Len(q)))
  PROVE  /\ Stands(line, 1, pre)
         /\ SameEnd(parse, Between(1 + Len(pre), v), Between(1 + Len(q), Append(v, w)))
<1>0. DoubleQuote \in 0..255 /\ Len(w) \in Nat /\ 0 \in 0..Len(w) /\ Len(w) \in 0..Len(w)
  BY DEF DoubleQuote, ByteString
<1>1. PICK R : Written(pre, w, R) /\ sdscatrepr(pre, w) = Append(R[Len(w)], DoubleQuote)
  BY Zenon, ReprRule
<1> DEFINE z == R[Len(w)]
<1>2. z \in ByteString /\ R[0] = Append(pre, DoubleQuote) /\ R[0] \in ByteString
  BY Zenon, <1>0, <1>1 DEF Written
<1>3. q = Append(z, DoubleQuote)
  BY Zenon, <1>1
<1> HIDE DEF z
<1>4. /\ Len(q) = Len(z) + 1 /\ Len(z) \in Nat /\ Len(pre) \in Nat
  <2>1. z \in Seq(0..255) /\ pre \in Seq(0..255)
    BY Zenon, <1>2 DEF ByteString
  <2> QED BY <1>0, <1>3, <2>1
<1>40. Len(R[0]) = Len(pre) + 1
  <2>1. pre \in Seq(0..255)
    BY Zenon DEF ByteString
  <2> QED BY <1>0, <1>2, <2>1
<1>5. Stands(line, 1, z) /\ At(line, 1 + Len(z)) = DoubleQuote
  <2> DEFINE x == 1
  <2> HIDE DEF x
  <2>1. Stands(line, x, Append(z, DoubleQuote))
    BY Zenon, <1>3 DEF x
  <2>2. Stands(line, x, z) /\ At(line, x + Len(z)) = DoubleQuote
    BY Zenon, <1>0, <1>2, <2>1, StandsAppend
  <2> QED BY Zenon, <2>2 DEF x
<1>6. Stands(line, 1, R[0])
  BY Zenon, <1>0, <1>1, <1>5, WrittenStands DEF z
<1>7. Stands(line, 1, pre) /\ At(line, 1 + Len(pre)) = DoubleQuote
  <2> DEFINE x == 1
  <2> HIDE DEF x
  <2>1. Stands(line, x, Append(pre, DoubleQuote))
    BY Zenon, <1>2, <1>6 DEF x
  <2>2. Stands(line, x, pre) /\ At(line, x + Len(pre)) = DoubleQuote
    BY Zenon, <1>0, <2>1, StandsAppend
  <2> QED BY Zenon, <2>2 DEF x
<1> DEFINE a == 1 + Len(pre)
           b == 1 + Len(z)
<1>8. a \in Nat \ {0} /\ b \in Nat \ {0} /\ a + 1 = 1 + Len(R[0]) /\ b + 1 = 1 + Len(q)
  BY <1>4, <1>40
<1> HIDE DEF a, b
<1>9. SameEnd(parse, Between(a, v), Opened(a + 1, v))
  BY Zenon, <1>7, <1>8, OpensQuote DEF a
<1>10. SameEnd(parse, Opened(1 + Len(R[0]), v), Quoted(b, w, v))
  <2>1. SameEnd(parse, Opened(1 + Len(R[0]), v), Quoted(1 + Len(R[Len(w)]), w, v))
    <3>1. Stands(line, 1, R[Len(w)])
      BY Zenon, <1>5 DEF z
    <3> QED BY <1>1, <3>1, QuotedRead
  <2> QED BY Zenon, <2>1 DEF z, b
<1>11. SameEnd(parse, Quoted(b, w, v), Between(b + 1, Append(v, w)))
  <2>1. At(line, b) = DoubleQuote /\ (At(line, b + 1) = 0 \/ isspace(At(line, b + 1)))
    BY Zenon, <1>5, <1>8 DEF b
  <2> QED BY <1>8, <2>1, ClosesQuote
<1>12. SameEnd(parse, Between(a, v), Between(1 + Len(q), Append(v, w)))
  BY Zenon, <1>8, <1>9, <1>10, <1>11, SameEndOn
<1> QED BY Zenon, <1>7, <1>12 DEF a

(* What sdscatrepr writes is a text.                                       *)
LEMMA ReprTyped ==
  ASSUME NEW pre \in ByteString, NEW w \in ByteString
  PROVE  sdscatrepr(pre, w) \in ByteString
<1>1. PICK R : Written(pre, w, R) /\ sdscatrepr(pre, w) = Append(R[Len(w)], DoubleQuote)
  BY ReprRule
<1> DEFINE z == R[Len(w)]
<1>2. Len(w) \in 0..Len(w)
  BY DEF ByteString
<1>3. z \in ByteString /\ DoubleQuote \in 0..255
  BY <1>1, <1>2 DEF Written, DoubleQuote
<1> HIDE DEF z
<1>4. Append(z, DoubleQuote) \in ByteString
  BY <1>3 DEF ByteString
<1> QED BY Zenon, <1>1, <1>4 DEF z

(* sdssplitargs reads back two quoted texts on one line, whatever bytes    *)
(* they hold.                                                              *)
LEMMA ReadBack ==
  ASSUME NEW other \in ByteString, NEW w \in ByteString
  PROVE  sdssplitargs(sdscatrepr(Append(sdscatrepr(<< >>, other), 32), w)) = [ok |-> TRUE, args |-> <<other, w>>]
<1> DEFINE e == << >>
           q == sdscatrepr(e, other)
           pre == Append(q, 32)
           line == sdscatrepr(pre, w)
<1>1. e \in ByteString /\ e \in Seq(ByteString) /\ Len(e) = 0 /\ 32 \in 0..255
  BY EmptyText, EmptySeq
<1> HIDE DEF e
<1>2. q \in ByteString
  BY <1>1, ReprTyped
<1> HIDE DEF q
<1>3. pre \in ByteString /\ Len(pre) = Len(q) + 1 /\ Len(q) \in Nat /\ pre = Append(q, 32)
  BY <1>1, <1>2 DEF ByteString
<1> HIDE DEF pre
<1>4. line \in ByteString
  BY <1>3, ReprTyped
<1>40. line = sdscatrepr(pre, w)
  OBVIOUS
<1> HIDE DEF line
<1>5. Len(line) \in Nat /\ Stands(line, 1, line) /\ At(line, 1 + Len(line)) = 0
  BY <1>4 DEF Stands, ByteString, At
<1>6. PICK parse : ParseIs(line, parse) /\ sdssplitargs(line) = parse[Between(1, e)]
  BY Zenon, <1>4, ParseRule DEF e, ReadState, Between
<1> DEFINE v == Append(e, other)
           u == Append(v, w)
<1>7. v \in Seq(ByteString) /\ u \in Seq(ByteString) /\ u = <<other, w>>
  <2> HIDE DEF ByteString
  <2>1. v = <<other>> /\ v \in Seq(ByteString) /\ Len(v) = 1 /\ v[1] = other
    BY DEF e
  <2> HIDE DEF v
  <2>2. u \in Seq(ByteString) /\ Len(u) = 2 /\ u[1] = other /\ u[2] = w
    BY <2>1
  <2>3. <<other, w>> \in Seq(ByteString)
    OBVIOUS
  <2> HIDE DEF u
  <2> DEFINE t == <<other, w>>
  <2>4. t \in Seq(ByteString) /\ Len(t) = 2 /\ t[1] = other /\ t[2] = w
    OBVIOUS
  <2> HIDE DEF t
  <2>5. \A i \in 1..2 : u[i] = t[i]
    BY <2>2, <2>4
  <2>6. u = t
    BY <2>2, <2>4, <2>5, SeqEqual
  <2> QED BY <2>1, <2>2, <2>6 DEF t
<1> HIDE DEF v, u
<1>8. Stands(line, 1, pre) /\ SameEnd(parse, Between(1 + Len(pre), v), Between(1 + Len(line), u))
  <2>1. Stands(line, 1, pre) /\ SameEnd(parse, Between(1 + Len(pre), v), Between(1 + Len(line), Append(v, w)))
    <3>1. ParseIs(line, parse) /\ pre \in ByteString /\ v \in Seq(ByteString)
      BY Zenon, <1>3, <1>6, <1>7
    <3>2. At(line, 1 + Len(line)) = 0 \/ isspace(At(line, 1 + Len(line)))
      BY Zenon, <1>5
    <3>3. Stands(line, 1, line)
      BY Zenon, <1>5
    <3> QED BY <1>4, <1>40, <3>1, <3>2, <3>3, QuotedArg
  <2> QED BY Zenon, <2>1 DEF u
<1>9. Stands(line, 1, q) /\ At(line, 1 + Len(q)) = 32
  <2> DEFINE x == 1
             b == 32
  <2> HIDE DEF x, b
  <2>1. Stands(line, x, Append(q, b)) /\ b \in 0..255
    BY Zenon, <1>1, <1>3, <1>8 DEF x, b
  <2>2. Stands(line, x, q) /\ At(line, x + Len(q)) = b
    BY Zenon, <1>2, <1>4, <2>1, StandsAppend
  <2> QED BY Zenon, <2>2 DEF x, b
<1>10. isspace(At(line, 1 + Len(q))) /\ At(line, 1 + Len(q)) # 0
  BY <1>9 DEF isspace
<1>11. SameEnd(parse, Between(1 + Len(e), e), Between(1 + Len(q), v))
  <2>1. q = sdscatrepr(e, other)
    BY Zenon DEF q
  <2> QED BY Zenon, <1>1, <1>4, <1>6, <1>9, <1>10, <2>1, QuotedArg DEF v
<1>12. 1 + Len(e) = 1 /\ 1 + Len(q) \in Nat \ {0} /\ (1 + Len(q)) + 1 = 1 + Len(pre) /\ 1 + Len(line) \in Nat \ {0}
       /\ 1 \in Nat
  BY <1>1, <1>3, <1>5
<1>13. "skip" \in Modes
  BY DEF Modes
<1>14. SameEnd(parse, Between(1 + Len(q), v), Between(1 + Len(pre), v))
  <2> DEFINE p == 1 + Len(q)
             a == ReadState(p, "skip", e, v)
  <2> HIDE DEF p
  <2>1. StateAt(a, p, "skip", e, v)
    BY <1>1, <1>7, <1>12, <1>13, StateExists DEF p
  <2> HIDE DEF a
  <2>2. a.mode = "skip" /\ a.p = p /\ a.current = e /\ a.vector = v /\ a \in ParseState
    BY Zenon, <2>1 DEF StateAt
  <2>3. ParseGoes(line, a, Gone(a, 1, "skip"))
    BY Zenon, <1>10, <2>2, SkipTurn DEF p
  <2>4. Gone(a, 1, "skip") = [p |-> a.p + 1, mode |-> "skip", current |-> a.current, vector |-> a.vector]
    BY Zenon, <1>12, <1>13, <2>2, GoneIs
  <2>5. Gone(a, 1, "skip") = Between(1 + Len(pre), v)
    BY Zenon, <1>12, <2>2, <2>4 DEF ReadState, Between, p, e
  <2>6. SameEnd(parse, a, Gone(a, 1, "skip"))
    BY <1>6, <2>2, <2>3, GoesTo
  <2> QED BY Zenon, <2>5, <2>6 DEF a, p, Between, e
<1>15. parse[Between(1 + Len(line), u)] = [ok |-> TRUE, args |-> u]
  <2> DEFINE p == 1 + Len(line)
             a == ReadState(p, "skip", e, u)
  <2> HIDE DEF p
  <2>1. StateAt(a, p, "skip", e, u)
    BY Zenon, <1>1, <1>7, <1>12, <1>13, StateExists DEF p
  <2> HIDE DEF a
  <2>2. a.mode = "skip" /\ a.p = p /\ a.vector = u /\ a \in ParseState
    BY Zenon, <2>1 DEF StateAt
  <2>3. ParseEnds(line, a, [ok |-> TRUE, args |-> a.vector])
    BY Zenon, <1>5, <2>2, SkipTurn DEF p
  <2>4. parse[a] = [ok |-> TRUE, args |-> a.vector]
    BY Zenon, <1>6, <2>2, <2>3 DEF ParseIs, ParseEnds
  <2> QED BY Zenon, <2>2, <2>4 DEF a, p, Between, e
<1>16. sdssplitargs(line) = [ok |-> TRUE, args |-> u]
  BY Zenon, <1>6, <1>8, <1>11, <1>12, <1>14, <1>15 DEF SameEnd
<1> QED BY Zenon, <1>7, <1>16 DEF line, pre, q, e

(* ReprIsReadBack holds in every state of the enumeration.                 *)
LEMMA ReprAlways == AlgorithmsTypeOK => ReprIsReadBack
<1> SUFFICES ASSUME AlgorithmsTypeOK, NEW other \in {<< >>} \cup [1..1 -> Alphabet]
             PROVE  sdssplitargs(sdscatrepr(Append(sdscatrepr(<< >>, other), 32), text))
                      = [ok |-> TRUE, args |-> <<other, text>>]
  BY Zenon DEF ReprIsReadBack
<1>1. text \in ByteString
  BY TextIsBytes
<1>2. other \in ByteString
  <2>1. CASE other = << >>
    BY Zenon, <2>1, EmptyText
  <2>2. CASE other \in [1..1 -> Alphabet]
    BY Zenon, <2>2, BytesOf
  <2> QED BY <2>1, <2>2
<1> QED BY Zenon, <1>1, <1>2, ReadBack

(* What sdscatrepr writes sdssplitargs reads back byte for byte, for texts *)
(* of every length over any bytes.                                         *)
THEOREM ReprIsReadBackAlways == AlgorithmsSpec => []ReprIsReadBack
BY AlgorithmsTyped, ReprAlways, PTL

-----------------------------------------------------------------------------
(* sdsull2str and sdsll2str.                                               *)

DigitsOf(v, D) == <<48 + (v % 10)>> \o (IF v \div 10 = 0 THEN << >> ELSE D[v \div 10])

(* Digits is what its definition says.                                     *)
LEMMA DigitsRule ==
  \A v \in Nat : Digits[v] = DigitsOf(v, Digits)
<1> DEFINE m == [v \in Nat |-> v]
           Txt == Seq(Int)
           H == [v \in Nat |-> [g \in [Nat -> Txt] |-> DigitsOf(v, g)]]
<1>1. ASSUME NEW v \in Nat PROVE v \div 10 \in Nat /\ (v \div 10 # 0 => v \div 10 < v) /\ v % 10 \in 0..9
  OBVIOUS
<1>2. ASSUME NEW v \in Nat, NEW g \in [Nat -> Txt] PROVE DigitsOf(v, g) \in Txt
  <2>1. <<48 + (v % 10)>> \in Txt
    BY <1>1
  <2>2. (IF v \div 10 = 0 THEN << >> ELSE g[v \div 10]) \in Txt
    BY <1>1
  <2> HIDE DEF Txt
  <2> QED BY <2>1, <2>2 DEF Txt, DigitsOf
<1>3. Measured(Nat, Txt, m, H)
  <2>1. m \in [Nat -> Nat]
    OBVIOUS
  <2>2. H \in [Nat -> [[Nat -> Txt] -> Txt]]
    BY <1>2
  <2>3. ASSUME NEW v \in Nat, NEW g \in [Nat -> Txt], NEW h \in [Nat -> Txt],
               \A y \in Nat : m[y] < m[v] => g[y] = h[y]
        PROVE  H[v][g] = H[v][h]
    <3>1. v \div 10 # 0 => g[v \div 10] = h[v \div 10]
      BY <1>1, <2>3
    <3>2. DigitsOf(v, g) = DigitsOf(v, h)
      BY Zenon, <3>1 DEF DigitsOf
    <3> QED BY <3>2
  <2> HIDE DEF m, H, Txt
  <2> QED BY Zenon, <2>1, <2>2, <2>3 DEF Measured
<1>4. PICK f \in [Nat -> Txt] : \A v \in Nat : f[v] = H[v][f]
  <2>1. << >> \in Txt
    OBVIOUS
  <2> HIDE DEF H, Txt, m
  <2>2. Txt # {}
    BY Zenon, <2>1
  <2> DEFINE D == Nat
  <2>3. Measured(D, Txt, m, H)
    BY <1>3
  <2> HIDE DEF D
  <2>4. \E f \in [D -> Txt] : \A x \in D : f[x] = H[x][f]
    BY <2>2, <2>3, Recursion
  <2> QED BY Zenon, <2>4 DEF D
<1>5. f = [v \in Nat |-> DigitsOf(v, f)]
  BY <1>4
<1>6. Digits = [v \in Nat |-> DigitsOf(v, Digits)]
  BY Zenon, <1>5 DEF Digits, DigitsOf
<1> QED BY Zenon, <1>6

(* The values of the prefixes of t.                                        *)
PrefixValues(t, V) ==
  /\ V \in [0..Len(t) -> Int] /\ V[0] = 0
  /\ \A i \in 1..Len(t) : V[i] = 10 * V[i - 1] + (t[i] - 48)

(* The reference value of a text of digits: each digit adds to ten times   *)
(* the value of those before it.                                           *)
LEMMA UnsignedRule ==
  ASSUME NEW t \in Seq(Int)
  PROVE  \E V : PrefixValues(t, V) /\ Unsigned(t) = V[Len(t)]
<1> DEFINE N == Len(t)
           G == [i \in 0..N |-> [v \in Int |-> IF i = 0 THEN 0 ELSE 10 * v + (t[i] - 48)]]
           Body(V) == [i \in 0..Len(t) |-> IF i = 0 THEN 0 ELSE 10 * V[i - 1] + (t[i] - 48)]
           V == CHOOSE V : V = Body(V)
<1>0. N \in Nat /\ N = Len(t)
  OBVIOUS
<1>1. LoopOf(0, N, Int, 0, G)
  BY DEF LoopOf
<1>2. \A k \in 0..N : k # 0 => \A v \in Int : G[k][v] = 10 * v + (t[k] - 48)
  OBVIOUS
<1> HIDE DEF G
<1>3. PICK f : Turns(0, N, Int, 0, G, f)
  BY <1>1, Loop
<1>4. f = Body(f)
  <2>1. f \in [0..N -> Int]
    BY <1>3 DEF Turns
  <2>2. ASSUME NEW k \in 0..N PROVE f[k] = IF k = 0 THEN 0 ELSE 10 * f[k - 1] + (t[k] - 48)
    <3>1. k # 0 => k - 1 \in 0..N
      BY <1>0
    <3>2. k # 0 => f[k - 1] \in Int
      BY <2>1, <3>1
    <3>3. k # 0 => G[k][f[k - 1]] = 10 * f[k - 1] + (t[k] - 48)
      BY Zenon, <1>2, <3>2
    <3> QED BY <1>3, <3>3 DEF Turns
  <2> QED BY <1>0, <2>1, <2>2
<1>5. V = Body(V)
  BY Zenon, <1>4
<1>6. Unsigned(t) = V[Len(t)]
  BY DEF Unsigned
<1> HIDE DEF V
<1>7. \A k \in 0..N : V[k] = IF k = 0 THEN 0 ELSE 10 * V[k - 1] + (t[k] - 48)
  BY Zenon, <1>5
<1>8. V = [k \in 0..N |-> V[k]]
  BY <1>5
<1>9. Turns(0, N, Int, 0, G, V)
  <2>1. \A k \in 0..N : IF k = 0 THEN V[k] = 0 ELSE V[k - 1] \in Int => V[k] = G[k][V[k - 1]]
    BY Zenon, <1>2, <1>7
  <2> HIDE DEF N
  <2> QED BY Zenon, <1>1, <1>8, <2>1, LoopResults
<1>10. V \in [0..N -> Int]
  BY <1>9 DEF Turns
<1>11. PrefixValues(t, V)
  BY <1>0, <1>7, <1>10 DEF PrefixValues
<1> QED BY <1>6, <1>11

(* A digit behind a text multiplies its value by ten and adds to it.       *)
LEMMA AppendedValue ==
  ASSUME NEW t \in Seq(Int), NEW d \in Int
  PROVE  Unsigned(Append(t, d)) = 10 * Unsigned(t) + (d - 48)
<1> DEFINE u == Append(t, d)
           N == Len(t)
<1>0. u \in Seq(Int) /\ Len(u) = N + 1 /\ N \in Nat /\ u[N + 1] = d /\ \A i \in 1..N : u[i] = t[i]
  OBVIOUS
<1>1. PICK V : PrefixValues(t, V) /\ Unsigned(t) = V[Len(t)]
  BY UnsignedRule
<1>2. PICK W : PrefixValues(u, W) /\ Unsigned(u) = W[Len(u)]
  <2> HIDE DEF u
  <2> QED BY <1>0, UnsignedRule
<1> DEFINE P == {k \in 0..N : V[k] = W[k]}
<1>3. Inductive(0, N, P)
  <2>1. 0 \in P
    BY <1>0, <1>1, <1>2 DEF PrefixValues
  <2>2. \A k \in 0..N : k # 0 /\ k - 1 \in P => k \in P
    <3> HIDE DEF u
    <3> TAKE k \in 0..N
    <3> HAVE k # 0 /\ k - 1 \in P
    <3>1. k \in 1..Len(u) /\ k \in 1..Len(t)
      BY <1>0
    <3>2. V[k] = 10 * V[k - 1] + (t[k] - 48) /\ W[k] = 10 * W[k - 1] + (u[k] - 48)
      BY <1>1, <1>2, <3>1 DEF PrefixValues
    <3> QED BY <1>0, <3>1, <3>2
  <2> HIDE DEF P, N
  <2> QED BY <1>0, <2>1, <2>2 DEF Inductive
<1>4. \A k \in 0..N : k \in P
  <2> HIDE DEF P, N
  <2> QED BY <1>3, IntervalInduction
<1>5. V[N] = W[N]
  BY <1>0, <1>4
<1>6. W[N + 1] = 10 * W[N] + (d - 48)
  <2> HIDE DEF u
  <2>1. N + 1 \in 1..Len(u) /\ (N + 1) - 1 = N
    BY <1>0
  <2> QED BY Zenon, <1>0, <1>2, <2>1 DEF PrefixValues
<1> HIDE DEF u
<1> QED BY <1>0, <1>1, <1>2, <1>5, <1>6 DEF u

(* The empty text has the value zero.                                      *)
LEMMA EmptyValue == Unsigned(<< >>) = 0
<1> DEFINE e == << >>
<1>1. e \in Seq(Int) /\ Len(e) = 0
  OBVIOUS
<1>2. PICK V : PrefixValues(e, V) /\ Unsigned(e) = V[Len(e)]
  <2> HIDE DEF e
  <2> QED BY Zenon, <1>1, UnsignedRule
<1>3. Unsigned(e) = 0
  <2> HIDE DEF e
  <2> QED BY <1>1, <1>2 DEF PrefixValues
<1> QED BY <1>3

(* Reversing moves the first byte to the end, and the last to the front.   *)
LEMMA ReversedSeq ==
  ASSUME NEW S, NEW s \in Seq(S)
  PROVE  /\ Reversed(s) \in Seq(S) /\ Len(Reversed(s)) = Len(s)
         /\ \A i \in 1..Len(s) : Reversed(s)[i] = s[Len(s) - i + 1]
<1>1. \A i \in 1..Len(s) : Len(s) - i + 1 \in 1..Len(s)
  OBVIOUS
<1>2. Reversed(s) \in [1..Len(s) -> S]
  BY <1>1 DEF Reversed
<1>3. Len(s) \in Nat
  OBVIOUS
<1>4. Reversed(s) \in Seq(S)
  BY <1>2, <1>3
<1>5. DOMAIN Reversed(s) = 1..Len(s)
  BY <1>2
<1>6. Len(Reversed(s)) = Len(s)
  BY <1>3, <1>4, <1>5
<1> QED BY <1>4, <1>6 DEF Reversed

(* The first byte of the reversed text is the last of the text.            *)
LEMMA ReversedFirst ==
  ASSUME NEW c \in Int, NEW s \in Seq(Int)
  PROVE  Reversed(<<c>> \o s) = Append(Reversed(s), c)
<1> DEFINE u == <<c>> \o s
           r == Reversed(s)
<1>1. u \in Seq(Int) /\ Len(u) = Len(s) + 1 /\ u[1] = c /\ Len(s) \in Nat
  OBVIOUS
<1>2. \A i \in 1..Len(s) : u[i + 1] = s[i]
  OBVIOUS
<1>3. r \in Seq(Int) /\ Len(r) = Len(s) /\ \A i \in 1..Len(s) : r[i] = s[Len(s) - i + 1]
  BY ReversedSeq
<1>4. /\ Reversed(u) \in Seq(Int) /\ Len(Reversed(u)) = Len(u)
      /\ \A i \in 1..Len(u) : Reversed(u)[i] = u[Len(u) - i + 1]
  <2> HIDE DEF u
  <2> QED BY <1>1, ReversedSeq
<1> HIDE DEF u, r
<1>5. Append(r, c) \in Seq(Int) /\ Len(Append(r, c)) = Len(u)
  BY <1>1, <1>3
<1>6. ASSUME NEW i \in 1..Len(u) PROVE Reversed(u)[i] = Append(r, c)[i]
  <2>1. CASE i = Len(u)
    <3>0. Len(u) - i + 1 = 1
      BY <1>1, <2>1
    <3>1. Reversed(u)[i] = u[1]
      BY <1>4, <3>0
    <3>2. Append(r, c)[i] = c
      BY <1>1, <1>3, <2>1
    <3> QED BY <1>1, <3>1, <3>2
  <2>2. CASE i # Len(u)
    <3>1. i \in 1..Len(s) /\ Len(s) - i + 1 \in 1..Len(s) /\ Len(u) - i + 1 = (Len(s) - i + 1) + 1
      BY <1>1, <2>2
    <3>2. Reversed(u)[i] = s[Len(s) - i + 1]
      BY Zenon, <1>2, <1>4, <3>1
    <3> QED BY <1>3, <3>1, <3>2
  <2> QED BY Zenon, <2>1, <2>2
<1>7. Reversed(u) = Append(r, c)
  <2> DEFINE x == Reversed(u)
             y == Append(r, c)
  <2>1. x \in Seq(Int) /\ y \in Seq(Int) /\ Len(x) = Len(y) /\ \A i \in 1..Len(x) : x[i] = y[i]
    BY <1>4, <1>5, <1>6
  <2> HIDE DEF x, y
  <2>2. x = y
    BY <2>1, SeqEqual
  <2> QED BY <2>2 DEF x, y
<1> QED BY <1>7 DEF u, r

(* The sign appended to the reversed digits stands before them.            *)
LEMMA ReversedSign ==
  ASSUME NEW c \in Int, NEW s \in Seq(Int)
  PROVE  /\ Reversed(Append(s, c)) \in Seq(Int) /\ Reversed(Append(s, c))[1] = c
         /\ Len(Reversed(Append(s, c))) = Len(s) + 1
         /\ Tail(Reversed(Append(s, c))) = Reversed(s)
         /\ Len(s) >= 1 => Reversed(Append(s, c))[2] = Reversed(s)[1]
<1> DEFINE u == Append(s, c)
           x == Reversed(u)
           r == Reversed(s)
<1>1. u \in Seq(Int) /\ Len(u) = Len(s) + 1 /\ u[Len(s) + 1] = c /\ Len(s) \in Nat
  OBVIOUS
<1>2. \A i \in 1..Len(s) : u[i] = s[i]
  OBVIOUS
<1>3. r \in Seq(Int) /\ Len(r) = Len(s) /\ \A i \in 1..Len(s) : r[i] = s[Len(s) - i + 1]
  BY ReversedSeq
<1>4. x \in Seq(Int) /\ Len(x) = Len(u) /\ \A i \in 1..Len(u) : x[i] = u[Len(u) - i + 1]
  <2> HIDE DEF u
  <2> QED BY <1>1, ReversedSeq
<1> HIDE DEF u, x, r
<1>5. x[1] = c
  <2>1. 1 \in 1..Len(u) /\ Len(u) - 1 + 1 = Len(s) + 1
    BY <1>1
  <2>2. x[1] = u[Len(s) + 1]
    BY <1>4, <2>1
  <2> QED BY <1>1, <2>2
<1> DEFINE y == Tail(x)
<1>6. y \in Seq(Int) /\ Len(y) = Len(s) /\ \A i \in 1..Len(s) : y[i] = x[i + 1]
  BY <1>1, <1>4
<1>7. ASSUME NEW i \in 1..Len(s) PROVE y[i] = r[i]
  <2>1. i + 1 \in 1..Len(u) /\ Len(u) - (i + 1) + 1 = Len(s) - i + 1 /\ Len(s) - i + 1 \in 1..Len(s)
    BY <1>1
  <2>2. x[i + 1] = u[Len(u) - (i + 1) + 1]
    BY <1>4, <2>1
  <2>3. x[i + 1] = s[Len(s) - i + 1]
    BY Zenon, <1>2, <2>1, <2>2
  <2> QED BY <1>3, <1>6, <2>3
<1>8. y = r
  <2> HIDE DEF y
  <2> QED BY <1>3, <1>6, <1>7, SeqEqual
<1>9. Len(s) >= 1 => x[2] = r[1]
  <2>1. Len(s) >= 1 => 1 \in 1..Len(s) /\ 1 + 1 = 2
    BY <1>1
  <2>2. Len(s) >= 1 => y[1] = x[2]
    BY <1>6, <2>1
  <2> QED BY Zenon, <1>8, <2>2
<1> QED BY <1>1, <1>4, <1>5, <1>8, <1>9 DEF u, x, r

(* The digits of v: at least one, none but digits, no leading zero, and    *)
(* the value v.                                                            *)
DigitsAreRight(v) ==
  /\ Digits[v] \in Seq(48..57) /\ Len(Digits[v]) >= 1
  /\ (Len(Digits[v]) > 1 \/ v > 0) => Digits[v][Len(Digits[v])] # 48
  /\ Unsigned(Reversed(Digits[v])) = v

(* The digits that the do/while loop of sdsull2str writes denote its       *)
(* number when they are read backwards, and do not end in a zero.          *)
LEMMA DigitsRight == \A v \in Nat : DigitsAreRight(v)
<1> DEFINE m == [v \in Nat |-> v]
           P == {v \in Nat : DigitsAreRight(v)}
<1>1. m \in [Nat -> Nat]
  OBVIOUS
<1>2. ASSUME NEW v \in Nat, \A w \in Nat : m[w] < m[v] => w \in P PROVE v \in P
  <2> DEFINE q == v \div 10
             c == 48 + (v % 10)
             rest == IF q = 0 THEN << >> ELSE Digits[q]
             D == Digits[v]
  <2>1. q \in Nat /\ (q # 0 => q < v) /\ v % 10 \in 0..9 /\ v = 10 * q + (v % 10)
    OBVIOUS
  <2>2. D = <<c>> \o rest
    BY Zenon, DigitsRule DEF DigitsOf
  <2>3. c \in 48..57 /\ c \in Int /\ c - 48 = v % 10
    BY <2>1
  <2> HIDE DEF D, c
  <2>4. /\ rest \in Seq(48..57) /\ rest \in Seq(Int)
        /\ (q # 0 => Len(rest) >= 1 /\ rest[Len(rest)] # 48) /\ (q = 0 => rest = << >>)
        /\ Unsigned(Reversed(rest)) = q
    <3>1. CASE q = 0
      <4>1. rest = << >>
        BY <3>1
      <4>2. Reversed(<< >>) = << >>
        BY DEF Reversed
      <4> HIDE DEF rest, q
      <4> QED BY <3>1, <4>1, <4>2, EmptyValue
    <3>2. CASE q # 0
      <4>1. q \in Nat /\ m[q] < m[v] /\ q > 0
        BY <2>1, <3>2
      <4>2. DigitsAreRight(q)
        BY <1>2, <4>1
      <4>3. rest = Digits[q]
        BY <3>2
      <4> HIDE DEF q, rest
      <4>4. rest \in Seq(48..57) /\ Len(rest) >= 1 /\ rest[Len(rest)] # 48 /\ Unsigned(Reversed(rest)) = q
        BY <4>1, <4>2, <4>3 DEF DigitsAreRight
      <4>5. rest \in Seq(Int)
        BY <4>4, SeqMonotonic
      <4> QED BY <3>2, <4>4, <4>5
    <3> QED BY <3>1, <3>2
  <2> HIDE DEF rest, q
  <2>5. D \in Seq(48..57) /\ Len(D) = Len(rest) + 1 /\ Len(rest) \in Nat /\ D[1] = c
    BY <2>2, <2>3, <2>4
  <2>6. Len(rest) >= 1 => D[Len(D)] = rest[Len(rest)]
    BY <2>2, <2>3, <2>4
  <2>7. (Len(D) > 1 \/ v > 0) => D[Len(D)] # 48
    <3>1. CASE q # 0
      BY <2>4, <2>6, <3>1
    <3>2. CASE q = 0
      <4>1. Len(D) = 1
        BY <2>4, <2>5, <3>2
      <4>2. v > 0 => v % 10 # 0
        BY <2>1, <3>2
      <4>3. D[Len(D)] = c
        BY Zenon, <2>5, <4>1
      <4>4. v > 0 => c # 48
        BY <2>3, <4>2
      <4> QED BY <4>1, <4>3, <4>4
    <3> QED BY <3>1, <3>2
  <2>8. Unsigned(Reversed(D)) = v
    <3>1. Reversed(D) = Append(Reversed(rest), c)
      BY <2>2, <2>3, <2>4, ReversedFirst
    <3>2. Reversed(rest) \in Seq(Int)
      BY <2>4, ReversedSeq
    <3>3. Unsigned(Reversed(D)) = 10 * Unsigned(Reversed(rest)) + (c - 48)
      BY <2>3, <3>1, <3>2, AppendedValue
    <3> QED BY <2>1, <2>3, <2>4, <3>3
  <2> QED BY <2>5, <2>7, <2>8 DEF DigitsAreRight, D
<1>3. \A v \in Nat : v \in P
  <2> HIDE DEF P, m
  <2> QED BY <1>1, <1>2, MeasureInduction
<1> QED BY <1>3

(* The text of v: its value, and no leading zero.                          *)
LEMMA UnsignedText ==
  ASSUME NEW v \in Nat
  PROVE  LET t == Reversed(Digits[v]) IN
         /\ t \in Seq(48..57) /\ t \in Seq(Int) /\ Len(t) >= 1 /\ t[1] \in 48..57
         /\ Unsigned(t) = v /\ (Len(t) > 1 \/ v > 0 => t[1] # 48)
<1> DEFINE D == Digits[v]
           t == Reversed(D)
<1>1. /\ D \in Seq(48..57) /\ Len(D) >= 1 /\ (Len(D) > 1 \/ v > 0 => D[Len(D)] # 48)
      /\ Unsigned(t) = v
  BY DigitsRight DEF DigitsAreRight
<1> HIDE DEF D
<1>2. t \in Seq(48..57) /\ Len(t) = Len(D) /\ \A i \in 1..Len(D) : t[i] = D[Len(D) - i + 1]
  BY <1>1, ReversedSeq
<1> HIDE DEF t
<1>3. 1 \in 1..Len(D) /\ Len(D) - 1 + 1 = Len(D)
  BY <1>1
<1>4. t[1] = D[Len(D)]
  BY <1>2, <1>3
<1>5. t \in Seq(Int)
  BY <1>2, SeqMonotonic
<1> QED BY <1>1, <1>2, <1>3, <1>4, <1>5 DEF t, D

(* DecimalDenotesValue, of every number.                                   *)
LEMMA DecimalRight == AlgorithmsTypeOK => DecimalDenotesValue
<1> SUFFICES ASSUME n \in Nat, n <= ULLONG_MAX
             PROVE  LET value == IF n <= ULLONG_MAX \div 2 THEN n ELSE n - (ULLONG_MAX + 1)
                    IN  /\ Denotes(sdsull2str(n)) = n /\ Canonical(sdsull2str(n))
                        /\ Denotes(sdsll2str(value)) = value /\ Canonical(sdsll2str(value))
  BY DEF AlgorithmsTypeOK, DecimalDenotesValue
<1> DEFINE M == ULLONG_MAX + 1
           value == IF n <= ULLONG_MAX \div 2 THEN n ELSE n - (ULLONG_MAX + 1)
<1>0. ULLONG_MAX \in Nat
  BY UllongAssumption
<1>1. ASSUME NEW v \in Nat
      PROVE  Denotes(Reversed(Digits[v])) = v /\ Canonical(Reversed(Digits[v]))
  <2> DEFINE t == Reversed(Digits[v])
  <2>1. Len(t) >= 1 /\ t[1] \in 48..57 /\ Unsigned(t) = v /\ (Len(t) > 1 => t[1] # 48)
    BY Zenon, UnsignedText
  <2> HIDE DEF t
  <2>2. Denotes(t) = v /\ Canonical(t)
    BY <2>1 DEF Denotes, Canonical
  <2> QED BY <2>2 DEF t
<1>2. Denotes(sdsull2str(n)) = n /\ Canonical(sdsull2str(n))
  BY <1>1 DEF sdsull2str
<1>3. CASE n <= ULLONG_MAX \div 2
  <2>1. value = n /\ ~(n < 0) /\ n % M = n
    BY <1>0, <1>3
  <2>2. sdsll2str(n) = Reversed(Digits[n])
    BY <2>1 DEF sdsll2str
  <2> QED BY <1>1, <1>2, <2>1, <2>2
<1>4. CASE ~(n <= ULLONG_MAX \div 2)
  <2> DEFINE v == M - n
             D == Digits[v]
             t == Reversed(Append(D, 45))
  <2>1. value = -v /\ v \in Nat /\ v > 0 /\ value < 0 /\ -value = v
    BY <1>0, <1>4
  <2>2. v % M = v
    <3>1. n > 0
      BY <1>0, <1>4
    <3>2. v < M
      BY <1>0, <3>1
    <3> QED BY <1>0, <2>1, <3>2
  <2>3. sdsll2str(value) = t
    <3> HIDE DEF value, v
    <3> QED BY <2>1, <2>2 DEF sdsll2str
  <2> HIDE DEF v, value
  <2>4. D \in Seq(Int)
    <3>1. D \in Seq(48..57)
      BY <2>1, DigitsRight DEF DigitsAreRight
    <3> HIDE DEF D
    <3> QED BY <3>1, SeqMonotonic
  <2> DEFINE r == Reversed(D)
  <2>5. /\ r \in Seq(Int) /\ Len(r) >= 1 /\ r[1] # 48 /\ Unsigned(r) = v
    BY Zenon, <2>1, UnsignedText
  <2> HIDE DEF D
  <2>6. t[1] = 45 /\ Tail(t) = r /\ (Len(D) >= 1 => t[2] = r[1]) /\ Len(r) = Len(D)
    BY <2>4, ReversedSign, ReversedSeq
  <2> HIDE DEF t, r
  <2>7. t[2] # 48
    BY <2>5, <2>6
  <2>8. Denotes(t) = -v /\ Canonical(t)
    <3>1. Denotes(t) = -v
      BY Zenon, <2>5, <2>6 DEF Denotes
    <3> QED BY <2>6, <2>7, <3>1 DEF Canonical
  <2> QED BY <1>2, <2>1, <2>3, <2>8 DEF value
<1> QED BY <1>3, <1>4

(* sdsull2str and sdsll2str write the number they are given without        *)
(* leading zeros, for every value of the type and every width of it, the   *)
(* smallest value included.                                                *)
THEOREM DecimalDenotesValueAlways == AlgorithmsSpec => []DecimalDenotesValue
BY AlgorithmsTyped, DecimalRight, PTL
=============================================================================
