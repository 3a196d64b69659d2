----------------------------- MODULE SdsProofs ------------------------------
(***************************************************************************)
(* The header of an sds string is true to its allocation whatever calls    *)
(* are made with whatever arguments.  Each operation is shown to take a    *)
(* sound header to a sound one; the NUL byte behind the string is carried  *)
(* along apart, as sdscatfmt gives it up for the time of its loop.  Then   *)
(* each operation is shown to do to the bytes of the string what SdsValue  *)
(* says, which makes Sds an implementation of it.                          *)
(***************************************************************************)
EXTENDS Sds, WellFoundedInduction, TLAPS

Cells == Bytes \cup {Junk}

(* A header that is true to its allocation.                                *)
Sound(h) ==
    /\ h = [len |-> h.len, free |-> h.free, buf |-> h.buf]
    /\ h.len \in Nat /\ h.free \in Nat
    /\ h.buf \in [0..(h.len + h.free) -> Cells]
    /\ \A i \in 0..(h.len - 1) : h.buf[i] \in Bytes

Ended(h) == h.buf[h.len] = 0

SdsInv == Sound(s) /\ (~fmt => Ended(s))

(* What has to be shown of a header given by its three fields.             *)
LEMMA SoundRecord ==
  ASSUME NEW l \in Nat, NEW f \in Nat, NEW n \in Nat, n = l + f,
         NEW b \in [0..n -> Cells], \A i \in 0..(l - 1) : b[i] \in Bytes
  PROVE  Sound([len |-> l, free |-> f, buf |-> b])
<1> QED BY DEF Sound

(* A non-empty set of natural numbers has a least element.                 *)
LEMMA LeastNat ==
  ASSUME NEW T, T \subseteq Nat, T # {}
  PROVE  \E x \in T : \A y \in T : x <= y
<1> DEFINE R == OpToRel(<, Nat)
<1>1. PICK x \in T : \A y \in T : ~(<<y, x>> \in R)
  <2>1. IsWellFoundedOn(R, Nat)
    BY Zenon, NatLessThanWellFounded
  <2> HIDE DEF R
  <2> QED BY Zenon, <2>1, WFMin
<1>2. ASSUME NEW y \in T PROVE x <= y
  <2>1. ~(y < x)
    BY Zenon, <1>1 DEF OpToRel
  <2> QED BY <2>1
<1> QED BY Zenon, <1>1, <1>2

(* The bytes of a text with its terminator.                                *)
LEMMA TerminatedFacts ==
  ASSUME NEW t \in Seq(Bytes)
  PROVE  /\ Terminated(t) \in Seq(Bytes) /\ Len(Terminated(t)) = Len(t) + 1
         /\ \A k \in 1..Len(t) : Terminated(t)[k] = t[k]
         /\ Terminated(t)[Len(t) + 1] = 0
<1> QED BY SdsAssumption DEF Terminated

(* A write that stays within the allocation changes the bytes it covers    *)
(* and no others.                                                          *)
LEMMA WriteFacts ==
  ASSUME NEW n \in Nat, NEW buf \in [0..n -> Cells], NEW at \in Nat,
         NEW t \in Seq(Bytes), at + Len(t) <= n + 1
  PROVE  /\ Write(buf, at, t) \in [0..n -> Cells]
         /\ \A k \in 1..Len(t) : Write(buf, at, t)[at + k - 1] = t[k]
         /\ \A i \in 0..n : i < at \/ i >= at + Len(t) => Write(buf, at, t)[i] = buf[i]
<1>1. DOMAIN buf \cup at..(at + Len(t) - 1) = 0..n
  OBVIOUS
<1>2. \A i \in at..(at + Len(t) - 1) : i - at + 1 \in 1..Len(t)
  OBVIOUS
<1> QED BY <1>1, <1>2 DEF Write, Cells

(* sdsMakeRoomFor keeps the string and its terminator and leaves the room  *)
(* asked for.                                                              *)
LEMMA MakeRoomFacts ==
  ASSUME NEW h, Sound(h), NEW n \in Nat
  PROVE  LET r == MakeRoomFor(h, n)
         IN  /\ Sound(r) /\ r.len = h.len /\ r.free >= n
             /\ \A i \in 0..h.len : r.buf[i] = h.buf[i]
<1>1. CASE h.free >= n
  BY <1>1 DEF MakeRoomFor, Sound
<1>2. CASE ~(h.free >= n)
  <2> DEFINE need == h.len + n
             newlen == IF need < SDS_MAX_PREALLOC THEN 2 * need
                                                  ELSE need + SDS_MAX_PREALLOC
  <2>1. /\ newlen \in Nat /\ newlen >= need /\ need > h.len + h.free
        /\ h.len \in Nat /\ h.free \in Nat
    BY SMTT(30), <1>2, SdsAssumption DEF Sound
  <2>2. MakeRoomFor(h, n) =
          [len |-> h.len, free |-> newlen - h.len, buf |-> Realloc(h.buf, newlen)]
    BY <1>2 DEF MakeRoomFor
  <2> HIDE DEF newlen
  <2>3. /\ Realloc(h.buf, newlen) \in [0..newlen -> Cells]
        /\ \A i \in 0..h.len : Realloc(h.buf, newlen)[i] = h.buf[i]
    BY <2>1 DEF Realloc, Sound, Cells
  <2>4. \A i \in 0..(h.len - 1) : Realloc(h.buf, newlen)[i] \in Bytes
    BY <2>1, <2>3 DEF Sound
  <2>5. /\ newlen - h.len \in Nat /\ newlen - h.len >= n
        /\ newlen = h.len + (newlen - h.len)
    BY <2>1
  <2>6. Sound(MakeRoomFor(h, n))
    BY Zenon, <2>1, <2>2, <2>3, <2>4, <2>5, SoundRecord
  <2> QED BY <2>2, <2>3, <2>5, <2>6
<1> QED BY <1>1, <1>2

(* strlen of a buffer with a NUL at position n or before stops there at    *)
(* the latest.                                                             *)
LEMMA StrLenFacts ==
  ASSUME NEW n \in Nat, NEW k \in Nat, k >= n, NEW buf \in [0..k -> Cells], buf[n] = 0
  PROVE  /\ StrLen(buf) \in 0..n /\ buf[StrLen(buf)] = 0
         /\ \A j \in 0..(StrLen(buf) - 1) : buf[j] # 0
<1> DEFINE Zeros == {i \in 0..k : buf[i] = 0}
<1>1. PICK x \in Zeros : \A y \in Zeros : x <= y
  <2>1. n \in Zeros /\ Zeros \subseteq Nat
    OBVIOUS
  <2> HIDE DEF Zeros
  <2> QED BY Zenon, <2>1, LeastNat
<1>2. /\ x \in DOMAIN buf /\ buf[x] = 0
      /\ \A j \in 0..(x - 1) : buf[j] # 0
  BY <1>1
<1>3. LET z == StrLen(buf)
      IN  z \in DOMAIN buf /\ buf[z] = 0 /\ \A j \in 0..(z - 1) : buf[j] # 0
  BY <1>2 DEF StrLen
<1> QED BY <1>3

(* Text written within the allocation, at the end of the string or before  *)
(* it: all bytes up to the end of the text are written ones.               *)
LEMMA WriteBytes ==
  ASSUME NEW n \in Nat, NEW b \in [0..n -> Cells], NEW at \in Nat,
         \A i \in 0..(at - 1) : b[i] \in Bytes,
         NEW t \in Seq(Bytes), NEW m \in Nat, m = Len(t), at + m <= n + 1
  PROVE  /\ Write(b, at, t) \in [0..n -> Cells]
         /\ \A i \in 0..(at + m - 1) : Write(b, at, t)[i] \in Bytes
<1>1. /\ Write(b, at, t) \in [0..n -> Cells]
      /\ \A k \in 1..m : Write(b, at, t)[at + k - 1] = t[k]
      /\ \A i \in 0..n : i < at => Write(b, at, t)[i] = b[i]
  BY WriteFacts
<1>2. ASSUME NEW i \in 0..(at + m - 1) PROVE Write(b, at, t)[i] \in Bytes
  <2>1. CASE i < at
    BY <1>1, <2>1
  <2>2. CASE i >= at
    <3> DEFINE k == i - at + 1
    <3>1. k \in 1..m /\ at + k - 1 = i
      BY <2>2
    <3>2. t[k] \in Bytes
      BY <3>1
    <3> HIDE DEF k
    <3> QED BY <1>1, <3>1, <3>2
  <2> QED BY <2>1, <2>2
<1> QED BY <1>1, <1>2

(* The same for a text with a NUL behind it: what results is a sound       *)
(* string that ends in NUL.                                                *)
LEMMA WriteTerminated ==
  ASSUME NEW n \in Nat, NEW b \in [0..n -> Cells], NEW at \in Nat,
         \A i \in 0..(at - 1) : b[i] \in Bytes,
         NEW t \in Seq(Bytes), NEW m \in Nat, m = Len(t), at + m <= n,
         NEW l, l = at + m, NEW f, f = n - l
  PROVE  LET r == [len |-> l, free |-> f, buf |-> Write(b, at, Terminated(t))]
         IN  Sound(r) /\ Ended(r)
<1> DEFINE w == Write(b, at, Terminated(t))
<1>1. /\ Terminated(t) \in Seq(Bytes) /\ Len(Terminated(t)) = m + 1
      /\ Terminated(t)[m + 1] = 0
  BY TerminatedFacts
<1>2. w \in [0..n -> Cells] /\ \A i \in 0..(at + (m + 1) - 1) : w[i] \in Bytes
  BY SMTT(30), <1>1, WriteBytes
<1>3. w[at + (m + 1) - 1] = 0
  <2>1. at + Len(Terminated(t)) <= n + 1
    BY <1>1
  <2>2. \A k \in 1..Len(Terminated(t)) : w[at + k - 1] = Terminated(t)[k]
    BY SMTT(30), <1>1, <2>1, WriteFacts
  <2>3. m + 1 \in 1..Len(Terminated(t))
    BY <1>1
  <2> HIDE DEF w
  <2> QED BY <1>1, <2>2, <2>3
<1>4. w[l] = 0
  BY <1>3
<1>5. l \in Nat /\ f \in Nat /\ n = l + f /\ \A i \in 0..(l - 1) : w[i] \in Bytes
  BY <1>2
<1> HIDE DEF w
<1>6. Sound([len |-> l, free |-> f, buf |-> w])
  BY Zenon, <1>2, <1>5, SoundRecord
<1> QED BY <1>4, <1>6 DEF Ended, w

(* A prefix of the string has been written as well.                        *)
LEMMA Prefix ==
  ASSUME NEW l \in Nat, NEW b, \A i \in 0..(l - 1) : b[i] \in Bytes, NEW k \in 0..l
  PROVE  k \in Nat /\ k <= l /\ \A i \in 0..(k - 1) : b[i] \in Bytes
<1> QED OBVIOUS

(* A sequence of m zeros is the constant function.                         *)
LEMMA Zeros ==
  ASSUME NEW m \in Nat, NEW u \in Seq(Bytes), Len(u) = m, \A k \in 1..m : u[k] = 0
  PROVE  u = [i \in 1..m |-> 0]
<1> QED OBVIOUS

(* What Sound says, field by field.                                        *)
LEMMA SoundFields ==
  ASSUME NEW h, Sound(h)
  PROVE  /\ h.len \in Nat /\ h.free \in Nat /\ h.len + h.free \in Nat
         /\ h.buf \in [0..(h.len + h.free) -> Cells]
         /\ \A i \in 0..(h.len - 1) : h.buf[i] \in Bytes
<1> QED BY DEF Sound

(* sdscatlen.                                                              *)
LEMMA CatLenSound ==
  ASSUME NEW h, Sound(h), NEW t \in Seq(Bytes)
  PROVE  Sound(CatLen(h, t)) /\ Ended(CatLen(h, t))
<1> DEFINE r == MakeRoomFor(h, Len(t))
<1>1. Len(t) \in Nat
  OBVIOUS
<1>2. Sound(r) /\ r.len = h.len /\ r.free >= Len(t)
  BY <1>1, MakeRoomFacts
<1> HIDE DEF r
<1>3. /\ r.len + r.free \in Nat /\ r.buf \in [0..(r.len + r.free) -> Cells]
      /\ \A i \in 0..(r.len - 1) : r.buf[i] \in Bytes
      /\ r.len \in Nat /\ r.free \in Nat
  BY <1>2, SoundFields
<1>4. r.len + Len(t) <= r.len + r.free /\ r.free - Len(t) = (r.len + r.free) - (r.len + Len(t))
  BY <1>1, <1>2, <1>3
<1>5. CatLen(h, t) = [len |-> r.len + Len(t), free |-> r.free - Len(t),
                      buf |-> Write(r.buf, r.len, Terminated(t))]
  BY <1>2 DEF CatLen, r
<1> QED BY ZenonT(40), <1>1, <1>3, <1>4, <1>5, WriteTerminated

(* sdscpylen.                                                              *)
LEMMA CpyLenSound ==
  ASSUME NEW h, Sound(h), NEW t \in Seq(Bytes)
  PROVE  Sound(CpyLen(h, t)) /\ Ended(CpyLen(h, t))
<1> DEFINE r == IF h.free + h.len < Len(t) THEN MakeRoomFor(h, Len(t) - h.len) ELSE h
<1>1. Len(t) \in Nat
  OBVIOUS
<1>2. Sound(r) /\ Len(t) <= r.len + r.free
  <2>1. CASE h.free + h.len < Len(t)
    <3>1. Len(t) - h.len \in Nat /\ h.len \in Nat
      BY <1>1, <2>1, SoundFields
    <3>2. /\ Sound(MakeRoomFor(h, Len(t) - h.len))
          /\ MakeRoomFor(h, Len(t) - h.len).len = h.len
          /\ MakeRoomFor(h, Len(t) - h.len).free >= Len(t) - h.len
      BY Zenon, <3>1, MakeRoomFacts
    <3>3. MakeRoomFor(h, Len(t) - h.len).free \in Nat
      BY <3>2, SoundFields
    <3> QED BY <1>1, <2>1, <3>1, <3>2, <3>3
  <2>2. CASE ~(h.free + h.len < Len(t))
    BY <1>1, <2>2, SoundFields
  <2> QED BY <2>1, <2>2
<1> HIDE DEF r
<1>3. /\ r.len + r.free \in Nat /\ r.buf \in [0..(r.len + r.free) -> Cells]
      /\ r.len \in Nat /\ r.free \in Nat
  BY <1>2, SoundFields
<1>4. /\ 0 + Len(t) <= r.len + r.free /\ 0 + Len(t) = Len(t)
      /\ (r.free + r.len) - Len(t) = (r.len + r.free) - Len(t)
      /\ \A i \in 0..(0 - 1) : r.buf[i] \in Bytes
  BY <1>1, <1>2, <1>3
<1>5. CpyLen(h, t) = [len |-> Len(t), free |-> (r.free + r.len) - Len(t),
                      buf |-> Write(r.buf, 0, Terminated(t))]
  BY DEF CpyLen, r
<1> QED BY ZenonT(40), <1>1, <1>3, <1>4, <1>5, WriteTerminated

(* The NUL alone, written at any position up to the end: sdsclear, a       *)
(* negative sdsIncrLen and the end of sdscatfmt.                           *)
LEMMA CutSound ==
  ASSUME NEW h, Sound(h), NEW at \in 0..h.len, NEW f, f = (h.len + h.free) - at
  PROVE  LET r == [len |-> at, free |-> f, buf |-> Write(h.buf, at, <<0>>)]
         IN  Sound(r) /\ Ended(r)
<1>1. /\ h.len + h.free \in Nat /\ h.buf \in [0..(h.len + h.free) -> Cells]
      /\ \A i \in 0..(h.len - 1) : h.buf[i] \in Bytes
      /\ h.len \in Nat /\ h.free \in Nat
  BY SoundFields
<1>a. at \in Nat /\ at <= h.len /\ \A i \in 0..(at - 1) : h.buf[i] \in Bytes
  BY <1>1, Prefix
<1>2. at + 0 <= h.len + h.free /\ at = at + 0
  BY <1>1, <1>a
<1>3. << >> \in Seq(Bytes) /\ Len(<< >>) = 0 /\ Terminated(<< >>) = <<0>>
  BY DEF Terminated
<1> QED BY Zenon, <1>1, <1>a, <1>2, <1>3, WriteTerminated

(* sdsgrowzero.                                                            *)
LEMMA GrowZeroSound ==
  ASSUME NEW h, Sound(h), Ended(h), NEW n \in Nat
  PROVE  Sound(GrowZero(h, n)) /\ Ended(GrowZero(h, n))
<1>1. CASE n <= h.len
  BY <1>1 DEF GrowZero
<1>2. CASE ~(n <= h.len)
  <2> DEFINE r == MakeRoomFor(h, n - h.len)
             z == [i \in 1..(n - h.len) |-> 0]
  <2>1. n - h.len \in Nat /\ h.len \in Nat
    BY <1>2, SoundFields
  <2>2. Sound(r) /\ r.len = h.len /\ r.free >= n - h.len
    BY Zenon, <2>1, MakeRoomFacts
  <2>3. GrowZero(h, n) =
          [len |-> n, free |-> (r.len + r.free) - n,
           buf |-> Write(r.buf, h.len, [i \in 1..(n - h.len + 1) |-> 0])]
    BY <1>2 DEF GrowZero
  <2> HIDE DEF r
  <2>4. /\ r.len + r.free \in Nat /\ r.buf \in [0..(r.len + r.free) -> Cells]
        /\ \A i \in 0..(r.len - 1) : r.buf[i] \in Bytes
        /\ r.len \in Nat /\ r.free \in Nat
    BY <2>2, SoundFields
  <2>5. z \in Seq(Bytes) /\ Len(z) = n - h.len
    BY <2>1, SdsAssumption
  <2>6. Terminated(z) = [i \in 1..(n - h.len + 1) |-> 0]
    <3>1. /\ Terminated(z) \in Seq(Bytes) /\ Len(Terminated(z)) = n - h.len + 1
          /\ \A k \in 1..(n - h.len) : Terminated(z)[k] = z[k]
          /\ Terminated(z)[n - h.len + 1] = 0
      BY Zenon, <2>5, TerminatedFacts
    <3>2. ASSUME NEW k \in 1..(n - h.len + 1) PROVE Terminated(z)[k] = 0
      <4>1. CASE k = n - h.len + 1
        BY <3>1, <4>1
      <4>2. CASE k # n - h.len + 1
        <5>1. k \in 1..(n - h.len)
          BY <2>1, <4>2
        <5>2. z[k] = 0
          BY <5>1
        <5> HIDE DEF z
        <5> QED BY <3>1, <5>1, <5>2
      <4> QED BY <4>1, <4>2
    <3>3. n - h.len + 1 \in Nat
      BY <2>1
    <3> HIDE DEF z
    <3> QED BY <3>1, <3>2, <3>3, Zeros
  <2> HIDE DEF z
  <2>7. r.len + (n - h.len) <= r.len + r.free /\ n = r.len + (n - h.len)
    BY <2>1, <2>2, <2>4
  <2>8. GrowZero(h, n) = [len |-> n, free |-> (r.len + r.free) - n,
                          buf |-> Write(r.buf, r.len, Terminated(z))]
    BY <2>2, <2>3, <2>6
  <2> DEFINE m == n - h.len
  <2>9. m \in Nat /\ m = Len(z) /\ r.len + m <= r.len + r.free /\ n = r.len + m
    BY <2>1, <2>5, <2>7
  <2> HIDE DEF m
  <2>10. LET x == [len |-> n, free |-> (r.len + r.free) - n,
                   buf |-> Write(r.buf, r.len, Terminated(z))]
         IN  Sound(x) /\ Ended(x)
    BY Zenon, <2>4, <2>5, <2>9, WriteTerminated
  <2> QED BY <2>8, <2>10
<1> QED BY <1>1, <1>2

(* sdsclear.                                                               *)
LEMMA ClearSound ==
  ASSUME NEW h, Sound(h)
  PROVE  Sound(Clear(h)) /\ Ended(Clear(h))
<1>1. 0 \in 0..h.len /\ h.free + h.len = (h.len + h.free) - 0
  BY SoundFields
<1> QED BY <1>1, CutSound DEF Clear

(* sdsRemoveFreeSpace.                                                     *)
LEMMA RemoveFreeSpaceSound ==
  ASSUME NEW h, Sound(h), Ended(h)
  PROVE  Sound(RemoveFreeSpace(h)) /\ Ended(RemoveFreeSpace(h))
<1> DEFINE b == Realloc(h.buf, h.len)
<1>1. h.len \in Nat /\ h.free \in Nat /\ h.len = h.len + 0
  BY SoundFields
<1>2. b \in [0..h.len -> Cells] /\ \A i \in 0..h.len : b[i] = h.buf[i]
  BY <1>1, SoundFields DEF Realloc
<1> HIDE DEF b
<1>3. ASSUME NEW i \in 0..(h.len - 1) PROVE b[i] \in Bytes
  <2>1. i \in 0..h.len /\ h.buf[i] \in Bytes
    BY <1>1, SoundFields
  <2> QED BY <1>2, <2>1
<1>4. Sound([len |-> h.len, free |-> 0, buf |-> b])
  BY <1>1, <1>2, <1>3, SoundRecord
<1>5. b[h.len] = 0
  BY <1>1, <1>2 DEF Ended
<1> QED BY <1>4, <1>5 DEF RemoveFreeSpace, Ended, b

(* Giving the bytes from k on to free keeps the size of the allocation.    *)
LEMMA GiveBack ==
  ASSUME NEW l \in Nat, NEW f \in Nat, NEW k \in 0..l
  PROVE  /\ k \in Nat /\ f + (l - k) \in Nat /\ l + f = k + (f + (l - k))
         /\ 0..(k - 1) \subseteq 0..(l - 1)
OBVIOUS

(* sdsupdatelen.                                                           *)
LEMMA UpdateLenSound ==
  ASSUME NEW h, Sound(h), Ended(h)
  PROVE  Sound(UpdateLen(h)) /\ Ended(UpdateLen(h))
<1> DEFINE k == StrLen(h.buf)
<1>1. /\ h.len \in Nat /\ h.free \in Nat /\ h.len + h.free \in Nat /\ h.len + h.free >= h.len
      /\ h.buf \in [0..(h.len + h.free) -> Cells]
      /\ \A i \in 0..(h.len - 1) : h.buf[i] \in Bytes
  BY SoundFields
<1>2. k \in 0..h.len /\ h.buf[k] = 0
  BY Zenon, <1>1, StrLenFacts DEF Ended
<1>3. UpdateLen(h) = [len |-> k, free |-> h.free + (h.len - k), buf |-> h.buf]
  BY DEF UpdateLen
<1> HIDE DEF k
<1>4. /\ k \in Nat /\ h.free + (h.len - k) \in Nat
      /\ h.len + h.free = k + (h.free + (h.len - k))
      /\ 0..(k - 1) \subseteq 0..(h.len - 1)
  BY Zenon, <1>1, <1>2, GiveBack
<1>5. Sound([len |-> k, free |-> h.free + (h.len - k), buf |-> h.buf])
  BY Zenon, <1>1, <1>4, SoundRecord
<1> QED BY <1>2, <1>3, <1>5 DEF Ended

(* sdstrim and sdsrange end by keeping newlen bytes from position at.      *)
LEMMA ShrinkSound ==
  ASSUME NEW h, Sound(h), NEW at \in Nat, NEW k \in Nat, at + k <= h.len
  PROVE  Sound(Shrink(h, at, k)) /\ Ended(Shrink(h, at, k))
<1> DEFINE b == MoveDown(h.buf, at, k)
           n == h.len + h.free
<1>1. /\ h.len \in Nat /\ h.free \in Nat /\ n \in Nat /\ h.buf \in [0..n -> Cells]
      /\ \A i \in 0..(h.len - 1) : h.buf[i] \in Bytes
  BY SoundFields
<1>2. k \in 0..n /\ k <= h.len
  BY <1>1
<1>3. DOMAIN h.buf \cup {k} = 0..n
  BY <1>1, <1>2
<1>4. \A i \in 0..(k - 1) : i + at \in 0..(h.len - 1)
  BY <1>1
<1>5. \A i \in 0..(k - 1) : b[i] = h.buf[i + at]
  <2> SUFFICES ASSUME NEW i \in 0..(k - 1) PROVE b[i] = h.buf[i + at]
    OBVIOUS
  <2>1. i \in 0..n /\ i < k
    BY <1>1, <1>2
  <2> QED BY <1>3, <2>1 DEF MoveDown
<1>6. \A i \in 0..(k - 1) : b[i] \in Bytes
  BY Zenon, <1>1, <1>4, <1>5
<1>7. b[k] = 0
  BY <1>2, <1>3 DEF MoveDown
<1>8. b \in [0..n -> Cells]
  <2>1. b = [i \in 0..n |-> b[i]]
    BY <1>3 DEF MoveDown
  <2>2. ASSUME NEW i \in 0..n PROVE b[i] \in Cells
    <3>1. CASE i < k
      <4>1. i \in 0..(k - 1)
        BY <1>1, <3>1
      <4> QED BY <1>6, <4>1 DEF Cells
    <3>2. CASE i = k
      BY <1>7, <3>2, SdsAssumption DEF Cells
    <3>3. CASE ~(i < k) /\ i # k
      BY <1>1, <1>3, <3>3 DEF MoveDown
    <3> QED BY <3>1, <3>2, <3>3
  <2> HIDE DEF b
  <2> QED BY <2>1, <2>2
<1>9. h.free + (h.len - k) \in Nat /\ n = k + (h.free + (h.len - k))
  BY <1>1, <1>2
<1> HIDE DEF b
<1>10. Sound([len |-> k, free |-> h.free + (h.len - k), buf |-> b])
  BY Zenon, <1>1, <1>6, <1>8, <1>9, SoundRecord
<1> QED BY <1>7, <1>10 DEF Shrink, Ended, b

(* sdsrange: whatever the indexes, what is kept lies in the string.        *)
LEMMA SdsRangeSound ==
  ASSUME NEW h, Sound(h), Ended(h), NEW from \in Int, NEW to \in Int
  PROVE  Sound(SdsRange(h, from, to)) /\ Ended(SdsRange(h, from, to))
<1> DEFINE start == FromEnd(h.len, from)
           end == FromEnd(h.len, to)
           Count(last) == IF start > last THEN 0 ELSE (last - start) + 1
           k == IF Count(end) = 0 \/ start >= h.len THEN 0
                ELSE IF end >= h.len THEN Count(h.len - 1) ELSE Count(end)
           at == IF k = 0 THEN 0 ELSE start
<1>1. h.len \in Nat
  BY SoundFields
<1>2. start \in Nat /\ end \in Nat
  BY <1>1 DEF FromEnd
<1>3. SdsRange(h, from, to) = IF h.len = 0 THEN h ELSE Shrink(h, at, k)
  BY DEF SdsRange
<1> HIDE DEF start, end
<1>4. k \in Nat /\ at \in Nat /\ at + k <= h.len
  BY <1>1, <1>2
<1> HIDE DEF k, at
<1>5. Sound(Shrink(h, at, k)) /\ Ended(Shrink(h, at, k))
  BY <1>4, ShrinkSound
<1> QED BY <1>3, <1>5

(* sdstrim: both scans stop inside the string, at the bytes to keep.       *)
LEMMA TrimFacts ==
  ASSUME NEW h, Sound(h), NEW cset
  PROVE  \E sp \in 0..h.len, ep \in (-1)..(h.len - 1) :
           /\ Trim(h, cset) = Shrink(h, sp, IF sp > ep THEN 0 ELSE (ep - sp) + 1)
           /\ sp < h.len => ~StrChr(cset, h.buf[sp])
           /\ \A j \in 0..(sp - 1) : StrChr(cset, h.buf[j])
           /\ h.len # 0 => ep >= 0
           /\ ep > 0 => ~StrChr(cset, h.buf[ep])
           /\ \A j \in (ep + 1)..(h.len - 1) : StrChr(cset, h.buf[j])
<1> DEFINE sp == CHOOSE i \in 0..h.len :
                     /\ i < h.len => ~StrChr(cset, h.buf[i])
                     /\ \A j \in 0..(i - 1) : StrChr(cset, h.buf[j])
           ep == IF h.len = 0 THEN -1
                 ELSE CHOOSE i \in 0..(h.len - 1) :
                     /\ i > 0 => ~StrChr(cset, h.buf[i])
                     /\ \A j \in (i + 1)..(h.len - 1) : StrChr(cset, h.buf[j])
<1>1. h.len \in Nat
  BY SoundFields
<1>2. /\ sp \in 0..h.len
      /\ sp < h.len => ~StrChr(cset, h.buf[sp])
      /\ \A j \in 0..(sp - 1) : StrChr(cset, h.buf[j])
  <2> DEFINE Stops == {i \in 0..h.len : i < h.len => ~StrChr(cset, h.buf[i])}
  <2>1. h.len \in Stops /\ Stops \subseteq Nat
    BY <1>1
  <2>2. PICK x \in Stops : \A y \in Stops : x <= y
    <3> HIDE DEF Stops
    <3> QED BY Zenon, <2>1, LeastNat
  <2>3. ASSUME NEW j \in 0..(x - 1) PROVE StrChr(cset, h.buf[j])
    <3>1. j \in 0..h.len /\ j < h.len /\ ~(x <= j)
      BY <1>1, <2>2
    <3> QED BY <2>2, <3>1
  <2>4. /\ x \in 0..h.len
        /\ x < h.len => ~StrChr(cset, h.buf[x])
        /\ \A j \in 0..(x - 1) : StrChr(cset, h.buf[j])
    BY <2>2, <2>3
  <2> QED BY Zenon, <2>4
<1>3. /\ ep \in (-1)..(h.len - 1)
      /\ h.len # 0 => ep >= 0
      /\ ep > 0 => ~StrChr(cset, h.buf[ep])
      /\ \A j \in (ep + 1)..(h.len - 1) : StrChr(cset, h.buf[j])
  <2> SUFFICES ASSUME h.len # 0
               PROVE  /\ ep \in 0..(h.len - 1)
                      /\ ep > 0 => ~StrChr(cset, h.buf[ep])
                      /\ \A j \in (ep + 1)..(h.len - 1) : StrChr(cset, h.buf[j])
    BY <1>1
  <2> DEFINE Kept == {d \in 0..(h.len - 1) :
                        h.len - 1 - d > 0 => ~StrChr(cset, h.buf[h.len - 1 - d])}
  <2>1. h.len - 1 \in Kept /\ Kept \subseteq Nat
    BY <1>1
  <2>2. PICK d \in Kept : \A y \in Kept : d <= y
    <3> HIDE DEF Kept
    <3> QED BY Zenon, <2>1, LeastNat
  <2> DEFINE x == h.len - 1 - d
  <2>3. x \in 0..(h.len - 1) /\ (x > 0 => ~StrChr(cset, h.buf[x]))
    BY <1>1, <2>2
  <2>4. ASSUME NEW j \in (x + 1)..(h.len - 1) PROVE StrChr(cset, h.buf[j])
    <3> DEFINE e == h.len - 1 - j
    <3>1. e \in 0..(h.len - 1) /\ ~(d <= e) /\ h.len - 1 - e = j
      BY <1>1, <2>2
    <3>2. e \notin Kept
      BY <2>2, <3>1
    <3> QED BY <3>1, <3>2
  <2> HIDE DEF x
  <2> QED BY <2>3, <2>4
<1>4. Trim(h, cset) = Shrink(h, sp, IF sp > ep THEN 0 ELSE (ep - sp) + 1)
  BY DEF Trim
<1> HIDE DEF sp, ep
<1> QED BY Zenon, <1>2, <1>3, <1>4

(* sdstrim.                                                                *)
LEMMA TrimSound ==
  ASSUME NEW h, Sound(h), NEW cset
  PROVE  Sound(Trim(h, cset)) /\ Ended(Trim(h, cset))
<1>1. h.len \in Nat
  BY SoundFields
<1>2. PICK sp \in 0..h.len, ep \in (-1)..(h.len - 1) :
        Trim(h, cset) = Shrink(h, sp, IF sp > ep THEN 0 ELSE (ep - sp) + 1)
  BY Zenon, TrimFacts
<1> DEFINE k == IF sp > ep THEN 0 ELSE (ep - sp) + 1
<1>3. sp \in Nat /\ k \in Nat /\ sp + k <= h.len
  BY <1>1
<1> HIDE DEF k
<1>4. Sound(Shrink(h, sp, k)) /\ Ended(Shrink(h, sp, k))
  BY <1>3, ShrinkSound
<1> QED BY <1>2, <1>4 DEF k

(* sdstolower, sdstoupper and sdsmapchars.                                 *)
LEMMA MapCharsSound ==
  ASSUME NEW h, Sound(h), Ended(h), NEW m \in Maps
  PROVE  Sound(MapChars(h, m)) /\ Ended(MapChars(h, m))
<1> DEFINE n == h.len + h.free
           b == [i \in DOMAIN h.buf |-> IF i < h.len THEN m[h.buf[i]] ELSE h.buf[i]]
<1>1. /\ h.len \in Nat /\ h.free \in Nat /\ n \in Nat /\ h.buf \in [0..n -> Cells]
      /\ \A i \in 0..(h.len - 1) : h.buf[i] \in Bytes
  BY SoundFields
<1>2. m \in [Bytes -> Bytes]
  BY SdsAssumption
<1>3. ASSUME NEW i \in 0..(h.len - 1) PROVE b[i] \in Bytes
  <2>1. i \in 0..n /\ i < h.len /\ h.buf[i] \in Bytes
    BY <1>1
  <2> QED BY <1>1, <1>2, <2>1
<1>4. b \in [0..n -> Cells]
  <2>1. ASSUME NEW i \in 0..n PROVE b[i] \in Cells
    <3>1. CASE i < h.len
      <4>1. i \in 0..(h.len - 1)
        BY <1>1, <3>1
      <4> QED BY <1>3, <4>1 DEF Cells
    <3>2. CASE ~(i < h.len)
      BY <1>1, <3>2
    <3> QED BY <3>1, <3>2
  <2>2. b = [i \in 0..n |-> b[i]]
    BY <1>1
  <2> HIDE DEF b
  <2> QED BY <2>1, <2>2
<1>5. b[h.len] = 0
  <2>1. h.len \in 0..n /\ ~(h.len < h.len)
    BY <1>1
  <2> QED BY <1>1, <2>1 DEF Ended
<1>6. MapChars(h, m) = [len |-> h.len, free |-> h.free, buf |-> b]
  BY DEF MapChars
<1> HIDE DEF b
<1>7. Sound([len |-> h.len, free |-> h.free, buf |-> b])
  BY Zenon, <1>1, <1>3, <1>4, SoundRecord
<1> QED BY <1>5, <1>6, <1>7 DEF Ended

(* Text written into the spare room and no terminator yet: sdscatfmt, and  *)
(* the caller of sdsIncrLen.                                               *)
LEMMA FillSound ==
  ASSUME NEW h, Sound(h), NEW t \in Seq(Bytes), Len(t) <= h.free
  PROVE  Sound([len |-> h.len + Len(t), free |-> h.free - Len(t),
                buf |-> Write(h.buf, h.len, t)])
<1> DEFINE m == Len(t)
           n == h.len + h.free
           w == Write(h.buf, h.len, t)
<1>1. /\ h.len \in Nat /\ h.free \in Nat /\ n \in Nat /\ h.buf \in [0..n -> Cells]
      /\ \A i \in 0..(h.len - 1) : h.buf[i] \in Bytes
  BY SoundFields
<1>2. m \in Nat /\ m = Len(t) /\ h.len + m <= n + 1
  BY <1>1
<1>3. h.len + m \in Nat /\ h.free - m \in Nat /\ n = (h.len + m) + (h.free - m)
  BY SMTT(30), <1>1, <1>2
<1> HIDE DEF m, n
<1>4. w \in [0..n -> Cells] /\ \A i \in 0..(h.len + m - 1) : w[i] \in Bytes
  BY Zenon, <1>1, <1>2, WriteBytes
<1> HIDE DEF w
<1> DEFINE l == h.len + m
           f == h.free - m
<1>5. l \in Nat /\ f \in Nat /\ n \in Nat /\ n = l + f
  BY <1>1, <1>3
<1>6. ASSUME NEW i \in 0..(l - 1) PROVE w[i] \in Bytes
  <2>1. i \in 0..(h.len + m - 1)
    BY <1>1, <1>2
  <2> QED BY <1>4, <2>1
<1> HIDE DEF l, f
<1>7. Sound([len |-> l, free |-> f, buf |-> w])
  BY SMTT(30), <1>4, <1>5, <1>6, SoundRecord
<1> QED BY <1>7 DEF l, f, m, w

(* One directive of sdscatfmt.                                             *)
LEMMA FmtPutSound ==
  ASSUME NEW h, Sound(h), NEW t \in Seq(Bytes)
  PROVE  Sound(FmtPut(h, t))
<1> DEFINE g == MakeRoomFor(h, 1)
           r == MakeRoomFor(g, Len(t))
<1>1. Sound(g)
  BY MakeRoomFacts
<1>2. Len(t) \in Nat
  OBVIOUS
<1> HIDE DEF g
<1>3. Sound(r) /\ Len(t) <= r.free
  <2>1. Sound(r) /\ r.free >= Len(t)
    BY <1>1, <1>2, MakeRoomFacts
  <2> HIDE DEF r
  <2>2. r.free \in Nat
    BY <2>1, SoundFields
  <2> QED BY <1>2, <2>1, <2>2
<1>4. FmtPut(h, t) = [len |-> r.len + Len(t), free |-> r.free - Len(t),
                      buf |-> Write(r.buf, r.len, t)]
  BY DEF FmtPut, g
<1> HIDE DEF r
<1> QED BY <1>3, <1>4, FillSound

(* sdsIncrLen after the caller has filled the room.                        *)
LEMMA IncrLenSound ==
  ASSUME NEW h, Sound(h), NEW t \in Seq(Bytes), h.free >= Len(t)
  PROVE  LET r == IncrLen([h EXCEPT !.buf = Write(@, h.len, t)], Len(t))
         IN  Sound(r) /\ Ended(r)
<1> DEFINE w == Write(h.buf, h.len, t)
           g == [len |-> h.len + Len(t), free |-> h.free - Len(t), buf |-> w]
<1>1. h.len \in Nat /\ h.free \in Nat /\ Len(t) \in Nat
  BY SoundFields
<1>2. [h EXCEPT !.buf = Write(@, h.len, t)] = [len |-> h.len, free |-> h.free, buf |-> w]
  BY DEF Sound
<1>3. Sound(g)
  BY <1>1, FillSound
<1>4. /\ g.len \in 0..g.len /\ g.free = (g.len + g.free) - g.len
  BY <1>1
<1>5. LET r == [len |-> g.len, free |-> g.free, buf |-> Write(g.buf, g.len, <<0>>)]
      IN  Sound(r) /\ Ended(r)
  <2> HIDE DEF g
  <2> QED BY <1>3, <1>4, CutSound
<1>6. IncrLen([len |-> h.len, free |-> h.free, buf |-> w], Len(t))
        = [len |-> g.len, free |-> g.free, buf |-> Write(g.buf, g.len, <<0>>)]
  BY DEF IncrLen
<1> HIDE DEF g
<1> QED BY <1>2, <1>5, <1>6

(* sdsIncrLen by a negative number cuts the string.                        *)
LEMMA DecrLenSound ==
  ASSUME NEW h, Sound(h), NEW n \in Nat, n <= h.len
  PROVE  Sound(IncrLen(h, -n)) /\ Ended(IncrLen(h, -n))
<1>1. h.len + (-n) \in 0..h.len /\ h.free - (-n) = (h.len + h.free) - (h.len + (-n))
  BY SoundFields
<1> QED BY <1>1, CutSound DEF IncrLen

(* sdscatprintf: the text up to its first NUL is appended.                 *)
LEMMA CutAtNul ==
  ASSUME NEW t \in Seq(Bytes)
  PROVE  SubSeq(t, 1, StrLen(NewLen(t).buf)) \in Seq(Bytes)
<1> DEFINE b == Write(<< >>, 0, Terminated(t))
<1>1. /\ Terminated(t) \in Seq(Bytes) /\ Len(Terminated(t)) = Len(t) + 1
      /\ Terminated(t)[Len(t) + 1] = 0 /\ Len(t) \in Nat
  BY TerminatedFacts
<1>2. b = [i \in 0..Len(t) |-> Terminated(t)[i + 1]]
  BY <1>1 DEF Write
<1>3. b \in [0..Len(t) -> Cells] /\ b[Len(t)] = 0
  BY <1>1, <1>2 DEF Cells
<1> HIDE DEF b
<1>4. StrLen(b) \in 0..Len(t)
  BY <1>1, <1>3, StrLenFacts
<1>5. NewLen(t).buf = b
  BY DEF NewLen, b
<1>6. SubSeq(t, 1, StrLen(b)) \in Seq(Bytes)
  BY <1>1, <1>4
<1> QED BY <1>5, <1>6

(* sdsnewlen.                                                              *)
LEMMA NewLenSound ==
  ASSUME NEW t \in Seq(Bytes)
  PROVE  Sound(NewLen(t)) /\ Ended(NewLen(t))
<1> DEFINE b == Write(<< >>, 0, Terminated(t))
<1>1. /\ Terminated(t) \in Seq(Bytes) /\ Len(Terminated(t)) = Len(t) + 1
      /\ Terminated(t)[Len(t) + 1] = 0 /\ Len(t) \in Nat
  BY TerminatedFacts
<1>2. b = [i \in 0..Len(t) |-> Terminated(t)[i + 1]]
  BY <1>1 DEF Write
<1>3. /\ b \in [0..Len(t) -> Cells] /\ b[Len(t)] = 0
      /\ \A i \in 0..(Len(t) - 1) : b[i] \in Bytes
  BY SMTT(30), <1>1, <1>2 DEF Cells
<1> HIDE DEF b
<1>4. Sound([len |-> Len(t), free |-> 0, buf |-> b])
  <2>1. Len(t) = Len(t) + 0
    BY <1>1
  <2> QED BY SMTT(30), <1>1, <1>3, <2>1, SoundRecord
<1> QED BY <1>3, <1>4 DEF NewLen, Ended, b

-----------------------------------------------------------------------------
(* A call that returns a sound and terminated string keeps the invariant.  *)
LEMMA CallsKeepInv ==
  ASSUME NEW op, NEW arg, NEW result, Calls(op, arg, result),
         Sound(result), Ended(result)
  PROVE  SdsInv'
<1> QED BY DEF Calls, SdsInv

(* Between two calls the string is terminated.                             *)
LEMMA CallsStartsTerminated ==
  ASSUME SdsInv, NEW op, NEW arg, NEW result, Calls(op, arg, result)
  PROVE  Ended(s)
<1> QED BY Zenon DEF Calls, SdsInv

(* Every call keeps the header true to the allocation.                     *)
LEMMA SdsStep == SdsInv /\ [SdsNext]_sdsVars => SdsInv'
<1> SUFFICES ASSUME SdsInv, [SdsNext]_sdsVars PROVE SdsInv'
  OBVIOUS
<1>0. Sound(s) /\ Strings \subseteq Seq(Bytes) /\ 0..MaxLen \subseteq Nat
  BY SdsAssumption DEF SdsInv
<1>1. ASSUME NEW t \in Strings, sdscatlen(t) PROVE SdsInv'
  BY <1>0, <1>1, CatLenSound, CallsKeepInv DEF sdscatlen
<1>2. ASSUME NEW t \in Strings, sdscpylen(t) PROVE SdsInv'
  BY <1>0, <1>2, CpyLenSound, CallsKeepInv DEF sdscpylen
<1>3. ASSUME NEW t \in Strings, sdscatprintf(t) PROVE SdsInv'
  BY Zenon, <1>0, <1>3, CutAtNul, CatLenSound, CallsKeepInv DEF sdscatprintf
<1>4. ASSUME NEW t \in Strings, sdsIncrLen(t) PROVE SdsInv'
  BY <1>0, <1>4, IncrLenSound, CallsKeepInv DEF sdsIncrLen
<1>5. ASSUME NEW t \in Strings, sdscatfmt(t) PROVE SdsInv'
  BY <1>0, <1>5, FmtPutSound DEF sdscatfmt, SdsInv
<1>6. ASSUME NEW n \in 0..MaxLen, sdsgrowzero(n) PROVE SdsInv'
  BY <1>0, <1>6, GrowZeroSound, CallsKeepInv, CallsStartsTerminated DEF sdsgrowzero
<1>7. ASSUME NEW n \in 0..MaxLen, sdsMakeRoomFor(n) PROVE SdsInv'
  <2>1. Ended(s)
    BY <1>7, CallsStartsTerminated DEF sdsMakeRoomFor
  <2> DEFINE r == MakeRoomFor(s, n)
  <2>2. Sound(r) /\ r.len = s.len /\ \A i \in 0..s.len : r.buf[i] = s.buf[i]
    BY <1>0, MakeRoomFacts
  <2> HIDE DEF r
  <2>3. Ended(r)
    <3>1. s.len \in 0..s.len
      BY <1>0, SoundFields
    <3> QED BY <2>1, <2>2, <3>1 DEF Ended
  <2>4. Calls("sdsMakeRoomFor", n, r)
    BY <1>7 DEF sdsMakeRoomFor, r
  <2> QED BY <2>2, <2>3, <2>4, CallsKeepInv
<1>8. ASSUME NEW n \in 0..MaxLen, sdsDecrLen(n) PROVE SdsInv'
  BY <1>0, <1>8, DecrLenSound, CallsKeepInv DEF sdsDecrLen
<1>9. ASSUME NEW r \in Indexes \X Indexes, sdsrange(r) PROVE SdsInv'
  <2>1. r[1] \in Int /\ r[2] \in Int
    BY Zenon, SdsAssumption
  <2> QED BY <1>0, <1>9, <2>1, SdsRangeSound, CallsKeepInv, CallsStartsTerminated
          DEF sdsrange
<1>10. ASSUME NEW cset \in CharSets, sdstrim(cset) PROVE SdsInv'
  BY <1>0, <1>10, TrimSound, CallsKeepInv DEF sdstrim
<1>11. ASSUME NEW m \in Maps, sdsmapchars(m) PROVE SdsInv'
  BY <1>0, <1>11, MapCharsSound, CallsKeepInv, CallsStartsTerminated DEF sdsmapchars
<1>12. CASE sdsclear
  BY <1>0, <1>12, ClearSound, CallsKeepInv DEF sdsclear
<1>13. CASE sdsupdatelen
  BY <1>0, <1>13, UpdateLenSound, CallsKeepInv, CallsStartsTerminated DEF sdsupdatelen
<1>14. CASE sdsRemoveFreeSpace
  BY <1>0, <1>14, RemoveFreeSpaceSound, CallsKeepInv, CallsStartsTerminated
     DEF sdsRemoveFreeSpace
<1>15. CASE sdscatfmtEnd
  <2> DEFINE r == [len |-> s.len, free |-> s.free, buf |-> Write(s.buf, s.len, <<0>>)]
  <2>1. s' = r
    BY Zenon, <1>0, <1>15 DEF sdscatfmtEnd, Sound
  <2>2. s.len \in 0..s.len /\ s.free = (s.len + s.free) - s.len
    BY <1>0, SoundFields
  <2>3. Sound(r) /\ Ended(r)
    BY <1>0, <2>2, CutSound
  <2> HIDE DEF r
  <2> QED BY <2>1, <2>3 DEF SdsInv
<1>16. CASE UNCHANGED sdsVars
  BY <1>16 DEF sdsVars, SdsInv, Sound, Ended
<1> QED BY <1>1, <1>2, <1>3, <1>4, <1>5, <1>6, <1>7, <1>8, <1>9, <1>10, <1>11,
           <1>12, <1>13, <1>14, <1>15, <1>16 DEF SdsNext

(* For every set of strings, indexes, character sets and maps, and every   *)
(* SDS_MAX_PREALLOC: whatever sequence of calls sds.c is given, len and    *)
(* free describe the allocation, nothing is written past it and the string *)
(* is terminated except inside sdscatfmt.                                  *)
THEOREM HeaderStaysTrue == SdsSpec => []HeaderIsTrue
<1>1. SdsInit => SdsInv
  BY SdsAssumption, NewLenSound DEF SdsInit, SdsInv
<1>2. SdsInv => HeaderIsTrue
  BY SoundFields DEF SdsInv, HeaderIsTrue, Ended
<1> QED BY <1>1, <1>2, SdsStep, PTL DEF SdsSpec

-----------------------------------------------------------------------------
(* The string a header describes.                                          *)
Text(h) == [i \in 1..h.len |-> h.buf[i - 1]]

(* The text of a sound header, byte by byte.                               *)
LEMMA TextFacts ==
  ASSUME NEW h, Sound(h)
  PROVE  /\ Text(h) \in Seq(Bytes) /\ Len(Text(h)) = h.len /\ h.len \in Nat
         /\ \A i \in 1..h.len : Text(h)[i] = h.buf[i - 1]
<1>1. h.len \in Nat /\ \A i \in 0..(h.len - 1) : h.buf[i] \in Bytes
  BY SoundFields
<1>2. \A i \in 1..h.len : h.buf[i - 1] \in Bytes
  <2> SUFFICES ASSUME NEW i \in 1..h.len PROVE h.buf[i - 1] \in Bytes
    OBVIOUS
  <2>1. i - 1 \in 0..(h.len - 1)
    BY <1>1
  <2> QED BY <1>1, <2>1
<1> QED BY <1>1, <1>2 DEF Text

(* Byte strings with the same bytes are the same.                          *)
LEMMA SameBytes ==
  ASSUME NEW v \in Seq(Bytes), NEW w \in Seq(Bytes), Len(v) = Len(w),
         \A i \in 1..Len(v) : v[i] = w[i]
  PROVE  v = w
<1>1. v = [i \in 1..Len(v) |-> v[i]] /\ w = [i \in 1..Len(w) |-> w[i]]
  OBVIOUS
<1> QED BY <1>1

(* The part of a byte string between two positions.                        *)
LEMMA PartFacts ==
  ASSUME NEW v \in Seq(Bytes), NEW at \in Nat, NEW k \in Nat, at + k <= Len(v)
  PROVE  LET p == SubSeq(v, at + 1, at + k)
         IN  p \in Seq(Bytes) /\ Len(p) = k /\ \A i \in 1..k : p[i] = v[at + i]
<1>1. at + 1 \in Nat /\ at + k \in Nat /\ (at + k) - (at + 1) + 1 = k
  OBVIOUS
<1>2. SubSeq(v, at + 1, at + k) = [i \in 1..k |-> v[at + i]]
  <2>1. SubSeq(v, at + 1, at + k) = [i \in 1..(1 + (at + k) - (at + 1)) |-> v[i + (at + 1) - 1]]
    OBVIOUS
  <2>2. 1 + (at + k) - (at + 1) = k /\ \A i \in 1..k : i + (at + 1) - 1 = at + i
    OBVIOUS
  <2> QED BY <2>1, <2>2
<1>3. \A i \in 1..k : v[at + i] \in Bytes
  <2> SUFFICES ASSUME NEW i \in 1..k PROVE v[at + i] \in Bytes
    OBVIOUS
  <2>1. at + i \in 1..Len(v)
    OBVIOUS
  <2> QED BY <2>1
<1> QED BY <1>2, <1>3

(* Two byte strings, one behind the other.                                 *)
LEMMA ConcatFacts ==
  ASSUME NEW v \in Seq(Bytes), NEW t \in Seq(Bytes), NEW l \in Nat, Len(v) = l
  PROVE  /\ v \o t \in Seq(Bytes) /\ Len(v \o t) = l + Len(t)
         /\ \A i \in 1..l : (v \o t)[i] = v[i]
         /\ \A k \in 1..Len(t) : (v \o t)[l + k] = t[k]
<1>1. Len(t) \in Nat
  OBVIOUS
<1>2. \A i \in 1..(l + Len(t)) : (v \o t)[i] = IF i <= l THEN v[i] ELSE t[i - l]
  OBVIOUS
<1>3. ASSUME NEW i \in 1..l PROVE (v \o t)[i] = v[i]
  <2>1. i \in 1..(l + Len(t)) /\ i <= l
    BY <1>1
  <2> QED BY <1>2, <2>1
<1>4. ASSUME NEW k \in 1..Len(t) PROVE (v \o t)[l + k] = t[k]
  <2>1. l + k \in 1..(l + Len(t)) /\ ~(l + k <= l) /\ (l + k) - l = k
    BY <1>1
  <2> QED BY <1>2, <2>1
<1>5. v \o t \in Seq(Bytes) /\ Len(v \o t) = l + Len(t)
  OBVIOUS
<1> QED BY <1>3, <1>4, <1>5

(* A header that keeps the bytes of h and has those of t behind them.      *)
LEMMA AppendedText ==
  ASSUME NEW h, Sound(h), NEW r, Sound(r), NEW t \in Seq(Bytes),
         r.len = h.len + Len(t),
         \A i \in 0..(h.len - 1) : r.buf[i] = h.buf[i],
         \A k \in 1..Len(t) : r.buf[h.len + k - 1] = t[k]
  PROVE  Text(r) = Text(h) \o t
<1> DEFINE v == Text(h)
           w == Text(r)
           c == v \o t
<1>1. /\ v \in Seq(Bytes) /\ Len(v) = h.len /\ h.len \in Nat
      /\ \A i \in 1..h.len : v[i] = h.buf[i - 1]
  BY TextFacts
<1>2. /\ w \in Seq(Bytes) /\ Len(w) = r.len /\ r.len \in Nat
      /\ \A i \in 1..r.len : w[i] = r.buf[i - 1]
  BY TextFacts
<1> HIDE DEF v, w
<1>3. Len(t) \in Nat
  OBVIOUS
<1>4. /\ c \in Seq(Bytes) /\ Len(c) = h.len + Len(t)
      /\ \A i \in 1..h.len : c[i] = v[i]
      /\ \A k \in 1..Len(t) : c[h.len + k] = t[k]
  BY Zenon, <1>1, ConcatFacts
<1> HIDE DEF c
<1>5. ASSUME NEW i \in 1..r.len PROVE w[i] = c[i]
  <2>1. CASE i \in 1..h.len
    <3>1. i - 1 \in 0..(h.len - 1)
      BY <1>1, <2>1
    <3> QED BY <1>1, <1>2, <1>4, <2>1, <3>1
  <2>2. CASE i \notin 1..h.len
    <3> DEFINE k == i - h.len
    <3>1. k \in 1..Len(t) /\ h.len + k = i /\ h.len + k - 1 = i - 1
      BY <1>1, <1>2, <1>3, <2>2
    <3> HIDE DEF k
    <3>2. c[i] = t[k] /\ r.buf[i - 1] = t[k]
      BY <1>4, <3>1
    <3> QED BY <1>2, <3>2
  <2> QED BY <2>1, <2>2
<1>6. w = c
  BY <1>2, <1>4, <1>5, SameBytes
<1> QED BY <1>6 DEF v, w, c

(* A header with k bytes of h, from position at on.                        *)
LEMMA PartOfText ==
  ASSUME NEW h, Sound(h), NEW r, Sound(r), NEW at \in Nat, NEW k \in Nat,
         at + k <= h.len, r.len = k,
         \A i \in 0..(k - 1) : r.buf[i] = h.buf[i + at]
  PROVE  Text(r) = SubSeq(Text(h), at + 1, at + k)
<1> DEFINE v == Text(h)
           w == Text(r)
           c == SubSeq(v, at + 1, at + k)
<1>1. /\ v \in Seq(Bytes) /\ Len(v) = h.len /\ h.len \in Nat
      /\ \A i \in 1..h.len : v[i] = h.buf[i - 1]
  BY TextFacts
<1>2. /\ w \in Seq(Bytes) /\ Len(w) = k
      /\ \A i \in 1..k : w[i] = r.buf[i - 1]
  BY TextFacts
<1> HIDE DEF v, w
<1>3. c \in Seq(Bytes) /\ Len(c) = k /\ \A i \in 1..k : c[i] = v[at + i]
  BY <1>1, PartFacts
<1> HIDE DEF c
<1>4. ASSUME NEW i \in 1..k PROVE w[i] = c[i]
  <2>1. i - 1 \in 0..(k - 1) /\ at + i \in 1..h.len /\ (i - 1) + at = (at + i) - 1
    BY <1>1
  <2>2. v[at + i] = h.buf[(at + i) - 1] /\ r.buf[i - 1] = h.buf[(at + i) - 1]
    BY <1>1, <2>1
  <2> QED BY <1>2, <1>3, <2>2
<1>5. w = c
  BY <1>2, <1>3, <1>4, SameBytes
<1> QED BY <1>5 DEF v, w, c

(* A header with the bytes of h has the text of h.                         *)
LEMMA SameText ==
  ASSUME NEW h, NEW r, r.len = h.len, h.len \in Nat,
         \A i \in 0..(h.len - 1) : r.buf[i] = h.buf[i]
  PROVE  Text(r) = Text(h)
<1>1. ASSUME NEW i \in 1..h.len PROVE r.buf[i - 1] = h.buf[i - 1]
  <2>1. i - 1 \in 0..(h.len - 1)
    OBVIOUS
  <2> QED BY <2>1
<1> QED BY <1>1 DEF Text

(* What a write of a text and its NUL leaves before and in the text.       *)
LEMMA WrittenBytes ==
  ASSUME NEW n \in Nat, NEW b \in [0..n -> Cells], NEW at \in Nat,
         NEW t \in Seq(Bytes), at + Len(t) <= n
  PROVE  LET w == Write(b, at, Terminated(t))
         IN  /\ \A i \in 0..(at - 1) : w[i] = b[i]
             /\ \A k \in 1..Len(t) : w[at + k - 1] = t[k]
<1> DEFINE u == Terminated(t)
           w == Write(b, at, u)
<1>1. /\ u \in Seq(Bytes) /\ Len(u) = Len(t) + 1
      /\ \A k \in 1..Len(t) : u[k] = t[k]
  BY TerminatedFacts
<1>2. Len(t) \in Nat /\ at + Len(u) <= n + 1
  BY <1>1
<1> HIDE DEF u
<1>3. /\ \A k \in 1..Len(u) : w[at + k - 1] = u[k]
      /\ \A i \in 0..n : i < at \/ i >= at + Len(u) => w[i] = b[i]
  BY SMTT(30), <1>1, <1>2, WriteFacts
<1> HIDE DEF w
<1>4. ASSUME NEW i \in 0..(at - 1) PROVE w[i] = b[i]
  <2>1. i \in 0..n /\ i < at
    BY <1>2
  <2> QED BY <1>3, <2>1
<1>5. ASSUME NEW k \in 1..Len(t) PROVE w[at + k - 1] = t[k]
  <2>1. k \in 1..Len(u)
    BY <1>1, <1>2
  <2> QED BY <1>1, <1>3, <2>1
<1> QED BY <1>4, <1>5 DEF w, u

(* sdscatlen appends.                                                      *)
LEMMA CatLenText ==
  ASSUME NEW h, Sound(h), NEW t \in Seq(Bytes)
  PROVE  Text(CatLen(h, t)) = Text(h) \o t
<1> DEFINE r == MakeRoomFor(h, Len(t))
           x == CatLen(h, t)
<1>1. Len(t) \in Nat /\ h.len \in Nat
  BY SoundFields
<1>2. Sound(r) /\ r.len = h.len /\ r.free >= Len(t) /\ \A i \in 0..h.len : r.buf[i] = h.buf[i]
  BY SMTT(30), <1>1, MakeRoomFacts
<1>3. Sound(x)
  BY CatLenSound
<1>4. x = [len |-> h.len + Len(t), free |-> r.free - Len(t),
           buf |-> Write(r.buf, h.len, Terminated(t))]
  BY DEF CatLen
<1> HIDE DEF r
<1> DEFINE n == r.len + r.free
<1>5. n \in Nat /\ r.buf \in [0..n -> Cells] /\ r.free \in Nat
  BY <1>2, SoundFields
<1>6. h.len + Len(t) <= n
  BY <1>1, <1>2, <1>5
<1> HIDE DEF n
<1>7. /\ \A i \in 0..(h.len - 1) : x.buf[i] = r.buf[i]
      /\ \A k \in 1..Len(t) : x.buf[h.len + k - 1] = t[k]
  <2>1. x.buf = Write(r.buf, h.len, Terminated(t))
    BY <1>4
  <2> HIDE DEF x
  <2> DEFINE b == r.buf
             l == h.len
  <2>2. n \in Nat /\ b \in [0..n -> Cells] /\ l \in Nat /\ l + Len(t) <= n
    BY <1>1, <1>5, <1>6
  <2> HIDE DEF b, l
  <2>3. /\ \A i \in 0..(l - 1) : Write(b, l, Terminated(t))[i] = b[i]
        /\ \A k \in 1..Len(t) : Write(b, l, Terminated(t))[l + k - 1] = t[k]
    BY <2>2, WrittenBytes
  <2> QED BY <2>1, <2>3 DEF b, l
<1>8. x.len = h.len + Len(t)
  BY <1>4
<1> HIDE DEF x
<1>9. \A i \in 0..(h.len - 1) : x.buf[i] = h.buf[i]
  <2> SUFFICES ASSUME NEW i \in 0..(h.len - 1) PROVE x.buf[i] = h.buf[i]
    OBVIOUS
  <2>1. i \in 0..h.len
    BY <1>1
  <2> QED BY <1>2, <1>7, <2>1
<1>10. Text(x) = Text(h) \o t
  BY Zenon, <1>3, <1>7, <1>8, <1>9, AppendedText
<1> QED BY <1>10 DEF x

(* The text of a new string, and of one written over.                      *)
LEMMA WholeText ==
  ASSUME NEW r, Sound(r), NEW t \in Seq(Bytes), r.len = Len(t),
         \A k \in 1..Len(t) : r.buf[0 + k - 1] = t[k]
  PROVE  Text(r) = t
<1> DEFINE w == Text(r)
<1>1. w \in Seq(Bytes) /\ Len(w) = Len(t) /\ \A i \in 1..Len(t) : w[i] = r.buf[i - 1]
  BY TextFacts
<1> HIDE DEF w
<1>2. ASSUME NEW i \in 1..Len(t) PROVE w[i] = t[i]
  <2>1. 0 + i - 1 = i - 1
    OBVIOUS
  <2> QED BY <1>1, <2>1
<1>3. w = t
  BY <1>1, <1>2, SameBytes
<1> QED BY <1>3 DEF w

(* sdsnewlen.                                                              *)
LEMMA NewLenText ==
  ASSUME NEW t \in Seq(Bytes)
  PROVE  Text(NewLen(t)) = t
<1> DEFINE u == Terminated(t)
           b == Write(<< >>, 0, u)
<1>1. /\ u \in Seq(Bytes) /\ Len(u) = Len(t) + 1 /\ Len(t) \in Nat
      /\ \A k \in 1..Len(t) : u[k] = t[k]
  BY TerminatedFacts
<1> HIDE DEF u
<1>2. b = [i \in 0..Len(t) |-> u[i + 1]]
  BY <1>1 DEF Write
<1>3. ASSUME NEW k \in 1..Len(t) PROVE b[0 + k - 1] = t[k]
  <2>1. 0 + k - 1 \in 0..Len(t) /\ (0 + k - 1) + 1 = k
    BY <1>1
  <2> QED BY <1>1, <1>2, <2>1
<1>4. NewLen(t).len = Len(t) /\ NewLen(t).buf = b
  BY DEF NewLen, u
<1> HIDE DEF b
<1> QED BY Zenon, <1>3, <1>4, NewLenSound, WholeText

(* sdscpylen replaces the text.                                            *)
LEMMA CpyLenText ==
  ASSUME NEW h, Sound(h), NEW t \in Seq(Bytes)
  PROVE  Text(CpyLen(h, t)) = t
<1> DEFINE r == IF h.free + h.len < Len(t) THEN MakeRoomFor(h, Len(t) - h.len) ELSE h
           x == CpyLen(h, t)
<1>1. Len(t) \in Nat
  OBVIOUS
<1>2. Sound(r) /\ Len(t) <= r.len + r.free
  <2>1. CASE h.free + h.len < Len(t)
    <3>1. Len(t) - h.len \in Nat /\ h.len \in Nat
      BY <1>1, <2>1, SoundFields
    <3>2. /\ Sound(MakeRoomFor(h, Len(t) - h.len))
          /\ MakeRoomFor(h, Len(t) - h.len).len = h.len
          /\ MakeRoomFor(h, Len(t) - h.len).free >= Len(t) - h.len
      BY Zenon, <3>1, MakeRoomFacts
    <3>3. MakeRoomFor(h, Len(t) - h.len).free \in Nat
      BY <3>2, SoundFields
    <3> QED BY <1>1, <2>1, <3>1, <3>2, <3>3
  <2>2. CASE ~(h.free + h.len < Len(t))
    BY <1>1, <2>2, SoundFields
  <2> QED BY <2>1, <2>2
<1>3. x.len = Len(t) /\ x.buf = Write(r.buf, 0, Terminated(t))
  BY DEF CpyLen
<1>4. Sound(x)
  BY CpyLenSound
<1> HIDE DEF r, x
<1> DEFINE n == r.len + r.free
<1>5. n \in Nat /\ r.buf \in [0..n -> Cells]
  BY <1>2, SoundFields
<1>6. 0 + Len(t) <= n
  BY <1>1, <1>2, <1>5
<1> HIDE DEF n
<1>7. \A k \in 1..Len(t) : x.buf[0 + k - 1] = t[k]
  <2> DEFINE b == r.buf
  <2>1. b \in [0..n -> Cells] /\ 0 \in Nat
    BY <1>5
  <2> HIDE DEF b
  <2>2. \A k \in 1..Len(t) : Write(b, 0, Terminated(t))[0 + k - 1] = t[k]
    BY <1>5, <1>6, <2>1, WrittenBytes
  <2> QED BY <1>3, <2>2 DEF b
<1>8. Text(x) = t
  BY Zenon, <1>3, <1>4, <1>7, WholeText
<1> QED BY <1>8 DEF x

(* sdsgrowzero appends NULs.                                               *)
LEMMA GrowZeroText ==
  ASSUME NEW h, Sound(h), Ended(h), NEW n \in Nat
  PROVE  Text(GrowZero(h, n)) = Text(h) \o Value!Zeros(n - h.len)
<1>0. h.len \in Nat
  BY SoundFields
<1>1. CASE n <= h.len
  <2>1. Value!Zeros(n - h.len) = << >>
    BY <1>0, <1>1 DEF Value!Zeros
  <2>2. Text(h) \in Seq(Bytes)
    BY TextFacts
  <2>3. Text(h) \o << >> = Text(h)
    BY <2>2
  <2>4. GrowZero(h, n) = h
    BY <1>1 DEF GrowZero
  <2> QED BY Zenon, <2>1, <2>3, <2>4
<1>2. CASE ~(n <= h.len)
  <2> DEFINE m == n - h.len
             r == MakeRoomFor(h, m)
             x == GrowZero(h, n)
             z == [i \in 1..m |-> 0]
             u == [i \in 1..(m + 1) |-> 0]
  <2>1. m \in Nat
    BY <1>0, <1>2
  <2>2. Sound(r) /\ r.len = h.len /\ r.free >= m /\ \A i \in 0..h.len : r.buf[i] = h.buf[i]
    BY Zenon, <2>1, MakeRoomFacts
  <2>3. x.len = n /\ x.buf = Write(r.buf, h.len, u)
    BY <1>2 DEF GrowZero
  <2>4. Sound(x)
    BY GrowZeroSound
  <2>a. n = h.len + m
    BY <1>0
  <2> HIDE DEF m, r, x
  <2>5. /\ z \in Seq(Bytes) /\ Len(z) = m /\ u \in Seq(Bytes) /\ Len(u) = m + 1
        /\ \A k \in 1..m : k \in 1..Len(u) /\ u[k] = z[k]
    BY <2>1, SdsAssumption
  <2> HIDE DEF z, u
  <2> DEFINE e == r.len + r.free
  <2>6. e \in Nat /\ r.buf \in [0..e -> Cells] /\ r.free \in Nat
    BY <2>2, SoundFields
  <2>7. h.len + Len(u) <= e + 1
    BY <1>0, <2>1, <2>2, <2>5, <2>6
  <2> HIDE DEF e
  <2>8. /\ \A k \in 1..Len(u) : x.buf[h.len + k - 1] = u[k]
        /\ \A i \in 0..e : i < h.len \/ i >= h.len + Len(u) => x.buf[i] = r.buf[i]
    <3> DEFINE b == r.buf
               l == h.len
    <3>1. e \in Nat /\ b \in [0..e -> Cells] /\ l \in Nat /\ l + Len(u) <= e + 1
      BY <1>0, <2>6, <2>7
    <3> HIDE DEF b, l
    <3>2. /\ \A k \in 1..Len(u) : Write(b, l, u)[l + k - 1] = u[k]
          /\ \A i \in 0..e : i < l \/ i >= l + Len(u) => Write(b, l, u)[i] = b[i]
      <4>1. u \in Seq(Bytes)
        BY <2>5
      <4> QED BY SMTT(30), <3>1, <4>1, WriteFacts
    <3> QED BY <2>3, <3>2 DEF b, l
  <2>9. \A k \in 1..Len(z) : x.buf[h.len + k - 1] = z[k]
    BY Zenon, <2>5, <2>8
  <2>10. \A i \in 0..(h.len - 1) : x.buf[i] = h.buf[i]
    <3> SUFFICES ASSUME NEW i \in 0..(h.len - 1) PROVE x.buf[i] = h.buf[i]
      OBVIOUS
    <3>1. i \in 0..h.len /\ i \in 0..e /\ i < h.len
      BY <1>0, <2>1, <2>5, <2>6, <2>7
    <3> QED BY <2>2, <2>8, <3>1
  <2>11. x.len = h.len + Len(z)
    BY <2>3, <2>5, <2>a
  <2>12. Text(x) = Text(h) \o z
    BY Zenon, <2>4, <2>5, <2>9, <2>10, <2>11, AppendedText
  <2> QED BY <2>12 DEF x, z, m, Value!Zeros
<1> QED BY <1>1, <1>2

(* sdsMakeRoomFor and sdsRemoveFreeSpace change no byte of the string.     *)
LEMMA RoomText ==
  ASSUME NEW h, Sound(h), NEW n \in Nat
  PROVE  Text(MakeRoomFor(h, n)) = Text(h) /\ Text(RemoveFreeSpace(h)) = Text(h)
<1> DEFINE r == MakeRoomFor(h, n)
           x == RemoveFreeSpace(h)
<1>1. h.len \in Nat /\ h.free \in Nat /\ h.buf \in [0..(h.len + h.free) -> Cells]
  BY SoundFields
<1>2. r.len = h.len /\ \A i \in 0..h.len : r.buf[i] = h.buf[i]
  BY MakeRoomFacts
<1>3. x.len = h.len /\ \A i \in 0..h.len : x.buf[i] = h.buf[i]
  BY <1>1 DEF RemoveFreeSpace, Realloc
<1> HIDE DEF r, x
<1>4. \A i \in 0..(h.len - 1) : i \in 0..h.len
  BY <1>1
<1>5. Text(r) = Text(h) /\ Text(x) = Text(h)
  BY Zenon, <1>1, <1>2, <1>3, <1>4, SameText
<1> QED BY <1>5 DEF r, x

(* A NUL written at the end or before it leaves the bytes before it.       *)
LEMMA CutText ==
  ASSUME NEW h, Sound(h), NEW at \in 0..h.len, NEW f, f = (h.len + h.free) - at
  PROVE  Text([len |-> at, free |-> f, buf |-> Write(h.buf, at, <<0>>)])
           = SubSeq(Text(h), 1, at)
<1> DEFINE r == [len |-> at, free |-> f, buf |-> Write(h.buf, at, <<0>>)]
           n == h.len + h.free
           b == h.buf
<1>1. n \in Nat /\ b \in [0..n -> Cells] /\ h.len \in Nat /\ h.free \in Nat
  BY SoundFields
<1>2. at \in Nat /\ at <= n /\ 0 + at <= h.len
  BY <1>1
<1>3. Sound(r)
  BY CutSound
<1>4. r.len = at /\ r.buf = Write(b, at, <<0>>)
  OBVIOUS
<1> HIDE DEF r, n, b
<1>5. \A i \in 0..(at - 1) : Write(b, at, <<0>>)[i] = b[i]
  <2> DEFINE e == << >>
  <2>1. e \in Seq(Bytes) /\ Len(e) = 0 /\ Terminated(e) = <<0>>
    BY DEF Terminated
  <2> HIDE DEF e
  <2>2. n \in Nat /\ b \in [0..n -> Cells] /\ at \in Nat /\ e \in Seq(Bytes) /\ at + Len(e) <= n
    BY <1>1, <1>2, <2>1
  <2>3. \A i \in 0..(at - 1) : Write(b, at, Terminated(e))[i] = b[i]
    BY <2>2, WrittenBytes
  <2> QED BY <2>1, <2>3
<1>6. \A i \in 0..(at - 1) : r.buf[i] = h.buf[i + 0]
  BY <1>2, <1>4, <1>5 DEF b
<1>7. Text(r) = SubSeq(Text(h), 0 + 1, 0 + at)
  <2>1. 0 \in Nat
    OBVIOUS
  <2> QED BY Zenon, <1>2, <1>3, <1>4, <1>6, <2>1, PartOfText
<1>8. 0 + 1 = 1 /\ 0 + at = at
  BY <1>2
<1> QED BY <1>7, <1>8 DEF r

(* sdstrim and sdsrange keep the part they were asked for.                 *)
LEMMA ShrinkText ==
  ASSUME NEW h, Sound(h), NEW at \in Nat, NEW k \in Nat, at + k <= h.len
  PROVE  Text(Shrink(h, at, k)) = SubSeq(Text(h), at + 1, at + k)
<1> DEFINE n == h.len + h.free
           r == Shrink(h, at, k)
<1>1. n \in Nat /\ h.len \in Nat /\ h.free \in Nat /\ h.buf \in [0..n -> Cells] /\ k \in 0..n
  BY SoundFields
<1>2. Sound(r)
  BY ShrinkSound
<1>3. r.len = k /\ r.buf = MoveDown(h.buf, at, k)
  BY DEF Shrink
<1>4. DOMAIN h.buf \cup {k} = 0..n
  BY <1>1
<1> HIDE DEF r
<1>5. \A i \in 0..(k - 1) : r.buf[i] = h.buf[i + at]
  <2> SUFFICES ASSUME NEW i \in 0..(k - 1) PROVE r.buf[i] = h.buf[i + at]
    OBVIOUS
  <2>1. i \in 0..n /\ i < k
    BY <1>1
  <2> QED BY <1>3, <1>4, <2>1 DEF MoveDown
<1>6. Text(r) = SubSeq(Text(h), at + 1, at + k)
  BY Zenon, <1>2, <1>3, <1>5, PartOfText
<1> QED BY <1>6 DEF r

(* A text filled into the spare room is appended.                          *)
LEMMA FillText ==
  ASSUME NEW h, Sound(h), NEW t \in Seq(Bytes), Len(t) <= h.free
  PROVE  Text([len |-> h.len + Len(t), free |-> h.free - Len(t),
               buf |-> Write(h.buf, h.len, t)]) = Text(h) \o t
<1> DEFINE r == [len |-> h.len + Len(t), free |-> h.free - Len(t),
                 buf |-> Write(h.buf, h.len, t)]
           n == h.len + h.free
           b == h.buf
           l == h.len
<1>1. n \in Nat /\ b \in [0..n -> Cells] /\ l \in Nat /\ h.free \in Nat /\ Len(t) \in Nat
  BY SoundFields
<1>2. l + Len(t) <= n + 1 /\ l <= n
  BY <1>1
<1>3. Sound(r)
  BY FillSound
<1>4. r.len = h.len + Len(t) /\ r.buf = Write(b, l, t)
  OBVIOUS
<1> HIDE DEF r, n, b, l
<1>5. /\ \A k \in 1..Len(t) : Write(b, l, t)[l + k - 1] = t[k]
      /\ \A i \in 0..n : i < l \/ i >= l + Len(t) => Write(b, l, t)[i] = b[i]
  BY SMTT(30), <1>1, <1>2, WriteFacts
<1>6. \A i \in 0..(l - 1) : i \in 0..n /\ i < l
  BY <1>1, <1>2
<1>7. \A k \in 1..Len(t) : r.buf[h.len + k - 1] = t[k]
  BY <1>4, <1>5 DEF l
<1>8. \A i \in 0..(h.len - 1) : r.buf[i] = h.buf[i]
  BY <1>4, <1>5, <1>6 DEF l, b
<1>9. Text(r) = Text(h) \o t
  BY Zenon, <1>3, <1>4, <1>7, <1>8, AppendedText
<1> QED BY <1>9 DEF r

(* One directive of sdscatfmt appends.                                     *)
LEMMA FmtPutText ==
  ASSUME NEW h, Sound(h), NEW t \in Seq(Bytes)
  PROVE  Text(FmtPut(h, t)) = Text(h) \o t
<1> DEFINE g == MakeRoomFor(h, 1)
           r == MakeRoomFor(g, Len(t))
<1>1. Sound(g) /\ Text(g) = Text(h)
  BY MakeRoomFacts, RoomText
<1>2. Len(t) \in Nat
  OBVIOUS
<1> HIDE DEF g
<1>3. Sound(r) /\ r.free >= Len(t) /\ Text(r) = Text(g)
  BY <1>1, <1>2, MakeRoomFacts, RoomText
<1>4. FmtPut(h, t) = [len |-> r.len + Len(t), free |-> r.free - Len(t),
                      buf |-> Write(r.buf, r.len, t)]
  BY DEF FmtPut, g
<1> HIDE DEF r
<1>5. Len(t) <= r.free
  BY <1>2, <1>3, SoundFields
<1> QED BY ZenonT(40), <1>1, <1>3, <1>4, <1>5, FillText

(* sdsIncrLen after the caller has filled the room appends.                *)
LEMMA IncrLenText ==
  ASSUME NEW h, Sound(h), NEW t \in Seq(Bytes), h.free >= Len(t)
  PROVE  Text(IncrLen([h EXCEPT !.buf = Write(@, h.len, t)], Len(t))) = Text(h) \o t
<1> DEFINE w == Write(h.buf, h.len, t)
           g == [len |-> h.len + Len(t), free |-> h.free - Len(t), buf |-> w]
<1>1. h.len \in Nat /\ h.free \in Nat /\ Len(t) \in Nat /\ Len(t) <= h.free
  BY SoundFields
<1>2. [h EXCEPT !.buf = Write(@, h.len, t)] = [len |-> h.len, free |-> h.free, buf |-> w]
  BY DEF Sound
<1>3. Sound(g) /\ Text(g) = Text(h) \o t
  BY SMTT(30), <1>1, FillSound, FillText
<1>4. g.len \in 0..g.len /\ g.free = (g.len + g.free) - g.len
  BY <1>1
<1>5. IncrLen([len |-> h.len, free |-> h.free, buf |-> w], Len(t))
        = [len |-> g.len, free |-> g.free, buf |-> Write(g.buf, g.len, <<0>>)]
  BY DEF IncrLen
<1> HIDE DEF g
<1>6. Text([len |-> g.len, free |-> g.free, buf |-> Write(g.buf, g.len, <<0>>)])
        = SubSeq(Text(g), 1, g.len)
  BY Zenon, <1>3, <1>4, CutText
<1>7. SubSeq(Text(g), 1, g.len) = Text(g)
  <2> DEFINE v == Text(g)
  <2>1. v \in Seq(Bytes) /\ Len(v) = g.len
    BY <1>3, TextFacts
  <2> HIDE DEF v
  <2>2. SubSeq(v, 1, Len(v)) = v
    BY <2>1
  <2> QED BY <2>1, <2>2 DEF v
<1> QED BY Zenon, <1>2, <1>3, <1>5, <1>6, <1>7

(* A map is applied to every byte.                                         *)
LEMMA MapCharsText ==
  ASSUME NEW h, Sound(h), NEW m \in Maps
  PROVE  Text(MapChars(h, m)) = [i \in 1..Len(Text(h)) |-> m[Text(h)[i]]]
<1> DEFINE r == MapChars(h, m)
<1>1. h.len \in Nat /\ h.free \in Nat /\ h.buf \in [0..(h.len + h.free) -> Cells]
  BY SoundFields
<1>2. Len(Text(h)) = h.len /\ \A i \in 1..h.len : Text(h)[i] = h.buf[i - 1]
  BY TextFacts
<1>3. r.len = h.len
      /\ r.buf = [i \in DOMAIN h.buf |-> IF i < h.len THEN m[h.buf[i]] ELSE h.buf[i]]
  BY DEF MapChars
<1> HIDE DEF r
<1>4. ASSUME NEW i \in 1..h.len PROVE r.buf[i - 1] = m[Text(h)[i]]
  <2>1. i - 1 \in DOMAIN h.buf /\ i - 1 < h.len
    BY <1>1
  <2> QED BY <1>2, <1>3, <2>1
<1>5. Text(r) = [i \in 1..h.len |-> m[Text(h)[i]]]
  BY <1>3, <1>4 DEF Text
<1> QED BY <1>2, <1>5 DEF r

(* Where the first NUL is, is where strlen stops.                          *)
LEMMA CStringIs ==
  ASSUME NEW v \in Seq(Bytes), NEW z \in 0..Len(v), \A j \in 1..z : v[j] # 0,
         z < Len(v) => v[z + 1] = 0
  PROVE  Value!CString(v) = SubSeq(v, 1, z)
<1> DEFINE nuls == {i \in 1..Len(v) : v[i] = 0}
<1>1. Len(v) \in Nat
  OBVIOUS
<1>2. CASE z = Len(v)
  <2>1. nuls = {}
    BY <1>2
  <2>2. Value!CString(v) = v
    BY <2>1 DEF Value!CString
  <2>3. SubSeq(v, 1, Len(v)) = v
    OBVIOUS
  <2> QED BY <1>2, <2>2, <2>3
<1>3. CASE z # Len(v)
  <2>1. z + 1 \in nuls
    BY <1>1, <1>3
  <2>2. ASSUME NEW i \in nuls PROVE z + 1 <= i
    BY <1>1
  <2>3. (CHOOSE i \in nuls : \A j \in nuls : i <= j) = z + 1
    <3>1. \A j \in nuls : j \in Nat
      BY <1>1
    <3> HIDE DEF nuls
    <3> DEFINE c == CHOOSE i \in nuls : \A j \in nuls : i <= j
    <3>2. c \in nuls /\ \A j \in nuls : c <= j
      BY <2>1, <2>2
    <3> HIDE DEF c
    <3>3. c <= z + 1 /\ z + 1 <= c /\ c \in Nat
      BY <2>1, <2>2, <3>1, <3>2
    <3>4. c = z + 1
      BY <3>3
    <3> QED BY <3>4 DEF c
  <2>4. (z + 1) - 1 = z
    OBVIOUS
  <2>5. Value!CString(v) = SubSeq(v, 1, (CHOOSE i \in nuls : \A j \in nuls : i <= j) - 1)
    BY Zenon, <2>1 DEF Value!CString
  <2> QED BY Zenon, <2>3, <2>4, <2>5
<1> QED BY <1>2, <1>3

(* sdscatprintf appends the text up to its first NUL.                      *)
LEMMA PrintedText ==
  ASSUME NEW t \in Seq(Bytes)
  PROVE  SubSeq(t, 1, StrLen(NewLen(t).buf)) = Value!CString(t)
<1> DEFINE u == Terminated(t)
           b == Write(<< >>, 0, u)
           z == StrLen(b)
<1>1. /\ u \in Seq(Bytes) /\ Len(u) = Len(t) + 1 /\ u[Len(t) + 1] = 0 /\ Len(t) \in Nat
      /\ \A k \in 1..Len(t) : u[k] = t[k]
  BY TerminatedFacts
<1> HIDE DEF u
<1>2. b = [i \in 0..Len(t) |-> u[i + 1]]
  BY <1>1 DEF Write
<1>3. b \in [0..Len(t) -> Cells] /\ b[Len(t)] = 0
  BY <1>1, <1>2 DEF Cells
<1>4. ASSUME NEW k \in 1..Len(t) PROVE b[k - 1] = t[k]
  <2>1. k - 1 \in 0..Len(t) /\ (k - 1) + 1 = k
    BY <1>1
  <2> QED BY <1>1, <1>2, <2>1
<1>5. NewLen(t).buf = b
  BY DEF NewLen, u
<1> HIDE DEF b
<1>6. z \in 0..Len(t) /\ b[z] = 0 /\ \A j \in 0..(z - 1) : b[j] # 0
  BY <1>1, <1>3, StrLenFacts
<1> HIDE DEF z
<1>7. ASSUME NEW j \in 1..z PROVE t[j] # 0
  <2>1. j \in 1..Len(t) /\ j - 1 \in 0..(z - 1)
    BY <1>1, <1>6
  <2> QED BY <1>4, <1>6, <2>1
<1>8. z < Len(t) => t[z + 1] = 0
  <2> SUFFICES ASSUME z < Len(t) PROVE t[z + 1] = 0
    OBVIOUS
  <2>1. z + 1 \in 1..Len(t) /\ (z + 1) - 1 = z
    BY <1>1, <1>6
  <2> QED BY <1>4, <1>6, <2>1
<1>9. Value!CString(t) = SubSeq(t, 1, z)
  BY <1>6, <1>7, <1>8, CStringIs
<1> QED BY <1>5, <1>9 DEF z

(* sdsupdatelen cuts the string at its first NUL.                          *)
LEMMA UpdateLenText ==
  ASSUME NEW h, Sound(h), Ended(h)
  PROVE  Text(UpdateLen(h)) = Value!CString(Text(h))
<1> DEFINE z == StrLen(h.buf)
           v == Text(h)
           r == UpdateLen(h)
           n == h.len + h.free
<1>1. h.len \in Nat /\ h.free \in Nat /\ n \in Nat /\ n >= h.len /\ h.buf \in [0..n -> Cells]
  BY SoundFields
<1>2. h.buf[h.len] = 0
  BY DEF Ended
<1>3. z \in 0..h.len /\ h.buf[z] = 0 /\ \A j \in 0..(z - 1) : h.buf[j] # 0
  BY Zenon, <1>1, <1>2, StrLenFacts
<1>4. v \in Seq(Bytes) /\ Len(v) = h.len /\ \A i \in 1..h.len : v[i] = h.buf[i - 1]
  BY TextFacts
<1>5. Sound(r) /\ r.len = z /\ r.buf = h.buf
  BY UpdateLenSound DEF UpdateLen
<1> HIDE DEF z, v, r
<1>6. ASSUME NEW j \in 1..z PROVE v[j] # 0
  <2>1. j \in 1..h.len /\ j - 1 \in 0..(z - 1)
    BY <1>1, <1>3
  <2> QED BY <1>3, <1>4, <2>1
<1>7. z < h.len => v[z + 1] = 0
  <2> SUFFICES ASSUME z < h.len PROVE v[z + 1] = 0
    OBVIOUS
  <2>1. z + 1 \in 1..h.len /\ (z + 1) - 1 = z
    BY <1>1, <1>3
  <2> QED BY <1>3, <1>4, <2>1
<1>8. Value!CString(v) = SubSeq(v, 1, z)
  BY <1>3, <1>4, <1>6, <1>7, CStringIs
<1>9. Text(r) = SubSeq(v, 1, z)
  <2>1. 0 \in Nat /\ z \in Nat /\ 0 + z <= h.len /\ 0 + 1 = 1 /\ 0 + z = z
    BY <1>1, <1>3
  <2>2. \A i \in 0..(z - 1) : r.buf[i] = h.buf[i + 0]
    BY <1>5, <2>1
  <2>3. Text(r) = SubSeq(Text(h), 0 + 1, 0 + z)
    BY Zenon, <1>5, <2>1, <2>2, PartOfText
  <2> QED BY <2>1, <2>3 DEF v
<1> QED BY <1>8, <1>9 DEF v, r

(* The part of a string with no byte in it.                                *)
LEMMA NoPart ==
  ASSUME NEW v \in Seq(Bytes), NEW a \in Int, NEW b \in Int, b < a
  PROVE  SubSeq(v, a, b) = << >>
<1> QED OBVIOUS

(* What lies between the first and the last position of a set is what lies *)
(* between x and y, when x and y are those positions.                      *)
LEMMA BoundsAre ==
  ASSUME NEW K, K \subseteq Int, NEW x \in K, NEW y \in K,
         \A j \in K : x <= j /\ j <= y
  PROVE  /\ (CHOOSE i \in K : \A j \in K : i <= j) = x
         /\ (CHOOSE i \in K : \A j \in K : j <= i) = y
<1> DEFINE a == CHOOSE i \in K : \A j \in K : i <= j
           b == CHOOSE i \in K : \A j \in K : j <= i
<1>1. a \in K /\ \A j \in K : a <= j
  BY Zenon
<1>2. b \in K /\ \A j \in K : j <= b
  BY Zenon
<1> HIDE DEF a, b
<1>3. a <= x /\ x <= a /\ b <= y /\ y <= b /\ a \in Int /\ b \in Int /\ x \in Int /\ y \in Int
  BY <1>1, <1>2
<1>4. a = x /\ b = y
  BY <1>3
<1> QED BY <1>4 DEF a, b

(* sdstrim keeps what lies between the first and the last byte to keep.    *)
LEMMA TrimText ==
  ASSUME NEW h, Sound(h), NEW cset
  PROVE  Text(Trim(h, cset)) = Value!Trimmed(Text(h), cset)
<1> DEFINE v == Text(h)
           K == {i \in 1..Len(v) : v[i] \notin cset \cup {0}}
<1>1. /\ h.len \in Nat /\ v \in Seq(Bytes) /\ Len(v) = h.len
      /\ \A i \in 1..h.len : v[i] = h.buf[i - 1]
  BY TextFacts
<1>2. PICK sp \in 0..h.len, ep \in (-1)..(h.len - 1) :
        /\ Trim(h, cset) = Shrink(h, sp, IF sp > ep THEN 0 ELSE (ep - sp) + 1)
        /\ sp < h.len => ~StrChr(cset, h.buf[sp])
        /\ \A j \in 0..(sp - 1) : StrChr(cset, h.buf[j])
        /\ h.len # 0 => ep >= 0
        /\ ep > 0 => ~StrChr(cset, h.buf[ep])
        /\ \A j \in (ep + 1)..(h.len - 1) : StrChr(cset, h.buf[j])
  BY Zenon, TrimFacts
<1> DEFINE k == IF sp > ep THEN 0 ELSE (ep - sp) + 1
<1>3. sp \in Nat /\ k \in Nat /\ sp + k <= h.len
  BY <1>1
<1>4. Text(Trim(h, cset)) = SubSeq(v, sp + 1, sp + k)
  <2> HIDE DEF k
  <2>1. Text(Shrink(h, sp, k)) = SubSeq(v, sp + 1, sp + k)
    BY Zenon, <1>3, ShrinkText
  <2> QED BY <1>2, <2>1 DEF k
<1>5. Value!Trimmed(v, cset) =
        IF K = {} THEN << >>
        ELSE SubSeq(v, CHOOSE i \in K : \A j \in K : i <= j, CHOOSE i \in K : \A j \in K : j <= i)
  BY DEF Value!Trimmed
<1> HIDE DEF v
<1>6. ASSUME NEW j \in 0..(h.len - 1)
      PROVE  j + 1 \in 1..Len(v) /\ (StrChr(cset, h.buf[j]) <=> j + 1 \notin K)
  <2>1. j + 1 \in 1..h.len /\ (j + 1) - 1 = j
    BY <1>1
  <2>2. v[j + 1] = h.buf[j]
    BY <1>1, <2>1
  <2> QED BY <1>1, <2>1, <2>2 DEF StrChr
<1>7. ASSUME NEW i \in K PROVE i - 1 \in 0..(h.len - 1) /\ (i - 1) + 1 = i
  BY <1>1
<1>8. K \subseteq Int
  BY <1>1
<1> HIDE DEF K
<1>9. ASSUME NEW i \in K PROVE sp + 1 <= i /\ i <= ep + 1
  <2>1. i - 1 \in 0..(h.len - 1) /\ i \in Int /\ ~StrChr(cset, h.buf[i - 1])
    BY <1>6, <1>7, <1>8
  <2>2. i - 1 \notin 0..(sp - 1) /\ i - 1 \notin (ep + 1)..(h.len - 1)
    BY <1>2, <2>1
  <2> QED BY <1>1, <2>1, <2>2
<1>10. CASE sp = h.len
  <2>1. K = {}
    <3> SUFFICES ASSUME NEW i \in K PROVE FALSE
      OBVIOUS
    <3>1. i - 1 \in 0..(h.len - 1) /\ sp + 1 <= i /\ i \in Int
      BY <1>7, <1>8, <1>9
    <3> QED BY <1>1, <1>10, <3>1
  <2>2. k = 0
    BY <1>1, <1>2, <1>10
  <2>3. SubSeq(v, sp + 1, sp + k) = << >>
    BY <1>1, <1>3, <2>2, NoPart
  <2> QED BY <1>4, <1>5, <2>1, <2>3 DEF v
<1>11. CASE sp # h.len
  <2>1. sp \in 0..(h.len - 1) /\ sp < h.len /\ h.len # 0
    BY <1>1, <1>11
  <2>2. sp + 1 \in K
    BY <1>2, <1>6, <2>1
  <2>3. ep >= 0 /\ sp + 1 <= ep + 1 /\ ep \in 0..(h.len - 1)
    BY <1>1, <1>2, <1>9, <2>1, <2>2
  <2>4. ep + 1 \in K
    <3>1. CASE ep = 0
      <4>1. sp + 1 = ep + 1
        BY <2>1, <2>3, <3>1
      <4> QED BY <2>2, <4>1
    <3>2. CASE ep # 0
      <4>1. ~StrChr(cset, h.buf[ep])
        BY <1>2, <2>3, <3>2
      <4> QED BY <1>6, <2>3, <4>1
    <3> QED BY <3>1, <3>2
  <2>5. /\ (CHOOSE i \in K : \A j \in K : i <= j) = sp + 1
        /\ (CHOOSE i \in K : \A j \in K : j <= i) = ep + 1
    BY Zenon, <1>8, <1>9, <2>2, <2>4, BoundsAre
  <2>6. sp + k = ep + 1
    BY <1>1, <2>1, <2>3
  <2> QED BY Zenon, <1>4, <1>5, <2>2, <2>5, <2>6 DEF v
<1> QED BY <1>10, <1>11

(* sdsrange keeps what lies between the two indexes.                       *)
LEMMA RangeText ==
  ASSUME NEW h, Sound(h), NEW from \in Int, NEW to \in Int
  PROVE  Text(SdsRange(h, from, to)) = Value!Between(Text(h), from, to)
<1> DEFINE start == FromEnd(h.len, from)
           end == FromEnd(h.len, to)
           Count(last) == IF start > last THEN 0 ELSE (last - start) + 1
           k == IF Count(end) = 0 \/ start >= h.len THEN 0
                ELSE IF end >= h.len THEN Count(h.len - 1) ELSE Count(end)
           at == IF k = 0 THEN 0 ELSE start
           v == Text(h)
           last == IF end < h.len THEN end ELSE h.len - 1
<1>1. h.len \in Nat /\ v \in Seq(Bytes) /\ Len(v) = h.len
  BY TextFacts
<1>2. start \in Nat /\ end \in Nat
  BY <1>1 DEF FromEnd
<1>3. SdsRange(h, from, to) = IF h.len = 0 THEN h ELSE Shrink(h, at, k)
  BY DEF SdsRange
<1> HIDE DEF v
<1>4. Value!Between(v, from, to) = SubSeq(v, start + 1, last + 1)
  BY <1>1 DEF Value!Between, Value!Position, FromEnd
<1> HIDE DEF start, end
<1>5. k \in Nat /\ at \in Nat /\ at + k <= h.len /\ last \in Int
  BY <1>1, <1>2
<1>6. k # 0 => at = start /\ at + k = last + 1
  BY <1>1, <1>2
<1>7. k = 0 => last + 1 < start + 1
  BY <1>1, <1>2
<1>8. h.len = 0 => last + 1 < start + 1
  BY <1>1, <1>2
<1> HIDE DEF k, at, last
<1>9. CASE h.len = 0
  <2>1. SubSeq(v, start + 1, last + 1) = << >>
    BY <1>1, <1>2, <1>5, <1>8, <1>9, NoPart
  <2>2. v = << >>
    BY <1>1, <1>9
  <2> QED BY Zenon, <1>3, <1>4, <1>9, <2>1, <2>2 DEF v
<1>10. CASE h.len # 0
  <2>1. Text(Shrink(h, at, k)) = SubSeq(v, at + 1, at + k)
    BY Zenon, <1>5, ShrinkText DEF v
  <2>2. CASE k # 0
    BY <1>3, <1>4, <1>6, <1>10, <2>1, <2>2 DEF v
  <2>3. CASE k = 0
    <3>1. SubSeq(v, start + 1, last + 1) = << >>
      BY <1>1, <1>2, <1>5, <1>7, <2>3, NoPart
    <3>2. SubSeq(v, at + 1, at + k) = << >>
      BY <1>1, <1>5, <2>3, NoPart
    <3> QED BY Zenon, <1>3, <1>4, <1>10, <2>1, <3>1, <3>2 DEF v
  <2> QED BY <2>2, <2>3
<1> QED BY <1>9, <1>10

(* A call leaves the text of its result.                                   *)
LEMMA CallText ==
  ASSUME NEW op, NEW arg, NEW result, Calls(op, arg, result)
  PROVE  call' = <<op, arg>> /\ Content' = Text(result)
<1> QED BY DEF Calls, Content, Text

(* Every step of sds.c is the step of SdsValue with the same name, and the *)
(* terminator that sdscatfmt writes at its end changes no byte.            *)
LEMMA SdsStepIsValueStep ==
  ASSUME SdsInv, [SdsNext]_sdsVars
  PROVE  [Value!ValueNext]_<<Content, call>>
<1>0. Sound(s) /\ Strings \subseteq Seq(Bytes) /\ 0..MaxLen \subseteq Nat
  BY SdsAssumption DEF SdsInv
<1>a. /\ Content = Text(s) /\ Content' = Text(s') /\ Content \in Seq(Bytes)
      /\ Len(Content) = s.len /\ s.len \in Nat
  <2>1. Content = Text(s) /\ Content' = Text(s')
    BY DEF Content, Text
  <2> QED BY <1>0, <2>1, TextFacts
<1> DEFINE Goal == Value!ValueNext
<1>1. ASSUME NEW t \in Strings, sdscatlen(t) PROVE Goal
  <2>1. Text(CatLen(s, t)) = Text(s) \o t
    BY <1>0, CatLenText
  <2>2. call' = <<"sdscatlen", t>> /\ Content' = Text(CatLen(s, t))
    BY <1>1, CallText DEF sdscatlen
  <2>3. Content' = Content \o t
    BY Zenon, <1>a, <2>1, <2>2
  <2> QED BY Zenon, <2>2, <2>3 DEF Value!ValueNext, Value!Means
<1>2. ASSUME NEW t \in Strings, sdscpylen(t) PROVE Goal
  <2>1. call' = <<"sdscpylen", t>> /\ Content' = t
    BY <1>0, <1>a, <1>2, CpyLenText, CallText DEF sdscpylen
  <2> QED BY Zenon, <2>1 DEF Value!ValueNext, Value!Means
<1>3. ASSUME NEW t \in Strings, sdscatprintf(t) PROVE Goal
  <2> DEFINE u == SubSeq(t, 1, StrLen(NewLen(t).buf))
  <2>1. u \in Seq(Bytes) /\ u = Value!CString(t)
    BY Zenon, <1>0, CutAtNul, PrintedText
  <2>2. Calls("sdscatprintf", t, CatLen(s, u))
    BY Zenon, <1>3 DEF sdscatprintf
  <2> HIDE DEF u
  <2>3. Text(CatLen(s, u)) = Text(s) \o u
    BY Zenon, <1>0, <2>1, CatLenText
  <2>4. call' = <<"sdscatprintf", t>> /\ Content' = Text(CatLen(s, u))
    BY <2>2, CallText
  <2>5. Content' = Content \o Value!CString(t)
    BY Zenon, <1>a, <2>1, <2>3, <2>4
  <2> QED BY Zenon, <2>4, <2>5 DEF Value!ValueNext, Value!Means
<1>4. ASSUME NEW t \in Strings, sdsIncrLen(t) PROVE Goal
  <2> DEFINE x == IncrLen([s EXCEPT !.buf = Write(@, s.len, t)], Len(t))
  <2>1. Text(x) = Text(s) \o t
    BY Zenon, <1>0, <1>4, IncrLenText DEF sdsIncrLen
  <2>2. Calls("sdsIncrLen", t, x)
    BY Zenon, <1>4 DEF sdsIncrLen
  <2> HIDE DEF x
  <2>3. call' = <<"sdsIncrLen", t>> /\ Content' = Text(x)
    BY <2>2, CallText
  <2>4. Content' = Content \o t
    BY Zenon, <1>a, <2>1, <2>3
  <2> QED BY Zenon, <2>3, <2>4 DEF Value!ValueNext, Value!Means
<1>5. ASSUME NEW t \in Strings, sdscatfmt(t) PROVE Goal
  <2>1. call' = <<"sdscatfmt", t>> /\ Content' = Content \o t
    BY Zenon, <1>0, <1>a, <1>5, FmtPutText DEF sdscatfmt
  <2> QED BY Zenon, <2>1 DEF Value!ValueNext, Value!Means
<1>6. ASSUME NEW n \in 0..MaxLen, sdsgrowzero(n) PROVE Goal
  <2>1. Ended(s)
    BY <1>6, CallsStartsTerminated DEF sdsgrowzero
  <2>2. call' = <<"sdsgrowzero", n>> /\ Content' = Text(GrowZero(s, n))
    BY <1>6, CallText DEF sdsgrowzero
  <2>3. Content' = Content \o Value!Zeros(n - Len(Content))
    BY Zenon, <1>0, <1>a, <2>1, <2>2, GrowZeroText
  <2> QED BY Zenon, <2>2, <2>3 DEF Value!ValueNext, Value!Means
<1>7. ASSUME NEW n \in 0..MaxLen, sdsMakeRoomFor(n) PROVE Goal
  <2>1. call' = <<"sdsMakeRoomFor", n>> /\ Content' = Content
    BY <1>0, <1>a, <1>7, RoomText, CallText DEF sdsMakeRoomFor
  <2> QED BY Zenon, <2>1 DEF Value!ValueNext, Value!Means
<1>8. ASSUME NEW n \in 0..MaxLen, sdsDecrLen(n) PROVE Goal
  <2> DEFINE at == s.len + (-n)
             f == s.free - (-n)
  <2>1. n <= s.len /\ Calls("sdsDecrLen", n, IncrLen(s, -n))
    BY <1>8 DEF sdsDecrLen
  <2>2. at \in 0..s.len /\ f = (s.len + s.free) - at /\ at = Len(Content) - n
    BY <1>0, <1>a, <2>1, SoundFields
  <2>3. IncrLen(s, -n) = [len |-> at, free |-> f, buf |-> Write(s.buf, at, <<0>>)]
    BY DEF IncrLen
  <2> HIDE DEF at, f
  <2>4. Text(IncrLen(s, -n)) = SubSeq(Content, 1, at)
    <3>1. Text([len |-> at, free |-> f, buf |-> Write(s.buf, at, <<0>>)])
            = SubSeq(Text(s), 1, at)
      BY <1>0, <2>2, CutText
    <3> QED BY Zenon, <1>a, <2>3, <3>1
  <2>5. call' = <<"sdsDecrLen", n>> /\ Content' = SubSeq(Content, 1, Len(Content) - n)
    BY Zenon, <2>1, <2>2, <2>4, CallText
  <2> QED BY Zenon, <2>5 DEF Value!ValueNext, Value!Means
<1>9. ASSUME NEW r \in Indexes \X Indexes, sdsrange(r) PROVE Goal
  <2>1. r[1] \in Int /\ r[2] \in Int
    BY Zenon, SdsAssumption
  <2>2. Text(SdsRange(s, r[1], r[2])) = Value!Between(Text(s), r[1], r[2])
    BY <1>0, <2>1, RangeText
  <2>3. call' = <<"sdsrange", r>> /\ Content' = Text(SdsRange(s, r[1], r[2]))
    BY <1>9, CallText DEF sdsrange
  <2>4. Content' = Value!Between(Content, r[1], r[2])
    BY Zenon, <1>a, <2>2, <2>3
  <2> QED BY Zenon, <2>3, <2>4 DEF Value!ValueNext, Value!Means
<1>10. ASSUME NEW cset \in CharSets, sdstrim(cset) PROVE Goal
  <2>1. call' = <<"sdstrim", cset>> /\ Content' = Value!Trimmed(Content, cset)
    BY Zenon, <1>0, <1>a, <1>10, TrimText, CallText DEF sdstrim
  <2> QED BY Zenon, <2>1 DEF Value!ValueNext, Value!Means
<1>11. ASSUME NEW m \in Maps, sdsmapchars(m) PROVE Goal
  <2>1. Text(MapChars(s, m)) = [i \in 1..Len(Text(s)) |-> m[Text(s)[i]]]
    BY <1>0, MapCharsText
  <2>2. call' = <<"sdsmapchars", m>> /\ Content' = Text(MapChars(s, m))
    BY <1>11, CallText DEF sdsmapchars
  <2>3. Content' = [i \in 1..Len(Content) |-> m[Content[i]]]
    BY Zenon, <1>a, <2>1, <2>2
  <2> QED BY Zenon, <2>2, <2>3 DEF Value!ValueNext, Value!Means
<1>12. CASE sdsclear
  <2>1. 0 \in 0..s.len /\ s.free + s.len = (s.len + s.free) - 0
    BY <1>0, SoundFields
  <2>2. Text(Clear(s)) = SubSeq(Text(s), 1, 0)
    BY <1>0, <2>1, CutText DEF Clear
  <2>3. SubSeq(Text(s), 1, 0) = << >>
    BY <1>a, NoPart
  <2>4. call' = <<"sdsclear", 0>> /\ Content' = << >>
    BY Zenon, <1>12, <2>2, <2>3, CallText DEF sdsclear
  <2> QED BY Zenon, <2>4 DEF Value!ValueNext, Value!Means
<1>13. CASE sdsupdatelen
  <2>1. Ended(s)
    BY <1>13, CallsStartsTerminated DEF sdsupdatelen
  <2>2. call' = <<"sdsupdatelen", 0>> /\ Content' = Value!CString(Content)
    BY Zenon, <1>0, <1>a, <1>13, <2>1, UpdateLenText, CallText DEF sdsupdatelen
  <2> QED BY Zenon, <2>2 DEF Value!ValueNext, Value!Means
<1>14. CASE sdsRemoveFreeSpace
  <2>1. 0 \in Nat
    OBVIOUS
  <2>2. call' = <<"sdsRemoveFreeSpace", 0>> /\ Content' = Content
    BY Zenon, <1>0, <1>a, <1>14, <2>1, RoomText, CallText DEF sdsRemoveFreeSpace
  <2> QED BY Zenon, <2>2 DEF Value!ValueNext, Value!Means
<1>15. CASE sdscatfmtEnd
  <2> DEFINE r == [len |-> s.len, free |-> s.free, buf |-> Write(s.buf, s.len, <<0>>)]
  <2>1. s' = r /\ call' = call
    BY Zenon, <1>0, <1>15 DEF sdscatfmtEnd, Sound
  <2>2. s.len \in 0..s.len /\ s.free = (s.len + s.free) - s.len
    BY <1>0, SoundFields
  <2>3. Text(r) = SubSeq(Text(s), 1, s.len)
    BY <1>0, <2>2, CutText
  <2> HIDE DEF r
  <2>4. SubSeq(Content, 1, Len(Content)) = Content
    BY <1>a
  <2>5. Content' = Content
    BY Zenon, <1>a, <2>1, <2>3, <2>4
  <2> QED BY <2>1, <2>5
<1>16. CASE UNCHANGED sdsVars
  <2>1. s' = s /\ call' = call
    BY <1>16 DEF sdsVars
  <2>2. Content' = Content
    BY Zenon, <1>a, <2>1
  <2> QED BY <2>1, <2>2
<1> HIDE DEF Goal
<1>17. Goal \/ <<Content, call>>' = <<Content, call>>
  BY Zenon, <1>1, <1>2, <1>3, <1>4, <1>5, <1>6, <1>7, <1>8, <1>9, <1>10, <1>11,
     <1>12, <1>13, <1>14, <1>15, <1>16 DEF SdsNext, Goal
<1> QED BY <1>17 DEF Goal

(* ImplementsValue, for every set of strings, indexes, character sets and  *)
(* maps: whatever sequence of calls sds.c is given, the bytes of the       *)
(* string change as SdsValue says, whatever spare room lies behind them.   *)
THEOREM SdsImplementsValue == SdsSpec => ImplementsValue
<1>1. SdsInit => SdsInv
  BY SdsAssumption, NewLenSound DEF SdsInit, SdsInv
<1>2. SdsInit => Value!ValueInit
  <2> SUFFICES ASSUME SdsInit PROVE Value!ValueInit
    OBVIOUS
  <2>1. PICK t \in Strings : s = NewLen(t) /\ call = <<"sdsnewlen", t>>
    BY DEF SdsInit
  <2>2. Content = t
    BY <2>1, SdsAssumption, NewLenText DEF Content, Text
  <2> QED BY Zenon, <2>1, <2>2 DEF Value!ValueInit
<1>3. SdsInv /\ [SdsNext]_sdsVars => [Value!ValueNext]_<<Content, call>>
  BY Zenon, SdsStepIsValueStep
<1> QED BY <1>1, <1>2, <1>3, SdsStep, PTL DEF SdsSpec, ImplementsValue, Value!ValueSpec
=============================================================================
