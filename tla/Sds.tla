-------------------------------- MODULE Sds ---------------------------------
(***************************************************************************)
(* The dynamic strings of src/redis-3.0-network/src/sds.c: the header (len *)
(* and free), the bytes allocated behind it and every function that        *)
(* changes them.  A byte the allocator handed out and nothing has written  *)
(* yet is Junk.  A write past the allocation makes the domain of buf       *)
(* larger, so an overrun is visible in the state.                          *)
(***************************************************************************)
EXTENDS Integers, Sequences

CONSTANTS Bytes,       \* byte values; 0 is the NUL byte
          Strings,     \* the byte sequences callers pass in
          CharSets,    \* the character sets callers pass to sdstrim
          Indexes,     \* the indexes callers pass to sdsrange
          Maps,        \* the byte maps of sdstolower, sdstoupper, sdsmapchars
          SDS_MAX_PREALLOC,
          MaxLen       \* bound: no call makes a string longer than this

ASSUME SdsAssumption ==
    /\ Bytes \subseteq Nat /\ 0 \in Bytes
    /\ Strings \subseteq Seq(Bytes)
    /\ Indexes \subseteq Int
    /\ Maps \subseteq [Bytes -> Bytes]
    /\ SDS_MAX_PREALLOC \in Nat \ {0} /\ MaxLen \in Nat

VARIABLES s,           \* struct sdshdr: len, free and buf (0-based)
          fmt,         \* sdscatfmt is at work: buf has no terminator yet
          call         \* the last call and its argument (history)

sdsVars == <<s, fmt, call>>

Junk == -1

\* realloc of a buffer to n bytes and the one for the terminator.
Realloc(buf, n) == [i \in 0..n |-> IF i \in DOMAIN buf THEN buf[i] ELSE Junk]

\* memcpy of t to position at.
Write(buf, at, t) ==
    [i \in DOMAIN buf \cup at..(at + Len(t) - 1) |->
        IF i \in at..(at + Len(t) - 1) THEN t[i - at + 1] ELSE buf[i]]

\* memmove of n bytes from position at to the front, then the terminator.
MoveDown(buf, at, n) ==
    [i \in DOMAIN buf \cup {n} |->
        IF i < n THEN buf[i + at] ELSE IF i = n THEN 0 ELSE buf[i]]

Terminated(t) == t \o <<0>>

NewLen(t) == [len |-> Len(t), free |-> 0, buf |-> Write(<< >>, 0, Terminated(t))]

\* Mutant: free counts the bytes in use as well.
MakeRoomForAllFree(h, addlen) ==
    LET need   == h.len + addlen
        newlen == IF need < SDS_MAX_PREALLOC THEN 2 * need
                                             ELSE need + SDS_MAX_PREALLOC
    IN  IF h.free >= addlen THEN h
        ELSE [len |-> h.len, free |-> newlen, buf |-> Realloc(h.buf, newlen)]

MakeRoomFor(h, addlen) ==
    LET need   == h.len + addlen
        newlen == IF need < SDS_MAX_PREALLOC THEN 2 * need
                                             ELSE need + SDS_MAX_PREALLOC
    IN  IF h.free >= addlen THEN h
        ELSE [len |-> h.len, free |-> newlen - h.len, buf |-> Realloc(h.buf, newlen)]

CatLen(h, t) ==
    LET r == MakeRoomFor(h, Len(t))
    IN  [len |-> h.len + Len(t), free |-> r.free - Len(t),
         buf |-> Write(r.buf, h.len, Terminated(t))]

CpyLen(h, t) ==
    LET r == IF h.free + h.len < Len(t) THEN MakeRoomFor(h, Len(t) - h.len) ELSE h
    IN  [len |-> Len(t), free |-> (r.free + r.len) - Len(t),
         buf |-> Write(r.buf, 0, Terminated(t))]

GrowZero(h, n) ==
    LET r == MakeRoomFor(h, n - h.len)
    IN  IF n <= h.len THEN h
        ELSE [len |-> n, free |-> (r.len + r.free) - n,
              buf |-> Write(r.buf, h.len, [i \in 1..(n - h.len + 1) |-> 0])]

\* strlen: the position of the first NUL in the allocation.
StrLen(buf) == CHOOSE i \in DOMAIN buf : buf[i] = 0 /\ \A j \in 0..(i - 1) : buf[j] # 0

UpdateLen(h) ==
    [len |-> StrLen(h.buf), free |-> h.free + (h.len - StrLen(h.buf)), buf |-> h.buf]

Clear(h) == [len |-> 0, free |-> h.free + h.len, buf |-> Write(h.buf, 0, <<0>>)]

RemoveFreeSpace(h) == [len |-> h.len, free |-> 0, buf |-> Realloc(h.buf, h.len)]

IncrLen(h, incr) ==
    [len |-> h.len + incr, free |-> h.free - incr,
     buf |-> Write(h.buf, h.len + incr, <<0>>)]

\* Both sdstrim and sdsrange end by moving newlen bytes down.
Shrink(h, at, newlen) ==
    [len |-> newlen, free |-> h.free + (h.len - newlen),
     buf |-> MoveDown(h.buf, at, newlen)]

\* strchr(cset, b): the terminator of cset counts as one of its characters.
StrChr(cset, b) == b \in cset \cup {0}

\* sp stops at the first byte to keep or one past the end; ep stops at the
\* last byte to keep but never goes below the first byte.
Trim(h, cset) ==
    LET sp == CHOOSE i \in 0..h.len :
                  /\ i < h.len => ~StrChr(cset, h.buf[i])
                  /\ \A j \in 0..(i - 1) : StrChr(cset, h.buf[j])
        ep == IF h.len = 0 THEN -1
              ELSE CHOOSE i \in 0..(h.len - 1) :
                  /\ i > 0 => ~StrChr(cset, h.buf[i])
                  /\ \A j \in (i + 1)..(h.len - 1) : StrChr(cset, h.buf[j])
    IN  Shrink(h, sp, IF sp > ep THEN 0 ELSE (ep - sp) + 1)

FromEnd(len, k) == IF k >= 0 THEN k ELSE IF len + k < 0 THEN 0 ELSE len + k

\* Mutant: an end past the string is clamped one byte too low.
SdsRangeClampedLow(h, from, to) ==
    LET start  == FromEnd(h.len, from)
        end    == FromEnd(h.len, to)
        Count(last) == IF start > last THEN 0 ELSE (last - start) + 1
        newlen == IF Count(end) = 0 \/ start >= h.len THEN 0
                  ELSE IF end >= h.len THEN Count(h.len - 2) ELSE Count(end)
    IN  IF h.len = 0 THEN h ELSE Shrink(h, IF newlen = 0 THEN 0 ELSE start, newlen)

SdsRange(h, from, to) ==
    LET start  == FromEnd(h.len, from)
        end    == FromEnd(h.len, to)
        Count(last) == IF start > last THEN 0 ELSE (last - start) + 1
        newlen == IF Count(end) = 0 \/ start >= h.len THEN 0
                  ELSE IF end >= h.len THEN Count(h.len - 1) ELSE Count(end)
    IN  IF h.len = 0 THEN h ELSE Shrink(h, IF newlen = 0 THEN 0 ELSE start, newlen)

MapChars(h, m) ==
    [len |-> h.len, free |-> h.free,
     buf |-> [i \in DOMAIN h.buf |-> IF i < h.len THEN m[h.buf[i]] ELSE h.buf[i]]]

\* sdscatfmt makes room for one byte, then for the text, and writes the text
\* where the string ends; the terminator comes after the last directive.
FmtPut(h, t) ==
    LET r == MakeRoomFor(MakeRoomFor(h, 1), Len(t))
    IN  [len |-> r.len + Len(t), free |-> r.free - Len(t), buf |-> Write(r.buf, r.len, t)]
-----------------------------------------------------------------------------
SdsInit == \E t \in Strings : s = NewLen(t) /\ fmt = FALSE /\ call = <<"sdsnewlen", t>>

Calls(op, arg, result) ==
    /\ fmt = FALSE /\ fmt' = FALSE
    /\ result.len <= MaxLen
    /\ s' = result /\ call' = <<op, arg>>

sdscatlen(t) == Calls("sdscatlen", t, CatLen(s, t))

sdscpylen(t) == Calls("sdscpylen", t, CpyLen(s, t))

\* The formatted text is a C string: what follows a NUL in it is dropped.
sdscatprintf(t) ==
    Calls("sdscatprintf", t, CatLen(s, SubSeq(t, 1, StrLen(NewLen(t).buf))))

sdsgrowzero(n) == Calls("sdsgrowzero", n, GrowZero(s, n))

sdsMakeRoomFor(n) == Calls("sdsMakeRoomFor", n, MakeRoomFor(s, n))

\* The caller has read t straight into the spare room, as the comment on
\* sdsIncrLen shows; the assertion demands that it fits.
sdsIncrLen(t) ==
    /\ s.free >= Len(t)
    /\ Calls("sdsIncrLen", t, IncrLen([s EXCEPT !.buf = Write(@, s.len, t)], Len(t)))

\* A negative increment trims the string on the right.
sdsDecrLen(n) == n <= s.len /\ Calls("sdsDecrLen", n, IncrLen(s, -n))

sdsrange(r) == Calls("sdsrange", r, SdsRange(s, r[1], r[2]))

sdstrim(cset) == Calls("sdstrim", cset, Trim(s, cset))

sdsmapchars(m) == Calls("sdsmapchars", m, MapChars(s, m))

sdsclear == Calls("sdsclear", 0, Clear(s))

sdsupdatelen == Calls("sdsupdatelen", 0, UpdateLen(s))

sdsRemoveFreeSpace == Calls("sdsRemoveFreeSpace", 0, RemoveFreeSpace(s))

\* One directive of sdscatfmt, or one literal byte of its format.
sdscatfmt(t) ==
    /\ s.len + Len(t) <= MaxLen
    /\ s' = FmtPut(s, t) /\ fmt' = TRUE
    /\ call' = <<"sdscatfmt", t>>

sdscatfmtEnd ==
    /\ fmt
    /\ s' = [s EXCEPT !.buf = Write(@, s.len, <<0>>)] /\ fmt' = FALSE
    /\ UNCHANGED call

SdsNext ==
    \/ \E t \in Strings : \/ sdscatlen(t) \/ sdscpylen(t) \/ sdscatprintf(t)
                          \/ sdsIncrLen(t) \/ sdscatfmt(t)
    \/ \E n \in 0..MaxLen : sdsgrowzero(n) \/ sdsMakeRoomFor(n) \/ sdsDecrLen(n)
    \/ \E r \in Indexes \X Indexes : sdsrange(r)
    \/ \E cset \in CharSets : sdstrim(cset)
    \/ \E m \in Maps : sdsmapchars(m)
    \/ sdsclear \/ sdsupdatelen \/ sdsRemoveFreeSpace \/ sdscatfmtEnd

SdsSpec == SdsInit /\ [][SdsNext]_sdsVars
-----------------------------------------------------------------------------
\* The header tells the truth about the allocation: len and free are not
\* negative and buf is exactly len + free + 1 bytes, so that no call has
\* written past it; every byte of the string has been written, and a NUL
\* follows it whenever no sdscatfmt is at work ("all the sds strings are,
\* always" null-terminated, sds.c:58).
HeaderIsTrue ==
    /\ s.len \in Nat /\ s.free \in Nat
    /\ DOMAIN s.buf = 0..(s.len + s.free)
    /\ \A i \in 0..(s.len - 1) : s.buf[i] \in Bytes
    /\ ~fmt => s.buf[s.len] = 0

\* The bytes the header says are the string.
Content == [i \in 1..s.len |-> s.buf[i - 1]]

Value == INSTANCE SdsValue WITH value <- Content

\* Every call does to the bytes of the string what SdsValue says it does,
\* whatever spare room, old bytes and terminator lie around them.
ImplementsValue == Value!ValueSpec
=============================================================================
