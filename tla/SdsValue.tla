------------------------------ MODULE SdsValue ------------------------------
(***************************************************************************)
(* What the callers of sds.c rely on: an sds is a sequence of bytes, and   *)
(* every function of the library is an operation on that sequence.  No     *)
(* header, no spare room, no terminator.  Sds implements this module.      *)
(***************************************************************************)
EXTENDS Integers, Sequences

CONSTANTS Strings,     \* the byte sequences callers pass in
          CharSets,    \* the character sets callers pass to sdstrim
          Indexes,     \* the indexes callers pass to sdsrange
          Maps,        \* the byte maps of sdstolower, sdstoupper, sdsmapchars
          MaxLen       \* bound: no call makes a string longer than this

VARIABLES value,       \* the bytes of the string
          call         \* the last call and its argument

ValueInit == value \in Strings /\ call = <<"sdsnewlen", value>>

\* The bytes before the first NUL: what strlen sees.
CString(v) ==
    LET nuls == {i \in 1..Len(v) : v[i] = 0}
    IN  IF nuls = {} THEN v
        ELSE SubSeq(v, 1, (CHOOSE i \in nuls : \A j \in nuls : i <= j) - 1)

\* What lies between the first and the last byte that is neither in cset nor
\* NUL: strchr finds the NUL byte in every set.
Trimmed(v, cset) ==
    LET kept == {i \in 1..Len(v) : v[i] \notin cset \cup {0}}
    IN  IF kept = {} THEN << >>
        ELSE SubSeq(v, CHOOSE i \in kept : \A j \in kept : i <= j,
                       CHOOSE i \in kept : \A j \in kept : j <= i)

\* A negative index counts from the end; one before the first byte names it.
Position(v, k) ==
    IF k >= 0 THEN k ELSE IF Len(v) + k < 0 THEN 0 ELSE Len(v) + k

\* The bytes whose 0-based position lies between two inclusive indexes.
Between(v, start, end) ==
    LET last == IF Position(v, end) < Len(v) THEN Position(v, end) ELSE Len(v) - 1
    IN  SubSeq(v, Position(v, start) + 1, last + 1)

Zeros(n) == [i \in 1..n |-> 0]

Means(op, arg, result) == call' = <<op, arg>> /\ value' = result

ValueNext ==
    \/ \E t \in Strings : \/ Means("sdscatlen", t, value \o t)
                          \/ Means("sdscatprintf", t, value \o CString(t))
                          \/ Means("sdscatfmt", t, value \o t)
                          \/ Means("sdscpylen", t, t)
                          \/ Means("sdsIncrLen", t, value \o t)
    \/ \E n \in 0..MaxLen : \/ Means("sdsgrowzero", n, value \o Zeros(n - Len(value)))
                            \/ Means("sdsMakeRoomFor", n, value)
                            \/ Means("sdsDecrLen", n, SubSeq(value, 1, Len(value) - n))
    \/ \E r \in Indexes \X Indexes : Means("sdsrange", r, Between(value, r[1], r[2]))
    \/ \E cset \in CharSets : Means("sdstrim", cset, Trimmed(value, cset))
    \/ \E m \in Maps : Means("sdsmapchars", m, [i \in 1..Len(value) |-> m[value[i]]])
    \/ Means("sdsclear", 0, << >>)
    \/ Means("sdsupdatelen", 0, CString(value))
    \/ Means("sdsRemoveFreeSpace", 0, value)

ValueSpec == ValueInit /\ [][ValueNext]_<<value, call>>
=============================================================================
