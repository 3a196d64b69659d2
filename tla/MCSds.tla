------------------------------- MODULE MCSds --------------------------------
(* The string library: unit says whether a behaviour is one of a string    *)
(* under the calls of Sds or an enumeration of inputs to the algorithms.   *)
(* Sds runs with the bytes NUL, 1 and 2, and strings short enough for both *)
(* ways of growing, by doubling and by SDS_MAX_PREALLOC, to happen.        *)
EXTENDS Sds, MCAlgorithms

SmallStrings == UNION {[1..k -> Bytes] : k \in 0..1} \cup {<<1, 0>>, <<2, 1>>}
SmallCharSets == {{1}}
SmallIndexes == -3..2
SmallMaps == {[b \in Bytes |-> IF b = 2 THEN 1 ELSE b]}

VARIABLE unit

StringsInit ==
    /\ SdsInit /\ AlgorithmsInit
    /\ unit = "sds" \/ (unit = "algorithms" /\ s.len = 0)

StringsNext ==
    /\ UNCHANGED unit
    /\ \/ unit = "sds" /\ SdsNext /\ UNCHANGED <<text, n>>
       \/ unit = "algorithms" /\ NextText /\ UNCHANGED sdsVars
       \/ unit = "algorithms" /\ NextNumber /\ UNCHANGED sdsVars

StringsSpec == StringsInit /\ [][StringsNext]_<<sdsVars, text, n, unit>>
=============================================================================
