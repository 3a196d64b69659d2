------------------------------ MODULE AeProofs ------------------------------
(***************************************************************************)
(* The event loop of ae.c, for any clock, delays, tables, descriptors and  *)
(* handlers.                                                               *)
(*                                                                         *)
(* No time event handler runs early or in the pass that created its event, *)
(* a pass serves what was due when it began, and the sleep is right. The   *)
(* table of file events agrees with the kernel, no handler is called for   *)
(* an event that was deleted since the poll, and none that was reported is *)
(* dropped. In aeMain, where handlers of either kind change both, all of   *)
(* this still holds.                                                       *)
(***************************************************************************)
EXTENDS AeLoop, TLAPS

-----------------------------------------------------------------------------
(* A product with a natural number grows with its other factor.            *)
LEMMA ProductGrows ==
  ASSUME NEW a \in Nat, NEW b \in Nat, a <= b, NEW m \in Nat
  PROVE  a * m <= b * m
<1>1. (b - a) \in Nat /\ (b - a) * m >= 0
  OBVIOUS
<1>2. b * m = a * m + (b - a) * m
  OBVIOUS
<1> QED BY <1>1, <1>2

(* The quotient and the remainder of the seconds and milliseconds.         *)
LEMMA DivMod ==
  ASSUME NEW d \in Nat, NEW m \in Nat \ {0}
  PROVE  /\ d \div m \in Nat /\ d % m \in 0..(m - 1)
         /\ d = (d \div m) * m + (d % m)
<1>1. d \div m \in Int /\ d % m \in 0..(m - 1)
  OBVIOUS
<1>2. d = (d \div m) * m + (d % m)
  OBVIOUS
<1>3. d \div m >= 0
  OBVIOUS
<1> QED BY <1>1, <1>2, <1>3

(* A pair of seconds and milliseconds is as early as the number of         *)
(* milliseconds it stands for.                                             *)
LEMMA LexicographicIsTotal ==
  ASSUME NEW s \in Nat, NEW m \in 0..(MsPerSec - 1),
         NEW t \in Nat, NEW n \in 0..(MsPerSec - 1)
  PROVE  /\ (s < t \/ (s = t /\ m < n)) <=> s * MsPerSec + m < t * MsPerSec + n
         /\ s * MsPerSec + m \in Nat
<1>1. MsPerSec \in Nat
  BY MsPerSecAssumption
<1>2. s * MsPerSec \in Nat /\ t * MsPerSec \in Nat
  BY <1>1
<1>3. ASSUME s < t PROVE s * MsPerSec + MsPerSec <= t * MsPerSec
  <2>1. (s + 1) * MsPerSec <= t * MsPerSec
    BY <1>1, <1>3, ProductGrows
  <2>2. (s + 1) * MsPerSec = s * MsPerSec + MsPerSec
    BY <1>1
  <2> QED BY <2>1, <2>2
<1>4. ASSUME t < s PROVE t * MsPerSec + MsPerSec <= s * MsPerSec
  <2>1. (t + 1) * MsPerSec <= s * MsPerSec
    BY <1>1, <1>4, ProductGrows
  <2>2. (t + 1) * MsPerSec = t * MsPerSec + MsPerSec
    BY <1>1
  <2> QED BY <2>1, <2>2
<1>5. CASE s < t
  BY <1>1, <1>2, <1>3, <1>5
<1>6. CASE t < s
  BY <1>1, <1>2, <1>4, <1>6
<1>7. CASE s = t
  BY <1>1, <1>2, <1>7
<1> QED BY <1>5, <1>6, <1>7

-----------------------------------------------------------------------------
Moments == [sec : Nat, ms : 0..(MsPerSec - 1)]
Events == [id : Nat, sec : Nat, ms : 0..(MsPerSec - 1), due : Nat]

TimeTypes ==
  /\ now \in Moments /\ now.sec > 0
  /\ timers \in Seq(Events)
  /\ nextId \in Nat /\ lastTime \in Nat
  /\ tpc \in {"idle", "scan", "call"}
  /\ te \in Nat \ {0} /\ cur \in Int /\ maxId \in Int /\ owed \subseteq Nat
  /\ bornFrom \in Nat

(* Comparing an event or the clock with another is comparing milliseconds. *)
LEMMA EarlierIsTotal ==
  ASSUME NEW a \in Moments \cup Events, NEW b \in Moments \cup Events
  PROVE  /\ Earlier(a, b) <=> TotalMs(a) < TotalMs(b)
         /\ TotalMs(a) \in Nat
<1>1. /\ a.sec \in Nat /\ a.ms \in 0..(MsPerSec - 1)
      /\ b.sec \in Nat /\ b.ms \in 0..(MsPerSec - 1)
  BY DEF Moments, Events
<1> QED BY SMTT(30), <1>1, LexicographicIsTotal DEF Earlier, TotalMs

(* An event is armed for the present time plus the delay: the carry into   *)
(* the seconds loses nothing.                                              *)
LEMMA ArmedRight ==
  ASSUME now \in Moments, NEW id \in Nat, NEW d \in Nat
  PROVE  /\ Armed(id, d) \in Events /\ Armed(id, d).id = id
         /\ Armed(id, d).due = TotalMs(Armed(id, d))
<1> DEFINE q == d \div MsPerSec
           r == d % MsPerSec
           sum == now.ms + r
<1>1. MsPerSec \in Nat /\ MsPerSec > 0
  BY MsPerSecAssumption
<1>2. q \in Nat /\ r \in 0..(MsPerSec - 1) /\ d = q * MsPerSec + r
  BY Zenon, DivMod, MsPerSecAssumption
<1>3. now.sec \in Nat /\ now.ms \in 0..(MsPerSec - 1)
  BY DEF Moments
<1> HIDE DEF q, r
<1>4. TotalMs(now) + d = (now.sec + q) * MsPerSec + sum
  <2>1. (now.sec + q) * MsPerSec = now.sec * MsPerSec + q * MsPerSec
    BY <1>1, <1>2, <1>3
  <2>2. now.sec * MsPerSec \in Nat /\ q * MsPerSec \in Nat
    BY <1>1, <1>2, <1>3
  <2> QED BY <1>1, <1>2, <1>3, <2>1, <2>2 DEF TotalMs
<1>5. ((now.sec + q) + 1) * MsPerSec = (now.sec + q) * MsPerSec + MsPerSec
  BY <1>1, <1>2, <1>3
<1>6. (now.sec + q) * MsPerSec \in Nat /\ sum \in Nat
  BY <1>1, <1>2, <1>3
<1>7. CASE sum >= MsPerSec
  <2>1. Armed(id, d) = [id |-> id, sec |-> now.sec + q + 1, ms |-> sum - MsPerSec,
                        due |-> TotalMs(now) + d]
    BY <1>7 DEF Armed, aeAddMillisecondsToNow, q, r
  <2>2. TotalMs(now) + d = (now.sec + q + 1) * MsPerSec + (sum - MsPerSec)
    BY <1>1, <1>4, <1>5, <1>6
  <2>3. sum - MsPerSec \in 0..(MsPerSec - 1) /\ now.sec + q + 1 \in Nat
    BY <1>1, <1>2, <1>3, <1>7
  <2>4. TotalMs(now) + d \in Nat
    BY <1>4, <1>6
  <2> QED BY <2>1, <2>2, <2>3, <2>4 DEF Events, TotalMs
<1>8. CASE ~(sum >= MsPerSec)
  <2>1. Armed(id, d) = [id |-> id, sec |-> now.sec + q, ms |-> sum,
                        due |-> TotalMs(now) + d]
    BY <1>8 DEF Armed, aeAddMillisecondsToNow, q, r
  <2>2. sum \in 0..(MsPerSec - 1) /\ now.sec + q \in Nat
    BY <1>1, <1>2, <1>3, <1>8
  <2>3. TotalMs(now) + d \in Nat
    BY <1>4, <1>6
  <2> QED BY <1>4, <2>1, <2>2, <2>3 DEF Events, TotalMs
<1> QED BY <1>7, <1>8

-----------------------------------------------------------------------------
(* What Unlink leaves of a list.                                         *)
LEMMA UnlinkElements ==
  ASSUME NEW S, NEW list \in Seq(S), NEW k \in 1..Len(list)
  PROVE  /\ Unlink(list, k) \in Seq(S)
         /\ Len(Unlink(list, k)) = Len(list) - 1
         /\ \A i \in 1..(Len(list) - 1) :
              Unlink(list, k)[i] = IF i < k THEN list[i] ELSE list[i + 1]
<1> DEFINE front == SubSeq(list, 1, k - 1)
           back == SubSeq(list, k + 1, Len(list))
<1>1. front \in Seq(S) /\ Len(front) = k - 1 /\ \A i \in 1..(k - 1) : front[i] = list[i]
  OBVIOUS
<1>2. /\ back \in Seq(S) /\ Len(back) = Len(list) - k
      /\ \A i \in 1..(Len(list) - k) : back[i] = list[k + i]
  OBVIOUS
<1>3. Unlink(list, k) = front \o back
  BY DEF Unlink
<1> HIDE DEF front, back
<1>4. front \o back \in Seq(S) /\ Len(front \o back) = Len(list) - 1
  BY <1>1, <1>2
<1>5. ASSUME NEW i \in 1..(Len(list) - 1)
      PROVE  (front \o back)[i] = IF i < k THEN list[i] ELSE list[i + 1]
  <2>1. CASE i < k
    <3>1. i \in 1..(k - 1)
      BY <2>1
    <3>2. (front \o back)[i] = front[i]
      BY <1>1, <1>2, <3>1
    <3> QED BY <1>1, <2>1, <3>1, <3>2
  <2>2. CASE ~(i < k)
    <3>1. (front \o back)[i] = back[i - (k - 1)]
      BY SMTT(30), <1>1, <1>2, <2>2
    <3>2. i - (k - 1) \in 1..(Len(list) - k) /\ k + (i - (k - 1)) = i + 1
      BY <2>2
    <3>3. back[i - (k - 1)] = list[k + (i - (k - 1))]
      BY <1>2, <3>2
    <3> QED BY <2>2, <3>1, <3>2, <3>3
  <2> QED BY Zenon, <2>1, <2>2
<1> QED BY Zenon, <1>3, <1>4, <1>5

(* aeDeleteTimeEvent keeps every event but the one it deletes, and adds    *)
(* none.                                                                   *)
LEMMA DeleteKeepsOthers ==
  ASSUME timers \in Seq(Events), NEW id, aeDeleteTimeEvent(id)
  PROVE  /\ timers' \in Seq(Events)
         /\ \A h \in DOMAIN timers' : \E i \in DOMAIN timers : timers'[h] = timers[i]
         /\ \A i \in DOMAIN timers : timers[i].id # id =>
              \E h \in DOMAIN timers' : timers'[h] = timers[i]
<1>1. PICK k \in 1..Len(timers) : timers[k].id = id /\ timers' = Unlink(timers, k)
  BY DEF aeDeleteTimeEvent
<1>2. /\ timers' \in Seq(Events) /\ Len(timers') = Len(timers) - 1
      /\ \A i \in 1..(Len(timers) - 1) :
           timers'[i] = IF i < k THEN timers[i] ELSE timers[i + 1]
  BY Zenon, <1>1, UnlinkElements
<1>3. DOMAIN timers = 1..Len(timers) /\ DOMAIN timers' = 1..(Len(timers) - 1)
  BY <1>2
<1>4. Len(timers) \in Nat
  OBVIOUS
<1>5. ASSUME NEW h \in DOMAIN timers'
      PROVE  \E i \in DOMAIN timers : timers'[h] = timers[i]
  <2>1. h \in DOMAIN timers /\ h + 1 \in DOMAIN timers
    BY <1>3, <1>4
  <2> QED BY <1>2, <1>3, <2>1
<1>6. ASSUME NEW i \in DOMAIN timers, timers[i].id # id
      PROVE  \E h \in DOMAIN timers' : timers'[h] = timers[i]
  <2>1. i # k /\ i \in 1..Len(timers)
    BY <1>1, <1>6
  <2>2. CASE i < k
    <3>1. i \in DOMAIN timers' /\ timers'[i] = timers[i]
      BY <1>2, <1>3, <1>4, <2>1, <2>2
    <3> QED BY <3>1
  <2>3. CASE i > k
    <3>1. i - 1 \in DOMAIN timers' /\ timers'[i - 1] = timers[(i - 1) + 1]
      BY <1>2, <1>3, <1>4, <2>1, <2>3
    <3>2. (i - 1) + 1 = i
      BY <2>1
    <3> QED BY <3>1, <3>2
  <2> QED BY <2>1, <2>2, <2>3
<1> QED BY <1>2, <1>5, <1>6

(* aeCreateTimeEvent keeps every event, one place further back, in front   *)
(* of them the new one.                                                    *)
LEMMA CreateKeepsAll ==
  ASSUME timers \in Seq(Events), now \in Moments, nextId \in Nat,
         NEW d \in Nat, aeCreateTimeEvent(d)
  PROVE  /\ timers' \in Seq(Events) /\ nextId' = nextId + 1
         /\ Len(timers') = Len(timers) + 1 /\ timers'[1] = Armed(nextId, d)
         /\ \A i \in 1..Len(timers) : timers'[i + 1] = timers[i]
<1>1. Armed(nextId, d) \in Events
  BY ArmedRight
<1>2. timers' = <<Armed(nextId, d)>> \o timers /\ nextId' = nextId + 1
  BY DEF aeCreateTimeEvent
<1> DEFINE a == Armed(nextId, d)
<1> HIDE DEF a
<1>3. ASSUME NEW i \in 1..Len(timers) PROVE (<<a>> \o timers)[i + 1] = timers[i]
  OBVIOUS
<1>4. <<a>> \o timers \in Seq(Events) /\ Len(<<a>> \o timers) = Len(timers) + 1
      /\ (<<a>> \o timers)[1] = a
  BY <1>1 DEF a
<1> QED BY <1>2, <1>3, <1>4 DEF a

-----------------------------------------------------------------------------
(* Every event was created before now and asks to run no earlier than it   *)
(* was armed for; a pass handles the ids before the first one born in it.  *)
EventsRight ==
  \A k \in DOMAIN timers : timers[k].id < nextId /\ timers[k].due <= TotalMs(timers[k])
PassBound == tpc # "idle" => maxId = bornFrom - 1

(* An event that the pass owes a call is still in the list at or after te, *)
(* due, and old enough; in a pass that found the clock set back it is due  *)
(* whatever the clock shows.                                               *)
Waits(k, id) ==
  /\ timers[k].id = id /\ id <= maxId
  /\ Due(timers[k]) /\ (skew => timers[k].sec = 0)
  /\ tpc = "scan" => te <= k
OwedWait ==
  /\ tpc = "idle" => owed = {}
  /\ tpc = "call" => cur \notin owed
  /\ skew \/ ~setback => \A id \in owed : \E k \in DOMAIN timers : Waits(k, id)

TimeInv == TimeTypes /\ EventsRight /\ PassBound

(* The fields of an event of the list.                                     *)
LEMMA EventFields ==
  ASSUME TimeTypes, NEW k \in 1..Len(timers)
  PROVE  /\ timers[k] \in Events /\ timers[k].id \in Nat
         /\ timers[k].sec \in Nat /\ timers[k].due \in Nat
<1>1. timers[k] \in Events
  BY DEF TimeTypes
<1> QED BY <1>1 DEF Events

(* The deadline of an event that is due at once.                           *)
LEMMA ResetEvent ==
  ASSUME NEW e \in Events
  PROVE  LET r == [e EXCEPT !.sec = 0, !.due = 0]
         IN  r \in Events /\ r.id = e.id /\ r.sec = 0 /\ r.due = 0
BY Zenon DEF Events

(* The initial state: an empty list, no pass under way.                    *)
LEMMA TimeInitInv == TimeInit => TimeInv /\ OwedWait
<1> SUFFICES ASSUME TimeInit PROVE TimeInv /\ OwedWait
  OBVIOUS
<1>1. now \in Moments /\ now.sec > 0 /\ lastTime \in Nat
  BY FirstSecAssumption, LastSecAssumption DEF TimeInit, Moments
<1>2. TimeTypes
  BY <1>1 DEF TimeInit, TimeTypes
<1>3. EventsRight /\ PassBound /\ OwedWait
  BY DEF TimeInit, EventsRight, PassBound, OwedWait
<1> QED BY <1>2, <1>3 DEF TimeInv

(* What the list holds after a pass has begun: the same events, all of     *)
(* them with second 0 if the clock was set back.                           *)
LEMMA ResetKeeps ==
  ASSUME TimeTypes
  PROVE  /\ ResetDeadlines(timers) \in Seq(Events)
         /\ Len(ResetDeadlines(timers)) = Len(timers)
         /\ \A k \in 1..Len(timers) :
              /\ ResetDeadlines(timers)[k].id = timers[k].id
              /\ ResetDeadlines(timers)[k].sec = 0 /\ ResetDeadlines(timers)[k].due = 0
<1> DEFINE R == ResetDeadlines(timers)
           E(k) == [timers[k] EXCEPT !.sec = 0, !.due = 0]
<1>1. DOMAIN timers = 1..Len(timers) /\ Len(timers) \in Nat
  BY DEF TimeTypes
<1>2. ASSUME NEW k \in 1..Len(timers)
      PROVE  E(k) \in Events /\ E(k).id = timers[k].id /\ E(k).sec = 0 /\ E(k).due = 0
  BY Zenon, EventFields, ResetEvent
<1>3. R = [k \in 1..Len(timers) |-> E(k)]
  BY <1>1 DEF ResetDeadlines
<1> HIDE DEF R, E
<1>4. R \in Seq(Events) /\ Len(R) = Len(timers)
  BY <1>1, <1>2, <1>3
<1>5. \A k \in 1..Len(timers) : R[k] = E(k)
  BY <1>3
<1> QED BY <1>2, <1>4, <1>5 DEF R

(* The list of a pass that has just begun.                                 *)
LEMMA BeginPassList ==
  ASSUME TimeTypes, BeginPass
  PROVE  /\ timers' \in Seq(Events) /\ Len(timers') = Len(timers)
         /\ \A k \in 1..Len(timers) :
              /\ timers'[k].id = timers[k].id
              /\ \/ skew' /\ timers'[k].sec = 0 /\ timers'[k].due = 0
                 \/ ~skew' /\ timers'[k] = timers[k]
<1>1. CASE skew'
  BY <1>1, ResetKeeps DEF BeginPass
<1>2. CASE ~skew'
  BY <1>2 DEF BeginPass, TimeTypes
<1> QED BY <1>1, <1>2

(* Every step keeps the types and the facts about single events.           *)
LEMMA TimeInvStep == TimeInv /\ [TimeNext]_timeVars => TimeInv'
<1> SUFFICES ASSUME TimeInv, [TimeNext]_timeVars PROVE TimeInv'
  OBVIOUS
<1>0. TimeTypes /\ EventsRight /\ PassBound /\ DOMAIN timers = 1..Len(timers)
  BY DEF TimeInv, TimeTypes
<1>1. CASE BeginPass
  <2>1. TimeTypes'
    <3>1. owed' \subseteq Nat
      <4>1. \A k \in DOMAIN timers : timers[k].id \in Nat
        BY <1>0, EventFields
      <4> QED BY <1>1, <4>1 DEF BeginPass
    <3>2. now' = now /\ lastTime' = now.sec /\ nextId' = nextId /\ cur' = cur
          /\ te' = 1 /\ tpc' = "scan" /\ maxId' = nextId - 1 /\ bornFrom' = nextId
      BY <1>1 DEF BeginPass
    <3>3. timers' \in Seq(Events)
      BY <1>0, <1>1, BeginPassList
    <3> QED BY <1>0, <3>1, <3>2, <3>3 DEF TimeTypes, Moments
  <2>2. EventsRight'
    <3>0. DOMAIN timers' = 1..Len(timers) /\ nextId' = nextId
      <4>1. timers' \in Seq(Events) /\ Len(timers') = Len(timers)
        BY <1>0, <1>1, BeginPassList
      <4>2. DOMAIN timers' = 1..Len(timers')
        BY <4>1
      <4>3. nextId' = nextId
        BY <1>1 DEF BeginPass
      <4> QED BY <4>1, <4>2, <4>3
    <3> SUFFICES ASSUME NEW k \in 1..Len(timers)
                 PROVE  timers'[k].id < nextId /\ timers'[k].due <= TotalMs(timers'[k])
      BY <3>0 DEF EventsRight
    <3>1. timers'[k] \in Events
      BY <1>0, <1>1, BeginPassList
    <3>2. TotalMs(timers'[k]) \in Nat
      BY <3>1, EarlierIsTotal
    <3>3. timers[k].id < nextId /\ timers[k].due <= TotalMs(timers[k])
      BY <1>0 DEF EventsRight
    <3> QED BY <1>0, <1>1, <3>2, <3>3, BeginPassList
  <2>3. PassBound'
    BY <1>1 DEF BeginPass, PassBound
  <2> QED BY <2>1, <2>2, <2>3 DEF TimeInv
<1>2. CASE SkipEvent
  BY <1>0, <1>2 DEF SkipEvent, TimeInv, TimeTypes, EventsRight, PassBound
<1>3. CASE CallTimeProc
  <2>1. timers[te].id \in Int
    <3>1. te \in 1..Len(timers)
      BY <1>0, <1>3 DEF TimeTypes, CallTimeProc
    <3> QED BY <1>0, <3>1, EventFields
  <2>2. TimeTypes'
    BY Zenon, <1>0, <1>3, <2>1 DEF CallTimeProc, TimeTypes
  <2> QED BY <1>0, <1>3, <2>2 DEF CallTimeProc, TimeInv, EventsRight, PassBound
<1>4. CASE EndPass
  BY <1>0, <1>4 DEF EndPass, TimeInv, TimeTypes, EventsRight, PassBound
<1>5. ASSUME NEW id, aeDeleteTimeEvent(id), nextId' = nextId PROVE EventsRight'
  <2> SUFFICES ASSUME NEW h \in DOMAIN timers'
               PROVE  timers'[h].id < nextId /\ timers'[h].due <= TotalMs(timers'[h])
    BY <1>5 DEF EventsRight
  <2>1. PICK i \in DOMAIN timers : timers'[h] = timers[i]
    BY <1>0, <1>5, DeleteKeepsOthers DEF TimeTypes
  <2> QED BY <1>0, <2>1 DEF EventsRight
<1>6. CASE ReturnNoMore
  <2>1. te' = 1 /\ tpc' = "scan" /\ cur' = -1
        /\ UNCHANGED <<now, nextId, lastTime, maxId, owed, bornFrom>> /\ tpc = "call"
    BY <1>6 DEF ReturnNoMore
  <2>2. CASE aeDeleteTimeEvent(cur)
    <3>1. timers' \in Seq(Events) /\ EventsRight'
      BY <1>0, <1>5, <2>1, <2>2, DeleteKeepsOthers DEF TimeTypes
    <3> QED BY <1>0, <2>1, <3>1 DEF TimeInv, TimeTypes, PassBound
  <2>3. CASE UNCHANGED timers
    BY <1>0, <2>1, <2>3 DEF TimeInv, TimeTypes, PassBound, EventsRight
  <2> QED BY <1>6, <2>2, <2>3 DEF ReturnNoMore
<1>7. ASSUME NEW d \in Delays, ReturnAgain(d) PROVE TimeInv'
  <2>1. te' = 1 /\ tpc' = "scan" /\ cur' = -1
        /\ UNCHANGED <<now, nextId, lastTime, maxId, owed, bornFrom>> /\ tpc = "call"
    BY <1>7 DEF ReturnAgain
  <2>2. PICK c \in DOMAIN timers : timers[c].id = cur
    BY <1>7 DEF ReturnAgain, Ids
  <2>3. cur \in Nat /\ cur < nextId
    <3>1. timers[c].id \in Nat /\ timers[c].id < nextId
      BY <1>0, EventFields DEF EventsRight
    <3> QED BY <2>2, <3>1
  <2>4. d \in Nat /\ now \in Moments
    BY <1>0, DelaysAssumption DEF TimeTypes
  <2> DEFINE a == Armed(cur, d)
  <2>5. a \in Events /\ a.id = cur /\ a.due = TotalMs(a)
    BY <2>3, <2>4, ArmedRight
  <2>6. TotalMs(a) \in Nat
    BY <2>5, EarlierIsTotal
  <2>7. timers' = [k \in 1..Len(timers) |-> IF timers[k].id = cur THEN a ELSE timers[k]]
    BY <1>0, <1>7 DEF ReturnAgain
  <2> HIDE DEF a
  <2>8. timers' \in Seq(Events)
    BY <1>0, <2>5, <2>7 DEF TimeTypes
  <2>9. EventsRight'
    BY <1>0, <2>1, <2>3, <2>5, <2>6, <2>7 DEF EventsRight
  <2> QED BY <1>0, <2>1, <2>8, <2>9 DEF TimeInv, TimeTypes, PassBound
<1>8. CASE TimerCall
  <2>1. UNCHANGED <<now, lastTime, tpc, te, cur, maxId, bornFrom>>
    BY <1>8 DEF TimerCall
  <2>2. ASSUME NEW d \in Delays, aeCreateTimeEvent(d), UNCHANGED owed PROVE TimeInv'
    <3>1. d \in Nat /\ now \in Moments /\ nextId \in Nat /\ timers \in Seq(Events)
      BY <1>0, DelaysAssumption DEF TimeTypes
    <3> DEFINE a == Armed(nextId, d)
    <3>2. a \in Events /\ a.id = nextId /\ a.due = TotalMs(a) /\ TotalMs(a) \in Nat
      BY Zenon, <3>1, ArmedRight, EarlierIsTotal
    <3>3. /\ timers' \in Seq(Events) /\ nextId' = nextId + 1
          /\ Len(timers') = Len(timers) + 1 /\ timers'[1] = a
          /\ \A i \in 1..Len(timers) : timers'[i + 1] = timers[i]
      BY <2>2, <3>1, CreateKeepsAll
    <3> HIDE DEF a
    <3>4. ASSUME NEW k \in DOMAIN timers'
          PROVE  timers'[k].id < nextId' /\ timers'[k].due <= TotalMs(timers'[k])
      <4>1. CASE k = 1
        BY <3>1, <3>2, <3>3, <4>1
      <4>2. CASE k # 1
        <5>1. k - 1 \in DOMAIN timers /\ (k - 1) + 1 = k
          BY <1>0, <3>3, <4>2
        <5>2. timers'[k] = timers[k - 1]
          BY <1>0, <3>3, <5>1
        <5>3. timers[k - 1].id \in Nat
          BY <1>0, <5>1, EventFields
        <5> QED BY <1>0, <3>1, <3>3, <5>1, <5>2, <5>3 DEF EventsRight
      <4> QED BY <4>1, <4>2
    <3>5. EventsRight'
      BY <3>4 DEF EventsRight
    <3> QED BY <1>0, <2>1, <2>2, <3>1, <3>3, <3>5 DEF TimeInv, TimeTypes, PassBound
  <2>3. ASSUME NEW id \in Ids, aeDeleteTimeEvent(id), owed' = owed \ {id}, UNCHANGED nextId
        PROVE  TimeInv'
    <3>1. timers' \in Seq(Events) /\ EventsRight'
      BY <1>0, <1>5, <2>3, DeleteKeepsOthers DEF TimeTypes
    <3> QED BY Zenon, <1>0, <2>1, <2>3, <3>1 DEF TimeInv, TimeTypes, PassBound
  <2> QED BY <1>8, <2>2, <2>3 DEF TimerCall
<1>9. CASE ClockMoves
  <2>1. now' \in Moments /\ now'.sec > 0
    BY <1>9, FirstSecAssumption, LastSecAssumption DEF ClockMoves, Moments
  <2> QED BY <1>0, <1>9, <2>1 DEF ClockMoves, TimeInv, TimeTypes, PassBound, EventsRight
<1>10. CASE UNCHANGED timeVars
  BY <1>0, <1>10 DEF timeVars, TimeInv, TimeTypes, PassBound, EventsRight
<1> QED BY <1>1, <1>2, <1>3, <1>4, <1>6, <1>7, <1>8, <1>9, <1>10 DEF TimeNext, ProcessStep

-----------------------------------------------------------------------------
(* An event that waited still waits in its new place if neither it nor the *)
(* clock nor the pass has changed, and the scan has not gone beyond it.    *)
LEMMA StillWaits ==
  ASSUME NEW k, NEW h, NEW id, Waits(k, id), timers'[h] = timers[k],
         UNCHANGED <<now, maxId, skew>>, tpc' = "scan" => te' <= h
  PROVE  Waits(h, id)'
BY Zenon DEF Waits, Due, Earlier

(* In a pass that found the clock set back its events are due for good; in *)
(* any other they stay due until the clock is set back.                    *)
LEMMA DueForGood ==
  ASSUME TimeTypes, now' \in Moments, now'.sec > 0, NEW k \in 1..Len(timers),
         Due(timers[k]), timers[k].sec = 0 \/ ~Earlier(now', now)
  PROVE  ~Earlier(now', timers[k])
<1>1. timers[k] \in Events /\ timers[k].sec \in Nat
  BY EventFields
<1>2. CASE timers[k].sec = 0
  <2>1. now'.sec \in Nat
    BY DEF Moments
  <2> QED BY <1>2, <2>1 DEF Earlier
<1>3. CASE ~Earlier(now', now)
  <2>1. now \in Moments
    BY DEF TimeTypes
  <2>2. TotalMs(now') >= TotalMs(now) /\ TotalMs(now) \in Nat /\ TotalMs(now') \in Nat
    BY <1>3, <2>1, EarlierIsTotal
  <2>3. TotalMs(now) >= TotalMs(timers[k]) /\ TotalMs(timers[k]) \in Nat
    BY <1>1, <2>1, EarlierIsTotal DEF Due
  <2>4. TotalMs(now') >= TotalMs(timers[k])
    BY <2>2, <2>3
  <2> QED BY <1>1, <2>2, <2>3, <2>4, EarlierIsTotal
<1> QED BY <1>2, <1>3

(* Every step keeps the events that are owed a call within its reach.      *)
LEMMA OwedStep == TimeInv /\ OwedWait /\ [TimeNext]_timeVars => OwedWait'
<1> SUFFICES ASSUME TimeInv, OwedWait, [TimeNext]_timeVars PROVE OwedWait'
  OBVIOUS
<1>0. TimeTypes /\ EventsRight /\ PassBound /\ DOMAIN timers = 1..Len(timers)
  BY DEF TimeInv, TimeTypes
<1>1. CASE BeginPass
  <2>1. /\ tpc' = "scan" /\ te' = 1 /\ maxId' = nextId - 1 /\ now' = now
        /\ owed' = {timers[k].id : k \in {k \in DOMAIN timers : skew' \/ Due(timers[k])}}
    BY <1>1 DEF BeginPass
  <2>2. ASSUME NEW id \in owed' PROVE \E k \in DOMAIN timers' : Waits(k, id)'
    <3>1. PICK k \in 1..Len(timers) : timers[k].id = id /\ (skew' \/ Due(timers[k]))
      BY <1>0, <2>1
    <3>2. /\ timers' \in Seq(Events) /\ Len(timers') = Len(timers)
          /\ timers'[k].id = timers[k].id
          /\ \/ skew' /\ timers'[k].sec = 0
             \/ ~skew' /\ timers'[k] = timers[k]
      BY <1>0, <1>1, BeginPassList
    <3>3. id <= maxId'
      <4>1. timers[k].id \in Nat /\ timers[k].id < nextId /\ nextId \in Nat
        BY <1>0, EventFields DEF EventsRight, TimeTypes
      <4> QED BY <2>1, <3>1, <4>1
    <3>4. k \in DOMAIN timers' /\ te' <= k
      BY <2>1, <3>2
    <3>5. CASE skew' /\ timers'[k].sec = 0
      <4>1. now.sec \in Nat /\ now.sec > 0
        BY <1>0 DEF TimeTypes, Moments
      <4>2. ~Earlier(now, timers'[k])
        BY <3>5, <4>1 DEF Earlier
      <4>3. Due(timers[k])'
        BY <2>1, <4>2 DEF Due
      <4> QED BY <2>1, <3>1, <3>2, <3>3, <3>4, <3>5, <4>3 DEF Waits
    <3>6. CASE ~skew' /\ timers'[k] = timers[k]
      <4>1. Due(timers[k])'
        BY <2>1, <3>1, <3>6 DEF Due
      <4> QED BY <2>1, <3>1, <3>3, <3>4, <3>6, <4>1 DEF Waits
    <3> QED BY <3>2, <3>5, <3>6
  <2> QED BY <2>1, <2>2 DEF OwedWait
<1>2. CASE SkipEvent
  <2>1. /\ tpc = "scan" /\ te' = te + 1
        /\ UNCHANGED <<now, timers, tpc, cur, maxId, owed, skew, setback>>
        /\ timers[te].id > maxId \/ ~Due(timers[te])
    BY <1>2 DEF SkipEvent
  <2>2. ASSUME skew \/ ~setback, NEW id \in owed
        PROVE  \E k \in DOMAIN timers' : Waits(k, id)'
    <3>1. PICK k \in DOMAIN timers : Waits(k, id)
      BY <2>2 DEF OwedWait
    <3>2. te <= k /\ timers[k].id <= maxId /\ Due(timers[k])
      BY <2>1, <3>1 DEF Waits
    <3>3. timers[k].id \in Nat /\ maxId \in Int /\ te \in Nat
      BY <1>0, EventFields DEF TimeTypes
    <3>4. te' <= k
      BY <1>0, <2>1, <3>2, <3>3
    <3> QED BY <2>1, <3>1, <3>4, StillWaits
  <2> QED BY Zenon, <2>1, <2>2 DEF OwedWait
<1>3. CASE CallTimeProc
  <2>1. /\ tpc' = "call" /\ owed' = owed \ {cur'}
        /\ UNCHANGED <<now, timers, maxId, skew, setback>>
    BY <1>3 DEF CallTimeProc
  <2>2. ASSUME skew \/ ~setback, NEW id \in owed'
        PROVE  \E k \in DOMAIN timers' : Waits(k, id)'
    <3>1. PICK k \in DOMAIN timers : Waits(k, id)
      BY <2>1, <2>2 DEF OwedWait
    <3> QED BY <2>1, <3>1, StillWaits
  <2> QED BY Zenon, <2>1, <2>2 DEF OwedWait
<1>4. CASE EndPass
  BY <1>4 DEF EndPass, OwedWait
<1>5. ASSUME NEW del, aeDeleteTimeEvent(del), UNCHANGED <<now, maxId, skew>>,
             tpc' = "scan" => te' = 1, NEW id \in owed, id # del,
             skew \/ ~setback
      PROVE  \E k \in DOMAIN timers' : Waits(k, id)'
  <2>1. PICK k \in DOMAIN timers : Waits(k, id)
    BY <1>5 DEF OwedWait
  <2>2. timers[k].id # del
    BY <1>5, <2>1 DEF Waits
  <2>3. timers' \in Seq(Events)
    BY <1>0, <1>5, DeleteKeepsOthers DEF TimeTypes
  <2>4. PICK h \in DOMAIN timers' : timers'[h] = timers[k]
    BY <1>0, <1>5, <2>2, DeleteKeepsOthers DEF TimeTypes
  <2>5. tpc' = "scan" => te' <= h
    BY <1>5, <2>3
  <2> QED BY Zenon, <1>5, <2>1, <2>4, <2>5, StillWaits
<1>6. CASE ReturnNoMore
  <2>1. tpc = "call" /\ tpc' = "scan" /\ te' = 1
        /\ UNCHANGED <<now, maxId, owed, skew, setback>>
    BY <1>6 DEF ReturnNoMore
  <2>2. ASSUME skew \/ ~setback, NEW id \in owed
        PROVE  \E k \in DOMAIN timers' : Waits(k, id)'
    <3>1. id # cur
      BY <2>1, <2>2 DEF OwedWait
    <3>2. CASE aeDeleteTimeEvent(cur)
      BY <1>5, <2>1, <2>2, <3>1, <3>2
    <3>3. CASE UNCHANGED timers
      <4>1. PICK k \in DOMAIN timers : Waits(k, id)
        BY <2>2 DEF OwedWait
      <4>2. te' <= k
        BY <1>0, <2>1
      <4> QED BY <2>1, <3>3, <4>1, <4>2, StillWaits
    <3> QED BY <1>6, <3>2, <3>3 DEF ReturnNoMore
  <2> QED BY Zenon, <2>1, <2>2 DEF OwedWait
<1>7. ASSUME NEW d \in Delays, ReturnAgain(d) PROVE OwedWait'
  <2>1. tpc = "call" /\ tpc' = "scan" /\ te' = 1
        /\ UNCHANGED <<now, maxId, owed, skew, setback>>
    BY <1>7 DEF ReturnAgain
  <2>2. ASSUME skew \/ ~setback, NEW id \in owed
        PROVE  \E k \in DOMAIN timers' : Waits(k, id)'
    <3>1. id # cur
      BY <2>1, <2>2 DEF OwedWait
    <3>2. PICK k \in DOMAIN timers : Waits(k, id)
      BY <2>2 DEF OwedWait
    <3>3. DOMAIN timers' = DOMAIN timers /\ timers'[k] = timers[k]
      BY <1>7, <3>1, <3>2 DEF ReturnAgain, Waits
    <3>4. te' <= k
      BY <1>0, <2>1
    <3> QED BY <2>1, <3>2, <3>3, <3>4, StillWaits
  <2> QED BY Zenon, <2>1, <2>2 DEF OwedWait
<1>8. CASE TimerCall
  <2>1. tpc \in {"idle", "call"} /\ UNCHANGED <<now, tpc, te, cur, maxId, skew, setback>>
    BY <1>8 DEF TimerCall
  <2>2. ASSUME NEW d \in Delays, aeCreateTimeEvent(d), UNCHANGED owed PROVE OwedWait'
    <3>1. ASSUME skew \/ ~setback, NEW id \in owed
          PROVE  \E k \in DOMAIN timers' : Waits(k, id)'
      <4>1. PICK k \in DOMAIN timers : Waits(k, id)
        BY <3>1 DEF OwedWait
      <4>2. d \in Nat /\ now \in Moments /\ nextId \in Nat /\ timers \in Seq(Events)
        BY <1>0, DelaysAssumption DEF TimeTypes
      <4>3. /\ timers' \in Seq(Events) /\ Len(timers') = Len(timers) + 1
            /\ timers'[k + 1] = timers[k]
        BY <1>0, <2>2, <4>2, CreateKeepsAll
      <4>4. k + 1 \in DOMAIN timers'
        BY <1>0, <4>3
      <4>5. tpc' # "scan"
        BY <2>1
      <4> QED BY Zenon, <2>1, <4>1, <4>3, <4>4, <4>5, StillWaits
    <3> QED BY Zenon, <2>1, <2>2, <3>1 DEF OwedWait
  <2>3. ASSUME NEW del \in Ids, aeDeleteTimeEvent(del), owed' = owed \ {del}
        PROVE  OwedWait'
    <3>1. ASSUME skew \/ ~setback, NEW id \in owed'
          PROVE  \E k \in DOMAIN timers' : Waits(k, id)'
      <4>1. id \in owed /\ id # del /\ tpc' # "scan"
        BY <2>1, <2>3
      <4> QED BY <1>5, <2>1, <2>3, <3>1, <4>1
    <3> QED BY Zenon, <2>1, <2>3, <3>1 DEF OwedWait
  <2> QED BY <1>8, <2>2, <2>3 DEF TimerCall
<1>9. CASE ClockMoves
  <2>1. UNCHANGED <<timers, tpc, te, cur, maxId, owed, skew>>
    BY <1>9 DEF ClockMoves
  <2>2. now' \in Moments /\ now'.sec > 0
    BY <1>9, FirstSecAssumption, LastSecAssumption DEF ClockMoves, Moments
  <2>3. CASE tpc = "idle"
    BY <2>1, <2>3 DEF OwedWait
  <2>4. ASSUME tpc # "idle", skew' \/ ~setback', NEW id \in owed
        PROVE  \E k \in DOMAIN timers' : Waits(k, id)'
    <3>1. skew \/ (~setback /\ ~Earlier(now', now))
      <4>1. skew' = skew /\ setback' = (setback \/ (tpc # "idle" /\ Earlier(now', now)))
        BY <1>9 DEF ClockMoves
      <4>2. CASE skew'
        BY <4>1, <4>2
      <4>3. CASE ~setback'
        <5>1. ~(setback \/ (tpc # "idle" /\ Earlier(now', now)))
          BY Zenon, <4>1, <4>3
        <5> QED BY <2>4, <5>1
      <4> QED BY <2>4, <4>2, <4>3
    <3>2. PICK k \in DOMAIN timers : Waits(k, id)
      BY Zenon, <3>1, <2>4 DEF OwedWait
    <3>3. Due(timers[k]) /\ (timers[k].sec = 0 \/ ~Earlier(now', now))
      BY Zenon, <3>1, <3>2 DEF Waits
    <3>4. ~Earlier(now', timers[k])
      BY <1>0, <2>2, <3>3, DueForGood
    <3> QED BY Zenon, <2>1, <3>2, <3>4 DEF Waits, Due
  <2> QED BY Zenon, <2>1, <2>3, <2>4 DEF OwedWait
<1>10. CASE UNCHANGED timeVars
  BY Zenon, <1>10 DEF timeVars, OwedWait, Waits, Due
<1> QED BY <1>1, <1>2, <1>3, <1>4, <1>6, <1>7, <1>8, <1>9, <1>10 DEF TimeNext, ProcessStep

-----------------------------------------------------------------------------
(* In every run a time event that a handler created waits for the next     *)
(* pass of processTimeEvents.                                              *)
THEOREM CreatedInPassWaits == TimeSpec => NewEventsWait
<1>1. TimeInv /\ [TimeNext]_timeVars => [tpc' = "call" /\ tpc # "call" => cur' < bornFrom]_timeVars
  <2> SUFFICES ASSUME TimeInv, TimeNext, tpc' = "call", tpc # "call" PROVE cur' < bornFrom
    OBVIOUS
  <2>1. CallTimeProc
    BY DEF TimeNext, ProcessStep, BeginPass, SkipEvent, EndPass, ReturnNoMore,
           ReturnAgain, TimerCall, ClockMoves
  <2>2. te \in 1..Len(timers) /\ cur' = timers[te].id /\ timers[te].id <= maxId /\ tpc = "scan"
    BY <2>1 DEF CallTimeProc, TimeInv, TimeTypes
  <2>3. timers[te].id \in Nat /\ bornFrom \in Nat /\ maxId = bornFrom - 1
    BY Zenon, <2>2, EventFields DEF TimeInv, TimeTypes, PassBound
  <2> QED BY <2>2, <2>3
<1> QED BY <1>1, TimeInitInv, TimeInvStep, PTL DEF TimeSpec, NewEventsWait

(* In every run, for any delays and clock, no time event handler runs      *)
(* before the moment that its event was armed for.                         *)
THEOREM NoHandlerEarly == TimeSpec => NeverEarly
<1>1. TimeInv /\ [TimeNext]_timeVars =>
        [tpc' = "call" /\ tpc # "call" => TotalMs(now) >= timers[te].due]_timeVars
  <2> SUFFICES ASSUME TimeInv, TimeNext, tpc' = "call", tpc # "call"
               PROVE  TotalMs(now) >= timers[te].due
    BY Zenon
  <2>1. CallTimeProc
    BY DEF TimeNext, ProcessStep, BeginPass, SkipEvent, EndPass, ReturnNoMore,
           ReturnAgain, TimerCall, ClockMoves
  <2>2. te \in 1..Len(timers) /\ ~Earlier(now, timers[te]) /\ now \in Moments
    BY SMTT(30), <2>1 DEF CallTimeProc, TimeInv, TimeTypes, Due
  <2>3. timers[te] \in Events /\ timers[te].due \in Nat
    BY Zenon, <2>2, EventFields DEF TimeInv
  <2>4. timers[te].due <= TotalMs(timers[te])
    BY <2>2 DEF TimeInv, TimeTypes, EventsRight
  <2>5. /\ ~(TotalMs(now) < TotalMs(timers[te]))
        /\ TotalMs(now) \in Nat /\ TotalMs(timers[te]) \in Nat
    BY <2>2, <2>3, EarlierIsTotal
  <2> QED BY <2>3, <2>4, <2>5
<1> QED BY <1>1, TimeInitInv, TimeInvStep, PTL DEF TimeSpec, NeverEarly

(* In every run a pass that ends has called every event that was due when  *)
(* it began and that no handler deleted, however often its scan restarted, *)
(* unless the clock was set back during the pass.                          *)
THEOREM DueEventsAreServed == TimeSpec => PassServesDue
<1>1. TimeInv /\ OwedWait /\ [TimeNext]_timeVars =>
        [EndsPass /\ (skew \/ ~setback) => owed = {}]_timeVars
  <2> SUFFICES ASSUME TimeInv, OwedWait, TimeNext, tpc = "scan", tpc' = "idle",
                      skew \/ ~setback, NEW id \in owed
               PROVE  FALSE
    BY DEF EndsPass
  <2>1. EndPass
    BY DEF TimeNext, ProcessStep, BeginPass, SkipEvent, CallTimeProc, ReturnNoMore,
           ReturnAgain, TimerCall, ClockMoves
  <2>2. PICK k \in DOMAIN timers : Waits(k, id)
    BY DEF OwedWait
  <2>3. te <= k
    BY <2>2 DEF Waits
  <2> QED BY <2>1, <2>3 DEF EndPass, TimeInv, TimeTypes
<1> QED BY <1>1, TimeInitInv, TimeInvStep, OwedStep, PTL DEF TimeSpec, PassServesDue

(* The sleep until one event: less than a second if it is due, and exactly *)
(* the time that is left to it otherwise.                                  *)
LEMMA SleepForOne ==
  ASSUME now \in Moments, NEW e \in Events
  PROVE  /\ Due(e) => TotalMs(SleepFor(e)) \in 0..(MsPerSec - 1)
         /\ ~Due(e) => TotalMs(SleepFor(e)) = TotalMs(e) - TotalMs(now)
<1>1. /\ now.sec \in Nat /\ now.ms \in 0..(MsPerSec - 1)
      /\ e.sec \in Nat /\ e.ms \in 0..(MsPerSec - 1) /\ MsPerSec \in Nat
  BY MsPerSecAssumption DEF Moments, Events
<1> DEFINE sleep == SleepFor(e)
<1>2. ASSUME Due(e) PROVE sleep.sec = 0 /\ sleep.ms \in 0..(MsPerSec - 1)
  <2>1. ~(now.sec < e.sec) /\ ~(now.sec = e.sec /\ now.ms < e.ms)
    BY Zenon, <1>2 DEF Due, Earlier
  <2>2. CASE e.ms < now.ms
    <3>1. sleep.sec = Clamp(e.sec - now.sec - 1) /\ sleep.ms = Clamp(e.ms + MsPerSec - now.ms)
      BY <2>2 DEF SleepFor
    <3> HIDE DEF sleep
    <3> QED BY <1>1, <2>1, <2>2, <3>1 DEF Clamp
  <2>3. CASE ~(e.ms < now.ms)
    <3>1. sleep.sec = Clamp(e.sec - now.sec) /\ sleep.ms = Clamp(e.ms - now.ms)
      BY <2>3 DEF SleepFor
    <3> HIDE DEF sleep
    <3> QED BY <1>1, <2>1, <2>3, <3>1 DEF Clamp
  <2> QED BY <2>2, <2>3
<1>3. ASSUME ~Due(e)
      PROVE  \/ sleep.sec = e.sec - now.sec /\ sleep.ms = e.ms - now.ms
             \/ sleep.sec = (e.sec - now.sec) - 1 /\ sleep.ms = e.ms + MsPerSec - now.ms
  <2>1. now.sec < e.sec \/ (now.sec = e.sec /\ now.ms < e.ms)
    BY Zenon, <1>3 DEF Due, Earlier
  <2>2. CASE e.ms < now.ms
    <3>1. sleep.sec = Clamp(e.sec - now.sec - 1) /\ sleep.ms = Clamp(e.ms + MsPerSec - now.ms)
      BY <2>2 DEF SleepFor
    <3> HIDE DEF sleep
    <3> QED BY <1>1, <2>1, <2>2, <3>1 DEF Clamp
  <2>3. CASE ~(e.ms < now.ms)
    <3>1. sleep.sec = Clamp(e.sec - now.sec) /\ sleep.ms = Clamp(e.ms - now.ms)
      BY <2>3 DEF SleepFor
    <3> HIDE DEF sleep
    <3> QED BY <1>1, <2>1, <2>3, <3>1 DEF Clamp
  <2> QED BY <2>2, <2>3
<1>4. TotalMs(sleep) = sleep.sec * MsPerSec + sleep.ms
  BY DEF TotalMs
<1> HIDE DEF sleep
<1>5. ASSUME Due(e) PROVE TotalMs(sleep) \in 0..(MsPerSec - 1)
  <2>1. 0 * MsPerSec = 0
    BY <1>1
  <2> QED BY <1>1, <1>2, <1>4, <1>5, <2>1
<1>6. ASSUME ~Due(e) PROVE TotalMs(sleep) = TotalMs(e) - TotalMs(now)
  <2>1. /\ (e.sec - now.sec) * MsPerSec = e.sec * MsPerSec - now.sec * MsPerSec
        /\ ((e.sec - now.sec) - 1) * MsPerSec = e.sec * MsPerSec - now.sec * MsPerSec - MsPerSec
        /\ e.sec * MsPerSec \in Int /\ now.sec * MsPerSec \in Int
    BY <1>1
  <2> DEFINE E == e.sec * MsPerSec
             N == now.sec * MsPerSec
  <2>5. TotalMs(e) = E + e.ms /\ TotalMs(now) = N + now.ms
    BY DEF TotalMs
  <2>2. CASE sleep.sec = e.sec - now.sec /\ sleep.ms = e.ms - now.ms
    <3>1. TotalMs(sleep) = (E - N) + (e.ms - now.ms)
      BY <1>4, <2>1, <2>2
    <3>2. E \in Int /\ N \in Int
      BY <2>1
    <3> HIDE DEF E, N
    <3> QED BY <1>1, <2>5, <3>1, <3>2
  <2>3. CASE sleep.sec = (e.sec - now.sec) - 1 /\ sleep.ms = e.ms + MsPerSec - now.ms
    <3>1. TotalMs(sleep) = (E - N - MsPerSec) + (e.ms + MsPerSec - now.ms)
      BY <1>4, <2>1, <2>3
    <3>2. E \in Int /\ N \in Int
      BY <2>1
    <3> HIDE DEF E, N
    <3> QED BY <1>1, <2>5, <3>1, <3>2
  <2> QED BY <1>3, <1>6, <2>2, <2>3
<1> QED BY <1>5, <1>6 DEF sleep

(* Whenever the state is right, so is the sleep.                           *)
LEMMA SleepRight == TimeInv => SleepIsBounded
<1> SUFFICES ASSUME TimeInv, NEW k \in DOMAIN timers, aeSearchNearestTimer(k)
             PROVE  LET sleep == TotalMs(SleepFor(timers[k]))
                    IN IF \E m \in DOMAIN timers : Due(timers[m])
                         THEN sleep < MsPerSec
                         ELSE /\ sleep = TotalMs(timers[k]) - TotalMs(now)
                              /\ \A m \in DOMAIN timers : TotalMs(now) + sleep <= TotalMs(timers[m])
  BY DEF SleepIsBounded
<1> DEFINE sleep == TotalMs(SleepFor(timers[k]))
<1>0. now \in Moments /\ DOMAIN timers = 1..Len(timers) /\ TimeTypes
  BY DEF TimeInv, TimeTypes
<1>1. ASSUME NEW m \in DOMAIN timers
      PROVE  /\ TotalMs(timers[k]) <= TotalMs(timers[m])
             /\ Due(timers[m]) <=> TotalMs(timers[m]) <= TotalMs(now)
             /\ TotalMs(timers[m]) \in Nat /\ TotalMs(now) \in Nat
  <2>1. timers[m] \in Events /\ timers[k] \in Events
    BY <1>0, EventFields
  <2>2. ~Earlier(timers[m], timers[k])
    BY DEF aeSearchNearestTimer
  <2>3. /\ TotalMs(timers[k]) \in Nat /\ TotalMs(timers[m]) \in Nat /\ TotalMs(now) \in Nat
        /\ ~(TotalMs(timers[m]) < TotalMs(timers[k]))
        /\ Earlier(now, timers[m]) <=> TotalMs(now) < TotalMs(timers[m])
    BY <1>0, <2>1, <2>2, EarlierIsTotal
  <2> QED BY <2>3 DEF Due
<1>2. timers[k] \in Events
  BY <1>0, EventFields
<1>3. CASE \E m \in DOMAIN timers : Due(timers[m])
  <2>1. Due(timers[k])
    BY <1>1, <1>3
  <2>2. sleep < MsPerSec
    BY <1>0, <1>2, <2>1, SleepForOne, MsPerSecAssumption
  <2> QED BY <1>3, <2>2
<1>4. CASE ~\E m \in DOMAIN timers : Due(timers[m])
  <2>1. sleep = TotalMs(timers[k]) - TotalMs(now)
    BY <1>0, <1>2, <1>4, SleepForOne
  <2> HIDE DEF sleep
  <2>2. ASSUME NEW m \in DOMAIN timers PROVE TotalMs(now) + sleep <= TotalMs(timers[m])
    BY <1>1, <2>1
  <2>3. /\ sleep = TotalMs(timers[k]) - TotalMs(now)
        /\ \A m \in DOMAIN timers : TotalMs(now) + sleep <= TotalMs(timers[m])
    BY <2>1, <2>2
  <2> QED BY Zenon, <1>4, <2>3 DEF sleep
<1> QED BY <1>3, <1>4

(* In every state of every run the sleep that aeProcessEvents computes is  *)
(* right: it ends when the first event is due, and takes less than a       *)
(* second when an event is due already.                                    *)
THEOREM SleepEndsInTime == TimeSpec => []SleepIsBounded
BY SleepRight, TimeInitInv, TimeInvStep, PTL DEF TimeSpec

-----------------------------------------------------------------------------
(***************************************************************************)
(* The registration table and the kernel agree, for every number of        *)
(* descriptors, every set of table sizes and every set of handlers.        *)
(* TableInv is inductive, and its conjuncts need each other: a resize      *)
(* drops the slots above maxfd, which leaves the interest list right only  *)
(* because MaxfdExact says that they carry no event.                       *)
(***************************************************************************)
TableInv == TableTypeOK /\ InterestMatches /\ MaxfdExact /\ HandlersAssigned

USE MaxFdAssumption, SetSizesAssumption, NoProcAssumption
USE DEF Fd, Slot, EmptySlot, Bits, AE_NONE, Masks, Alive, Registered

(* Before a loop is created there is nothing to disagree about.            *)
LEMMA TableInitInv == TableInit => TableInv
BY DEF TableInit, TableInv, TableTypeOK, InterestMatches, MaxfdExact, HandlersAssigned

(* A new loop has an empty table and an empty interest list.               *)
LEMMA CreateLoopInv ==
  ASSUME TableInv, NEW size \in SetSizes, aeCreateEventLoop(size)
  PROVE  TableInv'
<1> USE DEF TableInv, aeCreateEventLoop
<1>1. TableTypeOK'
  BY DEF TableTypeOK
<1>2. InterestMatches'
  BY DEF TableTypeOK, InterestMatches
<1>3. MaxfdExact'
  BY DEF TableTypeOK, MaxfdExact
<1>4. HandlersAssigned'
  BY DEF TableTypeOK, HandlersAssigned
<1> QED BY <1>1, <1>2, <1>3, <1>4

(* Deleting the loop closes the kernel's list together with the table.     *)
LEMMA DeleteLoopInv ==
  ASSUME TableInv, aeDeleteEventLoop
  PROVE  TableInv'
BY DEF TableInv, TableTypeOK, InterestMatches, MaxfdExact, HandlersAssigned,
       aeDeleteEventLoop

(* A resize keeps every registered slot, because none is above maxfd.      *)
LEMMA ResizeInv ==
  ASSUME TableInv, NEW size \in SetSizes, aeResizeSetSize(size)
  PROVE  TableInv'
<1> USE DEF TableInv
<1>1. PICK junk \in SUBSET Bits :
        events' = ClearFrom(Realloc(events, size, junk), maxfd + 1)
  BY DEF aeResizeSetSize
<1>2. /\ size \in Nat /\ maxfd < size /\ setsize' = size
      /\ UNCHANGED <<maxfd, interest, open>>
  BY DEF aeResizeSetSize
<1>3. DOMAIN events' = 0..(size - 1)
  BY <1>1 DEF ClearFrom, Realloc
<1>4. ASSUME NEW fd \in 0..(size - 1)
      PROVE  /\ fd <= maxfd => fd \in DOMAIN events /\ events'[fd] = events[fd]
             /\ fd > maxfd => events'[fd].mask = AE_NONE /\ events'[fd] \in Slot
  BY <1>1, <1>2 DEF ClearFrom, Realloc, TableTypeOK, MaxfdExact
<1>5. TableTypeOK'
  <2>1. events' = [fd \in 0..(size - 1) |-> events'[fd]]
    BY <1>1 DEF ClearFrom, Realloc
  <2>2. \A fd \in 0..(size - 1) : events'[fd] \in Slot
    BY <1>2, <1>4 DEF TableTypeOK
  <2> QED BY SMTT(30), <1>2, <2>1, <2>2 DEF TableTypeOK
<1>6. InterestMatches'
  <2> SUFFICES ASSUME NEW fd \in Fd
               PROVE  /\ interest[fd] = IF fd < size THEN events'[fd].mask ELSE AE_NONE
                      /\ interest[fd] # AE_NONE => fd \in open
    BY Zenon, <1>2 DEF InterestMatches
  <2>1. /\ interest[fd] = IF fd < setsize THEN events[fd].mask ELSE AE_NONE
        /\ interest[fd] # AE_NONE => fd \in open
    BY DEF InterestMatches
  <2>2. CASE fd <= maxfd
    <3>1. fd \in Nat /\ fd \in 0..(size - 1) /\ fd < size
      BY <1>2, <2>2 DEF TableTypeOK
    <3>2. fd \in DOMAIN events /\ events'[fd] = events[fd]
      BY <1>4, <2>2, <3>1
    <3>3. DOMAIN events = 0..(setsize - 1) /\ setsize \in Nat
      BY SetSizesAssumption DEF TableTypeOK
    <3>4. fd < setsize
      BY <3>1, <3>2, <3>3
    <3> QED BY Zenon, <2>1, <3>1, <3>2, <3>4
  <2>3. CASE fd > maxfd
    <3>1. interest[fd] = AE_NONE
      BY <2>1, <2>3 DEF TableTypeOK, MaxfdExact
    <3> QED BY <1>2, <1>4, <2>3, <3>1 DEF TableTypeOK
  <2> QED BY <2>2, <2>3 DEF TableTypeOK
<1>7. MaxfdExact'
  BY <1>2, <1>3, <1>4 DEF TableTypeOK, MaxfdExact
<1>8. HandlersAssigned'
  BY <1>2, <1>3, <1>4 DEF TableTypeOK, HandlersAssigned
<1> QED BY <1>5, <1>6, <1>7, <1>8

(* aeCreateFileEvent: the mask decides between ADD and MOD.                *)
LEMMA CreateFileInv ==
  ASSUME TableInv, NEW fd \in Fd, NEW mask \in Masks, NEW proc \in Procs,
         aeCreateFileEvent(fd, mask, proc)
  PROVE  TableInv'
<1> USE DEF TableInv
<1>1. /\ fd < setsize /\ fd \in open
      /\ interest' = [interest EXCEPT ![fd] = mask \cup events[fd].mask]
      /\ maxfd' = IF fd > maxfd THEN fd ELSE maxfd
      /\ UNCHANGED <<setsize, open>>
  BY DEF aeCreateFileEvent, aeApiAddEvent, CtlAccepts
<1>2. /\ fd \in DOMAIN events
      /\ events' \in [DOMAIN events -> Slot]
      /\ events'[fd].mask = events[fd].mask \cup mask
      /\ AE_READABLE \in mask => events'[fd].rfileProc \in Procs
      /\ AE_READABLE \notin mask => events'[fd].rfileProc = events[fd].rfileProc
      /\ AE_WRITABLE \in mask => events'[fd].wfileProc \in Procs
      /\ AE_WRITABLE \notin mask => events'[fd].wfileProc = events[fd].wfileProc
      /\ \A g \in DOMAIN events : g # fd => events'[g] = events[g]
  BY DEF aeCreateFileEvent, TableTypeOK
<1>3. TableTypeOK'
  BY <1>1, <1>2 DEF TableTypeOK
<1>4. InterestMatches'
  <2> SUFFICES ASSUME NEW g \in Fd
               PROVE  /\ interest'[g] = IF g < setsize THEN events'[g].mask ELSE AE_NONE
                      /\ interest'[g] # AE_NONE => g \in open
    BY SMTT(30), <1>1 DEF InterestMatches
  <2>1. CASE g = fd
    BY <1>1, <1>2, <2>1 DEF TableTypeOK
  <2>2. CASE g # fd
    BY SMTT(30), <1>1, <1>2, <2>2 DEF TableTypeOK, InterestMatches
  <2> QED BY <2>1, <2>2
<1>5. MaxfdExact'
  BY <1>1, <1>2 DEF TableTypeOK, MaxfdExact
<1>6. HandlersAssigned'
  BY Zenon, <1>1, <1>2 DEF TableTypeOK, HandlersAssigned
<1> QED BY <1>3, <1>4, <1>5, <1>6

(* aeDeleteFileEvent: the mask that is left decides between MOD and DEL.   *)
LEMMA DeleteFileInv ==
  ASSUME TableInv, NEW fd \in Fd, NEW mask \in Masks, aeDeleteFileEvent(fd, mask)
  PROVE  TableInv'
<1> USE DEF TableInv, aeDeleteFileEvent, aeApiDelEvent, CtlAccepts
<1>1. TableTypeOK'
  BY SMTT(30) DEF TableTypeOK, ScanStopsAt
<1> DEFINE rest == events[fd].mask \ mask
<1>a. /\ fd \in DOMAIN events /\ rest \in SUBSET Bits
      /\ DOMAIN events' = DOMAIN events /\ events'[fd].mask = rest
      /\ \A g \in DOMAIN events : g # fd => events'[g] = events[g]
  BY SMTT(30) DEF TableTypeOK
<1>2. InterestMatches'
  <2>1. interest[fd] = events[fd].mask /\ fd \in open /\ interest[fd] # AE_NONE
    BY DEF TableTypeOK, InterestMatches
  <2>2. interest' = [interest EXCEPT ![fd] = rest] /\ UNCHANGED <<setsize, open>>
    BY <2>1
  <2> SUFFICES ASSUME NEW g \in Fd
               PROVE  /\ interest'[g] = IF g < setsize THEN events'[g].mask ELSE AE_NONE
                      /\ interest'[g] # AE_NONE => g \in open
    BY Zenon, <2>2 DEF InterestMatches
  <2>3. CASE g = fd
    BY Zenon, <1>a, <2>1, <2>2, <2>3 DEF TableTypeOK
  <2>4. CASE g # fd
    BY <1>a, <2>2, <2>4 DEF TableTypeOK, InterestMatches
  <2> QED BY <2>3, <2>4
<1>3. MaxfdExact'
  <2>1. CASE fd = maxfd /\ rest = AE_NONE
    <3>1. PICK m \in -1..(maxfd - 1) : ScanStopsAt(events', maxfd, m) /\ maxfd' = m
      BY Zenon, <2>1
    <3>2. ASSUME NEW g \in DOMAIN events, g > m PROVE events'[g].mask = AE_NONE
      <4>1. CASE g < maxfd
        <5>1. g \in (m + 1)..(maxfd - 1)
          BY <3>1, <3>2, <4>1 DEF TableTypeOK
        <5> QED BY <3>1, <5>1 DEF ScanStopsAt
      <4>2. CASE g = maxfd
        BY ONLY <1>a, <2>1, <4>2
      <4>3. CASE g > maxfd
        <5>1. events[g].mask = AE_NONE
          BY ONLY TableInv, <3>2, <4>3 DEF TableInv, MaxfdExact, TableTypeOK
        <5>2. g # fd
          BY ONLY TableInv, <2>1, <4>3 DEF TableInv, TableTypeOK
        <5> QED BY ONLY <1>a, <3>2, <5>1, <5>2
      <4> QED BY <4>1, <4>2, <4>3 DEF TableTypeOK
    <3> QED BY SMTT(30), <1>a, <3>1, <3>2 DEF MaxfdExact, ScanStopsAt, TableTypeOK
  <2>2. CASE ~(fd = maxfd /\ rest = AE_NONE)
    BY <1>a, <2>2 DEF MaxfdExact, TableTypeOK
  <2> QED BY <2>1, <2>2
<1>4. HandlersAssigned'
  BY DEF TableTypeOK, HandlersAssigned
<1> QED BY <1>1, <1>2, <1>3, <1>4

(* Opening and closing files leaves the table alone.                       *)
LEMMA FilesInv ==
  ASSUME TableInv, NEW fd \in Fd, OpenFile(fd) \/ CloseFile(fd)
  PROVE  TableInv'
BY Zenon DEF TableInv, TableTypeOK, InterestMatches, MaxfdExact, HandlersAssigned,
       OpenFile, CloseFile

(* The step of TableInv, for the modules that run the table's calls inside *)
(* a larger system.                                                        *)
LEMMA TableStep == TableInv /\ [TableNext]_tableVars => TableInv'
<1> SUFFICES ASSUME TableInv, [TableNext]_tableVars PROVE TableInv'
  OBVIOUS
<1>1. CASE UNCHANGED tableVars
  BY <1>1 DEF tableVars, TableInv, TableTypeOK, InterestMatches, MaxfdExact,
              HandlersAssigned
<1>2. CASE TableNext
  BY <1>2, CreateLoopInv, DeleteLoopInv, ResizeInv, CreateFileInv, DeleteFileInv,
     FilesInv DEF TableNext, LoopCall, FdCall
<1> QED BY <1>1, <1>2

(* In every reachable state the table is well typed, the interest list the *)
(* kernel holds is the one events[] records, maxfd is exact and every      *)
(* registered bit has its handler.                                         *)
THEOREM TableCorrect == TableSpec => []TableInv
BY TableInitInv, TableStep, PTL DEF TableSpec

(* The part of it aeApiAddEvent's choice between ADD and MOD rests on.     *)
THEOREM KernelAgrees == TableSpec => []InterestMatches
BY TableCorrect, PTL DEF TableInv

(* The part of it aeResizeSetSize's bounds test rests on.                  *)
THEOREM MaxfdIsExact == TableSpec => []MaxfdExact
BY TableCorrect, PTL DEF TableInv

-----------------------------------------------------------------------------
(***************************************************************************)
(* The dispatch of file events, for every number of descriptors and every  *)
(* set of handlers.  The table's invariant carries over, because a step of *)
(* the dispatcher either is a call on the table or leaves it alone.  What  *)
(* ran says about the current entry (RanInv) is the invariant behind the   *)
(* action properties: it survives the calls of a handler because a call    *)
(* changes the slot of no descriptor but its own, which touched records.   *)
(***************************************************************************)

(* What has been called for the current entry, at each point of the loop.  *)
RanInv ==
  /\ fpc \in {"rcall", "wcall"} => j <= Len(fired)
  /\ fpc \in {"idle", "scan"} => ran = {}
  /\ fpc = "idle" => j = 1 /\ fired = <<>>
  /\ fpc = "rcall" /\ Entry.fd \notin touched =>
       /\ ran = {Fe.rfileProc}
       /\ Wants(AE_READABLE)
  /\ fpc = "wcall" /\ Entry.fd \notin touched =>
       /\ Wants(AE_READABLE) => Fe.rfileProc \in ran
       /\ Fe.wfileProc \in ran
  /\ \A i \in DOMAIN fired : fired[i].fd < setsize

DispatchInv == TableInv /\ DispatchTypeOK /\ RanInv

(* The dispatcher starts idle.                                             *)
LEMMA DispatchInitInv == DispatchInit => DispatchInv
BY TableInitInv DEF DispatchInit, DispatchInv, DispatchTypeOK, RanInv

(* Outside IdleCall and HandlerCall the table is left alone.               *)
LEMMA TableKept ==
  ASSUME TableInv, UNCHANGED tableVars
  PROVE  TableInv'
BY DEF TableInv, TableTypeOK, InterestMatches, MaxfdExact, HandlersAssigned, tableVars

(* A call of a handler changes neither setsize nor another slot.           *)
LEMMA FdCallFrame ==
  ASSUME TableInv, NEW fd \in Fd, FdCall(fd)
  PROVE  /\ setsize' = setsize
         /\ \A g \in DOMAIN events : g # fd => events'[g] = events[g]
<1>1. CASE OpenFile(fd) \/ CloseFile(fd)
  BY <1>1 DEF OpenFile, CloseFile
<1>2. CASE \E mask \in Masks : aeDeleteFileEvent(fd, mask)
  BY <1>2 DEF aeDeleteFileEvent, TableInv, TableTypeOK
<1>3. CASE \E mask \in Masks, proc \in Procs : aeCreateFileEvent(fd, mask, proc)
  BY <1>3 DEF aeCreateFileEvent, TableInv, TableTypeOK
<1> QED BY Zenon, <1>1, <1>2, <1>3 DEF FdCall

(* The entry being served names a slot of the table, and the slot and the  *)
(* kernel agree about it.                                                  *)
LEMMA EntryInTable ==
  ASSUME DispatchInv, j <= Len(fired)
  PROVE  /\ Entry.fd \in Fd /\ Entry.fd \in DOMAIN events
         /\ Fe \in Slot
         /\ interest[Entry.fd] = Fe.mask
         /\ interest[Entry.fd] # AE_NONE => Entry.fd \in open
         /\ AE_READABLE \in Fe.mask => Fe.rfileProc \in Procs
         /\ AE_WRITABLE \in Fe.mask => Fe.wfileProc \in Procs
<1> USE DEF DispatchInv
<1>1. j \in DOMAIN fired /\ Entry \in Report
  BY DEF Entry, DispatchTypeOK
<1>2. Entry.fd \in Fd /\ Entry.fd < setsize
  BY <1>1 DEF Entry, RanInv, Report
<1>3. Entry.fd \in DOMAIN events /\ setsize \in Nat
  BY <1>2 DEF TableInv, TableTypeOK
<1>4. Fe \in Slot
  BY <1>3 DEF Fe, TableInv, TableTypeOK
<1>5. /\ interest[Entry.fd] = Fe.mask
      /\ interest[Entry.fd] # AE_NONE => Entry.fd \in open
  BY <1>2 DEF Fe, TableInv, InterestMatches
<1>6. /\ AE_READABLE \in Fe.mask => Fe.rfileProc \in Procs
      /\ AE_WRITABLE \in Fe.mask => Fe.wfileProc \in Procs
  BY <1>3 DEF Fe, TableInv, HandlersAssigned
<1> QED BY <1>2, <1>3, <1>4, <1>5, <1>6

(* aeApiPoll reports descriptors of the table and begins the scan.         *)
LEMMA PollInv ==
  ASSUME DispatchInv, aeApiPoll
  PROVE  DispatchInv'
<1> USE DEF DispatchInv
<1>1. TableInv'
  BY TableKept DEF aeApiPoll
<1>2. PICK n \in 1..setsize : \E batch \in [1..n -> Report] :
        PollMayReturn(batch) /\ fired' = batch
  BY DEF aeApiPoll
<1>3. /\ fired' \in Seq(Report) /\ Len(fired') = n /\ DOMAIN fired' = 1..n
      /\ PollMayReturn(fired')
  BY <1>2 DEF TableInv, TableTypeOK
<1>4. \A i \in 1..n : fired'[i].fd < setsize
  <2> SUFFICES ASSUME NEW i \in 1..n PROVE fired'[i].fd < setsize
    OBVIOUS
  <2>1. fired'[i].fd \in Fd /\ interest[fired'[i].fd] # AE_NONE
    BY <1>2, <1>3 DEF PollMayReturn, Report
  <2> QED BY <2>1 DEF TableInv, InterestMatches
<1>5. DispatchTypeOK'
  BY <1>3 DEF aeApiPoll, DispatchTypeOK, RanInv
<1>6. RanInv'
  BY <1>3, <1>4 DEF aeApiPoll, RanInv, tableVars
<1> QED BY <1>1, <1>5, <1>6

(* The steps of the loop itself, given what they leave alone.              *)
LEMMA LoopStepInv ==
  ASSUME DispatchInv, Dispatcher
  PROVE  DispatchInv'
<1> USE DEF DispatchInv
<1>1. UNCHANGED tableVars
  BY Zenon DEF Dispatcher, CallRead, SkipRead, ReadReturns, WriteReturns, BatchDone
<1>2. TableInv'
  BY <1>1, TableKept
<1>3. j <= Len(fired) => /\ Entry.fd \in DOMAIN events /\ Entry.fd \in Fd
                         /\ Fe.rfileProc \in Procs \cup {NoProc}
                         /\ Fe.wfileProc \in Procs \cup {NoProc}
  <2> SUFFICES ASSUME j <= Len(fired)
               PROVE  /\ Entry.fd \in DOMAIN events /\ Entry.fd \in Fd
                      /\ Fe.rfileProc \in Procs \cup {NoProc}
                      /\ Fe.wfileProc \in Procs \cup {NoProc}
    BY Zenon
  <2>1. Entry.fd \in DOMAIN events /\ Entry.fd \in Fd /\ Fe \in Slot
    BY Zenon, EntryInTable
  <2> DEFINE fe == Fe
  <2>2. fe \in Slot
    BY Zenon, <2>1
  <2> HIDE DEF fe
  <2>3. fe.rfileProc \in Procs \cup {NoProc} /\ fe.wfileProc \in Procs \cup {NoProc}
    BY <2>2 DEF Slot
  <2> QED BY Zenon, <2>1, <2>3 DEF fe
<1>4. ASSUME NEW x, fpc' = x, x \in {"rcall", "wcall"}, j <= Len(fired),
             UNCHANGED <<tableVars, fired, touched, reopened, j>>,
             ran' \in SUBSET (Procs \cup {NoProc}),
             x = "rcall" /\ Entry.fd \notin touched =>
               ran' = {Fe.rfileProc} /\ Wants(AE_READABLE),
             x = "wcall" /\ Entry.fd \notin touched =>
               (Wants(AE_READABLE) => Fe.rfileProc \in ran') /\ Fe.wfileProc \in ran'
      PROVE  DispatchInv'
  <2>1. Entry' = Entry /\ Fe' = Fe /\ setsize' = setsize
    BY Zenon, <1>4 DEF Entry, Fe, tableVars
  <2>2. DispatchTypeOK'
    BY Zenon, <1>4 DEF DispatchTypeOK
  <2>3. RanInv'
    BY Zenon, <1>4, <2>1 DEF RanInv, Wants
  <2> QED BY <1>2, <2>2, <2>3
<1>5. ASSUME NextEntry, j <= Len(fired), UNCHANGED <<tableVars, fired, touched, reopened>>
      PROVE  DispatchInv'
  <2>1. setsize' = setsize /\ j' = j + 1 /\ fpc' = "scan" /\ ran' = {}
    BY <1>5 DEF tableVars, NextEntry
  <2>2. DispatchTypeOK'
    BY <1>5, <2>1 DEF DispatchTypeOK
  <2>3. RanInv'
    BY Zenon, <1>5, <2>1 DEF RanInv
  <2> QED BY <1>2, <2>2, <2>3
<1>6. CASE CallRead
  <2>1. /\ fpc' = "rcall" /\ j <= Len(fired) /\ Wants(AE_READABLE) /\ ran' = {Fe.rfileProc}
        /\ UNCHANGED <<tableVars, fired, touched, reopened, j>>
    BY <1>6 DEF CallRead
  <2>2. ran' \in SUBSET (Procs \cup {NoProc})
    BY <1>3, <2>1
  <2> QED BY <1>4, <2>1, <2>2
<1>7. ASSUME NEW rfired, WritePhase(rfired), j <= Len(fired),
             UNCHANGED <<tableVars, fired, touched, reopened>>,
             Entry.fd \notin touched /\ Wants(AE_READABLE) => Fe.rfileProc \in ran
      PROVE  DispatchInv'
  <2>1. CASE NextEntry
    BY <1>5, <1>7, <2>1
  <2>2. CASE fpc' = "wcall" /\ ran' = ran \cup {Fe.wfileProc} /\ UNCHANGED j
    <3>1. ran' \in SUBSET (Procs \cup {NoProc})
      BY Zenon, <1>3, <1>7, <2>2 DEF DispatchTypeOK
    <3> QED BY Zenon, <1>4, <1>7, <2>2, <3>1
  <2> QED BY Zenon, <1>7, <2>1, <2>2 DEF WritePhase
<1>8. CASE SkipRead
  BY Zenon, <1>7, <1>8 DEF SkipRead
<1>9. CASE ReadReturns
  <2>1. /\ WritePhase(TRUE) /\ j <= Len(fired) /\ UNCHANGED <<tableVars, fired, touched, reopened>>
        /\ Entry.fd \notin touched => Fe.rfileProc \in ran
    BY Zenon, <1>9 DEF ReadReturns, RanInv
  <2> QED BY Zenon, <1>7, <2>1
<1>10. CASE WriteReturns
  BY Zenon, <1>5, <1>10 DEF WriteReturns, RanInv
<1>11. CASE BatchDone
  BY <1>1, <1>2, <1>11 DEF BatchDone, tableVars, DispatchTypeOK, RanInv
<1> QED BY <1>6, <1>8, <1>9, <1>10, <1>11 DEF Dispatcher

(* Calls between two rounds of the loop.                                   *)
LEMMA IdleInv ==
  ASSUME DispatchInv, IdleCall
  PROVE  DispatchInv'
<1> USE DEF DispatchInv
<1>1. TableInv'
  BY TableStep DEF IdleCall
<1>2. DispatchTypeOK' /\ RanInv'
  BY DEF IdleCall, dispatchVars, DispatchTypeOK, RanInv
<1> QED BY <1>1, <1>2

(* Calls that a handler makes while the scan is under way.                 *)
LEMMA HandlerInv ==
  ASSUME DispatchInv, NEW fd \in Fd, HandlerCall(fd)
  PROVE  DispatchInv'
<1> USE DEF DispatchInv
<1>1. FdCall(fd) /\ UNCHANGED <<fired, j, fpc, ran>> /\ touched' = touched \cup {fd}
      /\ fpc \in {"rcall", "wcall"}
  BY DEF HandlerCall
<1>2. TableInv'
  BY <1>1, TableStep DEF TableNext
<1>3. /\ setsize' = setsize
      /\ \A g \in DOMAIN events : g # fd => events'[g] = events[g]
  BY <1>1, FdCallFrame
<1>4. DispatchTypeOK'
  BY <1>1 DEF HandlerCall, DispatchTypeOK
<1>5. Entry.fd \notin touched' => Entry.fd \notin touched /\ Fe' = Fe
  <2>1. j <= Len(fired)
    BY <1>1 DEF RanInv
  <2>2. Entry.fd \in DOMAIN events
    BY Zenon, <2>1, EntryInTable
  <2> QED BY Zenon, <1>1, <1>3, <2>2 DEF Entry, Fe
<1>6. RanInv'
  BY Zenon, <1>1, <1>3, <1>5 DEF RanInv, Wants, Entry
<1> QED BY <1>2, <1>4, <1>6

(* Every step of the dispatcher and of its handlers keeps the invariant.   *)
LEMMA DispatchStep == DispatchInv /\ [DispatchNext]_vars => DispatchInv'
<1> SUFFICES ASSUME DispatchInv, [DispatchNext]_vars PROVE DispatchInv'
  OBVIOUS
<1>1. CASE UNCHANGED vars
  BY Zenon, <1>1, TableKept DEF vars, tableVars, DispatchInv, DispatchTypeOK, RanInv, Wants, Entry, Fe
<1>2. CASE DispatchNext
  BY <1>2, IdleInv, PollInv, LoopStepInv, HandlerInv DEF DispatchNext
<1> QED BY <1>1, <1>2

(* The table stays correct while handlers change it in the middle of a     *)
(* batch, and what ran records about the current entry is right.           *)
THEOREM DispatchCorrect == DispatchSpec => []DispatchInv
BY DispatchInitInv, DispatchStep, PTL DEF DispatchSpec

(* The steps of OnlyRegisteredCalled, from any state in which the table is right. *)
LEMMA CallsAreRegistered == []DispatchInv /\ [][DispatchNext]_vars => CallsRegistered
<1> DEFINE A == CallsHandler =>
       /\ Entry.fd \in open
       /\ (IF fpc' = "rcall" THEN AE_READABLE ELSE AE_WRITABLE) \in interest[Entry.fd]
       /\ ran' \ ran \subseteq Procs
<1>1. DispatchInv /\ [DispatchNext]_vars => [A]_vars
  <2> SUFFICES ASSUME DispatchInv, DispatchNext, CallsHandler PROVE A
    BY DEF vars
  <2> USE DEF DispatchInv
  <2>1. CallRead \/ SkipRead \/ ReadReturns
    BY DEF CallsHandler, DispatchNext, Dispatcher, IdleCall, dispatchVars, aeApiPoll,
           WriteReturns, NextEntry, BatchDone, HandlerCall
  <2>2. j <= Len(fired)
    BY Zenon, <2>1 DEF CallRead, SkipRead, ReadReturns, RanInv
  <2>3. CASE CallRead
    <3>1. fpc' = "rcall" /\ ran' = {Fe.rfileProc} /\ AE_READABLE \in Fe.mask
      BY <2>3 DEF CallRead, Wants
    <3> QED BY Zenon, <2>2, <3>1, EntryInTable
  <2>4. CASE SkipRead \/ ReadReturns
    <3>1. WritePhase(FALSE) \/ WritePhase(TRUE)
      BY Zenon, <2>4 DEF SkipRead, ReadReturns
    <3>2. fpc' # "scan"
      BY DEF CallsHandler
    <3>3. fpc' = "wcall" /\ ran' = ran \cup {Fe.wfileProc} /\ AE_WRITABLE \in Fe.mask
      BY <3>1, <3>2 DEF WritePhase, NextEntry, Wants
    <3> QED BY <2>2, <3>3, EntryInTable
  <2> QED BY <2>1, <2>3, <2>4
<1>2. []DispatchInv /\ [][DispatchNext]_vars => [][A]_vars
  BY <1>1, PTL
<1> QED BY <1>2 DEF CallsRegistered

(* No handler is called for an event that was deleted or closed since the  *)
(* poll, nor through a field of the slot that was never assigned.          *)
THEOREM OnlyRegisteredCalled == DispatchSpec => CallsRegistered
BY CallsAreRegistered, DispatchCorrect, PTL DEF DispatchSpec

(* The steps of NoFiredEventLost, from any state in which the table is right. *)
LEMMA FiredAreServed == []DispatchInv /\ [][DispatchNext]_vars => FiredEventServed
<1> DEFINE A == LeavesEntry /\ Entry.fd \notin touched =>
       /\ Wants(AE_READABLE) => Fe.rfileProc \in ran
       /\ Wants(AE_WRITABLE) => Fe.wfileProc \in ran
<1>1. DispatchInv /\ [DispatchNext]_vars => [A]_vars
  <2> SUFFICES ASSUME DispatchInv, DispatchNext, LeavesEntry, Entry.fd \notin touched
               PROVE  /\ Wants(AE_READABLE) => Fe.rfileProc \in ran
                      /\ Wants(AE_WRITABLE) => Fe.wfileProc \in ran
    BY DEF vars
  <2> USE DEF DispatchInv
  <2>0. j' # j
    <3>1. j \in Int
      BY DEF DispatchTypeOK
    <3> QED BY <3>1 DEF LeavesEntry
  <2>1. SkipRead \/ ReadReturns \/ WriteReturns
    BY DEF LeavesEntry, DispatchNext, Dispatcher, IdleCall, dispatchVars, aeApiPoll,
           CallRead, BatchDone, HandlerCall, DispatchTypeOK
  <2>2. CASE SkipRead
    <3>1. ~Wants(AE_READABLE) /\ WritePhase(FALSE)
      BY Zenon, <2>2 DEF SkipRead
    <3>2. ~Wants(AE_WRITABLE)
      BY Zenon, <2>0, <3>1 DEF WritePhase
    <3> QED BY Zenon, <3>1, <3>2
  <2>3. CASE ReadReturns
    <3>1. fpc = "rcall" /\ WritePhase(TRUE)
      BY Zenon, <2>3 DEF ReadReturns
    <3>2. ran = {Fe.rfileProc}
      BY Zenon, <3>1 DEF RanInv
    <3>3. Wants(AE_WRITABLE) => Fe.wfileProc = Fe.rfileProc
      BY Zenon, <2>0, <3>1 DEF WritePhase
    <3> QED BY Zenon, <3>2, <3>3
  <2>4. CASE WriteReturns
    BY <2>4 DEF WriteReturns, RanInv
  <2> QED BY <2>1, <2>2, <2>3, <2>4
<1>2. []DispatchInv /\ [][DispatchNext]_vars => [][A]_vars
  BY <1>1, PTL
<1> QED BY <1>2 DEF FiredEventServed

(* No reported event of an undisturbed descriptor is dropped: the handler  *)
(* of every bit that is still registered has run when the loop moves on.   *)
THEOREM NoFiredEventLost == DispatchSpec => FiredEventServed
BY FiredAreServed, DispatchCorrect, PTL DEF DispatchSpec

(* The steps of NoHandlerTwice, from any state in which the table is right. *)
LEMMA HandlersDiffer == []DispatchInv /\ [][DispatchNext]_vars => OncePerEntry
<1> DEFINE A == CallsHandler /\ Entry.fd \notin touched => ran' # ran
<1>1. DispatchInv /\ [DispatchNext]_vars => [A]_vars
  <2> SUFFICES ASSUME DispatchInv, DispatchNext, CallsHandler, Entry.fd \notin touched
               PROVE  ran' # ran
    BY DEF vars
  <2> USE DEF DispatchInv
  <2>1. CallRead \/ SkipRead \/ ReadReturns
    BY DEF CallsHandler, DispatchNext, Dispatcher, IdleCall, dispatchVars, aeApiPoll,
           WriteReturns, NextEntry, BatchDone, HandlerCall
  <2>2. CASE CallRead
    BY Zenon, <2>2 DEF CallRead, RanInv
  <2>3. CASE SkipRead
    BY Zenon, <2>3 DEF SkipRead, WritePhase, NextEntry, RanInv, CallsHandler
  <2>4. CASE ReadReturns
    BY <2>4 DEF ReadReturns, WritePhase, NextEntry, RanInv, CallsHandler
  <2> QED BY <2>1, <2>2, <2>3, <2>4
<1>2. []DispatchInv /\ [][DispatchNext]_vars => [][A]_vars
  BY <1>1, PTL
<1> QED BY <1>2 DEF OncePerEntry

(* A function that is both the read and the write handler of a descriptor  *)
(* is called once for an entry that reports both events.                   *)
THEOREM NoHandlerTwice == DispatchSpec => OncePerEntry
BY HandlersDiffer, DispatchCorrect, PTL DEF DispatchSpec

-----------------------------------------------------------------------------
(***************************************************************************)
(* aeMain.  Its steps are steps of the dispatcher of the file events, of   *)
(* the pass over the time events, or of neither: the two never overlap, so *)
(* what holds of each alone holds in the loop.                             *)
(***************************************************************************)
PhasesApart ==
  /\ lpc \in {"out", "before", "sleep", "files", "time"}
  /\ lpc = "files" <=> fpc # "idle"
  /\ lpc # "time" => tpc = "idle"
ClockIn == now \in [sec : FirstSec..LastSec, ms : 0..(MsPerSec - 1)] /\ setback \in BOOLEAN
LoopInv == DispatchInv /\ TimeInv /\ PhasesApart /\ ClockIn

(* A tick adds a millisecond to the clock and carries into the seconds.    *)
LEMMA TickAdds ==
  ASSUME now \in Moments, Tick
  PROVE  now' \in Moments /\ TotalMs(now') = TotalMs(now) + 1
<1> DEFINE a == Armed(0, 1)
<1>1. a \in Events /\ a.due = TotalMs(a)
  BY ArmedRight
<1>2. a.due = TotalMs(now) + 1 /\ a.sec = now'.sec /\ a.ms = now'.ms
  BY DEF Armed, Tick
<1>3. now' = [sec |-> now'.sec, ms |-> now'.ms]
  BY DEF Tick, aeAddMillisecondsToNow
<1>4. a.sec \in Nat /\ a.ms \in 0..(MsPerSec - 1)
  BY <1>1 DEF Events
<1> HIDE DEF a
<1> QED BY <1>1, <1>2, <1>3, <1>4 DEF Moments, TotalMs

(* The clock that advances is one of the clocks that AeTimeEvents allows.  *)
LEMMA TickIsClockMove ==
  ASSUME now \in Moments, ClockIn, Tick
  PROVE  ClockMoves
<1>1. now' \in Moments /\ TotalMs(now') = TotalMs(now) + 1 /\ TotalMs(now) \in Nat
  BY TickAdds, EarlierIsTotal
<1>2. ~Earlier(now', now)
  BY <1>1, EarlierIsTotal
<1>3. now.sec <= now'.sec
  <2>1. now.sec \in Nat /\ now'.sec \in Nat
    BY <1>1 DEF Moments
  <2> QED BY <1>2, <2>1 DEF Earlier
<1>4. now'.sec <= LastSec
  <2>1. TotalMs(now') <= LastSec * MsPerSec + (MsPerSec - 1)
    <3>1. Horizon = LastSec * MsPerSec + (MsPerSec - 1)
      BY DEF Horizon, TotalMs
    <3>2. LastSec * MsPerSec \in Nat /\ MsPerSec \in Nat \ {0}
      BY LastSecAssumption, MsPerSecAssumption
    <3>3. TotalMs(now) < Horizon
      BY DEF Tick
    <3> QED BY <1>1, <3>1, <3>2, <3>3
  <2>2. now'.sec \in Nat /\ now'.ms \in Nat /\ TotalMs(now') = now'.sec * MsPerSec + now'.ms
    BY <1>1, MsPerSecAssumption DEF Moments, TotalMs
  <2>3. ASSUME LastSec + 1 <= now'.sec PROVE FALSE
    <3> DEFINE a == LastSec * MsPerSec
               b == now'.sec * MsPerSec
    <3>1. (LastSec + 1) * MsPerSec <= b
      BY <2>2, <2>3, LastSecAssumption, MsPerSecAssumption, ProductGrows
    <3>2. (LastSec + 1) * MsPerSec = a + MsPerSec /\ a \in Nat /\ b \in Nat
      BY <2>2, LastSecAssumption, MsPerSecAssumption
    <3> HIDE DEF a, b
    <3>3. a + MsPerSec <= b /\ b + now'.ms <= a + (MsPerSec - 1)
      BY <2>1, <2>2, <3>1, <3>2 DEF a, b
    <3> QED BY <2>2, <3>2, <3>3, MsPerSecAssumption
  <2> QED BY <2>2, <2>3, LastSecAssumption
<1>5. now' \in [sec : FirstSec..LastSec, ms : 0..(MsPerSec - 1)]
  BY <1>1, <1>3, <1>4, FirstSecAssumption, LastSecAssumption DEF ClockIn, Moments
<1>6. setback' = (setback \/ (tpc # "idle" /\ Earlier(now', now)))
  BY Zenon, <1>2 DEF Tick, passVars, ClockIn
<1> QED BY <1>5, <1>6 DEF Tick, ClockMoves, passVars

(* Every step of the loop is a step of the dispatcher or leaves it alone,  *)
(* is a step of the pass or leaves it alone, and keeps the two apart.      *)
LEMMA LoopStepParts ==
  ASSUME LoopInv, [LoopNext]_loopVars
  PROVE  [DispatchNext]_vars /\ [TimeNext]_timeVars /\ PhasesApart'
<1> USE DEF PhasesApart
<1>0. PhasesApart /\ now \in Moments /\ ClockIn
  BY DEF LoopInv, TimeInv, TimeTypes
<1>1. CASE UNCHANGED loopVars
  BY <1>0, <1>1 DEF loopVars, mainVars, vars, dispatchVars, timeVars
<1>2. CASE StartMain \/ Sleep \/ PollNone \/ aeStop \/ ReadInput
           \/ \E fd \in Fd : InputArrives(fd)
  BY Zenon, <1>0, <1>2 DEF StartMain, Sleep, PollNone, aeStop, ReadInput, InputArrives,
                    vars, dispatchVars, timeVars
<1>3. CASE PollFiles
  <2>1. aeApiPoll /\ UNCHANGED timeVars /\ lpc = "sleep" /\ lpc' = "files"
    BY <1>3 DEF PollFiles
  <2>2. fpc' = "scan"
    BY <2>1 DEF aeApiPoll
  <2> QED BY <1>0, <2>1, <2>2 DEF DispatchNext, timeVars
<1>4. CASE FileStep
  <2>1. Dispatcher /\ UNCHANGED timeVars /\ lpc = "files"
        /\ lpc' = IF fpc' = "idle" THEN "time" ELSE "files"
    BY <1>4 DEF FileStep
  <2> QED BY <1>0, <2>1 DEF DispatchNext, timeVars
<1>5. CASE TimeStep
  <2>1. ProcessStep /\ UNCHANGED vars /\ lpc = "time"
        /\ lpc' = IF tpc' # "idle" THEN "time" ELSE IF stop THEN "out" ELSE "before"
    BY <1>5 DEF TimeStep, LoopTest
  <2>2. fpc' = fpc
    BY <2>1 DEF vars, dispatchVars
  <2> QED BY <1>0, <2>1, <2>2 DEF TimeNext
<1>6. CASE AppTimerCall
  <2>1. TimerCall /\ UNCHANGED vars /\ UNCHANGED lpc
    BY <1>6 DEF AppTimerCall, mainVars
  <2>2. fpc' = fpc /\ tpc' = tpc
    BY <2>1 DEF vars, dispatchVars, TimerCall
  <2> QED BY <1>0, <2>1, <2>2 DEF TimeNext
<1>7. CASE Tick
  <2>1. ClockMoves
    BY <1>0, <1>7, TickIsClockMove
  <2>2. UNCHANGED <<vars, lpc, tpc>> /\ fpc' = fpc
    BY <1>7 DEF Tick, mainVars, passVars, vars, dispatchVars
  <2> QED BY <1>0, <2>1, <2>2 DEF TimeNext
<1>8. ASSUME NEW fd \in Fd, FileCall(fd) PROVE [DispatchNext]_vars /\ [TimeNext]_timeVars /\ PhasesApart'
  <2>1. UNCHANGED timeVars /\ UNCHANGED lpc /\ InApp
    BY <1>8 DEF FileCall
  <2>2. CASE InFileHandler
    <3>1. HandlerCall(fd)
      BY <1>8, <2>2 DEF FileCall
    <3>2. fpc' = fpc
      BY <3>1 DEF HandlerCall
    <3> QED BY <1>0, <2>1, <3>1, <3>2 DEF DispatchNext, timeVars
  <2>3. CASE ~InFileHandler
    <3>1. FdCall(fd) /\ UNCHANGED dispatchVars
      BY <1>8, <2>3 DEF FileCall
    <3>2. fpc = "idle"
      BY <1>0, <2>1, <2>3 DEF InApp
    <3>3. IdleCall
      BY <3>1, <3>2 DEF IdleCall, TableNext
    <3> QED BY <1>0, <2>1, <3>1, <3>3 DEF DispatchNext, timeVars, dispatchVars
  <2> QED BY <2>2, <2>3
<1> QED BY <1>1, <1>2, <1>3, <1>4, <1>5, <1>6, <1>7, <1>8 DEF LoopNext

(* The loop starts as aeCreateEventLoop leaves it.                         *)
LEMMA LoopInitInv == LoopInit => LoopInv /\ TimeInit
<1> SUFFICES ASSUME LoopInit PROVE LoopInv
  BY Zenon DEF LoopInit
<1>1. TableInv
  <2> USE SetSizesAssumption, MaxFdAssumption
      DEF Fd, Slot, EmptySlot, Bits, AE_NONE
  <2>1. setsize \in Nat \ {0}
    BY DEF LoopInit
  <2>2. TableTypeOK
    BY <2>1 DEF LoopInit, TableTypeOK
  <2>3. InterestMatches /\ MaxfdExact /\ HandlersAssigned
    BY <2>1 DEF LoopInit, InterestMatches, MaxfdExact, HandlersAssigned
  <2> QED BY <2>2, <2>3 DEF TableInv
<1>2. DispatchTypeOK /\ RanInv
  BY DEF LoopInit, DispatchTypeOK, RanInv
<1>3. TimeInv
  BY TimeInitInv DEF LoopInit
<1>4. PhasesApart /\ ClockIn
  BY Zenon DEF LoopInit, TimeInit, PhasesApart, ClockIn
<1> QED BY <1>1, <1>2, <1>3, <1>4 DEF LoopInv, DispatchInv

(* Every step keeps both tables right and the clock in its range.          *)
LEMMA LoopInvStep == LoopInv /\ [LoopNext]_loopVars => LoopInv'
<1> SUFFICES ASSUME LoopInv, [LoopNext]_loopVars PROVE LoopInv'
  OBVIOUS
<1>1. [DispatchNext]_vars /\ [TimeNext]_timeVars /\ PhasesApart'
  BY LoopStepParts
<1>2. DispatchInv'
  BY <1>1, DispatchStep DEF LoopInv
<1>3. TimeInv'
  BY <1>1, TimeInvStep DEF LoopInv
<1>4. ClockIn'
  <2>1. ClockIn
    BY DEF LoopInv
  <2>2. CASE ClockMoves
    BY Zenon, <2>1, <2>2 DEF ClockMoves, ClockIn
  <2>3. CASE ~ClockMoves
    BY Zenon, <1>1, <2>1, <2>3 DEF ClockIn, TimeNext, ProcessStep, BeginPass, SkipEvent, CallTimeProc,
       EndPass, ReturnNoMore, ReturnAgain, TimerCall, timeVars
  <2> QED BY <2>2, <2>3
<1> QED BY <1>1, <1>2, <1>3, <1>4 DEF LoopInv

(* File and time events never overlap in aeMain: a batch of file events is *)
(* handled only between a poll and the pass, the pass only behind it, and  *)
(* neither while the application runs outside its handlers.                *)
THEOREM LoopPhasesApart == LoopSpec => []PhasesApart
BY LoopInitInv, LoopInvStep, PTL DEF LoopSpec, LoopInv

(* In the composed loop both tables stay right whatever the handlers of    *)
(* either kind and beforesleep do.                                         *)
THEOREM LoopCorrect == LoopSpec => []LoopInv
BY LoopInitInv, LoopInvStep, PTL DEF LoopSpec

(* aeMain implements the time events of AeTimeEvents: all that is proved   *)
(* of them holds of the loop.                                              *)
THEOREM LoopImplementsTimeEvents == LoopSpec => TimeSpec
<1>1. LoopInv /\ [LoopNext]_loopVars => [TimeNext]_timeVars
  BY LoopStepParts
<1> QED BY <1>1, LoopInitInv, LoopCorrect, PTL DEF LoopSpec, TimeSpec

(* The file events in the loop: only registered handlers are called, no    *)
(* reported event of an undisturbed descriptor is dropped, and a function  *)
(* that handles both events of an entry runs once, although time event     *)
(* handlers and beforesleep change the table as well.                      *)
THEOREM LoopServesFileEvents ==
  LoopSpec => CallsRegistered /\ FiredEventServed /\ OncePerEntry
<1>1. LoopInv /\ [LoopNext]_loopVars => [DispatchNext]_vars /\ DispatchInv
  BY LoopStepParts DEF LoopInv
<1>2. LoopSpec => []DispatchInv /\ [][DispatchNext]_vars
  BY <1>1, LoopCorrect, PTL DEF LoopSpec, LoopInv
<1> QED BY <1>2, CallsAreRegistered, FiredAreServed, HandlersDiffer

-----------------------------------------------------------------------------
(* The poll of the loop is not asleep when a timer is due, for more than   *)
(* the second that the clamping of tv_sec and tv_usec may cost: it has no  *)
(* timeout only if there is no timer, and otherwise ends by the time of    *)
(* every timer or in less than a second from now.                          *)
NoOversleep ==
  lpc = "sleep" =>
    IF timers = <<>> THEN wake = Forever
    ELSE /\ wake \in Nat
         /\ \A m \in DOMAIN timers :
              wake <= TotalMs(timers[m]) \/ wake < TotalMs(now) + MsPerSec

(* While the poll sleeps no timer is added or changed, and time passes.    *)
LEMMA OversleepStep == LoopInv /\ NoOversleep /\ [LoopNext]_loopVars => NoOversleep'
<1> SUFFICES ASSUME LoopInv, NoOversleep, [LoopNext]_loopVars, lpc' = "sleep"
             PROVE  IF timers' = <<>> THEN wake' = Forever
                    ELSE /\ wake' \in Nat
                         /\ \A m \in DOMAIN timers' :
                              wake' <= TotalMs(timers'[m]) \/ wake' < TotalMs(now') + MsPerSec
  BY DEF NoOversleep, TotalMs
<1>0. PhasesApart /\ TimeInv /\ now \in Moments /\ timers \in Seq(Events)
  BY DEF LoopInv, TimeInv, TimeTypes
<1>1. \/ Sleep
      \/ lpc = "sleep" /\ UNCHANGED <<now, timers, wake>>
      \/ lpc = "sleep" /\ Tick
  <2>1. \/ UNCHANGED loopVars \/ StartMain \/ Sleep \/ PollFiles \/ PollNone
        \/ FileStep \/ TimeStep \/ aeStop \/ AppTimerCall \/ ReadInput \/ Tick
        \/ (\E fd \in Fd : FileCall(fd)) \/ (\E fd \in Fd : InputArrives(fd))
    BY Zenon DEF LoopNext
  <2>2. CASE UNCHANGED loopVars \/ aeStop \/ ReadInput \/ \E fd \in Fd : InputArrives(fd)
    BY Zenon, <2>2 DEF loopVars, mainVars, timeVars, aeStop, ReadInput, InputArrives
  <2>3. CASE StartMain \/ PollFiles \/ PollNone \/ FileStep \/ TimeStep
    BY Zenon, <2>3 DEF StartMain, PollFiles, PollNone, FileStep, TimeStep, LoopTest
  <2>4. CASE AppTimerCall
    <3>1. lpc' = lpc /\ InApp
      BY <2>4 DEF AppTimerCall, mainVars
    <3>2. fpc = "idle" /\ tpc = "idle" /\ lpc = "sleep"
      BY <1>0, <3>1 DEF PhasesApart
    <3> QED BY <3>1, <3>2 DEF InApp, InFileHandler
  <2>5. CASE \E fd \in Fd : FileCall(fd)
    BY <2>5 DEF FileCall, timeVars
  <2>6. CASE Tick
    BY <2>6 DEF Tick, mainVars
  <2> QED BY Zenon, <2>1, <2>2, <2>3, <2>4, <2>5, <2>6
<1>2. CASE Sleep
  <2>1. UNCHANGED timeVars
    BY <1>2 DEF Sleep
  <2>2. now' = now /\ timers' = timers
    BY <2>1 DEF timeVars
  <2>3. CASE timers = <<>>
    BY <1>2, <2>2, <2>3 DEF Sleep
  <2>4. CASE timers # <<>>
    <3>1. PICK k \in DOMAIN timers :
            aeSearchNearestTimer(k) /\ wake' = TotalMs(now) + TotalMs(SleepFor(timers[k]))
      BY <1>2, <2>4 DEF Sleep
    <3> DEFINE sleep == TotalMs(SleepFor(timers[k]))
    <3>2. timers[k] \in Events /\ TotalMs(now) \in Nat
      BY <1>0, EarlierIsTotal
    <3>3. sleep \in Nat
      <4>1. CASE Due(timers[k])
        BY <1>0, <3>2, <4>1, SleepForOne, MsPerSecAssumption
      <4>2. CASE ~Due(timers[k])
        <5>1. sleep = TotalMs(timers[k]) - TotalMs(now)
          BY <1>0, <3>2, <4>2, SleepForOne
        <5>2. TotalMs(timers[k]) \in Nat /\ TotalMs(now) < TotalMs(timers[k])
          BY <1>0, <3>2, <4>2, EarlierIsTotal DEF Due
        <5> HIDE DEF sleep
        <5> QED BY <3>2, <5>1, <5>2
      <4> QED BY <4>1, <4>2
    <3>4. wake' = TotalMs(now) + sleep
      BY <3>1
    <3>5. CASE \E m \in DOMAIN timers : Due(timers[m])
      <4>1. sleep < MsPerSec
        BY <1>0, <3>1, <3>5, SleepRight DEF SleepIsBounded
      <4> HIDE DEF sleep
      <4>2. wake' \in Nat /\ wake' < TotalMs(now) + MsPerSec
        BY <3>2, <3>3, <3>4, <4>1, MsPerSecAssumption
      <4> QED BY <2>2, <2>4, <4>2
    <3>6. CASE ~\E m \in DOMAIN timers : Due(timers[m])
      <4>1. \A m \in DOMAIN timers : TotalMs(now) + sleep <= TotalMs(timers[m])
        BY <1>0, <3>1, <3>6, SleepRight DEF SleepIsBounded
      <4> HIDE DEF sleep
      <4>2. wake' \in Nat
        BY <3>2, <3>3, <3>4
      <4> QED BY <2>2, <2>4, <3>4, <4>1, <4>2
    <3> QED BY <3>5, <3>6
  <2> QED BY <2>3, <2>4
<1>3. CASE lpc = "sleep" /\ UNCHANGED <<now, timers, wake>>
  BY <1>3 DEF NoOversleep
<1>4. CASE lpc = "sleep" /\ Tick
  <2>1. timers' = timers /\ wake' = wake
    BY <1>4 DEF Tick, mainVars
  <2>2. TotalMs(now') = TotalMs(now) + 1 /\ TotalMs(now) \in Nat
    BY <1>0, <1>4, TickAdds, EarlierIsTotal
  <2>3. CASE timers = <<>>
    BY <1>4, <2>1, <2>3 DEF NoOversleep
  <2>4. CASE timers # <<>>
    BY <1>4, <2>1, <2>2, <2>4, MsPerSecAssumption DEF NoOversleep
  <2> QED BY <2>3, <2>4
<1> QED BY <1>1, <1>2, <1>3, <1>4

(* The sleep of the running loop, for every clock and every sequence of    *)
(* handlers: it is never planned past a timer by a second or more.         *)
THEOREM LoopDoesNotOversleep == LoopSpec => []NoOversleep
<1>1. LoopInit => NoOversleep
  BY DEF LoopInit, NoOversleep
<1> QED BY <1>1, LoopCorrect, OversleepStep, PTL DEF LoopSpec
=============================================================================
