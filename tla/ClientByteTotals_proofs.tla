----------------------- MODULE ClientByteTotals_proofs -----------------------
(***************************************************************************)
(* Proofs about ClientByteTotals, for any clients, access points, counter  *)
(* width and forgetting threshold.                                         *)
(***************************************************************************)
EXTENDS ClientByteTotals, WellFoundedInduction, TLAPS

USE ClientByteTotalsAssumption

\* What the next reading of a listed entry would add is at most what moved
\* through that access point since it was last read, and exactly that while
\* the association has neither restarted nor wrapped.
EntryOK(c, a) ==
    /\ readAt[c][a] <= moved[c][a]
    /\ a \in listed[c] =>
         /\ cnt[c][a] <= moved[c][a]
         /\ Delta(lastRaw[c][a], cnt[c][a]) <= moved[c][a] - readAt[c][a]
         /\ since[c][a] = "read" =>
              /\ lastRaw[c][a] # None
              /\ cnt[c][a] - lastRaw[c][a] = moved[c][a] - readAt[c][a]

Accounted == \A c \in Clients, a \in Aps : EntryOK(c, a)

CurrentIsListed == \A c \in Clients : cur[c] # None => cur[c] \in listed[c]

IInv == TypeOK /\ CurrentIsListed /\ Accounted

-----------------------------------------------------------------------------
(* What observing one poll does, shared by Publish and PublishRaises. *)

\* A reading adds a natural number, and what it adds is at most the reading.
LEMMA DeltaType ==
    ASSUME NEW last \in Readings \cup {None}, NEW raw \in 0 .. Wrap - 1
    PROVE  Delta(last, raw) \in 0 .. raw
BY DEF Delta, Readings, Unavailable

LEMMA EntryDeltaType ==
    ASSUME TypeOK, NEW c \in Clients, NEW a \in Aps
    PROVE  Delta(lastRaw[c][a], cnt[c][a]) \in Nat
<1>1. /\ lastRaw[c][a] \in Readings \cup {None}
      /\ cnt[c][a] \in 0 .. Wrap - 1
  BY DEF TypeOK
<1>2. Delta(lastRaw[c][a], cnt[c][a]) \in 0 .. cnt[c][a]
  BY <1>1, DeltaType
<1>3. QED
  BY <1>2

LEMMA ObservedType ==
    ASSUME TypeOK, NEW c \in Clients, NEW a \in Aps, NEW raw \in 0 .. Wrap - 1
    PROVE  Observed(c, a, raw) \in Nat
<1>1. Delta(lastRaw[c][a], raw) \in 0 .. raw
  BY DeltaType DEF TypeOK
<1>2. QED
  BY <1>1 DEF Observed, TypeOK

LEMMA ReadingType ==
    ASSUME TypeOK, NEW c \in Clients, NEW a \in Aps, NEW stuck
    PROVE  Reading(c, a, stuck) \in 0 .. Wrap - 1
BY DEF TypeOK, Reading, Unavailable

\* dedupe_clients keeps a listed entry of every client present.
LEMMA KeptListed ==
    ASSUME NEW keep \in Deduped, NEW c \in Present
    PROVE  keep[c] \in listed[c]
BY DEF Deduped, Present, Kept

LEMMA ObserveType ==
    ASSUME TypeOK, NEW seen \in SUBSET Present, NEW keep \in Deduped, NEW stuck,
           NEW lost, ObserveAll(seen, keep, stuck, lost)
    PROVE  /\ total' \in [Clients -> Nat \cup {None}]
           /\ lastRaw' \in [Clients -> [Aps -> Readings \cup {None}]]
           /\ readAt' \in [Clients -> [Aps -> Nat]]
           /\ since' \in [Clients -> [Aps -> {"new", "read", "wrapped"}]]
<1>1. \A c \in seen : keep[c] \in Aps
  BY KeptListed DEF TypeOK, Present
<1>2. \A c \in seen : Observed(c, keep[c], Reading(c, keep[c], stuck)) \in Nat
  BY <1>1, ObservedType, ReadingType DEF Present
<1>3. total' \in [Clients -> Nat \cup {None}]
  BY <1>2 DEF ObserveAll, TypeOK
<1>4. \A c \in Clients, a \in Aps : Good(c, a, stuck) => Reading(c, a, stuck) \in Readings
  BY ReadingType DEF Good, Readings, Unavailable
<1>5. lastRaw' \in [Clients -> [Aps -> Readings \cup {None}]]
  BY <1>4 DEF ObserveAll, TypeOK, NoReadings
<1>6. readAt' \in [Clients -> [Aps -> Nat]]
  BY DEF ObserveAll, TypeOK, Zeros
<1>7. since' \in [Clients -> [Aps -> {"new", "read", "wrapped"}]]
  BY DEF ObserveAll, TypeOK
<1>8. QED
  BY <1>3, <1>5, <1>6, <1>7

\* Observing a poll keeps every entry accounted for; the clients it forgets
\* have no entry.
LEMMA ObserveAccounted ==
    ASSUME IInv, NEW seen \in SUBSET Present, NEW keep \in Deduped, NEW stuck,
           NEW lost, lost \cap Present = {},
           ObserveAll(seen, keep, stuck, lost), UNCHANGED router
    PROVE  Accounted'
<1> SUFFICES ASSUME NEW c \in Clients, NEW a \in Aps
             PROVE  EntryOK(c, a)'
  BY DEF Accounted
<1> USE DEF router
<1>1. EntryOK(c, a)
  BY DEF IInv, Accounted
<1>2. TypeOK
  BY DEF IInv
<1>3. CASE c \in lost
  <2>1. listed[c] = {}
    BY <1>3 DEF Present
  <2>2. readAt'[c][a] = 0
    BY <1>3 DEF ObserveAll, Zeros
  <2>3. QED
    BY <1>2, <2>1, <2>2 DEF EntryOK, TypeOK
<1>4. CASE c \notin lost /\ c \in seen /\ keep[c] = a /\ Good(c, a, stuck)
  <2>1. Reading(c, a, stuck) = cnt[c][a]
    BY <1>4 DEF Good, Reading
  <2>2. /\ lastRaw'[c][a] = cnt[c][a]
        /\ readAt'[c][a] = moved[c][a]
        /\ since'[c][a] = "read"
    BY <1>4, <2>1 DEF ObserveAll
  <2>3. cnt[c][a] \in Nat /\ moved[c][a] \in Nat /\ cnt[c][a] # None
    BY <1>2 DEF TypeOK
  <2>4. Delta(cnt[c][a], cnt[c][a]) = 0
    BY <2>3 DEF Delta
  <2>5. QED
    BY <1>1, <2>2, <2>3, <2>4 DEF EntryOK
<1>5. CASE c \notin lost /\ ~(c \in seen /\ keep[c] = a /\ Good(c, a, stuck))
  <2>1. /\ lastRaw'[c][a] = lastRaw[c][a]
        /\ readAt'[c][a] = readAt[c][a]
        /\ since'[c][a] = since[c][a]
    BY <1>5 DEF ObserveAll
  <2>2. QED
    BY <1>1, <2>1 DEF EntryOK
<1>6. QED
  BY <1>3, <1>4, <1>5

-----------------------------------------------------------------------------
(* The inductive invariant. *)

LEMMA InitIInv == Init => IInv
<1> SUFFICES ASSUME Init PROVE IInv
  OBVIOUS
<1>1. TypeOK
  BY DEF Init, TypeOK, Nothing, Zeros, NoReadings, AllNew, Aps
<1>2. CurrentIsListed
  BY DEF Init, CurrentIsListed, Nothing
<1>3. Accounted
  BY DEF Init, Accounted, EntryOK, Zeros
<1>4. QED
  BY <1>1, <1>2, <1>3 DEF IInv

LEMMA AssociateIInv ==
    ASSUME IInv, NEW c \in Clients, NEW a \in Aps, Associate(c, a)
    PROVE  IInv'
<1> USE DEF Associate, totals
<1>1. TypeOK'
  BY DEF IInv, TypeOK
<1>2. CurrentIsListed'
  BY DEF IInv, TypeOK, CurrentIsListed
<1>3. Accounted'
  <2> SUFFICES ASSUME NEW d \in Clients, NEW b \in Aps PROVE EntryOK(d, b)'
    BY DEF Accounted
  <2>1. EntryOK(d, b)
    BY DEF IInv, Accounted
  <2>2. CASE d = c /\ b = a
    <3>1. /\ cnt'[d][b] = 0
          /\ since'[d][b] = "new"
      BY <2>2 DEF IInv, TypeOK
    <3>2. Delta(lastRaw[d][b], 0) = 0
      BY DEF Delta, IInv, TypeOK, Readings
    <3>3. QED
      BY <2>1, <3>1, <3>2 DEF EntryOK, IInv, TypeOK
  <2>3. CASE ~(d = c /\ b = a)
    <3>1. /\ cnt'[d][b] = cnt[d][b]
          /\ since'[d][b] = since[d][b]
          /\ b \in listed'[d] <=> b \in listed[d]
      BY <2>3 DEF IInv, TypeOK
    <3>2. QED
      BY <2>1, <3>1 DEF EntryOK
  <2>4. QED
    BY <2>2, <2>3
<1>4. QED
  BY <1>1, <1>2, <1>3 DEF IInv

LEMMA LeaveIInv ==
    ASSUME IInv, NEW c \in Clients, Leave(c)
    PROVE  IInv'
<1> USE DEF Leave, totals
<1>1. TypeOK'
  BY DEF IInv, TypeOK
<1>2. CurrentIsListed'
  BY DEF IInv, TypeOK, CurrentIsListed
<1>3. Accounted'
  BY DEF IInv, Accounted, EntryOK
<1>4. QED
  BY <1>1, <1>2, <1>3 DEF IInv

LEMMA DropEntryIInv ==
    ASSUME IInv, NEW c \in Clients, NEW a \in Aps, DropEntry(c, a)
    PROVE  IInv'
<1> USE DEF DropEntry, totals
<1>1. TypeOK'
  BY DEF IInv, TypeOK
<1>2. CurrentIsListed'
  BY DEF IInv, TypeOK, CurrentIsListed
<1>3. Accounted'
  <2> SUFFICES ASSUME NEW d \in Clients, NEW b \in Aps PROVE EntryOK(d, b)'
    BY DEF Accounted
  <2>1. EntryOK(d, b)
    BY DEF IInv, Accounted
  <2>2. CASE d = c /\ b = a
    BY <2>1, <2>2 DEF EntryOK, IInv, TypeOK
  <2>3. CASE ~(d = c /\ b = a)
    <3>1. /\ cnt'[d][b] = cnt[d][b]
          /\ b \in listed'[d] <=> b \in listed[d]
      BY <2>3 DEF IInv, TypeOK
    <3>2. QED
      BY <2>1, <3>1 DEF EntryOK
  <2>4. QED
    BY <2>2, <2>3
<1>4. QED
  BY <1>1, <1>2, <1>3 DEF IInv

LEMMA TransferIInv ==
    ASSUME IInv, NEW c \in Clients, NEW n \in 1 .. Wrap - 1, Transfer(c, n)
    PROVE  IInv'
<1> DEFINE a == cur[c]
           wraps == cnt[c][a] + n >= Wrap
<1> USE DEF Transfer, totals
<1>0. a \in Aps /\ a \in listed[c] /\ cnt[c][a] \in 0 .. Wrap - 1
  BY DEF IInv, TypeOK, CurrentIsListed
<1>1. TypeOK'
  <2>1. cnt' \in [Clients -> [Aps -> 0 .. Wrap - 1]]
    BY <1>0 DEF IInv, TypeOK
  <2>2. moved' \in [Clients -> [Aps -> Nat]]
    BY <1>0 DEF IInv, TypeOK
  <2>3. since' \in [Clients -> [Aps -> {"new", "read", "wrapped"}]]
    BY <1>0 DEF IInv, TypeOK
  <2>4. idle' \in [Clients -> [Aps -> Nat]]
    BY <1>0 DEF IInv, TypeOK
  <2>5. QED
    BY <2>1, <2>2, <2>3, <2>4 DEF IInv, TypeOK
<1>2. CurrentIsListed'
  BY DEF IInv, CurrentIsListed
<1>3. Accounted'
  <2> SUFFICES ASSUME NEW d \in Clients, NEW b \in Aps PROVE EntryOK(d, b)'
    BY DEF Accounted
  <2>1. EntryOK(d, b)
    BY DEF IInv, Accounted
  <2>2. CASE d = c /\ b = a
    <3>1. /\ cnt'[d][b] = IF wraps THEN cnt[d][b] + n - Wrap ELSE cnt[d][b] + n
          /\ moved'[d][b] = moved[d][b] + n
          /\ since'[d][b] = IF wraps /\ since[d][b] = "read"
                            THEN "wrapped" ELSE since[d][b]
          /\ readAt'[d][b] = readAt[d][b]
          /\ lastRaw'[d][b] = lastRaw[d][b]
          /\ b \in listed'[d]
      BY <1>0, <2>2 DEF IInv, TypeOK
    <3>2. /\ moved[d][b] \in Nat /\ readAt[d][b] \in Nat
          /\ cnt[d][b] \in 0 .. Wrap - 1
          /\ lastRaw[d][b] \in (0 .. Wrap - 1) \cup {None}
      BY DEF IInv, TypeOK, Readings, Unavailable
    <3>3. b \in listed[d]
      BY <1>0, <2>2
    <3>4. Delta(lastRaw[d][b], cnt[d][b]) <= moved[d][b] - readAt[d][b]
      BY <2>1, <3>3 DEF EntryOK
    <3>5. /\ cnt'[d][b] <= moved'[d][b]
          /\ Delta(lastRaw[d][b], cnt'[d][b]) <= moved'[d][b] - readAt[d][b]
      BY <2>1, <2>2, <3>1, <3>2, <3>3, <3>4 DEF EntryOK, Delta
    <3>6. since'[d][b] = "read" => ~wraps /\ since[d][b] = "read"
      BY <3>1
    <3>7. since'[d][b] = "read" =>
             cnt'[d][b] - lastRaw[d][b] = moved'[d][b] - readAt[d][b]
      BY <2>1, <3>1, <3>2, <3>3, <3>6 DEF EntryOK
    <3>8. QED
      BY <2>1, <3>1, <3>2, <3>3, <3>5, <3>6, <3>7 DEF EntryOK
  <2>3. CASE ~(d = c /\ b = a)
    <3>1. /\ cnt'[d][b] = cnt[d][b]
          /\ moved'[d][b] = moved[d][b]
          /\ since'[d][b] = since[d][b]
      BY <1>0, <2>3 DEF IInv, TypeOK
    <3>2. QED
      BY <2>1, <3>1 DEF EntryOK
  <2>4. QED
    BY <2>2, <2>3
<1>4. QED
  BY <1>1, <1>2, <1>3 DEF IInv

LEMMA IdleIInv ==
    ASSUME IInv, NEW c \in Clients, Idle(c)
    PROVE  IInv'
<1> USE DEF Idle, totals
<1>1. TypeOK'
  BY DEF IInv, TypeOK
<1>2. CurrentIsListed'
  BY DEF IInv, CurrentIsListed
<1>3. Accounted'
  BY DEF IInv, Accounted, EntryOK
<1>4. QED
  BY <1>1, <1>2, <1>3 DEF IInv

LEMMA PublishIInv ==
    ASSUME IInv, Publish
    PROVE  IInv'
<1> DEFINE lost == {c \in Clients : Forgotten(c)}
<1>1. PICK keep \in Deduped, stuck \in SUBSET Present :
        /\ ObserveAll(Present, keep, stuck, lost)
        /\ absent' = [c \in Clients |->
              IF c \in Present \/ c \in lost \/ total[c] = None
              THEN 0 ELSE absent[c] + 1]
        /\ published' = [c \in Clients |->
              IF c \in Present THEN total'[c] ELSE None]
        /\ UNCHANGED router
  BY DEF Publish
<1>2. lost \cap Present = {}
  BY DEF Forgotten
<1>3. TypeOK'
  <2>1. /\ total' \in [Clients -> Nat \cup {None}]
        /\ lastRaw' \in [Clients -> [Aps -> Readings \cup {None}]]
        /\ readAt' \in [Clients -> [Aps -> Nat]]
        /\ since' \in [Clients -> [Aps -> {"new", "read", "wrapped"}]]
    BY <1>1, ObserveType DEF IInv
  <2>2. absent' \in [Clients -> Nat]
    BY <1>1 DEF IInv, TypeOK
  <2>3. published' \in [Clients -> Nat \cup {None}]
    BY <1>1, <2>1
  <2>4. QED
    BY <1>1, <2>1, <2>2, <2>3 DEF IInv, TypeOK, router
<1>4. CurrentIsListed'
  BY <1>1 DEF IInv, CurrentIsListed, router
<1>5. Accounted'
  BY <1>1, <1>2, ObserveAccounted
<1>6. QED
  BY <1>3, <1>4, <1>5 DEF IInv

LEMMA PublishRaisesIInv ==
    ASSUME IInv, PublishRaises
    PROVE  IInv'
<1>1. PICK keep \in Deduped, stuck \in SUBSET Present, seen \in SUBSET Present :
        /\ ObserveAll(seen, keep, stuck, {})
        /\ absent' = [c \in Clients |-> IF c \in seen THEN 0 ELSE absent[c]]
        /\ published' = Nothing
        /\ UNCHANGED router
  BY DEF PublishRaises
<1>2. seen \in SUBSET Present
  BY <1>1
<1>3. TypeOK'
  <2>1. /\ total' \in [Clients -> Nat \cup {None}]
        /\ lastRaw' \in [Clients -> [Aps -> Readings \cup {None}]]
        /\ readAt' \in [Clients -> [Aps -> Nat]]
        /\ since' \in [Clients -> [Aps -> {"new", "read", "wrapped"}]]
    BY <1>1, <1>2, ObserveType DEF IInv
  <2>2. absent' \in [Clients -> Nat]
    BY <1>1 DEF IInv, TypeOK
  <2>3. published' \in [Clients -> Nat \cup {None}]
    BY <1>1 DEF Nothing
  <2>4. QED
    BY <1>1, <2>1, <2>2, <2>3 DEF IInv, TypeOK, router
<1>4. CurrentIsListed'
  BY <1>1 DEF IInv, CurrentIsListed, router
<1>5. Accounted'
  BY <1>1, <1>2, ObserveAccounted
<1>6. QED
  BY <1>3, <1>4, <1>5 DEF IInv
LEMMA PollFailsIInv ==
    ASSUME IInv, PollFails
    PROVE  IInv'
<1> USE DEF PollFails, router, totals
<1>1. TypeOK'
  BY DEF IInv, TypeOK, Nothing
<1>2. CurrentIsListed'
  BY DEF IInv, CurrentIsListed
<1>3. Accounted'
  BY DEF IInv, Accounted, EntryOK
<1>4. QED
  BY <1>1, <1>2, <1>3 DEF IInv

LEMMA ExporterRestartIInv ==
    ASSUME IInv, ExporterRestart
    PROVE  IInv'
<1> USE DEF ExporterRestart, router
<1>1. TypeOK'
  BY DEF IInv, TypeOK, Nothing, NoReadings, Zeros, AllNew
<1>2. CurrentIsListed'
  BY DEF IInv, CurrentIsListed
<1>3. Accounted'
  <2> SUFFICES ASSUME NEW c \in Clients, NEW a \in Aps PROVE EntryOK(c, a)'
    BY DEF Accounted
  <2>1. EntryOK(c, a)
    BY DEF IInv, Accounted
  <2>2. lastRaw'[c][a] = None /\ readAt'[c][a] = 0 /\ since'[c][a] = "new"
    BY DEF NoReadings, Zeros, AllNew
  <2>3. QED
    BY <2>1, <2>2 DEF EntryOK, Delta, IInv, TypeOK
<1>4. QED
  BY <1>1, <1>2, <1>3 DEF IInv

LEMMA NextIInv == IInv /\ [Next]_vars => IInv'
<1> SUFFICES ASSUME IInv, [Next]_vars PROVE IInv'
  OBVIOUS
<1>1. CASE Router
  BY <1>1, AssociateIInv, DropEntryIInv, LeaveIInv, TransferIInv, IdleIInv DEF Router
<1>2. CASE Publish
  BY <1>2, PublishIInv
<1>3. CASE PublishRaises
  BY <1>3, PublishRaisesIInv
<1>4. CASE PollFails
  BY <1>4, PollFailsIInv
<1>5. CASE ExporterRestart
  BY <1>5, ExporterRestartIInv
<1>6. CASE UNCHANGED vars
  BY <1>6 DEF vars, IInv, TypeOK, CurrentIsListed, Accounted, EntryOK
<1>7. QED
  BY <1>1, <1>2, <1>3, <1>4, <1>5, <1>6 DEF Next

\* Every variable keeps its type, and every listed entry stays accounted for.
THEOREM Invariance == Spec => []IInv
BY InitIInv, NextIInv, PTL DEF Spec

\* Type correctness.
THEOREM TypeCorrect == Spec => []TypeOK
<1>1. IInv => TypeOK
  BY DEF IInv
<1>2. QED
  BY <1>1, Invariance, PTL

-----------------------------------------------------------------------------
(* What a step adds to the totals. *)

\* The gain of a client in a poll that observed it.
LEMMA GainObserved ==
    ASSUME IInv, NEW seen \in SUBSET Present, NEW keep \in Deduped, NEW stuck,
           NEW lost, lost \cap Present = {},
           ObserveAll(seen, keep, stuck, lost), UNCHANGED router,
           NEW c \in Clients, total'[c] # None
    PROVE  \/ Gain(c) = 0 /\ readAt'[c] = readAt[c]
           \/ /\ c \in seen
              /\ keep[c] \in Aps
              /\ keep[c] \in listed[c]
              /\ Gain(c) = Delta(lastRaw[c][keep[c]], cnt[c][keep[c]])
              /\ readAt'[c] = [readAt[c] EXCEPT ![keep[c]] = moved[c][keep[c]]]
<1>0. TypeOK
  BY DEF IInv
<1>1. c \notin lost
  BY DEF ObserveAll, Present
<1>2. CASE c \notin seen
  <2>1. total'[c] = total[c]
    BY <1>1, <1>2 DEF ObserveAll
  <2>2. Gain(c) = 0
    BY <1>0, <2>1 DEF Gain, Known, TypeOK
  <2>3. readAt'[c] = [a \in Aps |-> readAt[c][a]]
    BY <1>1, <1>2 DEF ObserveAll
  <2>4. QED
    BY <1>0, <2>2, <2>3 DEF TypeOK
<1>3. CASE c \in seen
  <2> DEFINE a == keep[c]
  <2>1. a \in listed[c] /\ a \in Aps
    BY <1>0, <1>3, KeptListed DEF TypeOK
  <2>2. total'[c] = Observed(c, a, Reading(c, a, stuck))
    BY <1>3 DEF ObserveAll
  <2>3. CASE ~Good(c, a, stuck)
    <3>1. total'[c] = Known(c)
      BY <2>2, <2>3 DEF Good, Observed, Known
    <3>2. Gain(c) = 0
      BY <1>0, <3>1 DEF Gain, Known, TypeOK
    <3>3. readAt'[c] = [b \in Aps |-> readAt[c][b]]
      BY <1>1, <2>3 DEF ObserveAll
    <3>4. QED
      BY <1>0, <3>2, <3>3 DEF TypeOK
  <2>4. CASE Good(c, a, stuck)
    <3>1. Reading(c, a, stuck) = cnt[c][a] /\ cnt[c][a] # Unavailable
      BY <2>4 DEF Good, Reading
    <3>2. total'[c] = Known(c) + Delta(lastRaw[c][a], cnt[c][a])
      BY <2>2, <3>1 DEF Observed, Known
    <3>3. Delta(lastRaw[c][a], cnt[c][a]) \in Nat
      BY <1>0, <2>1, EntryDeltaType
    <3>4. Gain(c) = Delta(lastRaw[c][a], cnt[c][a])
      BY <1>0, <3>2, <3>3 DEF Gain, Known, TypeOK
    <3>5. readAt'[c] = [b \in Aps |-> IF a = b THEN moved[c][b] ELSE readAt[c][b]]
      BY <1>1, <1>3, <2>4 DEF ObserveAll
    <3>6. readAt'[c] = [readAt[c] EXCEPT ![a] = moved[c][a]]
      BY <1>0, <3>5 DEF TypeOK
    <3>7. QED
      BY <1>3, <2>1, <3>4, <3>6
  <2>5. QED
    BY <2>3, <2>4
<1>4. QED
  BY <1>2, <1>3

\* In every step, a client that is remembered afterwards gained nothing, or
\* what its kept entry's reading adds.
LEMMA GainNext ==
    ASSUME IInv, Next, NEW c \in Clients, total'[c] # None
    PROVE  \/ Gain(c) = 0 /\ readAt'[c] = readAt[c]
           \/ \E a \in Aps :
                /\ a \in listed[c]
                /\ Gain(c) = Delta(lastRaw[c][a], cnt[c][a])
                /\ readAt'[c] = [readAt[c] EXCEPT ![a] = moved[c][a]]
<1>1. CASE Publish
  <2> DEFINE lost == {d \in Clients : Forgotten(d)}
  <2>1. PICK keep \in Deduped, stuck \in SUBSET Present :
          ObserveAll(Present, keep, stuck, lost) /\ UNCHANGED router
    BY <1>1 DEF Publish
  <2>2. lost \cap Present = {}
    BY DEF Forgotten
  <2>3. Present \in SUBSET Present
    OBVIOUS
  <2>4. QED
    BY <2>1, <2>2, <2>3, GainObserved
<1>2. CASE PublishRaises
  <2>1. PICK keep \in Deduped, stuck \in SUBSET Present, seen \in SUBSET Present :
          ObserveAll(seen, keep, stuck, {}) /\ UNCHANGED router
    BY <1>2 DEF PublishRaises
  <2>2. {} \cap Present = {}
    OBVIOUS
  <2>3. QED
    BY <2>1, <2>2, GainObserved
<1>3. CASE Router \/ PollFails
  <2>1. total' = total /\ readAt' = readAt
    BY <1>3 DEF Router, Associate, Leave, DropEntry, Transfer, Idle, PollFails, totals
  <2>2. QED
    BY <2>1 DEF Gain, Known, IInv, TypeOK
<1>4. CASE ExporterRestart
  BY <1>4 DEF ExporterRestart, Nothing
<1>5. QED
  BY <1>1, <1>2, <1>3, <1>4 DEF Next

\* No poll adds bytes that did not move, or that were added before.
THEOREM AddsOnlyWhatMovedHolds == Spec => AddsOnlyWhatMoved
<1>1. ASSUME IInv, [Next]_vars, NEW c \in Clients, total'[c] # None
      PROVE  \/ Gain(c) = 0
             \/ \E a \in Aps : /\ Gain(c) \in 1 .. moved[c][a] - readAt[c][a]
                               /\ readAt'[c][a] = moved[c][a]
  <2>1. CASE UNCHANGED vars
    BY <1>1, <2>1 DEF vars, Gain, Known, IInv, TypeOK
  <2>2. CASE Next
    <3>1. SUFFICES ASSUME NEW a \in Aps, a \in listed[c],
                          Gain(c) = Delta(lastRaw[c][a], cnt[c][a]),
                          readAt'[c] = [readAt[c] EXCEPT ![a] = moved[c][a]]
                   PROVE  \/ Gain(c) = 0
                          \/ /\ Gain(c) \in 1 .. moved[c][a] - readAt[c][a]
                             /\ readAt'[c][a] = moved[c][a]
      BY <1>1, <2>2, GainNext
    <3>2. TypeOK /\ EntryOK(c, a)
      BY <1>1 DEF IInv, Accounted
    <3>3. Delta(lastRaw[c][a], cnt[c][a]) \in Nat
      BY <3>2, EntryDeltaType
    <3>4. Delta(lastRaw[c][a], cnt[c][a]) <= moved[c][a] - readAt[c][a]
      BY <3>1, <3>2 DEF EntryOK
    <3>5. moved[c][a] - readAt[c][a] \in Int
      BY <3>2 DEF TypeOK
    <3>6. readAt'[c][a] = moved[c][a]
      BY <3>1, <3>2 DEF TypeOK
    <3>7. QED
      BY <3>1, <3>3, <3>4, <3>5, <3>6
  <2>3. QED
    BY <1>1, <2>1, <2>2
<1>2. IInv /\ [Next]_vars =>
        [\A c \in Clients :
           total'[c] # None =>
              \/ Gain(c) = 0
              \/ \E a \in Aps : /\ Gain(c) \in 1 .. moved[c][a] - readAt[c][a]
                                /\ readAt'[c][a] = moved[c][a]]_vars
  BY <1>1
<1>3. QED
  BY <1>2, Invariance, PTL DEF Spec, AddsOnlyWhatMoved

\* An unbroken association loses no byte.
THEOREM AddsAllWhenUnbrokenHolds == Spec => AddsAllWhenUnbroken
<1>1. ASSUME IInv, [Next]_vars, NEW c \in Clients, NEW b \in Aps,
             since[c][b] = "read", total'[c] # None, readAt'[c][b] # readAt[c][b]
      PROVE  Gain(c) = moved[c][b] - readAt[c][b]
  <2>1. Next
    BY <1>1 DEF vars
  <2>2. PICK a \in Aps : /\ a \in listed[c]
                         /\ Gain(c) = Delta(lastRaw[c][a], cnt[c][a])
                         /\ readAt'[c] = [readAt[c] EXCEPT ![a] = moved[c][a]]
    BY <1>1, <2>1, GainNext
  <2>3. TypeOK /\ EntryOK(c, b)
    BY <1>1 DEF IInv, Accounted
  <2>4. a = b
    BY <1>1, <2>2, <2>3 DEF TypeOK
  <2>5. /\ lastRaw[c][b] # None
        /\ cnt[c][b] - lastRaw[c][b] = moved[c][b] - readAt[c][b]
        /\ readAt[c][b] <= moved[c][b]
    BY <1>1, <2>2, <2>3, <2>4 DEF EntryOK
  <2>6. QED
    BY <2>2, <2>3, <2>4, <2>5 DEF TypeOK, Delta, Readings
<1>2. IInv /\ [Next]_vars =>
        [\A c \in Clients, a \in Aps :
           (/\ since[c][a] = "read"
            /\ total'[c] # None
            /\ readAt'[c][a] # readAt[c][a])
              => Gain(c) = moved[c][a] - readAt[c][a]]_vars
  BY <1>1
<1>3. QED
  BY <1>2, Invariance, PTL DEF Spec, AddsAllWhenUnbroken

-----------------------------------------------------------------------------
(* An exported series follows its total. *)

\* What is exported of a client is its current total.
PublishedIsTotal == \A c \in Clients : published[c] # None => published[c] = total[c]

LEMMA PublishedIsTotalInit == Init => PublishedIsTotal
BY DEF Init, PublishedIsTotal, Nothing

LEMMA PublishedIsTotalNext == PublishedIsTotal /\ [Next]_vars => PublishedIsTotal'
<1> SUFFICES ASSUME PublishedIsTotal, [Next]_vars PROVE PublishedIsTotal'
  OBVIOUS
<1>1. CASE UNCHANGED vars
  BY <1>1 DEF vars, PublishedIsTotal
<1>2. CASE Router
  <2>1. UNCHANGED <<total, published>>
    BY <1>2 DEF Router, Associate, Leave, DropEntry, Transfer, Idle, totals
  <2>2. QED
    BY <2>1 DEF PublishedIsTotal
<1>3. CASE Publish
  <2>1. published' = [c \in Clients |-> IF c \in Present THEN total'[c] ELSE None]
    BY <1>3 DEF Publish
  <2>2. QED
    BY <2>1 DEF PublishedIsTotal
<1>4. CASE PublishRaises \/ PollFails \/ ExporterRestart
  <2>1. published' = Nothing
    BY <1>4 DEF PublishRaises, PollFails, ExporterRestart
  <2>2. QED
    BY <2>1 DEF PublishedIsTotal, Nothing
<1>5. QED
  BY <1>1, <1>2, <1>3, <1>4 DEF Next

LEMMA AlwaysPublishedIsTotal == Spec => []PublishedIsTotal
BY PublishedIsTotalInit, PublishedIsTotalNext, PTL DEF Spec

\* Neither a total nor the series that shows it goes back, as long as the
\* client is remembered.
THEOREM TotalNeverGoesBackHolds == Spec => TotalNeverGoesBack
<1>1. ASSUME IInv, PublishedIsTotal', [Next]_vars, NEW c \in Clients,
             total[c] # None, total'[c] # None
      PROVE  /\ total'[c] >= total[c]
             /\ published'[c] # None => published'[c] >= total[c]
  <2>1. total[c] \in Nat /\ TypeOK
    BY <1>1 DEF IInv, TypeOK
  <2>2. CASE UNCHANGED vars
    BY <1>1, <2>1, <2>2 DEF vars, PublishedIsTotal
  <2>3. CASE Next
    <3>1. Gain(c) \in Nat
      <4>1. CASE Gain(c) = 0
        BY <4>1
      <4>2. CASE \E a \in Aps : Gain(c) = Delta(lastRaw[c][a], cnt[c][a])
        BY <2>1, <4>2, EntryDeltaType
      <4>3. QED
        BY <1>1, <2>3, <4>1, <4>2, GainNext
    <3>2. total'[c] \in Nat
      <4>1. TypeOK'
        BY <1>1, NextIInv DEF IInv
      <4>2. QED
        BY <1>1, <4>1 DEF TypeOK
    <3>3. total'[c] >= total[c]
      BY <1>1, <2>1, <3>1, <3>2 DEF Gain, Known
    <3>4. QED
      BY <1>1, <3>3 DEF PublishedIsTotal
  <2>4. QED
    BY <1>1, <2>2, <2>3
<1>2. IInv /\ PublishedIsTotal' /\ [Next]_vars =>
        [\A c \in Clients :
           (total[c] # None /\ total'[c] # None) =>
              /\ total'[c] >= total[c]
              /\ published'[c] # None => published'[c] >= total[c]]_vars
  BY <1>1
<1>3. QED
  BY <1>2, Invariance, AlwaysPublishedIsTotal, PTL DEF Spec, TotalNeverGoesBack

-----------------------------------------------------------------------------
(* Sums over the access points. *)

\* A set of numbers has a least one.
LEMMA LeastOf ==
    ASSUME NEW T \in SUBSET Nat, T # {}
    PROVE  \E m \in T : \A x \in T : m <= x
<1>1. PICK m \in T : \A x \in T : ~ (<<x, m>> \in OpToRel(<, Nat))
  BY WFMin, NatLessThanWellFounded
<1>2. \A x \in T : ~ (x < m)
  BY <1>1 DEF OpToRel
<1>3. QED
  BY <1>2

\* Induction, for a set of numbers.
LEMMA Induction ==
    ASSUME NEW n \in Nat, NEW T, 0 \in T, \A k \in 0 .. n - 1 : k \in T => k + 1 \in T
    PROVE  \A k \in 0 .. n : k \in T
<1> SUFFICES ASSUME NEW b \in 0 .. n, b \notin T PROVE FALSE
  OBVIOUS
<1> DEFINE U == {k \in 0 .. n : k \notin T}
<1>1. U \in SUBSET Nat /\ U # {}
  OBVIOUS
<1>2. PICK m \in U : \A x \in U : m <= x
  <2> HIDE DEF U
  <2>1. \E m \in U : \A x \in U : m <= x
    BY <1>1, LeastOf
  <2>2. QED
    BY <2>1
<1>3. m # 0 /\ m \in 0 .. n /\ m \notin T
  BY <1>2
<1>4. m - 1 \in 0 .. n - 1
  BY <1>3
<1>5. m - 1 \notin U
  BY <1>2, <1>3
<1>6. m - 1 \in T
  BY <1>3, <1>4, <1>5
<1>7. m - 1 + 1 = m
  BY <1>3
<1>8. QED
  BY <1>3, <1>4, <1>6, <1>7

\* g has the partial sums of f.
Partial(g, f, n) ==
    /\ g \in [0 .. n -> Int]
    /\ g[0] = 0
    /\ \A k \in 1 .. n : g[k] = g[k - 1] + f[k]

\* The recursion of SumOverAps has a solution, so its CHOOSE is one.
LEMMA PartialExists ==
    ASSUME NEW f \in [Aps -> Int]
    PROVE  \E g : Partial(g, f, NumAps)
<1> DEFINE T == {n \in 0 .. NumAps : \E g : Partial(g, f, n)}
<1>1. 0 \in T
  <2>1. Partial([k \in 0 .. 0 |-> 0], f, 0)
    BY DEF Partial
  <2>2. QED
    BY <2>1
<1>2. ASSUME NEW n \in 0 .. NumAps - 1, n \in T PROVE n + 1 \in T
  <2>1. PICK g : Partial(g, f, n)
    BY <1>2
  <2> DEFINE h == [k \in 0 .. n + 1 |-> IF k = n + 1 THEN g[n] + f[n + 1] ELSE g[k]]
  <2>2. f[n + 1] \in Int /\ g[n] \in Int
    BY <2>1 DEF Partial, Aps
  <2>3. h \in [0 .. n + 1 -> Int]
    BY <2>1, <2>2 DEF Partial
  <2>4. h[0] = 0
    BY <2>1 DEF Partial
  <2>5. ASSUME NEW k \in 1 .. n + 1 PROVE h[k] = h[k - 1] + f[k]
    BY <2>1, <2>2 DEF Partial
  <2>6. Partial(h, f, n + 1)
    <3> HIDE DEF h
    <3>1. QED
      BY <2>3, <2>4, <2>5 DEF Partial
  <2>7. QED
    BY <2>6
<1> HIDE DEF T
<1>3. NumAps \in T
  BY <1>1, <1>2, Induction
<1>4. QED
  BY <1>3 DEF T

LEMMA SumIsPartial ==
    ASSUME NEW f \in [Aps -> Int]
    PROVE  \E g : Partial(g, f, NumAps) /\ SumOverAps(f) = g[NumAps]
<1> DEFINE sum[n \in 0 .. NumAps] == IF n = 0 THEN 0 ELSE sum[n - 1] + f[n]
<1>1. PICK g : Partial(g, f, NumAps)
  BY PartialExists
<1>2. g = [n \in 0 .. NumAps |-> IF n = 0 THEN 0 ELSE g[n - 1] + f[n]]
  BY <1>1 DEF Partial
<1>3. sum = [n \in 0 .. NumAps |-> IF n = 0 THEN 0 ELSE sum[n - 1] + f[n]]
  BY <1>2
<1>4. SumOverAps(f) = sum[NumAps]
  BY DEF SumOverAps
<1> HIDE DEF sum
<1> DEFINE T == {k \in 0 .. NumAps : sum[k] = g[k]}
<1>5. 0 \in T
  BY <1>1, <1>3 DEF Partial
<1>6. ASSUME NEW k \in 0 .. NumAps - 1, k \in T PROVE k + 1 \in T
  <2>1. sum[k + 1] = sum[k] + f[k + 1]
    <3>1. k + 1 \in 0 .. NumAps /\ k + 1 # 0 /\ (k + 1) - 1 = k
      OBVIOUS
    <3>2. QED
      BY <1>3, <3>1
  <2>2. g[k + 1] = g[k] + f[k + 1]
    <3>1. k + 1 \in 1 .. NumAps /\ (k + 1) - 1 = k
      OBVIOUS
    <3>2. QED
      BY <1>1, <3>1 DEF Partial
  <2>3. QED
    BY <1>6, <2>1, <2>2
<1> HIDE DEF T
<1>7. NumAps \in T
  BY <1>5, <1>6, Induction
<1>8. QED
  BY <1>1, <1>4, <1>7 DEF T

\* A sum of greater addends is greater.
LEMMA SumMonotone ==
    ASSUME NEW f \in [Aps -> Int], NEW h \in [Aps -> Int], \A a \in Aps : f[a] <= h[a]
    PROVE  SumOverAps(f) <= SumOverAps(h) /\ SumOverAps(f) \in Int /\ SumOverAps(h) \in Int
<1>1. PICK g : Partial(g, f, NumAps) /\ SumOverAps(f) = g[NumAps]
  BY SumIsPartial
<1>2. PICK k : Partial(k, h, NumAps) /\ SumOverAps(h) = k[NumAps]
  BY SumIsPartial
<1> DEFINE T == {n \in 0 .. NumAps : g[n] <= k[n]}
<1>3. 0 \in T
  BY <1>1, <1>2 DEF Partial
<1>4. ASSUME NEW n \in 0 .. NumAps - 1, n \in T PROVE n + 1 \in T
  <2>1. n + 1 \in 1 .. NumAps /\ (n + 1) - 1 = n
    OBVIOUS
  <2>2. /\ g[n + 1] = g[n] + f[n + 1] /\ k[n + 1] = k[n] + h[n + 1]
        /\ g[n] \in Int /\ k[n] \in Int
    BY <1>1, <1>2, <2>1 DEF Partial
  <2>3. f[n + 1] \in Int /\ h[n + 1] \in Int /\ f[n + 1] <= h[n + 1]
    BY <2>1 DEF Aps
  <2>4. g[n + 1] <= k[n + 1]
    BY <1>4, <2>2, <2>3
  <2>5. QED
    BY <2>1, <2>4
<1> HIDE DEF T
<1>5. NumAps \in T
  BY <1>3, <1>4, Induction
<1>6. QED
  BY <1>1, <1>2, <1>5 DEF T, Partial

\* Changing an addend changes the sum by as much.
LEMMA SumExcept ==
    ASSUME NEW f \in [Aps -> Int], NEW a \in Aps, NEW v \in Int
    PROVE  SumOverAps([f EXCEPT ![a] = v]) = SumOverAps(f) + (v - f[a])
<1> DEFINE h == [f EXCEPT ![a] = v]
<1>0. h \in [Aps -> Int]
  OBVIOUS
<1> HIDE DEF h
<1>1. PICK g : Partial(g, f, NumAps) /\ SumOverAps(f) = g[NumAps]
  BY SumIsPartial
<1>2. PICK k : Partial(k, h, NumAps) /\ SumOverAps(h) = k[NumAps]
  BY <1>0, SumIsPartial
<1> DEFINE T == {n \in 0 .. NumAps : k[n] = g[n] + (IF n < a THEN 0 ELSE v - f[a])}
<1>3. 0 \in T
  BY <1>1, <1>2 DEF Partial, Aps
<1>4. ASSUME NEW n \in 0 .. NumAps - 1, n \in T PROVE n + 1 \in T
  <2>1. n + 1 \in 1 .. NumAps /\ (n + 1) - 1 = n
    OBVIOUS
  <2>2. /\ g[n + 1] = g[n] + f[n + 1] /\ k[n + 1] = k[n] + h[n + 1]
        /\ g[n] \in Int /\ k[n] \in Int
    BY <1>1, <1>2, <2>1 DEF Partial
  <2>3. f[n + 1] \in Int /\ f[a] \in Int /\ a \in Nat
    BY <2>1 DEF Aps
  <2>4. h[n + 1] = IF n + 1 = a THEN v ELSE f[n + 1]
    BY <2>1 DEF h, Aps
  <2>5. k[n] = g[n] + (IF n < a THEN 0 ELSE v - f[a])
    BY <1>4
  <2>6. k[n + 1] = g[n + 1] + (IF n + 1 < a THEN 0 ELSE v - f[a])
    BY <2>2, <2>3, <2>4, <2>5
  <2>7. QED
    BY <2>1, <2>6
<1> HIDE DEF T
<1>5. NumAps \in T
  BY <1>3, <1>4, Induction
<1>6. ~(NumAps < a)
  BY DEF Aps
<1>7. QED
  BY <1>1, <1>2, <1>5, <1>6 DEF T, h

-----------------------------------------------------------------------------
(* The totals never claim too much. *)

\* A total counts no more than what was read of the client's entries.
Counted == \A c \in Clients : Known(c) <= SumOverAps(readAt[c])

\* What is not remembered counts nothing.
LEMMA NothingKnown ==
    ASSUME NEW f \in [Aps -> Nat]
    PROVE  0 <= SumOverAps(f)
<1>1. PICK g : Partial(g, f, NumAps) /\ SumOverAps(f) = g[NumAps]
  BY SumIsPartial
<1> DEFINE T == {n \in 0 .. NumAps : 0 <= g[n]}
<1>2. 0 \in T
  BY <1>1 DEF Partial
<1>3. ASSUME NEW n \in 0 .. NumAps - 1, n \in T PROVE n + 1 \in T
  <2>1. n + 1 \in 1 .. NumAps /\ (n + 1) - 1 = n
    OBVIOUS
  <2>2. g[n + 1] = g[n] + f[n + 1] /\ g[n] \in Int /\ f[n + 1] \in Nat
    BY <1>1, <2>1 DEF Partial, Aps
  <2>3. QED
    BY <1>3, <2>1, <2>2
<1> HIDE DEF T
<1>4. NumAps \in T
  BY <1>2, <1>3, Induction
<1>5. QED
  BY <1>1, <1>4 DEF T

LEMMA CountedInit == Init => Counted
<1> SUFFICES ASSUME Init, NEW c \in Clients PROVE Known(c) <= SumOverAps(readAt[c])
  BY DEF Counted
<1>1. Known(c) = 0
  BY DEF Init, Nothing, Known
<1>2. readAt[c] \in [Aps -> Nat]
  BY DEF Init, Zeros
<1>3. QED
  BY <1>1, <1>2, NothingKnown

LEMMA CountedNext == IInv /\ Counted /\ [Next]_vars => Counted'
<1> SUFFICES ASSUME IInv, Counted, [Next]_vars, NEW c \in Clients
             PROVE  Known(c)' <= SumOverAps(readAt'[c])
  BY DEF Counted
<1>1. TypeOK /\ TypeOK'
  BY NextIInv DEF IInv
<1>2. /\ readAt[c] \in [Aps -> Nat] /\ readAt'[c] \in [Aps -> Nat]
      /\ moved[c] \in [Aps -> Nat]
      /\ Known(c) \in Nat
  BY <1>1 DEF TypeOK, Known
<1>3. CASE UNCHANGED vars
  BY <1>3 DEF vars, Counted, Known
<1>4. CASE total'[c] = None
  <2>1. Known(c)' = 0
    BY <1>4 DEF Known
  <2>2. QED
    BY <1>2, <2>1, NothingKnown
<1>5. CASE Next /\ total'[c] # None
  <2>1. Known(c)' = Known(c) + Gain(c)
    <3>1. total'[c] \in Nat
      BY <1>1, <1>5 DEF TypeOK
    <3>2. Known(c)' = total'[c] /\ Gain(c) = total'[c] - Known(c)
      BY <1>5 DEF Known, Gain
    <3>3. QED
      BY <1>2, <3>1, <3>2
  <2>2. Known(c) <= SumOverAps(readAt[c])
    BY DEF Counted
  <2>3. CASE Gain(c) = 0 /\ readAt'[c] = readAt[c]
    BY <1>2, <2>1, <2>2, <2>3
  <2>4. ASSUME NEW a \in Aps, a \in listed[c],
               Gain(c) = Delta(lastRaw[c][a], cnt[c][a]),
               readAt'[c] = [readAt[c] EXCEPT ![a] = moved[c][a]]
        PROVE  Known(c)' <= SumOverAps(readAt'[c])
    <3>1. readAt[c] \in [Aps -> Int] /\ readAt[c][a] \in Int /\ moved[c][a] \in Int
      BY <1>2
    <3>2. SumOverAps(readAt'[c]) = SumOverAps(readAt[c]) + (moved[c][a] - readAt[c][a])
      BY <2>4, <3>1, SumExcept
    <3>3. SumOverAps(readAt[c]) \in Int
      BY <3>1, SumMonotone
    <3>4. Gain(c) <= moved[c][a] - readAt[c][a]
      BY <2>4 DEF IInv, Accounted, EntryOK
    <3>5. Gain(c) \in Nat
      BY <1>1, <2>4, EntryDeltaType
    <3>6. QED
      BY <1>2, <2>1, <2>2, <3>1, <3>2, <3>3, <3>4, <3>5
  <2>5. QED
    BY <1>5, <2>3, <2>4, GainNext
<1>6. QED
  BY <1>3, <1>4, <1>5

\* No total ever claims more bytes than its client moved: the bug for which
\* counters.py was rewritten cannot come back.
THEOREM NeverOverCountsHolds == Spec => []NeverOverCounts
<1>1. Spec => []Counted
  BY CountedInit, CountedNext, Invariance, PTL DEF Spec
<1>2. IInv /\ Counted => NeverOverCounts
  <2> SUFFICES ASSUME IInv, Counted, NEW c \in Clients
               PROVE  Known(c) <= SumOverAps(moved[c])
    BY DEF NeverOverCounts
  <2>1. readAt[c] \in [Aps -> Int] /\ moved[c] \in [Aps -> Int] /\ Known(c) \in Nat
    BY DEF IInv, TypeOK, Known
  <2>2. \A a \in Aps : readAt[c][a] <= moved[c][a]
    BY DEF IInv, Accounted, EntryOK
  <2>3. /\ SumOverAps(readAt[c]) <= SumOverAps(moved[c])
        /\ SumOverAps(readAt[c]) \in Int /\ SumOverAps(moved[c]) \in Int
    BY <2>1, <2>2, SumMonotone
  <2>4. Known(c) <= SumOverAps(readAt[c])
    BY DEF Counted
  <2>5. QED
    BY <2>1, <2>3, <2>4
<1>3. QED
  BY <1>1, <1>2, Invariance, PTL
=============================================================================
