-------------------------- MODULE ClientByteTotals --------------------------
(***************************************************************************)
(* The byte totals of the AmpliFi exporter: amplifi/collector.py publishes *)
(* one poll of the router, common/counters.py folds the 32-bit counters of *)
(* a client's associations into one total per client and direction.        *)
(*                                                                         *)
(* The router is the environment.  It keeps one entry per client and       *)
(* access point: a client that roams leaves a stale entry behind under its *)
(* old access point until the router drops it, and (re)joining an access   *)
(* point, on either band, starts that entry's counter from zero.           *)
(*                                                                         *)
(* A member of Clients stands for one exported series, (MAC, direction) in *)
(* the code: the two directions of a MAC never share counter state.        *)
(***************************************************************************)
EXTENDS Integers

CONSTANTS
    Clients,      \* the series the exporter keeps a total for
    NumAps,       \* access points, numbered in the order the router lists them
    Wrap,         \* 2^32 in the code
    ForgetAfter,  \* polls without the client before it is forgotten
    MaxMoved,     \* bound: bytes one client moves through one access point
    MaxIdle,      \* bound: seconds an entry is listed without activity
    None          \* an absent dictionary key

ASSUME ClientByteTotalsAssumption ==
    /\ NumAps \in Nat \ {0}
    /\ Wrap \in Nat /\ Wrap >= 2
    /\ ForgetAfter \in Nat \ {0}
    /\ MaxMoved \in Nat
    /\ MaxIdle \in Nat
    /\ None \notin Nat

Aps == 1 .. NumAps
Unavailable == Wrap - 1     \* what the router shows for hours: no reading
Readings == 0 .. Unavailable - 1

VARIABLES
    (* the router *)
    cur,        \* cur[c]: the access point the client is on, or None
    listed,     \* listed[c]: access points with an entry for the client
    cnt,        \* cnt[c][a]: the entry's counter
    idle,       \* idle[c][a]: the entry's seconds of inactivity
    (* the exporter *)
    lastRaw,    \* lastRaw[c][a]: last reading of that association
    total,      \* total[c]: the running total, None while not remembered
    absent,     \* absent[c]: consecutive completed polls without the client
    published,  \* published[c]: the exported total, None when not exported
    (* history: what really happened, invisible to the exporter *)
    moved,      \* moved[c][a]: bytes the client moved through a
    readAt,     \* readAt[c][a]: moved[c][a] when a was last read
    since       \* since[c][a]: "new" (joined, or the exporter knows nothing of
                \* it, since that reading), "wrapped", or "read" if neither

router == <<cur, listed, cnt, idle, moved>>
totals == <<lastRaw, total, absent>>
vars == <<cur, listed, cnt, idle, lastRaw, total, absent, published,
          moved, readAt, since>>

TypeOK ==
    /\ cur \in [Clients -> Aps \cup {None}]
    /\ listed \in [Clients -> SUBSET Aps]
    /\ cnt \in [Clients -> [Aps -> 0 .. Wrap - 1]]
    /\ idle \in [Clients -> [Aps -> Nat]]
    /\ lastRaw \in [Clients -> [Aps -> Readings \cup {None}]]
    /\ total \in [Clients -> Nat \cup {None}]
    /\ absent \in [Clients -> Nat]
    /\ published \in [Clients -> Nat \cup {None}]
    /\ moved \in [Clients -> [Aps -> Nat]]
    /\ readAt \in [Clients -> [Aps -> Nat]]
    /\ since \in [Clients -> [Aps -> {"new", "read", "wrapped"}]]

Nothing == [c \in Clients |-> None]
NoReadings == [a \in Aps |-> None]
Zeros == [a \in Aps |-> 0]
AllNew == [c \in Clients |-> [a \in Aps |-> "new"]]

Init ==
    /\ cur = Nothing
    /\ listed = [c \in Clients |-> {}]
    /\ cnt = [c \in Clients |-> Zeros]
    /\ idle = [c \in Clients |-> Zeros]
    /\ lastRaw = [c \in Clients |-> NoReadings]
    /\ total = Nothing
    /\ absent = [c \in Clients |-> 0]
    /\ published = Nothing
    /\ moved = [c \in Clients |-> Zeros]
    /\ readAt = [c \in Clients |-> Zeros]
    /\ since = AllNew

(***************************************************************************)
(* The router and the clients.                                             *)
(***************************************************************************)

\* A client joins an access point: a first association, a roam, a band switch
\* on the same access point, or a silent re-association.
Associate(c, a) ==
    /\ cur' = [cur EXCEPT ![c] = a]
    /\ listed' = [listed EXCEPT ![c] = @ \cup {a}]
    /\ cnt' = [cnt EXCEPT ![c][a] = 0]
    /\ idle' = [idle EXCEPT ![c][a] = 0]
    /\ since' = [since EXCEPT ![c][a] = "new"]
    /\ UNCHANGED <<moved, readAt, totals, published>>

\* The client leaves the WiFi; its entry stays listed until it is dropped.
Leave(c) ==
    /\ cur[c] # None
    /\ cur' = [cur EXCEPT ![c] = None]
    /\ UNCHANGED <<listed, cnt, idle, moved, readAt, since, totals, published>>

\* The router drops a stale entry.
DropEntry(c, a) ==
    /\ a \in listed[c] /\ cur[c] # a
    /\ listed' = [listed EXCEPT ![c] = @ \ {a}]
    /\ cnt' = [cnt EXCEPT ![c][a] = 0]
    /\ idle' = [idle EXCEPT ![c][a] = 0]
    /\ UNCHANGED <<cur, moved, readAt, since, totals, published>>

\* The client moves n bytes; the association's counter wraps at 2^32.
Transfer(c, n) ==
    LET a == cur[c]
        wraps == cnt[c][a] + n >= Wrap
    IN  /\ a # None
        /\ moved[c][a] + n <= MaxMoved
        /\ cnt' = [cnt EXCEPT ![c][a] = IF wraps THEN @ + n - Wrap ELSE @ + n]
        /\ idle' = [idle EXCEPT ![c][a] = 0]
        /\ moved' = [moved EXCEPT ![c][a] = @ + n]
        /\ since' = [since EXCEPT ![c][a] =
                     IF wraps /\ @ = "read" THEN "wrapped" ELSE @]
        /\ UNCHANGED <<cur, listed, readAt, totals, published>>

\* A second passes without traffic for the client.
Idle(c) ==
    /\ listed[c] # {}
    /\ \A a \in listed[c] : idle[c][a] < MaxIdle
    /\ idle' = [idle EXCEPT ![c] =
                  [a \in Aps |-> IF a \in listed[c] THEN @[a] + 1 ELSE @[a]]]
    /\ UNCHANGED <<cur, listed, cnt, moved, readAt, since, totals, published>>

(***************************************************************************)
(* dedupe_clients: one entry per client, the most recently active one; of  *)
(* equally active entries the one the router listed first.                 *)
(***************************************************************************)
Present == {c \in Clients : listed[c] # {}}

Kept(c, a) ==
    /\ a \in listed[c]
    /\ \A b \in listed[c] : \/ idle[c][a] < idle[c][b]
                            \/ idle[c][a] = idle[c][b] /\ a <= b

\* The deduplicated poll: the association kept for each client present.
Deduped == {keep \in [Clients -> Aps \cup {None}] :
              \A c \in Clients : IF c \in Present THEN Kept(c, keep[c])
                                                  ELSE keep[c] = None}

(***************************************************************************)
(* ClientByteTotals.                                                       *)
(***************************************************************************)

\* Two mistakes: the first version of counters.py, which took every drop for a
\* wrap, and one that never expects a drop.
DropIsWrap(last, raw) == IF last = None THEN raw ELSE (raw - last + Wrap) % Wrap
NeverDrops(last, raw) == IF last = None THEN raw ELSE raw - last

\* The bytes one reading adds: the difference to the last reading, or all of
\* it when there is none or the counter started again.
Delta(last, raw) == IF last = None \/ raw < last THEN raw ELSE raw - last

\* The total after observing a reading of the association a.
Observed(c, a, raw) ==
    LET known == IF total[c] = None THEN 0 ELSE total[c]
    IN  IF raw = Unavailable THEN known ELSE known + Delta(lastRaw[c][a], raw)

\* The reading the router shows; for the clients in stuck it is saturated.
Reading(c, a, stuck) == IF c \in stuck THEN Unavailable ELSE cnt[c][a]

\* A mistake: the saturated value taken for a reading.
AlwaysGood(c, a, stuck) == TRUE

Good(c, a, stuck) == Reading(c, a, stuck) # Unavailable

\* end_poll forgets a remembered client absent from this poll as well.
Forgotten(c) ==
    /\ c \notin Present
    /\ total[c] # None
    /\ absent[c] + 1 >= ForgetAfter

\* observe for every client in seen.
ObserveAll(seen, keep, stuck, lost) ==
    /\ total' = [c \in Clients |->
          IF c \in seen THEN Observed(c, keep[c], Reading(c, keep[c], stuck))
          ELSE IF c \in lost THEN None ELSE total[c]]
    /\ lastRaw' = [c \in Clients |->
          IF c \in lost THEN NoReadings
          ELSE [a \in Aps |->
                  IF c \in seen /\ keep[c] = a /\ Good(c, a, stuck)
                  THEN Reading(c, a, stuck) ELSE lastRaw[c][a]]]
    /\ readAt' = [c \in Clients |->
          IF c \in lost THEN Zeros
          ELSE [a \in Aps |->
                  IF c \in seen /\ keep[c] = a /\ Good(c, a, stuck)
                  THEN moved[c][a] ELSE readAt[c][a]]]
    /\ since' = [c \in Clients |->
          [a \in Aps |->
             IF c \in lost THEN "new"
             ELSE IF c \in seen /\ keep[c] = a /\ Good(c, a, stuck)
             THEN "read" ELSE since[c][a]]]

\* A poll that parses and publishes: every client present is observed, the
\* poll is ended, and the new snapshot replaces the old one.
Publish ==
    \E keep \in Deduped, stuck \in SUBSET Present :
        LET lost == {c \in Clients : Forgotten(c)}
        IN  /\ ObserveAll(Present, keep, stuck, lost)
            /\ absent' = [c \in Clients |->
                  IF c \in Present \/ c \in lost \/ total[c] = None
                  THEN 0 ELSE absent[c] + 1]
            /\ published' = [c \in Clients |->
                  IF c \in Present THEN total'[c] ELSE None]
            /\ UNCHANGED router

\* A mistake: the raising poll keeps the totals but not the readings.
RaisesHalfStored ==
    \E bad \in Present, keep \in Deduped, seen \in SUBSET Present :
        /\ bad \notin seen
        /\ total' = [c \in Clients |->
              IF c \in seen THEN Observed(c, keep[c], cnt[c][keep[c]]) ELSE total[c]]
        /\ published' = Nothing
        /\ UNCHANGED <<router, lastRaw, absent, readAt, since>>

\* A poll in which one client's counter is outside the 32-bit range: observe
\* raises, so the clients before it have been counted, end_poll has not run
\* and the failed poll clears the snapshot.
PublishRaises ==
    \E bad \in Present, keep \in Deduped, stuck \in SUBSET Present :
        \E seen \in SUBSET (Present \ {bad}) :
            /\ ObserveAll(seen, keep, stuck, {})
            /\ absent' = [c \in Clients |-> IF c \in seen THEN 0 ELSE absent[c]]
            /\ published' = Nothing
            /\ UNCHANGED router

\* A mistake: a failed poll starts the count of absences again.
FailsAndRecounts ==
    /\ published' = Nothing
    /\ absent' = [c \in Clients |-> 0]
    /\ UNCHANGED <<router, lastRaw, total, readAt, since>>

\* A poll that fails to log in, fetch or parse only clears the snapshot.
PollFails ==
    /\ published' = Nothing
    /\ UNCHANGED <<router, totals, readAt, since>>

\* The exporter restarts: the totals live in memory only.
ExporterRestart ==
    /\ lastRaw' = [c \in Clients |-> NoReadings]
    /\ total' = Nothing
    /\ absent' = [c \in Clients |-> 0]
    /\ published' = Nothing
    /\ readAt' = [c \in Clients |-> Zeros]
    /\ since' = AllNew
    /\ UNCHANGED router

Router ==
    \E c \in Clients :
        \/ \E a \in Aps : Associate(c, a) \/ DropEntry(c, a)
        \/ Leave(c)
        \/ \E n \in 1 .. Wrap - 1 : Transfer(c, n)
        \/ Idle(c)

Next == Router \/ Publish \/ PublishRaises \/ PollFails \/ ExporterRestart

Spec == Init /\ [][Next]_vars

\* Polls go on and, however often they fail, succeed again and again.
FairSpec == Spec /\ WF_vars(Publish)

(***************************************************************************)
(* Properties.                                                             *)
(***************************************************************************)
SumOverAps(f) ==
    LET sum[n \in 0 .. NumAps] == IF n = 0 THEN 0 ELSE sum[n - 1] + f[n]
    IN  sum[NumAps]

Known(c) == IF total[c] = None THEN 0 ELSE total[c]
Gain(c) == total'[c] - Known(c)

\* A client's total never claims more bytes than the client really moved,
\* through roams, re-associations, wraps, saturated readings, failed polls and
\* forgetting (the 4 GiB bug counters.py was rewritten for).
NeverOverCounts == \A c \in Clients : Known(c) <= SumOverAps(moved[c])

\* Whatever a poll adds to a total moved through one access point after that
\* access point was last read, so no byte is added twice, also when the poll
\* that read it failed half way.
AddsOnlyWhatMoved ==
    [][\A c \in Clients :
          total'[c] # None =>
             \/ Gain(c) = 0
             \/ \E a \in Aps :
                   /\ Gain(c) \in 1 .. moved[c][a] - readAt[c][a]
                   /\ readAt'[c][a] = moved[c][a]]_vars

\* A reading of an association that was read before, and has neither restarted
\* nor wrapped since, adds every byte that moved in between, however many polls
\* in between failed or showed the saturated value.
AddsAllWhenUnbroken ==
    [][\A c \in Clients, a \in Aps :
          (/\ since[c][a] = "read"
           /\ total'[c] # None
           /\ readAt'[c][a] # readAt[c][a])
             => Gain(c) = moved[c][a] - readAt[c][a]]_vars

\* An exported series is never below a value its client's total had before,
\* unless the client was forgotten (or the exporter restarted) in between.
TotalNeverGoesBack ==
    [][\A c \in Clients :
          (total[c] # None /\ total'[c] # None) =>
             /\ total'[c] >= total[c]
             /\ published'[c] # None => published'[c] >= total[c]]_vars

\* A client that stays away is forgotten in the end, so clients with rotating
\* private MAC addresses do not accumulate.
GoneIsForgotten ==
    \A c \in Clients : []<>(listed[c] # {} \/ total[c] = None)
=============================================================================
