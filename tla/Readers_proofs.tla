--------------------------- MODULE Readers_proofs ---------------------------
(***************************************************************************)
(* Proofs about the readers: NeighbourDump, for any number of addresses,   *)
(* any devices and any time an entry stays REACHABLE; PlaybackRecord, for  *)
(* any HomePod; GatewayPage, for pages of any number of channels with any  *)
(* texts in them.                                                          *)
(***************************************************************************)
EXTENDS Readers, FiniteSetTheorems, SequenceTheorems, TLAPS

USE NeighbourDumpAssumption

-----------------------------------------------------------------------------
\* An entry with a hardware address says no more than what was heard.
EntryHonest(a) ==
    table[a] # None /\ table[a].mac # None =>
        LET e == table[a] IN
        /\ heard[a][e.mac] # None
        /\ e.confirmed <= heard[a][e.mac]
        /\ e.state = "REACHABLE" => now <= e.confirmed + ReachableTime
        /\ e.state = "STALE" => e.updated <= heard[a][e.mac] + ReachableTime

\* Nothing of an entry is of the future.
EntryPast(a) ==
    /\ \A d \in Devices : heard[a][d] # None => heard[a][d] <= now
    /\ table[a] # None => table[a].confirmed <= now /\ table[a].updated <= now

\* A neighbour the kernel sent, seen from the poll that reads it.
NeighbourHonest(n) ==
    /\ n.confirmedAge >= 0 /\ n.updatedAge >= 0
    /\ n.mac # None =>
        /\ heard[n.addr][n.mac] # None
        /\ pollAt - n.confirmedAge <= heard[n.addr][n.mac]
        /\ n.state = "STALE" =>
              pollAt - n.updatedAge <= heard[n.addr][n.mac] + ReachableTime

\* What was sent is what was received and what waits in the buffer.
DumpOK ==
    /\ answer = "refused" => buffer # <<>> /\ IsError(buffer)
    /\ answer = "done" =>
          /\ buffer # <<>> /\ ~IsError(buffer) /\ DumpFinished(buffer)
          /\ sent = received \cup Parsed(buffer)
    /\ answer = "none" => /\ buffer = <<>> => sent = received
                          /\ buffer # <<>> => /\ ~IsError(buffer) /\ ~DumpFinished(buffer)
                                              /\ sent = received \cup Parsed(buffer)
    /\ received \subseteq sent
    /\ ~reading => buffer = <<>> /\ answer = "none" /\ received = {} /\ sent = {}

IInv ==
    /\ TypeOK
    /\ pollAt <= now
    /\ \A a \in Addresses : EntryHonest(a) /\ EntryPast(a)
    /\ \A n \in sent : NeighbourHonest(n)
    /\ DumpOK
    /\ SightingHonest

-----------------------------------------------------------------------------
\* What the three scans of a buffer find in the ones the kernel fills.
LEMMA ScansOfFilled ==
    ASSUME NEW n \in Nat,
           NEW b \in [1 .. n -> [kind : {"newneigh"}, neighbour : Neighbour]]
    PROVE  /\ b \in Seq(Message)
           /\ ~IsError(b) /\ ~DumpFinished(b)
           /\ Parsed(b) = {b[i].neighbour : i \in 1 .. n}
<1>1. /\ DOMAIN b = 1 .. n
      /\ \A i \in 1 .. n : b[i].kind = "newneigh" /\ b[i] \in Message
  BY DEF Message
<1>2. b \in Seq(Message)
  BY <1>1
<1>3. Kinds(b) \subseteq {"newneigh"}
  BY <1>1 DEF Kinds
<1>4. {i \in 1 .. n : \A j \in 1 .. i : b[j].kind = "newneigh"} = 1 .. n
  BY <1>1
<1>5. Parsed(b) = {b[i].neighbour : i \in 1 .. n}
  BY <1>1, <1>4 DEF Parsed
<1> QED
  BY <1>2, <1>3, <1>5 DEF IsError, DumpFinished

LEMMA EmptyScans == ~DumpFinished(<<>>) /\ ~IsError(<<>>) /\ Parsed(<<>>) = {}
<1>1. DOMAIN <<>> = {}
  OBVIOUS
<1> QED
  BY <1>1 DEF DumpFinished, IsError, Kinds, Parsed

LEMMA ScansOfLast ==
    ASSUME NEW n \in Nat,
           NEW b \in [1 .. n -> [kind : {"newneigh"}, neighbour : Neighbour]]
    PROVE  LET last == b \o <<[kind |-> "done"]>> IN
           /\ last \in Seq(Message)
           /\ ~IsError(last) /\ DumpFinished(last)
           /\ Parsed(last) = {b[i].neighbour : i \in 1 .. n}
<1> DEFINE end == [kind |-> "done"]
           last == b \o <<end>>
<1>0. b \in Seq(Message) /\ Len(b) = n
  BY ScansOfFilled
<1>1. end \in Message /\ end.kind = "done"
  BY DEF Message
<1> HIDE DEF end
<1>2. /\ last \in Seq(Message) /\ Len(last) = n + 1 /\ DOMAIN last = 1 .. n + 1
      /\ \A i \in 1 .. n : last[i] = b[i]
      /\ last[n + 1] = end
  BY <1>0, <1>1
<1>3. \A i \in 1 .. n : last[i].kind = "newneigh"
  BY <1>2
<1>4. last[n + 1].kind = "done" /\ n + 1 \in DOMAIN last
  BY <1>1, <1>2
<1> HIDE DEF last
<1>5. \A k \in Kinds(last) : k = "newneigh" \/ k = "done"
  BY <1>2, <1>3, <1>4 DEF Kinds
<1>6. "done" \in Kinds(last)
  BY <1>4 DEF Kinds
<1>7. {i \in DOMAIN last : \A j \in 1 .. i : last[j].kind = "newneigh"} = 1 .. n
  <2>1. \A i \in 1 .. n : i \in DOMAIN last /\ \A j \in 1 .. i : last[j].kind = "newneigh"
    BY <1>2, <1>3
  <2>2. ~ \A j \in 1 .. n + 1 : last[j].kind = "newneigh"
    BY <1>4
  <2>3. \A i \in DOMAIN last : i \in 1 .. n \/ i = n + 1
    BY <1>2
  <2> QED
    BY <2>1, <2>2, <2>3
<1>8. Parsed(last) = {last[i].neighbour : i \in 1 .. n}
  BY <1>7 DEF Parsed
<1>9. Parsed(last) = {b[i].neighbour : i \in 1 .. n}
  BY <1>2, <1>8
<1> QED
  BY <1>2, <1>5, <1>6, <1>9 DEF IsError, DumpFinished, last, end

LEMMA ScansOfRefusal ==
    LET b == <<[kind |-> "error"]>> IN b \in Seq(Message) /\ IsError(b) /\ Parsed(b) = {}
<1> DEFINE b == <<[kind |-> "error"]>>
<1>1. b \in Seq(Message) /\ DOMAIN b = {1} /\ b[1].kind = "error"
  BY DEF Message
<1> HIDE DEF b
<1>2. IsError(b)
  BY <1>1 DEF IsError, Kinds
<1>3. {i \in DOMAIN b : \A j \in 1 .. i : b[j].kind = "newneigh"} = {}
  BY <1>1
<1> QED
  BY <1>1, <1>2, <1>3 DEF Parsed, b

-----------------------------------------------------------------------------
LEMMA Initially == Init => IInv
<1> SUFFICES ASSUME Init PROVE IInv
  OBVIOUS
<1>1. TypeOK
  <2>1. /\ table \in [Addresses -> Entry \cup {None}]
        /\ heard \in [Addresses -> [Devices -> Nat \cup {None}]]
    BY DEF Init
  <2>2. sightings \in SightingSet /\ received \in SUBSET Neighbour /\ sent \in SUBSET Neighbour
    BY DEF Init, SightingSet
  <2>3. now \in Nat /\ pollAt \in Nat /\ changes \in Nat /\ cursor \in 1 .. NumAddresses + 1
    BY DEF Init
  <2>4. /\ reading \in BOOLEAN /\ outcome \in {"none", "read", "failed"}
        /\ answer \in {"none", "refused", "done"}
    BY Zenon DEF Init
  <2>5. buffer \in Seq(Message)
    BY DEF Init
  <2> QED
    BY <2>1, <2>2, <2>3, <2>4, <2>5, Zenon DEF TypeOK
<1>2. \A a \in Addresses : EntryHonest(a) /\ EntryPast(a)
  BY DEF Init, EntryHonest, EntryPast
<1>3. DumpOK /\ SightingHonest /\ pollAt <= now /\ sent = {}
  BY DEF Init, DumpOK, SightingHonest
<1> QED
  BY <1>1, <1>2, <1>3 DEF IInv

\* A device that was heard stays heard: what was said of it stays honest.
LEMMA StaysHonest ==
    ASSUME IInv,
           UNCHANGED <<pollAt, sent, sightings>>,
           \A a \in Addresses, d \in Devices :
              heard[a][d] # None => heard'[a][d] \in Nat /\ heard'[a][d] >= heard[a][d]
    PROVE  (\A n \in sent : NeighbourHonest(n))' /\ SightingHonest'
<1>1. ASSUME NEW n \in sent PROVE NeighbourHonest(n)'
  <2>1. /\ NeighbourHonest(n) /\ n \in Neighbour
        /\ n.mac # None => n.mac \in Devices /\ heard[n.addr][n.mac] \in Nat \cup {None}
    BY DEF IInv, TypeOK, Neighbour
  <2>2. n.mac # None => /\ heard'[n.addr][n.mac] \in Nat
                        /\ heard'[n.addr][n.mac] >= heard[n.addr][n.mac]
                        /\ heard[n.addr][n.mac] \in Nat
    BY <2>1 DEF NeighbourHonest, Neighbour
  <2>3. n.confirmedAge \in Int /\ n.updatedAge \in Int /\ pollAt \in Nat
    BY <2>1 DEF Neighbour, IInv, TypeOK
  <2> QED
    BY <2>1, <2>2, <2>3 DEF NeighbourHonest
<1>2. ASSUME NEW s \in sightings
      PROVE  /\ s.addr \in OnLan /\ s.at <= pollAt
             /\ heard'[s.addr][s.mac] # None
             /\ s.at <= heard'[s.addr][s.mac] + ReachableTime
  <2>1. /\ s.addr \in OnLan /\ s.at <= pollAt /\ s.at \in Int
        /\ heard[s.addr][s.mac] # None
        /\ s.at <= heard[s.addr][s.mac] + ReachableTime
        /\ s.addr \in Addresses /\ s.mac \in Devices
    BY DEF IInv, SightingHonest, TypeOK, SightingSet
  <2>2. heard[s.addr][s.mac] \in Nat /\ heard'[s.addr][s.mac] \in Nat
        /\ heard'[s.addr][s.mac] >= heard[s.addr][s.mac]
    BY <2>1 DEF IInv, TypeOK
  <2> QED
    BY <2>1, <2>2
<1> QED
  BY <1>1, <1>2 DEF SightingHonest

\* A step of the kernel that leaves the dump and the exporter alone.
LEMMA KernelStep ==
    ASSUME IInv,
           UNCHANGED <<dump, exporter>>,
           now' \in Nat, now' >= now,
           changes' \in Nat,
           table' \in [Addresses -> Entry \cup {None}],
           heard' \in [Addresses -> [Devices -> Nat \cup {None}]],
           \A a \in Addresses, d \in Devices :
              heard[a][d] # None => heard'[a][d] \in Nat /\ heard'[a][d] >= heard[a][d],
           \A a \in Addresses : EntryHonest(a)' /\ EntryPast(a)'
    PROVE  IInv'
<1>1. TypeOK'
  BY DEF IInv, TypeOK, dump, exporter
<1>2. (\A n \in sent : NeighbourHonest(n))' /\ SightingHonest'
  BY StaysHonest DEF dump, exporter
<1>3. DumpOK'
  BY DEF IInv, DumpOK, dump, exporter
<1>4. (pollAt <= now)'
  BY DEF IInv, TypeOK, exporter
<1> QED
  BY <1>1, <1>2, <1>3, <1>4 DEF IInv

\* An entry that was asked for or used is as honest as it was.
LEMMA AskedHonest ==
    ASSUME IInv, NEW a \in Addresses,
           table'[a] = table[a] \/ table'[a] = Asked(table[a]),
           UNCHANGED <<now, heard>>
    PROVE  EntryHonest(a)' /\ EntryPast(a)' /\ table'[a] \in Entry \cup {None}
<1>1. /\ EntryHonest(a) /\ EntryPast(a) /\ table[a] \in Entry \cup {None}
      /\ now \in Nat
  BY DEF IInv, TypeOK
<1>2. CASE table'[a] = table[a]
  BY <1>1, <1>2 DEF EntryHonest, EntryPast
<1>3. CASE table'[a] = Asked(table[a]) /\ table[a] = None
  <2>1. table'[a] = [mac |-> None, state |-> "INCOMPLETE", confirmed |-> LongAgo, updated |-> now]
    BY <1>3 DEF Asked
  <2>2. LongAgo \in Int /\ LongAgo <= now
    BY <1>1 DEF LongAgo
  <2> QED
    BY <1>1, <2>1, <2>2 DEF EntryHonest, EntryPast, Entry, States
<1>4. CASE table'[a] = Asked(table[a]) /\ table[a] # None /\ table[a].state = "STALE"
  <2>2. table'[a] = [mac |-> table[a].mac, state |-> "DELAY",
                     confirmed |-> table[a].confirmed, updated |-> now]
    BY <1>4 DEF Asked, Turned
  <2> QED
    BY <1>1, <1>4, <2>2 DEF EntryHonest, EntryPast, Entry, States, HeardFrom
<1>5. CASE table'[a] = Asked(table[a]) /\ table[a] # None /\ table[a].state # "STALE"
  BY <1>1, <1>5 DEF Asked, EntryHonest, EntryPast
<1> QED
  BY <1>2, <1>3, <1>4, <1>5

-----------------------------------------------------------------------------
LEMMA TickStep == ASSUME IInv, Tick, changes' \in Nat PROVE IInv'
<1>1. now \in Nat /\ now' = now + 1 /\ UNCHANGED <<table, heard, dump, exporter>>
  BY DEF IInv, TypeOK, Tick
<1>2. ASSUME NEW a \in Addresses PROVE EntryHonest(a)' /\ EntryPast(a)'
  <2>1. EntryHonest(a) /\ EntryPast(a) /\ table[a] \in Entry \cup {None}
        /\ heard[a] \in [Devices -> Nat \cup {None}]
    BY DEF IInv, TypeOK
  <2>2. table[a] # None /\ table[a].state = "REACHABLE"
           => now + 1 <= table[a].confirmed + ReachableTime
    BY <1>1, <2>1 DEF Tick, Entry
  <2>3. EntryHonest(a)'
    BY <1>1, <2>1, <2>2 DEF EntryHonest
  <2>4. EntryPast(a)'
    BY <1>1, <2>1 DEF EntryPast, Entry
  <2> QED
    BY <2>3, <2>4
<1> QED
  BY <1>1, <1>2, KernelStep DEF IInv, TypeOK

\* A device that is heard now, whether it answers or announces itself.
LEMMA HeardStep ==
    ASSUME IInv, changes' \in Nat,
           NEW a \in Addresses, NEW d \in Devices, NEW e \in Entry,
           e.mac = d, e.confirmed <= now, e.updated = now,
           e.state = "STALE" \/ (e.state = "REACHABLE" /\ e.confirmed = now),
           table' = [table EXCEPT ![a] = e],
           heard' = [heard EXCEPT ![a][d] = now],
           UNCHANGED <<now, dump, exporter>>
    PROVE  IInv'
<1>0. /\ now \in Nat /\ table \in [Addresses -> Entry \cup {None}]
      /\ heard \in [Addresses -> [Devices -> Nat \cup {None}]]
  BY DEF IInv, TypeOK
<1>1. heard' \in [Addresses -> [Devices -> Nat \cup {None}]]
      /\ table' \in [Addresses -> Entry \cup {None}]
  BY <1>0
<1>2. \A b \in Addresses, f \in Devices :
         heard'[b][f] = IF b = a /\ f = d THEN now ELSE heard[b][f]
  BY <1>0
<1>3. \A b \in Addresses, f \in Devices :
         heard[b][f] # None => heard'[b][f] \in Nat /\ heard'[b][f] >= heard[b][f]
                               /\ heard'[b][f] <= now
  BY <1>0, <1>2 DEF IInv, EntryPast
<1>4. ASSUME NEW b \in Addresses PROVE EntryHonest(b)' /\ EntryPast(b)'
  <2>1. EntryHonest(b) /\ EntryPast(b) /\ table[b] \in Entry \cup {None}
    BY <1>0 DEF IInv
  <2>2. CASE b = a
    <3>1. table'[b] = e /\ heard'[b][d] = now
      BY <1>0, <1>2, <2>2
    <3>2. EntryHonest(b)'
      BY <1>0, <3>1 DEF EntryHonest, Entry
    <3>3. \A f \in Devices : heard'[b][f] # None => heard'[b][f] <= now
      BY <1>0, <1>2, <2>1 DEF EntryPast
    <3> QED
      BY <1>0, <3>1, <3>2, <3>3 DEF EntryPast
  <2>3. CASE b # a
    <3>1. table'[b] = table[b] /\ \A f \in Devices : heard'[b][f] = heard[b][f]
      BY <1>0, <1>2, <2>3
    <3> QED
      BY <2>1, <3>1 DEF EntryHonest, EntryPast, Entry
  <2> QED
    BY <2>2, <2>3
<1> QED
  BY <1>0, <1>1, <1>3, <1>4, KernelStep

LEMMA AnswersStep ==
    ASSUME IInv, changes' \in Nat, NEW a \in Addresses, NEW d \in Devices, Answers(a, d)
    PROVE  IInv'
<1>1. now \in Nat
  BY DEF IInv, TypeOK
<1> DEFINE e == [mac |-> d, state |-> "REACHABLE", confirmed |-> now, updated |-> now]
<1>2. e \in Entry /\ e.mac = d /\ e.state = "REACHABLE" /\ e.confirmed = now /\ e.updated = now
  BY <1>1 DEF Entry, States, HeardFrom
<1>3. /\ table' = [table EXCEPT ![a] = e] /\ heard' = [heard EXCEPT ![a][d] = now]
      /\ UNCHANGED <<now, dump, exporter>>
  BY DEF Answers, Set
<1> HIDE DEF e
<1>4. e.confirmed <= now
  BY <1>1, <1>2
<1> QED
  BY <1>2, <1>3, <1>4, HeardStep

LEMMA AnnouncesStep ==
    ASSUME IInv, changes' \in Nat, NEW a \in Addresses, NEW d \in Devices, Announces(a, d)
    PROVE  IInv'
<1> DEFINE c == IF Known(a, d) THEN table[a].confirmed ELSE LongAgo
           e == [mac |-> d, state |-> "STALE", updated |-> now, confirmed |-> c]
<1>1. now \in Nat /\ table[a] \in Entry \cup {None} /\ EntryPast(a)
  BY DEF IInv, TypeOK
<1>2. c \in Int /\ c <= now
  BY <1>1 DEF Known, LongAgo, EntryPast, Entry
<1>3. e \in Entry /\ e.confirmed <= now /\ e.updated = now /\ e.mac = d /\ e.state = "STALE"
  BY <1>1, <1>2 DEF Entry, States, HeardFrom
<1>4. table' = [table EXCEPT ![a] = e]
  BY DEF Announces, Set
<1> QED
  BY <1>3, <1>4, HeardStep DEF Announces

\* A step that changes one entry, and nothing that was heard.
LEMMA EntryStep ==
    ASSUME IInv, changes' \in Nat, NEW a \in Addresses,
           NEW e \in Entry \cup {None}, table' = [table EXCEPT ![a] = e],
           UNCHANGED <<now, heard, dump, exporter>>,
           EntryHonest(a)' /\ EntryPast(a)'
    PROVE  IInv'
<1>0. /\ now \in Nat /\ table \in [Addresses -> Entry \cup {None}]
      /\ heard \in [Addresses -> [Devices -> Nat \cup {None}]]
  BY DEF IInv, TypeOK
<1>1. table' \in [Addresses -> Entry \cup {None}]
  BY <1>0
<1>2. ASSUME NEW b \in Addresses PROVE EntryHonest(b)' /\ EntryPast(b)'
  <2>1. EntryHonest(b) /\ EntryPast(b)
    BY DEF IInv
  <2>2. CASE b # a
    BY <1>0, <2>1, <2>2 DEF EntryHonest, EntryPast
  <2> QED
    BY <2>2
<1>3. \A b \in Addresses, d \in Devices :
         heard[b][d] # None => heard'[b][d] \in Nat /\ heard'[b][d] >= heard[b][d]
  BY <1>0
<1> QED
  BY <1>0, <1>1, <1>2, <1>3, KernelStep

LEMMA TurnedEntry ==
    ASSUME NEW entry \in Entry, NEW state \in States, now \in Nat
    PROVE  LET e == [mac |-> entry.mac, state |-> state,
                     confirmed |-> entry.confirmed, updated |-> now]
           IN  e \in Entry /\ Turned(entry, state) = e
BY DEF Entry, Turned

LEMMA TurnsStep ==
    ASSUME IInv, changes' \in Nat, NEW a \in Addresses, Turns(a) PROVE IInv'
<1>1. PICK turn \in KernelTurns :
         /\ In(a, {turn[1]})
         /\ Set(a, Turned(table[a], turn[2]))
         /\ UNCHANGED <<now, heard, dump, exporter>>
  BY DEF Turns
<1>2. /\ turn[1] \in States /\ turn[2] \in States
      /\ turn[2] # "REACHABLE" /\ (turn[2] = "STALE" => turn[1] = "REACHABLE")
  BY DEF KernelTurns, States, HeardFrom
<1>3. /\ now \in Nat /\ table \in [Addresses -> Entry \cup {None}] /\ table[a] # None
      /\ table[a] \in Entry /\ table[a].state = turn[1]
      /\ EntryHonest(a) /\ EntryPast(a)
      /\ heard \in [Addresses -> [Devices -> Nat \cup {None}]]
  BY <1>1 DEF IInv, TypeOK, In
<1> DEFINE e == [mac |-> table[a].mac, state |-> turn[2],
                 confirmed |-> table[a].confirmed, updated |-> now]
<1>4. e \in Entry /\ Turned(table[a], turn[2]) = e
  BY <1>2, <1>3, TurnedEntry
<1>5. table' = [table EXCEPT ![a] = e] /\ table'[a] = e
  BY <1>1, <1>3, <1>4 DEF Set
<1>6. EntryHonest(a)'
  <2> SUFFICES ASSUME table[a].mac # None
               PROVE  /\ heard[a][e.mac] # None
                      /\ e.confirmed <= heard[a][e.mac]
                      /\ e.state = "STALE" => e.updated <= heard[a][e.mac] + ReachableTime
    BY <1>1, <1>2, <1>5 DEF EntryHonest
  <2>1. /\ e.mac \in Devices /\ heard[a][e.mac] # None /\ heard[a][e.mac] \in Nat
        /\ e.confirmed <= heard[a][e.mac] /\ e.confirmed \in Int
    BY <1>3 DEF EntryHonest, Entry
  <2>2. turn[2] = "STALE" => now <= table[a].confirmed + ReachableTime
    BY <1>2, <1>3 DEF EntryHonest
  <2> QED
    BY <1>3, <2>1, <2>2
<1>7. EntryPast(a)'
  BY <1>1, <1>3, <1>5 DEF EntryPast
<1> QED
  BY <1>1, <1>4, <1>5, <1>6, <1>7, EntryStep

LEMMA IsAskedStep ==
    ASSUME IInv, changes' \in Nat, NEW a \in Addresses, IsAsked(a) PROVE IInv'
<1>1. table' = [table EXCEPT ![a] = Asked(table[a])] /\ UNCHANGED <<now, heard, dump, exporter>>
  BY DEF IsAsked, Set
<1>2. table'[a] = Asked(table[a])
  BY <1>1 DEF IInv, TypeOK
<1>3. EntryHonest(a)' /\ EntryPast(a)' /\ table'[a] \in Entry \cup {None}
  BY <1>1, <1>2, AskedHonest
<1> QED
  BY <1>1, <1>2, <1>3, EntryStep

LEMMA DroppedStep ==
    ASSUME IInv, changes' \in Nat, NEW a \in Addresses, Dropped(a) PROVE IInv'
<1>1. table' = [table EXCEPT ![a] = None] /\ UNCHANGED <<now, heard, dump, exporter>>
  BY DEF Dropped, Set
<1>2. table'[a] = None
  BY <1>1 DEF IInv, TypeOK
<1>3. EntryHonest(a)' /\ EntryPast(a)'
  BY <1>1, <1>2 DEF EntryHonest, EntryPast, IInv
<1> QED
  BY <1>1, <1>3, EntryStep

LEMMA ProvokeStep ==
    ASSUME IInv, NEW reached \in SUBSET Addresses, Provoke(reached) PROVE IInv'
<1>0. table \in [Addresses -> Entry \cup {None}] /\ changes \in Nat /\ now \in Nat
      /\ heard \in [Addresses -> [Devices -> Nat \cup {None}]]
  BY DEF IInv, TypeOK
<1>1. /\ table' = [a \in Addresses |-> IF a \in reached THEN Asked(table[a]) ELSE table[a]]
      /\ UNCHANGED <<now, heard, changes, dump, exporter>>
  BY DEF Provoke
<1>2. \A a \in Addresses : table'[a] = table[a] \/ table'[a] = Asked(table[a])
  BY <1>1
<1>3. \A a \in Addresses :
         EntryHonest(a)' /\ EntryPast(a)' /\ table'[a] \in Entry \cup {None}
  BY <1>1, <1>2, AskedHonest
<1>4. table' \in [Addresses -> Entry \cup {None}]
  BY <1>1, <1>3
<1>5. \A b \in Addresses, d \in Devices :
         heard[b][d] # None => heard'[b][d] \in Nat /\ heard'[b][d] >= heard[b][d]
  BY <1>0, <1>1
<1> QED
  BY <1>0, <1>1, <1>3, <1>4, <1>5, KernelStep

LEMMA KernelSteps == ASSUME IInv, Kernel PROVE IInv'
<1>1. changes' \in Nat
  BY DEF Kernel, IInv, TypeOK
<1> QED
  BY <1>1, TickStep, AnswersStep, AnnouncesStep, TurnsStep, IsAskedStep, DroppedStep
  DEF Kernel

-----------------------------------------------------------------------------
\* The kernel and what was heard stay as they are, so the entries stay honest.
LEMMA EntriesStay ==
    ASSUME IInv, UNCHANGED kernel
    PROVE  \A a \in Addresses : EntryHonest(a)' /\ EntryPast(a)'
BY DEF IInv, kernel, EntryHonest, EntryPast

LEMMA StartReadStep == ASSUME IInv, StartRead PROVE IInv'
<1>1. /\ ~reading /\ reading' = TRUE /\ pollAt' = now /\ sent = {}
      /\ outcome = "none" /\ now' = now
      /\ UNCHANGED <<kernel, changes, dump, received, outcome, sightings>>
  BY DEF StartRead, Idle, IInv, DumpOK, kernel
<1>2. TypeOK'
  BY <1>1 DEF IInv, TypeOK, kernel, dump
<1>3. DumpOK'
  BY <1>1 DEF IInv, DumpOK, dump
<1>4. now \in Nat /\ sightings' = sightings /\ heard' = heard /\ sent' = {} /\ pollAt <= now
      /\ pollAt \in Nat
  BY <1>1 DEF IInv, TypeOK, kernel, dump
<1>5. SightingHonest'
  <2> SUFFICES ASSUME NEW s \in sightings
               PROVE  /\ s.addr \in OnLan /\ s.at <= now /\ heard[s.addr][s.mac] # None
                      /\ s.at <= heard[s.addr][s.mac] + ReachableTime
    BY <1>1, <1>4 DEF SightingHonest
  <2>1. s.at \in Int
    BY DEF IInv, TypeOK, SightingSet
  <2> QED
    BY <1>4, <2>1 DEF IInv, SightingHonest
<1> QED
  BY <1>1, <1>2, <1>3, <1>4, <1>5, EntriesStay DEF IInv

\* What the kernel sends of an honest entry is honest, seen from the poll.
LEMMA SentHonest ==
    ASSUME IInv, NEW a \in Addresses, table[a] # None
    PROVE  AsSent(a) \in Neighbour /\ NeighbourHonest(AsSent(a))
<1> DEFINE e == table[a]  n == AsSent(a)
<1>1. /\ e \in Entry /\ now \in Nat /\ pollAt \in Nat /\ pollAt <= now
      /\ EntryHonest(a) /\ EntryPast(a)
  BY DEF IInv, TypeOK
<1>2. /\ n.addr = a /\ n.mac = e.mac /\ n.state = e.state
      /\ n.confirmedAge = now - e.confirmed /\ n.updatedAge = now - e.updated
  BY DEF AsSent
<1>3. n \in Neighbour
  BY <1>1 DEF AsSent, Neighbour, Entry
<1>4. e.confirmed \in Int /\ e.updated \in Int /\ e.confirmed <= now /\ e.updated <= now
  BY <1>1 DEF Entry, EntryPast
<1>5. n.confirmedAge >= 0 /\ n.updatedAge >= 0
  BY <1>1, <1>2, <1>4
<1>6. ASSUME n.mac # None
      PROVE  /\ heard[n.addr][n.mac] # None
             /\ pollAt - n.confirmedAge <= heard[n.addr][n.mac]
             /\ n.state = "STALE" =>
                   pollAt - n.updatedAge <= heard[n.addr][n.mac] + ReachableTime
  <2>1. e.mac \in Devices /\ heard[a][e.mac] # None /\ heard[a][e.mac] \in Nat
    BY <1>1, <1>2, <1>6 DEF EntryHonest, Entry, IInv, TypeOK
  <2>2. /\ e.confirmed <= heard[a][e.mac]
        /\ e.state = "STALE" => e.updated <= heard[a][e.mac] + ReachableTime
    BY <1>1, <1>2, <1>6 DEF EntryHonest
  <2>3. pollAt - (now - e.confirmed) <= heard[a][e.mac]
    BY <1>1, <1>4, <2>1, <2>2
  <2>4. e.state = "STALE" => pollAt - (now - e.updated) <= heard[a][e.mac] + ReachableTime
    BY <1>1, <1>4, <2>1, <2>2
  <2> QED
    BY <1>2, <2>1, <2>3, <2>4
<1> QED
  BY <1>3, <1>5, <1>6 DEF NeighbourHonest

LEMMA FillsStep == ASSUME IInv, Fills PROVE IInv'
<1>1. PICK upTo \in cursor .. NumAddresses + 1, ends \in BOOLEAN :
         \E order \in Orders(upTo) :
            /\ buffer' = Messages(order) \o IF ends THEN <<[kind |-> "done"]>> ELSE <<>>
            /\ sent' = sent \cup {AsSent(order[i]) : i \in DOMAIN order}
            /\ cursor' = upTo
            /\ answer' = IF ends THEN "done" ELSE "none"
  BY DEF Fills
<1>2. PICK order \in Orders(upTo) :
         /\ buffer' = Messages(order) \o IF ends THEN <<[kind |-> "done"]>> ELSE <<>>
         /\ sent' = sent \cup {AsSent(order[i]) : i \in DOMAIN order}
         /\ cursor' = upTo
         /\ answer' = IF ends THEN "done" ELSE "none"
  BY <1>1
<1>3. /\ reading /\ buffer = <<>> /\ answer = "none"
      /\ UNCHANGED <<kernel, changes, exporter>>
      /\ sent = received
  BY DEF Fills, IInv, DumpOK
<1> DEFINE with == {a \in cursor .. upTo - 1 : table[a] # None}
           n == Cardinality(with)
<1>4. n \in Nat /\ with \subseteq {a \in Addresses : table[a] # None}
  <2>1. cursor \in 1 .. NumAddresses + 1 /\ upTo \in 1 .. NumAddresses + 1
    BY <1>1 DEF IInv, TypeOK
  <2>2. IsFiniteSet(cursor .. upTo - 1)
    BY <2>1, FS_Interval
  <2>3. IsFiniteSet(with)
    BY <2>2, FS_Subset
  <2> QED
    BY <2>1, <2>3, FS_CardinalityType DEF Addresses
<1>5. order \in [1 .. n -> with]
  BY DEF Orders
<1> HIDE DEF n, with
<1>6. \A i \in 1 .. n : /\ AsSent(order[i]) \in Neighbour
                        /\ NeighbourHonest(AsSent(order[i]))
  BY <1>4, <1>5, SentHonest
<1>7. DOMAIN order = 1 .. n
      /\ Messages(order) = [i \in 1 .. n |-> [kind |-> "newneigh", neighbour |-> AsSent(order[i])]]
  BY <1>5 DEF Messages
<1>8. Messages(order) \in [1 .. n -> [kind : {"newneigh"}, neighbour : Neighbour]]
      /\ {Messages(order)[i].neighbour : i \in 1 .. n} = {AsSent(order[i]) : i \in 1 .. n}
  BY <1>6, <1>7
<1>9. /\ buffer' \in Seq(Message) /\ ~IsError(buffer') /\ DumpFinished(buffer') = ends
      /\ Parsed(buffer') = {AsSent(order[i]) : i \in 1 .. n}
  <2>1. CASE ends
    BY <1>2, <1>4, <1>8, <2>1, ScansOfLast
  <2>2. CASE ~ends
    <3>1. Messages(order) \in Seq(Message) /\ buffer' = Messages(order)
      BY <1>2, <1>4, <1>8, <2>2, ScansOfFilled, ConcatEmptySeq
    <3> QED
      BY <1>4, <1>8, <2>2, <3>1, ScansOfFilled DEF DumpFinished
  <2> QED
    BY <2>1, <2>2
<1>10. sent' = sent \cup Parsed(buffer') /\ sent' \in SUBSET Neighbour
  <2>1. sent' = sent \cup {AsSent(order[i]) : i \in 1 .. n}
    BY <1>2, <1>7
  <2>2. sent' = sent \cup Parsed(buffer')
    BY <1>9, <2>1
  <2>3. sent \in SUBSET Neighbour
    BY DEF IInv, TypeOK
  <2> QED
    BY <1>6, <2>1, <2>2, <2>3
<1>11. TypeOK'
  BY <1>1, <1>2, <1>3, <1>9, <1>10 DEF IInv, TypeOK, kernel, exporter
<1>12. DumpOK'
  <2>1. ends => buffer' # <<>>
    <3>1. ~DumpFinished(<<>>)
      BY EmptyScans
    <3> QED
      BY <1>9, <3>1
  <2>2. ~ends /\ buffer' = <<>> => sent' = sent
    BY <1>10, EmptyScans
  <2> QED
    BY <1>2, <1>3, <1>9, <1>10, <2>1, <2>2 DEF IInv, DumpOK, exporter
<1>13. (\A m \in sent : NeighbourHonest(m))'
  BY <1>2, <1>3, <1>6, <1>7 DEF IInv, NeighbourHonest, kernel, exporter
<1>14. SightingHonest' /\ (pollAt <= now)'
  BY <1>3 DEF IInv, SightingHonest, kernel, exporter
<1> QED
  BY <1>3, <1>11, <1>12, <1>13, <1>14, EntriesStay DEF IInv

LEMMA RefusesStep == ASSUME IInv, Refuses PROVE IInv'
<1>1. /\ reading /\ buffer = <<>> /\ answer = "none"
      /\ buffer' = <<[kind |-> "error"]>> /\ answer' = "refused"
      /\ UNCHANGED <<kernel, changes, exporter, cursor, sent>>
  BY DEF Refuses
<1>2. buffer' \in Seq(Message) /\ IsError(buffer')
  BY <1>1, ScansOfRefusal
<1>3. buffer' # <<>>
  BY <1>2, EmptyScans
<1>4. TypeOK'
  BY <1>1, <1>2 DEF IInv, TypeOK, kernel, exporter
<1>5. DumpOK'
  BY <1>1, <1>2, <1>3 DEF IInv, DumpOK, exporter
<1>6. (\A m \in sent : NeighbourHonest(m))'
  BY <1>1 DEF IInv, NeighbourHonest, kernel, exporter
<1>7. SightingHonest' /\ (pollAt <= now)'
  BY <1>1 DEF IInv, SightingHonest, kernel, exporter
<1> QED
  BY <1>1, <1>4, <1>5, <1>6, <1>7, EntriesStay DEF IInv

\* The sightings of honest neighbours are honest.
LEMMA SightingsOfHonest ==
    ASSUME IInv, NEW neighbours \in SUBSET sent
    PROVE  /\ SightingsOf(neighbours) \in SightingSet
           /\ \A s \in SightingsOf(neighbours) :
                 /\ s.addr \in OnLan /\ s.at <= pollAt
                 /\ heard[s.addr][s.mac] # None
                 /\ s.at <= heard[s.addr][s.mac] + ReachableTime
<1> SUFFICES ASSUME NEW s \in SightingsOf(neighbours)
             PROVE  /\ s \in [addr : Addresses, mac : Devices, at : Int]
                    /\ s.addr \in OnLan /\ s.at <= pollAt
                    /\ heard[s.addr][s.mac] # None
                    /\ s.at <= heard[s.addr][s.mac] + ReachableTime
  BY DEF SightingSet
<1>1. PICK n \in neighbours : /\ Kept(n)
                              /\ s = [addr |-> n.addr, mac |-> n.mac, at |-> pollAt - Age(n)]
  BY DEF SightingsOf
<1>2. /\ n \in Neighbour /\ NeighbourHonest(n) /\ pollAt \in Nat
      /\ heard \in [Addresses -> [Devices -> Nat \cup {None}]]
  BY DEF IInv, TypeOK
<1>3. /\ n.addr \in OnLan /\ n.addr \in Addresses /\ n.mac \in Devices
      /\ n.confirmedAge \in Int /\ n.updatedAge \in Int
  BY <1>1, <1>2 DEF Kept, Neighbour
<1>4. Age(n) \in Int /\ Age(n) >= 0
  BY <1>2, <1>3 DEF Age, NeighbourHonest
<1>5. heard[n.addr][n.mac] # None /\ heard[n.addr][n.mac] \in Nat
  BY <1>2, <1>3 DEF NeighbourHonest
<1>6. pollAt - Age(n) <= heard[n.addr][n.mac] + ReachableTime
  BY <1>2, <1>3, <1>5 DEF NeighbourHonest, Age
<1> QED
  BY <1>1, <1>2, <1>3, <1>4, <1>5, <1>6

\* A read that ends with sightings of what was sent, or with none.
LEMMA EndReadStep ==
    ASSUME IInv, NEW how \in {"read", "failed"}, NEW found \in SightingSet,
           EndRead(how, found),
           \A s \in found :
              /\ s.addr \in OnLan /\ s.at <= pollAt
              /\ heard[s.addr][s.mac] # None
              /\ s.at <= heard[s.addr][s.mac] + ReachableTime
    PROVE  IInv'
<1>1. /\ reading' = FALSE /\ received' = {} /\ outcome' = how /\ sightings' = found
      /\ cursor' = 1 /\ buffer' = <<>> /\ sent' = {} /\ answer' = "none"
      /\ UNCHANGED <<kernel, changes, pollAt>>
  BY DEF EndRead, NoDump
<1>2. cursor' \in 1 .. NumAddresses + 1 /\ buffer' \in Seq(Message)
  BY <1>1
<1>3. TypeOK'
  BY <1>1, <1>2 DEF IInv, TypeOK, kernel
<1>4. DumpOK'
  BY <1>1 DEF DumpOK
<1>5. SightingHonest' /\ (pollAt <= now)' /\ sent' = {}
  BY <1>1 DEF SightingHonest, IInv, kernel
<1> QED
  BY <1>1, <1>3, <1>4, <1>5, EntriesStay DEF IInv

LEMMA FailedRead == ASSUME IInv, EndRead("failed", {}) PROVE IInv'
<1>1. {} \in SightingSet
  BY DEF SightingSet
<1> QED
  BY <1>1, EndReadStep

LEMMA ReceiveStep == ASSUME IInv, Receive PROVE IInv'
<1>1. reading /\ buffer # <<>> /\ ~IsError(buffer)
  BY DEF Receive
<1>2. sent = received \cup Parsed(buffer)
  BY <1>1 DEF IInv, DumpOK, TypeOK
<1>3. CASE DumpFinished(buffer)
  <2>1. EndRead("read", SightingsOf(sent))
    BY <1>2, <1>3 DEF Receive
  <2> QED
    BY <2>1, SightingsOfHonest, EndReadStep
<1>4. CASE ~DumpFinished(buffer)
  <2>1. /\ buffer' = <<>> /\ received' = sent
        /\ UNCHANGED <<kernel, changes, reading, pollAt, outcome, sightings, cursor, sent, answer>>
    BY <1>2, <1>4 DEF Receive
  <2>2. answer = "none"
    BY <1>1, <1>4 DEF IInv, DumpOK, TypeOK
  <2>3. TypeOK'
    <3>1. buffer' \in Seq(Message) /\ received' \in SUBSET Neighbour
      BY <2>1 DEF IInv, TypeOK
    <3> QED
      BY <2>1, <3>1 DEF IInv, TypeOK, kernel
  <2>4. DumpOK'
    BY <1>1, <2>1, <2>2 DEF DumpOK
  <2>5. (\A m \in sent : NeighbourHonest(m))'
    BY <2>1 DEF IInv, NeighbourHonest, kernel
  <2>6. SightingHonest' /\ (pollAt <= now)'
    BY <2>1 DEF IInv, SightingHonest, kernel
  <2> QED
    BY <2>1, <2>3, <2>4, <2>5, <2>6, EntriesStay DEF IInv
<1> QED
  BY <1>3, <1>4

LEMMA TakenStep == ASSUME IInv, Taken PROVE IInv'
<1>1. /\ outcome' = "none" /\ sightings' = {} /\ changes' = 0
      /\ UNCHANGED <<kernel, dump, reading, pollAt, received>>
  BY DEF Taken
<1>2. TypeOK'
  BY <1>1 DEF IInv, TypeOK, kernel, dump, SightingSet
<1>3. DumpOK'
  BY <1>1 DEF IInv, DumpOK, dump
<1>4. (\A m \in sent : NeighbourHonest(m))'
  BY <1>1 DEF IInv, NeighbourHonest, kernel, dump
<1>5. SightingHonest' /\ (pollAt <= now)'
  BY <1>1 DEF IInv, SightingHonest, kernel
<1> QED
  BY <1>1, <1>2, <1>3, <1>4, <1>5, EntriesStay DEF IInv

LEMMA StutterStep == ASSUME IInv, UNCHANGED vars PROVE IInv'
<1>1. TypeOK'
  BY DEF IInv, TypeOK, vars, kernel, dump, exporter
<1>2. DumpOK'
  BY DEF IInv, DumpOK, vars, dump, exporter
<1>3. (\A m \in sent : NeighbourHonest(m))'
  BY DEF IInv, NeighbourHonest, vars, kernel, dump, exporter
<1>4. SightingHonest' /\ (pollAt <= now)'
  BY DEF IInv, SightingHonest, vars, kernel, exporter
<1> QED
  BY <1>1, <1>2, <1>3, <1>4, EntriesStay DEF IInv, vars

LEMMA Inductive == ASSUME IInv, [Next]_vars PROVE IInv'
<1>1. CASE Kernel
  BY <1>1, KernelSteps
<1>2. CASE Fills \/ Refuses
  BY <1>2, FillsStep, RefusesStep
<1>3. CASE StartRead \/ Receive \/ Taken
  BY <1>3, StartReadStep, ReceiveStep, TakenStep
<1>4. CASE ReadRaises \/ TimesOut
  BY <1>4, FailedRead DEF ReadRaises, TimesOut
<1>5. CASE \E reached \in SUBSET Addresses : Provoke(reached)
  BY <1>5, ProvokeStep
<1>6. CASE UNCHANGED vars
  BY <1>6, StutterStep
<1> QED
  BY <1>1, <1>2, <1>3, <1>4, <1>5, <1>6 DEF Next, Exporter

-----------------------------------------------------------------------------
\* The inductive invariant holds of the specification.
THEOREM Invariance == Spec => []IInv
<1>1. Init => IInv
  BY Initially
<1>2. IInv /\ [Next]_vars => IInv'
  BY Inductive
<1> QED
  BY <1>1, <1>2, PTL DEF Spec

\* The neighbour table, the dump and the exporter stay well formed.
THEOREM TypeCorrect == Spec => []TypeOK
<1>1. IInv => TypeOK
  BY DEF IInv
<1> QED
  BY <1>1, Invariance, PTL

\* Every sighting of a read is of a device of the LAN that was itself heard at
\* that address, at most ReachableTime before the time given
\* (neighbour_sightings).
THEOREM SightingsAreHonest == Spec => []SightingHonest
<1>1. IInv => SightingHonest
  BY DEF IInv
<1> QED
  BY <1>1, Invariance, PTL

\* A read ends with the whole dump or fails (read_neighbours and its scans).
THEOREM ReadsAreWhole == Spec => WholeDumpOrFailure
<1>1. ASSUME IInv, Next, reading, ~reading'
      PROVE  IF answer = "done"
             THEN outcome' = "read" /\ sightings' = SightingsOf(sent)
             ELSE outcome' = "failed" /\ sightings' = {}
  <2>1. ReadRaises \/ Receive \/ TimesOut
    <3>1. CASE Kernel
      BY <1>1, <3>1 DEF Kernel, Tick, Answers, Announces, Turns, IsAsked, Dropped, exporter
    <3>2. CASE Fills \/ Refuses
      BY <1>1, <3>2 DEF Fills, Refuses, exporter
    <3>3. CASE StartRead \/ Taken \/ \E reached \in SUBSET Addresses : Provoke(reached)
      BY <1>1, <3>3 DEF StartRead, Taken, Provoke, exporter
    <3> QED
      BY <1>1, <3>1, <3>2, <3>3 DEF Next, Exporter
  <2>2. CASE ReadRaises
    <3>1. answer # "done"
      BY <1>1, <2>2 DEF ReadRaises, IInv, DumpOK
    <3> QED
      BY <2>2, <3>1 DEF ReadRaises, EndRead
  <2>3. CASE TimesOut
    <3>1. answer # "done"
      BY <1>1, <2>3 DEF TimesOut, IInv, DumpOK
    <3> QED
      BY <2>3, <3>1 DEF TimesOut, EndRead
  <2>4. CASE Receive
    <3>1. DumpFinished(buffer) /\ buffer # <<>> /\ ~IsError(buffer)
      BY <1>1, <2>4 DEF Receive
    <3>2. answer = "done" /\ sent = received \cup Parsed(buffer)
      BY <1>1, <3>1 DEF IInv, DumpOK, TypeOK
    <3> QED
      BY <2>4, <3>1, <3>2 DEF Receive, EndRead
  <2> QED
    BY <2>1, <2>2, <2>3, <2>4
<1>2. IInv /\ [Next]_vars =>
         [reading /\ ~reading' =>
             IF answer = "done"
             THEN outcome' = "read" /\ sightings' = SightingsOf(sent)
             ELSE outcome' = "failed" /\ sightings' = {}]_vars
  BY <1>1
<1> QED
  BY <1>2, Invariance, PTL DEF Spec, WholeDumpOrFailure

-----------------------------------------------------------------------------
(***************************************************************************)
(* PlaybackRecord.                                                         *)
(***************************************************************************)

\* The field of the record that a field of a text is, if all of it came.
IsOf(field, fields) ==
    \E j \in DOMAIN fields : field.key = fields[j].key /\ field.value = fields[j].value

\* Every field of a parsed text is a field of the HomePod's record, as it was.
Own(txt, p, f) ==
    \A key \in DOMAIN txt : IsOf([key |-> key, value |-> txt[key]], Record!Record(p, f))

LEMMA RecordLength ==
    ASSUME NEW p, NEW f
    PROVE  \E n \in {3, 4} : DOMAIN Record!Record(p, f) = 1 .. n /\ Len(Record!Record(p, f)) = n
<1>1. ASSUME NEW a, NEW b, NEW c
      PROVE  DOMAIN <<a, b, c>> = 1 .. 3 /\ Len(<<a, b, c>>) = 3
  OBVIOUS
<1>2. ASSUME NEW a, NEW b, NEW c, NEW d
      PROVE  DOMAIN <<a, b, c, d>> = 1 .. 4 /\ Len(<<a, b, c, d>>) = 4
  OBVIOUS
<1> QED BY <1>1, <1>2, ZenonT(30) DEF Record!Record

LEMMA TextLength ==
    ASSUME NEW p, NEW f, NEW text \in Record!RecordTexts(p, f)
    PROVE  \E n \in Nat : DOMAIN text = 1 .. n
<1> DEFINE R == Record!Record(p, f)
<1>1. PICK n \in {3, 4} : DOMAIN R = 1 .. n /\ Len(R) = n
  BY RecordLength
<1>2. DOMAIN Record!Reverse(R) = 1 .. n
  BY <1>1 DEF Record!Reverse
<1> HIDE DEF R
<1>3. CASE text \in Record!WholeTexts(p, f)
  BY <1>1, <1>2, <1>3 DEF Record!WholeTexts, Record!Whole, R
<1>4. CASE text \in Record!Cuts(R) \cup Record!Cuts(Record!Reverse(R))
  BY <1>1, <1>2, <1>4 DEF Record!Cuts, Record!CutAt
<1> QED BY <1>3, <1>4 DEF Record!RecordTexts, R

\* Only a field that came whole is marked so, and then it is one of the record's.
LEMMA WholeFieldsAreOwn ==
    ASSUME NEW p, NEW f, NEW text \in Record!RecordTexts(p, f), NEW i \in DOMAIN text, text[i].whole
    PROVE  IsOf(text[i], Record!Record(p, f))
<1> DEFINE R == Record!Record(p, f)
           B == Record!Reverse(R)
<1>1. PICK n \in {3, 4} : DOMAIN R = 1 .. n /\ Len(R) = n
  BY RecordLength
<1>2. B = [k \in 1 .. n |-> R[(n - k) + 1]]
  BY <1>1 DEF Record!Reverse
<1> HIDE DEF R, B
<1>3. \A k \in 1 .. n : IsOf(R[k], R) /\ IsOf(B[k], R)
  BY <1>1, <1>2 DEF IsOf
<1>4. ASSUME NEW S \in {R, B}, text = Record!Whole(S)
      PROVE  IsOf(text[i], R)
  <2>1. i \in 1 .. n /\ text[i] = Record!WholeField(S[i])
    BY <1>1, <1>2, <1>4 DEF Record!Whole
  <2>2. text[i].key = S[i].key /\ text[i].value = S[i].value
    BY <2>1 DEF Record!WholeField
  <2> QED BY <2>1, <2>2, <1>3 DEF IsOf
<1>5. ASSUME NEW S \in {R, B}, text \in Record!Cuts(S)
      PROVE  IsOf(text[i], R)
  <2>1. PICK c \in 1 .. n : text = Record!CutAt(S, c)
    BY <1>1, <1>2, <1>5 DEF Record!Cuts
  <2>2. i \in 1 .. c /\ i \in 1 .. n
    BY <2>1 DEF Record!CutAt
  <2>3. i # c
    BY <2>1, <2>2 DEF Record!CutAt, Record!CutField
  <2>4. text[i].key = S[i].key /\ text[i].value = S[i].value
    BY <2>1, <2>2, <2>3 DEF Record!CutAt, Record!WholeField
  <2> QED BY <2>2, <2>4, <1>3 DEF IsOf
<1> QED BY <1>4, <1>5 DEF Record!RecordTexts, Record!WholeTexts, R, B

LEMMA ParsedFields ==
    ASSUME NEW text, NEW indices
    PROVE  /\ \A i \in indices : text[i].key \in DOMAIN Record!Fields(text, indices)
           /\ \A key \in DOMAIN Record!Fields(text, indices) :
                 \E i \in indices : text[i].key = key /\ Record!Fields(text, indices)[key] = text[i].value
<1>1. ASSUME NEW key \in {text[i].key : i \in indices}
      PROVE  \E i \in indices : text[i].key = key /\ Record!Fields(text, indices)[key] = text[i].value
  <2> DEFINE at == CHOOSE i \in indices : text[i].key = key
  <2>1. at \in indices /\ text[at].key = key
    BY <1>1
  <2>2. Record!Fields(text, indices)[key] = text[at].value
    BY <1>1 DEF Record!Fields
  <2> QED BY <2>1, <2>2
<1> QED BY <1>1 DEF Record!Fields

\* Nothing of a field that was cut is read, and no other value.
LEMMA ParsedIsOwn ==
    ASSUME NEW p, NEW f, NEW text \in Record!RecordTexts(p, f)
    PROVE  Own(Record!ParseTxt(text), p, f)
<1> DEFINE whole == {i \in DOMAIN text : \A j \in 1 .. i : text[j].whole}
           txt == Record!ParseTxt(text)
<1>1. txt = Record!Fields(text, whole)
  BY DEF Record!ParseTxt
<1>2. ASSUME NEW key \in DOMAIN txt
      PROVE  IsOf([key |-> key, value |-> txt[key]], Record!Record(p, f))
  <2> HIDE DEF whole, txt
  <2>1. PICK i \in whole : text[i].key = key /\ txt[key] = text[i].value
    BY <1>1, <1>2, ParsedFields
  <2> USE DEF whole, txt
  <2>2. i \in DOMAIN text /\ text[i].whole
    BY <2>1, TextLength
  <2>3. IsOf(text[i], Record!Record(p, f))
    BY <2>2, WholeFieldsAreOwn
  <2>4. /\ [key |-> key, value |-> txt[key]].key = text[i].key
        /\ [key |-> key, value |-> txt[key]].value = text[i].value
    BY <2>1
  <2> QED BY <2>3, <2>4, Zenon DEF IsOf
<1> QED BY <1>2, Zenon DEF Own

\* All of a record that came whole is read.
LEMMA ParsedIsAll ==
    ASSUME NEW p, NEW f, NEW text \in Record!WholeTexts(p, f), NEW j \in DOMAIN Record!Record(p, f)
    PROVE  Record!Record(p, f)[j].key \in DOMAIN Record!ParseTxt(text)
<1> DEFINE R == Record!Record(p, f)
           B == Record!Reverse(R)
           whole == {i \in DOMAIN text : \A k \in 1 .. i : text[k].whole}
<1>1. PICK n \in {3, 4} : DOMAIN R = 1 .. n /\ Len(R) = n
  BY RecordLength
<1>2. B = [k \in 1 .. n |-> R[(n - k) + 1]]
  BY <1>1 DEF Record!Reverse
<1>3. j \in 1 .. n
  BY <1>1
<1> HIDE DEF R, B
<1>4. PICK S \in {R, B} : text = Record!Whole(S)
  BY DEF Record!WholeTexts, R, B
<1>5. DOMAIN text = 1 .. n /\ \A k \in 1 .. n : text[k].whole /\ text[k].key = S[k].key
  BY <1>1, <1>2, <1>4 DEF Record!Whole, Record!WholeField
<1>6. PICK k \in 1 .. n : S[k] = R[j]
  <2>1. CASE S = R
    BY <2>1, <1>3
  <2>2. CASE S = B
    BY <2>2, <1>2, <1>3, (n - ((n - j) + 1)) + 1 = j, (n - j) + 1 \in 1 .. n
  <2> QED BY <2>1, <2>2
<1>7. k \in whole /\ text[k].key = R[j].key
  BY <1>5, <1>6
<1>8. Record!ParseTxt(text) = Record!Fields(text, whole)
  BY DEF Record!ParseTxt
<1> HIDE DEF whole
<1> QED BY <1>7, <1>8, ParsedFields DEF R

\* The values of a record, by key.
FlagsOf(p, f) == IF f = "flags" THEN "-1" ELSE IF p.audio THEN "0x140404" ELSE "0x40404"
GidOf(p, f) == IF f = "gid" THEN "unprintable" ELSE p.group
IglOf(p, f) == IF f = "igl" THEN "yes" ELSE IF p.leads THEN "1" ELSE "0"

LEMMA AllKeys ==
    ASSUME NEW p, NEW key \in {"flags", "gid", "igl"}
    PROVE  \E j \in DOMAIN Record!Record(p, "seen") : Record!Record(p, "seen")[j].key = key
<1> DEFINE R == Record!Record(p, "seen")
<1>1. /\ DOMAIN R = 1 .. 4
      /\ R[1].key = "flags" /\ R[2].key = "gid" /\ R[3].key = "igl"
  BY DEF Record!Record
<1> HIDE DEF R
<1>2. \E j \in DOMAIN R : R[j].key = key
  BY <1>1
<1> QED BY <1>2 DEF R

LEMMA RecordValues ==
    ASSUME NEW p, NEW f, NEW j \in DOMAIN Record!Record(p, f)
    PROVE  /\ Record!Record(p, f)[j].key = "flags" =>
                 /\ f # "no flags"
                 /\ Record!Record(p, f)[j].value = FlagsOf(p, f)
           /\ Record!Record(p, f)[j].key = "gid" =>
                 Record!Record(p, f)[j].value = GidOf(p, f)
           /\ Record!Record(p, f)[j].key = "igl" =>
                 Record!Record(p, f)[j].value = IglOf(p, f)
<1> DEFINE flags == [key |-> "flags", value |-> FlagsOf(p, f)]
           gid == [key |-> "gid", value |-> GidOf(p, f)]
           igl == [key |-> "igl", value |-> IglOf(p, f)]
           pk == [key |-> "pk", value |-> "0"]
           field == Record!Record(p, f)[j]
<1>1. Record!Record(p, f) = IF f = "no flags" THEN <<gid, igl, pk>> ELSE <<flags, gid, igl, pk>>
  BY Zenon DEF Record!Record, FlagsOf, GidOf, IglOf
<1>2. /\ flags.key = "flags" /\ gid.key = "gid" /\ igl.key = "igl" /\ pk.key = "pk"
      /\ flags.value = FlagsOf(p, f)
      /\ gid.value = GidOf(p, f)
      /\ igl.value = IglOf(p, f)
  OBVIOUS
<1> HIDE DEF flags, gid, igl, pk
<1>3. field \in {gid, igl, pk} \/ (f # "no flags" /\ field = flags)
  <2>1. ASSUME NEW a, NEW b, NEW c, NEW d
        PROVE  /\ \A i \in DOMAIN <<a, b, c>> : <<a, b, c>>[i] \in {a, b, c}
               /\ \A i \in DOMAIN <<a, b, c, d>> : <<a, b, c, d>>[i] \in {a, b, c, d}
    OBVIOUS
  <2>2. CASE f = "no flags"
    <3>1. Record!Record(p, f) = <<gid, igl, pk>>
      BY <1>1, <2>2
    <3> QED BY <3>1, <2>1
  <2>3. CASE f # "no flags"
    <3>1. Record!Record(p, f) = <<flags, gid, igl, pk>>
      BY <1>1, <2>3
    <3>2. j \in DOMAIN <<flags, gid, igl, pk>> /\ field = <<flags, gid, igl, pk>>[j]
      BY <3>1
    <3> HIDE DEF field
    <3>3. field \in {flags, gid, igl, pk}
      BY <3>2, <2>1
    <3> QED BY <3>3, <2>3
  <2> QED BY <2>2, <2>3
<1> HIDE DEF field
<1>4. /\ field.key = "flags" => f # "no flags" /\ field = flags
      /\ field.key = "gid" => field = gid
      /\ field.key = "igl" => field = igl
  BY <1>2, <1>3
<1> QED BY <1>2, <1>4, Zenon DEF field

\* What is read of the HomePod's own fields is what it is doing.
LEMMA StateIsOwn ==
    ASSUME Record!Assumption, NEW p \in Pods, NEW f \in Record!Forms, NEW txt,
           txt # None, Own(txt, p, f), Record!Unreadable(txt) = None
    PROVE  f = "seen" /\ Record!PlaybackState(txt) = p
<1>1. p.audio \in BOOLEAN /\ p.leads \in BOOLEAN /\ p = [audio |-> p.audio, leads |-> p.leads, group |-> p.group]
  BY DEF Record!Assumption, Record!States
<1>2. None \notin {"no record", "field missing", "flags", "igl", "gid"}
  BY DEF Record!Assumption, Record!Reasons
<1>3. /\ {"flags", "gid", "igl"} \subseteq DOMAIN txt
      /\ txt["flags"] \in DOMAIN Record!AudioOf /\ txt["igl"] \in {"0", "1"}
      /\ Record!Sanitised(txt["gid"]) # ""
  BY <1>2 DEF Record!Unreadable
<1>4. /\ f # "no flags"
      /\ txt["flags"] = FlagsOf(p, f)
      /\ txt["gid"] = GidOf(p, f)
      /\ txt["igl"] = IglOf(p, f)
  <2>1. \A key \in {"flags", "gid", "igl"} :
           \E j \in DOMAIN Record!Record(p, f) :
               key = Record!Record(p, f)[j].key /\ txt[key] = Record!Record(p, f)[j].value
    BY <1>3 DEF Own, IsOf
  <2>2. ASSUME NEW key \in {"flags", "gid", "igl"}
        PROVE  \E j \in DOMAIN Record!Record(p, f) :
                   Record!Record(p, f)[j].key = key /\ Record!Record(p, f)[j].value = txt[key]
    BY <2>1, <2>2, Zenon
  <2>3. f # "no flags" /\ txt["flags"] = FlagsOf(p, f)
    <3>1. PICK j \in DOMAIN Record!Record(p, f) :
              Record!Record(p, f)[j].key = "flags" /\ Record!Record(p, f)[j].value = txt["flags"]
      BY <2>2
    <3> QED BY <3>1, RecordValues
  <2>4. txt["gid"] = GidOf(p, f)
    <3>1. PICK j \in DOMAIN Record!Record(p, f) :
              Record!Record(p, f)[j].key = "gid" /\ Record!Record(p, f)[j].value = txt["gid"]
      BY <2>2
    <3> QED BY <3>1, RecordValues
  <2>5. txt["igl"] = IglOf(p, f)
    <3>1. PICK j \in DOMAIN Record!Record(p, f) :
              Record!Record(p, f)[j].key = "igl" /\ Record!Record(p, f)[j].value = txt["igl"]
      BY <2>2
    <3> QED BY <3>1, RecordValues
  <2> QED BY <2>3, <2>4, <2>5, Zenon
<1>5. f = "seen"
  BY <1>3, <1>4 DEF Record!Forms, Record!AudioOf, Record!Sanitised, FlagsOf, GidOf, IglOf
<1>6. /\ Record!AudioOf[txt["flags"]] = p.audio /\ (txt["igl"] = "1") = p.leads
      /\ Record!Sanitised(txt["gid"]) = p.group
  BY <1>1, <1>4, <1>5 DEF Record!AudioOf, Record!Sanitised, Record!Assumption,
        FlagsOf, GidOf, IglOf
<1> QED BY <1>1, <1>5, <1>6, Zenon DEF Record!PlaybackState

\* A record that has all its fields in the form seen is read.
LEMMA AllIsReadable ==
    ASSUME Record!Assumption, NEW p \in Pods, NEW txt, txt # None, Own(txt, p, "seen"),
           {"flags", "gid", "igl"} \subseteq DOMAIN txt
    PROVE  Record!Unreadable(txt) = None
<1>1. ASSUME NEW key \in {"flags", "gid", "igl"}
      PROVE  \E j \in DOMAIN Record!Record(p, "seen") :
                 Record!Record(p, "seen")[j].key = key /\ Record!Record(p, "seen")[j].value = txt[key]
  BY <1>1 DEF Own, IsOf
<1>2. txt["flags"] = FlagsOf(p, "seen")
  BY <1>1, RecordValues
<1>3. txt["gid"] = GidOf(p, "seen")
  BY <1>1, RecordValues
<1>4. txt["igl"] = IglOf(p, "seen")
  BY <1>1, RecordValues
<1>5. txt["flags"] \in DOMAIN Record!AudioOf /\ txt["igl"] \in {"0", "1"}
  BY <1>2, <1>4 DEF FlagsOf, IglOf, Record!AudioOf
<1>6. txt["gid"] = p.group /\ p.group \notin {"", "unprintable"}
  BY <1>3 DEF GidOf, Record!Assumption
<1>7. Record!Sanitised(txt["gid"]) # ""
  BY <1>6 DEF Record!Sanitised
<1> QED BY <1>5, <1>7 DEF Record!Unreadable

\* The first TXT record of the HomePod's name is what is read of a reply.
LEMMA AnswerIsOwn ==
    ASSUME NEW text, NEW records \in Record!Replies(text)
    PROVE  LET a == Record!AnswerFromPacket(records) IN
           /\ a.answered = TRUE
           /\ a.txt \in {None, Record!ParseTxt(text)}
           /\ Record!Txt(text) \in Record!Range(records) => a.txt = Record!ParseTxt(text)
<1> DEFINE own == Record!Txt(text)
<1>1. /\ own.name = "pod" /\ own.kind = "TXT" /\ own.text = text
      /\ Record!Srv.name = "pod" /\ Record!Srv.kind = "SRV"
      /\ Record!Other.name = "other"
  BY DEF Record!Txt, Record!Srv, Record!Other
<1> DEFINE mine == {i \in DOMAIN records : records[i].name = "pod"}
           texts == {i \in mine : records[i].kind = "TXT"}
           first == CHOOSE i \in texts : \A j \in texts : i <= j
           answered == mine # {}
<1>2. Record!AnswerFromPacket(records) =
          [answered |-> answered, txt |-> IF texts = {} THEN None ELSE Record!ParseTxt(records[first].text)]
  BY Zenon DEF Record!AnswerFromPacket
<1>3. /\ mine # {}
      /\ texts # {} => records[first].text = text
      /\ own \in Record!Range(records) => texts # {}
  <2>1. CASE records = <<Record!Srv, own, Record!Other>>
    <3> HIDE DEF own
    <3>1. DOMAIN records = 1 .. 3 /\ records[1] = Record!Srv /\ records[2] = own
              /\ records[3] = Record!Other
      BY <2>1
    <3>2. mine = {1, 2} /\ texts = {2}
      BY <1>1, <3>1
    <3>3. first = 2
      BY <3>2
    <3> QED BY <1>1, <3>1, <3>2, <3>3
  <2>2. CASE records = <<Record!Other, own>>
    <3> HIDE DEF own
    <3>1. DOMAIN records = 1 .. 2 /\ records[1] = Record!Other /\ records[2] = own
      BY <2>2
    <3>2. mine = {2} /\ texts = {2}
      BY <1>1, <3>1
    <3>3. first = 2
      BY <3>2
    <3> QED BY <1>1, <3>1, <3>2, <3>3
  <2>3. CASE records = <<Record!Other, Record!Srv>>
    <3> HIDE DEF own
    <3>1. DOMAIN records = 1 .. 2 /\ records[1] = Record!Other /\ records[2] = Record!Srv
      BY <2>3
    <3>2. mine = {2} /\ texts = {}
      BY <1>1, <3>1
    <3>3. own # Record!Srv /\ own # Record!Other
      BY <1>1
    <3>4. own \notin Record!Range(records)
      BY <3>1, <3>3 DEF Record!Range
    <3> QED BY <3>2, <3>4
  <2> QED BY <2>1, <2>2, <2>3 DEF Record!Replies
<1> HIDE DEF mine, texts, first, own, answered
<1>4. answered = TRUE
  BY <1>3 DEF answered
<1>5. Record!AnswerFromPacket(records).answered = TRUE
  BY <1>2, <1>4
<1>6. Record!AnswerFromPacket(records).txt =
          IF texts = {} THEN None ELSE Record!ParseTxt(records[first].text)
  BY <1>2
<1> QED BY <1>3, <1>5, <1>6 DEF own

LEMMA OtherIsNoAnswer == Record!AnswerFromPacket(<<Record!Other>>) = [answered |-> FALSE, txt |-> None]
<1> DEFINE records == <<Record!Other>>
           mine == {i \in DOMAIN records : records[i].name = "pod"}
           texts == {i \in mine : records[i].kind = "TXT"}
<1>1. mine = {}
  BY DEF Record!Other
<1>2. texts = {}
  BY <1>1
<1>3. (mine # {}) = FALSE
  BY <1>1
<1> QED BY <1>2, <1>3 DEF Record!AnswerFromPacket

-----------------------------------------------------------------------------
\* An answer, and what the HomePod was when it gave it.
AnswerIsSaid ==
    IF said = None THEN reply = None \/ reply.answered = FALSE
    ELSE /\ reply # None /\ reply.answered = TRUE
         /\ reply.txt # None => Own(reply.txt, said.pod, said.form)
         /\ said.whole /\ said.form = "seen" =>
               reply.txt # None /\ {"flags", "gid", "igl"} \subseteq DOMAIN reply.txt

\* A published observation, and what the HomePod was at its answer.
ObservationIsShown ==
    IF shown = None
    THEN snapshot = None \/
            (snapshot.answered # TRUE /\ snapshot.state = None /\ snapshot.reason = None)
    ELSE /\ snapshot # None /\ snapshot.answered = TRUE
         /\ snapshot.state = None <=> snapshot.reason # None
         /\ snapshot.state # None => shown.form = "seen" /\ snapshot.state = shown.pod
         /\ shown.whole /\ shown.form = "seen" => snapshot.state # None

RecordInv ==
    /\ Record!TypeOK
    /\ step # "answered" => reply = None /\ said = None
    /\ AnswerIsSaid /\ ObservationIsShown

LEMMA RecordInitInv == ASSUME Record!Init, Record!Assumption PROVE RecordInv
BY DEF Record!Init, RecordInv, Record!TypeOK, Record!Forms, AnswerIsSaid, ObservationIsShown

\* The HomePod's own reply; the last two disjuncts of ResolveUnicast are silence.
LEMMA ReplyStep ==
    ASSUME RecordInv, Record!Assumption, step' = "answered",
           NEW text \in Record!RecordTexts(pod, form), NEW records \in Record!Replies(text),
           reply' = Record!AnswerFromPacket(records),
           said' = [pod |-> pod, form |-> form,
                    whole |-> /\ text \in Record!WholeTexts(pod, form)
                              /\ Record!Txt(text) \in Record!Range(records)],
           UNCHANGED <<pod, form, snapshot, shown>>
    PROVE  RecordInv'
<1> DEFINE txt == Record!ParseTxt(text)
<1>1. pod \in Pods /\ form \in Record!Forms
  BY DEF RecordInv, Record!TypeOK
<1>2. txt \in Record!TxtRecords
  BY <1>1 DEF Record!TxtRecords
<1>3. Own(txt, pod, form)
  BY ParsedIsOwn
<1>4. /\ reply'.answered = TRUE /\ reply'.txt \in {None, txt}
      /\ Record!Txt(text) \in Record!Range(records) => reply'.txt = txt
  BY AnswerIsOwn
<1>5. reply' = [answered |-> TRUE, txt |-> reply'.txt]
  BY <1>4 DEF Record!AnswerFromPacket
<1>6. reply' # None /\ txt # None
  <2>1. reply' \in Record!UnicastAnswers
    BY <1>2, <1>4, <1>5 DEF Record!UnicastAnswers
  <2> QED BY <2>1, <1>2 DEF Record!Assumption
<1>7. /\ said'.pod = pod /\ said'.form = form /\ said' \in Record!Moments
      /\ said'.whole => text \in Record!WholeTexts(pod, form) /\ Record!Txt(text) \in Record!Range(records)
  BY <1>1 DEF Record!Moments
<1>8. said' # None
  BY <1>7 DEF Record!Assumption
<1>9. ASSUME text \in Record!WholeTexts(pod, form), form = "seen"
      PROVE  {"flags", "gid", "igl"} \subseteq DOMAIN txt
  <2>1. \A j \in DOMAIN Record!Record(pod, form) : Record!Record(pod, form)[j].key \in DOMAIN txt
    BY <1>9, ParsedIsAll
  <2>2. \A key \in {"flags", "gid", "igl"} :
           \E j \in DOMAIN Record!Record(pod, form) : Record!Record(pod, form)[j].key = key
    BY <1>9, AllKeys
  <2> QED BY <2>1, <2>2
<1> HIDE DEF txt
<1>10. AnswerIsSaid'
  BY <1>3, <1>4, <1>6, <1>7, <1>8, <1>9 DEF AnswerIsSaid
<1>11. ObservationIsShown'
  BY DEF RecordInv, ObservationIsShown
<1>12. Record!TypeOK'
  BY <1>1, <1>4, <1>7 DEF RecordInv, Record!TypeOK
<1> QED BY <1>10, <1>11, <1>12 DEF RecordInv

LEMMA ResolveStep == ASSUME RecordInv, Record!Assumption, Record!ResolveUnicast PROVE RecordInv'
<1>1. step' = "answered" /\ UNCHANGED <<pod, form, snapshot, shown>>
  BY DEF Record!ResolveUnicast
<1>2. CASE \E text \in Record!RecordTexts(pod, form) : \E records \in Record!Replies(text) :
             /\ reply' = Record!AnswerFromPacket(records)
             /\ said' = [pod |-> pod, form |-> form,
                         whole |-> /\ text \in Record!WholeTexts(pod, form)
                                   /\ Record!Txt(text) \in Record!Range(records)]
  BY <1>1, <1>2, ReplyStep
<1>3. CASE said' = None /\ reply' \in {None, [answered |-> FALSE, txt |-> None]}
  <2>1. reply' = None \/ reply'.answered = FALSE
    BY <1>3
  <2>2. AnswerIsSaid' /\ ObservationIsShown'
    BY <1>1, <1>3, <2>1 DEF RecordInv, AnswerIsSaid, ObservationIsShown
  <2>3. Record!TypeOK'
    BY <1>1, <1>3, <2>1 DEF RecordInv, Record!TypeOK
  <2> QED BY <1>1, <2>2, <2>3 DEF RecordInv
<1> QED BY <1>2, <1>3, OtherIsNoAnswer DEF Record!ResolveUnicast

\* What is published of an answer is what it says.
LEMMA PublishStep == ASSUME RecordInv, Record!Assumption, Record!Publish PROVE RecordInv'
<1> DEFINE o == Record!ServiceObservation(reply)
<1>1. /\ step = "answered" /\ snapshot' = o /\ shown' = said
      /\ step' = "idle" /\ reply' = None /\ said' = None
      /\ UNCHANGED <<pod, form>>
  BY DEF Record!Publish, Record!EndPoll
<1>2. /\ pod \in Pods /\ form \in Record!Forms /\ AnswerIsSaid
      /\ said # None => said \in Record!Moments
  BY DEF RecordInv, Record!TypeOK
<1>3. CASE said = None
  <2>1. o.answered # TRUE /\ o.state = None /\ o.reason = None /\ o \in Record!Observations
    <3>1. CASE reply = None
      BY <3>1 DEF Record!ServiceObservation, Record!Observations, Record!Assumption
    <3>2. CASE reply # None /\ reply.answered = FALSE
      BY <3>2 DEF Record!ServiceObservation, Record!Observations
    <3> QED BY <1>2, <1>3, <3>1, <3>2 DEF AnswerIsSaid
  <2> HIDE DEF o
  <2> QED BY <1>1, <1>2, <1>3, <2>1 DEF RecordInv, Record!TypeOK, AnswerIsSaid, ObservationIsShown
<1>4. CASE said # None
  <2> DEFINE txt == reply.txt
             p == said.pod
  <2>1. /\ reply # None /\ reply.answered = TRUE
        /\ txt # None => Own(txt, p, said.form)
        /\ said.whole /\ said.form = "seen" =>
              txt # None /\ {"flags", "gid", "igl"} \subseteq DOMAIN txt
    BY <1>2, <1>4 DEF AnswerIsSaid
  <2>2. p \in Pods /\ said.form \in Record!Forms
    BY <1>2, <1>4 DEF Record!Moments
  <2>3. o = [answered |-> TRUE, state |-> Record!PlaybackState(txt), reason |-> Record!Unreadable(txt)]
    BY <2>1 DEF Record!ServiceObservation
  <2> HIDE DEF o, txt, p
  <2>4. Record!Unreadable(txt) \in Record!Reasons \cup {None}
    BY DEF Record!Unreadable, Record!Reasons
  <2>5. txt = None => Record!Unreadable(txt) # None
    BY DEF Record!Unreadable, Record!Assumption, Record!Reasons
  <2>6. CASE Record!Unreadable(txt) = None
    <3>1. said.form = "seen" /\ Record!PlaybackState(txt) = p
      BY <2>1, <2>2, <2>5, <2>6, StateIsOwn
    <3>2. p \in Record!States /\ p # None
      BY <2>2 DEF Record!Assumption
    <3>3. o.answered = TRUE /\ o.state = p /\ o.reason = None /\ o \in Record!Observations
      BY <2>3, <2>6, <3>1, <3>2 DEF Record!Observations
    <3>4. snapshot' # None
      BY <1>1, <3>3 DEF Record!Assumption
    <3>5. ObservationIsShown'
      BY <1>1, <1>4, <3>1, <3>2, <3>3, <3>4 DEF ObservationIsShown, p
    <3> QED BY <1>1, <1>2, <3>3, <3>5 DEF RecordInv, Record!TypeOK, AnswerIsSaid
  <2>7. CASE Record!Unreadable(txt) # None
    <3>1. Record!PlaybackState(txt) = None
      BY <2>7 DEF Record!PlaybackState
    <3>2. o.answered = TRUE /\ o.state = None /\ o.reason # None /\ o \in Record!Observations
      BY <2>3, <2>4, <2>7, <3>1 DEF Record!Observations
    <3>3. snapshot' # None
      BY <1>1, <3>2 DEF Record!Assumption
    <3>4. ~(said.whole /\ said.form = "seen")
      BY <2>1, <2>2, <2>7, AllIsReadable
    <3>5. ObservationIsShown'
      BY <1>1, <1>4, <3>2, <3>3, <3>4 DEF ObservationIsShown
    <3> QED BY <1>1, <1>2, <3>2, <3>5 DEF RecordInv, Record!TypeOK, AnswerIsSaid
  <2> QED BY <2>6, <2>7
<1> QED BY <1>3, <1>4

LEMMA RecordInductive ==
    ASSUME RecordInv, Record!Assumption, [Record!Next]_(Record!vars)
    PROVE  RecordInv'
<1> USE DEF RecordInv, Record!TypeOK, AnswerIsSaid, ObservationIsShown
<1>1. CASE Record!Plays
  BY <1>1 DEF Record!Plays
<1>2. CASE Record!Updates
  BY <1>2 DEF Record!Updates
<1>3. CASE Record!StartPoll
  BY <1>3 DEF Record!StartPoll
<1>4. CASE Record!ResolveUnicast
  BY <1>4, ResolveStep
<1>5. CASE Record!Publish
  BY <1>5, PublishStep
<1>6. CASE Record!PollFails
  BY <1>6 DEF Record!PollFails, Record!EndPoll
<1>7. CASE UNCHANGED Record!vars
  BY <1>7 DEF Record!vars
<1> QED BY <1>1, <1>2, <1>3, <1>4, <1>5, <1>6, <1>7 DEF Record!Next

LEMMA RecordInvariance == Record!Spec => []RecordInv
<1>1. Record!Init => RecordInv
  BY RecordInitInv, RecordAssumption
<1>2. RecordInv /\ [Record!Next]_(Record!vars) => RecordInv'
  BY RecordInductive, RecordAssumption
<1> QED BY <1>1, <1>2, PTL DEF Record!Spec

-----------------------------------------------------------------------------
\* The poll and the HomePod keep their types, for any HomePod.
THEOREM RecordTypeCorrect == Record!Spec => []Record!TypeOK
<1>1. RecordInv => Record!TypeOK
  BY DEF RecordInv
<1> QED BY <1>1, RecordInvariance, PTL

\* The series of a published observation.
LEMMA SeriesOfState ==
    ASSUME snapshot # None, snapshot.state # None
    PROVE  /\ {"state_readable", "audio_playing"} \subseteq DOMAIN Record!Collected
           /\ Record!Collected.audio_playing = snapshot.state.audio
           /\ Record!Collected.group_leader = snapshot.state.leads
           /\ Record!Collected.group_info = snapshot.state.group
BY DEF Record!Collected, Record!UnicastSeries, Record!PlaybackSeries

LEMMA SeriesOfNoState ==
    ASSUME snapshot = None \/ snapshot.state = None
    PROVE  /\ "audio_playing" \notin DOMAIN Record!Collected
           /\ "state_readable" \in DOMAIN Record!Collected <=>
                 snapshot # None /\ snapshot.reason # None
BY DEF Record!Collected, Record!UnicastSeries, Record!PlaybackSeries

LEMMA UnicastOfAnswer ==
    ASSUME Record!TypeOK, Record!Assumption
    PROVE  (Record!Exported("unicast_resolved") /\ Record!Collected.unicast_resolved) <=>
               (snapshot # None /\ snapshot.answered = TRUE)
<1>1. CASE snapshot = None
  BY <1>1 DEF Record!Exported, Record!Collected
<1>2. CASE snapshot # None /\ snapshot.answered = None
  <2>1. "unicast_resolved" \notin DOMAIN Record!Collected
    BY <1>2 DEF Record!Collected, Record!UnicastSeries, Record!PlaybackSeries
  <2> QED BY <1>2, <2>1 DEF Record!Exported, Record!Assumption
<1>3. CASE snapshot # None /\ snapshot.answered # None
  <2>1. snapshot.answered \in BOOLEAN
    BY <1>3 DEF Record!TypeOK, Record!Observations
  <2>2. /\ "unicast_resolved" \in DOMAIN Record!Collected
        /\ Record!Collected.unicast_resolved = snapshot.answered
    BY <1>3 DEF Record!Collected, Record!UnicastSeries
  <2> QED BY <1>3, <2>1, <2>2 DEF Record!Exported
<1> QED BY <1>1, <1>2, <1>3

\* The playback of a HomePod is never guessed at (airplay/state.py): whatever
\* order the fields and the records of its reply come in, wherever a record is
\* cut and whatever an update changed of its form, the gauges are what it was
\* doing when it answered, or absent.
THEOREM PlaybackIsNeverGuessed == Record!Spec => []PlaybackNeverGuessed
<1>1. ASSUME RecordInv PROVE PlaybackNeverGuessed
  <2>1. ObservationIsShown
    BY <1>1 DEF RecordInv
  <2>2. (Record!Exported("unicast_resolved") /\ Record!Collected.unicast_resolved) <=> shown # None
    <3>1. shown # None <=> (snapshot # None /\ snapshot.answered = TRUE)
      BY <2>1 DEF ObservationIsShown
    <3> QED BY <1>1, <3>1, UnicastOfAnswer, RecordAssumption DEF RecordInv
  <2>3. CASE snapshot # None /\ snapshot.state # None
    <3>1. shown # None /\ shown.form = "seen" /\ snapshot.state = shown.pod
      BY <2>1, <2>3 DEF ObservationIsShown
    <3>2. Record!Exported("state_readable") /\ Record!Exported("audio_playing")
      BY <2>3, SeriesOfState DEF Record!Exported
    <3> QED BY <2>3, <2>2, <3>1, <3>2, SeriesOfState, Zenon DEF PlaybackNeverGuessed, Record!NeverGuessed
  <2>4. CASE snapshot = None \/ snapshot.state = None
    <3>1. /\ ~Record!Exported("audio_playing")
          /\ Record!Exported("state_readable") <=> shown # None
      BY <2>1, <2>4, SeriesOfNoState DEF Record!Exported, ObservationIsShown
    <3>2. ~(shown # None /\ shown.whole /\ shown.form = "seen")
      BY <2>1, <2>4 DEF ObservationIsShown
    <3> QED BY <2>2, <3>1, <3>2, Zenon DEF PlaybackNeverGuessed, Record!NeverGuessed
  <2> QED BY <2>3, <2>4
<1> QED BY <1>1, RecordInvariance, PTL

HIDE NeighbourDumpAssumption

-----------------------------------------------------------------------------
(***************************************************************************)
(* The lines of the page and their elements.                               *)
(***************************************************************************)

LEMMA FiveLines ==
    ASSUME NEW S, NEW a \in S, NEW b \in S, NEW c \in S, NEW d \in S, NEW e \in S
    PROVE  LET q == <<a, b, c, d, e>> IN
           /\ q \in Seq(S) /\ Len(q) = 5
           /\ q[1] = a /\ q[2] = b /\ q[3] = c /\ q[4] = d /\ q[5] = e
  OBVIOUS

JoinsFour(q, z, a, b, c) ==
    /\ Len(q) = 1 + Len(a) + Len(b) + Len(c) /\ q[1] = z
    /\ \A i \in 1 .. Len(a) : q[i + 1] = a[i]
    /\ \A i \in 1 .. Len(b) : q[i + (1 + Len(a))] = b[i]
    /\ \A i \in 1 .. Len(c) : q[i + (1 + Len(a) + Len(b))] = c[i]

LEMMA FourJoined ==
    ASSUME NEW S, NEW z \in S, NEW a \in Seq(S), NEW b \in Seq(S), NEW c \in Seq(S)
    PROVE  /\ <<z>> \o a \o b \o c \in Seq(S)
           /\ JoinsFour(<<z>> \o a \o b \o c, z, a, b, c)
<1> DEFINE x == <<z>> \o a
           y == x \o b
           w == y \o c
<1>1. x \in Seq(S)
  OBVIOUS
<1>2. Len(x) = 1 + Len(a) /\ x[1] = z /\ \A i \in 1 .. Len(a) : x[i + 1] = a[i]
  OBVIOUS
<1> HIDE DEF x
<1>3. y \in Seq(S)
  BY <1>1
<1>4. /\ Len(y) = Len(x) + Len(b) /\ \A i \in 1 .. Len(x) : y[i] = x[i]
      /\ \A i \in 1 .. Len(b) : y[i + Len(x)] = b[i]
  BY <1>1
<1> HIDE DEF y
<1>5. w \in Seq(S)
  BY <1>3
<1>6. /\ Len(w) = Len(y) + Len(c) /\ \A i \in 1 .. Len(y) : w[i] = y[i]
      /\ \A i \in 1 .. Len(c) : w[i + Len(y)] = c[i]
  BY <1>3
<1> HIDE DEF w
<1>7. Len(a) \in Nat /\ Len(b) \in Nat /\ Len(c) \in Nat
  OBVIOUS
<1>8. w[1] = z
  BY <1>2, <1>4, <1>6, <1>7
<1>9. \A i \in 1 .. Len(a) : w[i + 1] = a[i]
  <2> TAKE i \in 1 .. Len(a)
  <2>1. i + 1 \in 1 .. Len(x) /\ i + 1 \in 1 .. Len(y)
    BY <1>2, <1>4, <1>7
  <2> QED
    BY <2>1, <1>2, <1>4, <1>6
<1>10. \A i \in 1 .. Len(b) : w[i + (1 + Len(a))] = b[i]
  BY <1>2, <1>4, <1>6, <1>7
<1>11. \A i \in 1 .. Len(c) : w[i + (1 + Len(a) + Len(b))] = c[i]
  BY <1>2, <1>4, <1>6, <1>7
<1>12. Len(w) = 1 + Len(a) + Len(b) + Len(c)
  BY <1>2, <1>4, <1>6
<1> QED
  BY <1>5, <1>8, <1>9, <1>10, <1>11, <1>12 DEF x, y, w, JoinsFour

IsLines(q, S, n) == q \in Seq(S) /\ Len(q) = n

JoinsLines(q, z, a, b, c) ==
    q[1] = z /\ \A i \in 1 .. 5 : q[i + 1] = a[i] /\ q[i + 6] = b[i] /\ q[i + 11] = c[i]

\* A span line and three tables of five lines are sixteen lines.
LEMMA SixteenLines ==
    ASSUME NEW S, NEW z \in S, NEW a, NEW b, NEW c,
           IsLines(a, S, 5), IsLines(b, S, 5), IsLines(c, S, 5)
    PROVE  /\ IsLines(<<z>> \o a \o b \o c, S, 16)
           /\ JoinsLines(<<z>> \o a \o b \o c, z, a, b, c)
<1>0. a \in Seq(S) /\ b \in Seq(S) /\ c \in Seq(S)
  BY DEF IsLines
<1> DEFINE q == <<z>> \o a \o b \o c
<1>1. q \in Seq(S) /\ JoinsFour(q, z, a, b, c)
  BY <1>0, FourJoined
<1> HIDE DEF q
<1>2. /\ Len(q) = 1 + Len(a) + Len(b) + Len(c) /\ q[1] = z
      /\ \A i \in 1 .. Len(a) : q[i + 1] = a[i]
      /\ \A i \in 1 .. Len(b) : q[i + (1 + Len(a))] = b[i]
      /\ \A i \in 1 .. Len(c) : q[i + (1 + Len(a) + Len(b))] = c[i]
  BY <1>1 DEF JoinsFour
<1>3. Len(a) = 5 /\ Len(b) = 5 /\ Len(c) = 5
  BY DEF IsLines
<1>4. Len(q) = 16
  BY ONLY <1>2, <1>3
<1>5. \A i \in 1 .. 5 : q[i + 1] = a[i] 
  BY ONLY <1>2, <1>3
<1>6. \A i \in 1 .. 5 : q[i + 6] = b[i] 
  BY ONLY <1>2, <1>3
<1>7. \A i \in 1 .. 5 : q[i + 11] = c[i] 
  BY ONLY <1>2, <1>3
<1> QED
  BY <1>1, <1>2, <1>4, <1>5, <1>6, <1>7 DEF q, IsLines, JoinsLines

\* A line of a table: two elements, one for each of some texts, and one more.
LEMMA LineOf ==
    ASSUME NEW S, NEW x \in S, NEW y \in S, NEW z \in S, NEW f \in Seq(S)
    PROVE  LET q == <<x, y>> \o f \o <<z>> IN
           /\ Len(q) = Len(f) + 3 /\ q \in Seq(S)
           /\ q[1] = x /\ q[2] = y /\ q[Len(f) + 3] = z
           /\ \A i \in 1 .. Len(f) : q[i + 2] = f[i]
  OBVIOUS

-----------------------------------------------------------------------------
(***************************************************************************)
(* What the parser holds when so much of the page has been fed.            *)
(***************************************************************************)

\* A table of the page: it has captions, and three rows with labels of their own.
IsTable(d) ==
    /\ d.captions \in Seq(Texts) /\ d.captions # <<>>
    /\ \A r \in 1 .. 3 : d.rows[r].label \in Texts /\ d.rows[r].texts \in Seq(Texts)
    /\ \A q, r \in 1 .. 3 : d.rows[q].label = d.rows[r].label => q = r

Labels(d, k) == {d.rows[r].label : r \in 1 .. k}
RowCalled(d, label) == CHOOSE r \in 1 .. 3 : d.rows[r].label = label

\* The parser's table when j of its lines are done, the caption first.
TableFed(d, j) ==
    [caption |-> IF j = 0 THEN "" ELSE d.captions[1],
     rows |-> [label \in Labels(d, j - 1) |-> d.rows[RowCalled(d, label)].texts]]

\* The first n tables, of the last of them j lines.
TablesFed(page, n, j) ==
    [u \in 1 .. n |-> TableFed(Page!TablesOf(page)[u], IF u < n THEN 4 ELSE j)]

InternetActive == [label \in {"Internet"} |-> "Active"]

\* The parser in a table, while it captures or between two elements.
Is(p, fields, tables, open, pending, capture, text, label, cells) ==
    p = [fields |-> fields, tables |-> tables, open |-> open, pending |-> pending,
         capture |-> capture, buffer |-> text, rowLabel |-> label, rowCells |-> cells]

Holds(p, tables, open, capture, text, label, cells) ==
    Is(p, InternetActive, tables, open, None, capture, text, label, cells)

IsAt(p, tables, open, label, cells) == \E text : Holds(p, tables, open, None, text, label, cells)

\* The parser in the span line.
NoFields == [label \in {} |-> ""]

Heads(p, pending, capture, text) ==
    Is(p, NoFields, <<>>, FALSE, pending, capture, text, None, <<>>)

Heading(p, pending) == \E text : Heads(p, pending, None, text)

\* Before element c of line s of table t: 0 is the caption, 4 the end.
InTable(p, page, t, s, c) ==
    /\ s = 0 /\ c = 1 => IsAt(p, TablesFed(page, t - 1, 4), FALSE, None, <<>>)
    /\ s = 0 /\ c \in {2, 3} => IsAt(p, TablesFed(page, t, 0), TRUE, None, <<>>)
    /\ s = 0 /\ c > 3 => IsAt(p, TablesFed(page, t, 1), TRUE, None, <<>>)
    /\ s \in 1 .. 3 /\ c < 3 => IsAt(p, TablesFed(page, t, s), TRUE, None, <<>>)
    /\ s \in 1 .. 3 /\ c > 2 =>
          LET row == Page!TablesOf(page)[t].rows[s] IN
          IsAt(p, TablesFed(page, t, s), TRUE, row.label, SubSeq(row.texts, 1, c - 3))
    /\ s = 4 => IsAt(p, TablesFed(page, t, 4), TRUE, None, <<>>)

\* Before column c of line l.
At(p, page, l, c) ==
    /\ l = 1 => Heading(p, IF c = 1 THEN None ELSE "Internet")
    /\ \A t \in 1 .. 3, s \in 0 .. 4 : l = 5 * t + s - 3 => InTable(p, page, t, s, c)
    /\ l = 17 => IsAt(p, TablesFed(page, 3, 4), FALSE, None, <<>>)

\* What is left of the page when the connection ends early.
PartOf(p, page) ==
    /\ p.capture \in {None, "label", "value", "caption", "row_label", "cell"}
    /\ \E n \in 0 .. 3, j \in 0 .. 4 : p.tables = TablesFed(page, n, j)

\* Where the reader is, and what the parser holds there.
PagePlaced ==
    /\ gateway \in Pages \cup {None} /\ cut \in BOOLEAN
    /\ gateway = None => /\ line = 1 /\ column = 1 /\ parser = Page!EmptyParser
                         /\ status = None /\ ~cut
    /\ gateway # None => line \in 1 .. 17
    /\ gateway # None /\ line < 17 => /\ column \in DOMAIN Page!Rendered(gateway)[line]
                                      /\ ~cut /\ status = None
    /\ gateway # None /\ line = 17 => column = 1
    /\ gateway # None /\ status = None /\ cut => PartOf(parser, gateway)
    /\ gateway # None /\ status = None /\ ~cut => At(parser, gateway, line, column)
    /\ status # None => parser = Page!EmptyParser

PageInv == PagePlaced /\ Page!WholeOrNothing /\ Page!OwnCountsOnly /\ Page!WholePageParses

-----------------------------------------------------------------------------
LEMMA WordsAreTexts ==
    /\ "span" \in Texts /\ "td" \in Texts /\ "th" \in Texts /\ "acs-th" \in Texts
    /\ "tr" \in Texts /\ "table" \in Texts /\ "label" \in Texts /\ "value" \in Texts
    /\ "caption" \in Texts /\ "row_label" \in Texts /\ "cell" \in Texts
    /\ "Internet" \in Texts /\ "Active" \in Texts /\ "Downstream" \in Texts
    /\ "Upstream" \in Texts /\ "Channel Bonding Value" \in Texts
    /\ "CM Error Codewords" \in Texts /\ "Index" \in Texts /\ "Lock Status" \in Texts
    /\ "Power Level" \in Texts /\ "Unerrored" \in Texts /\ "Correctable" \in Texts
    /\ "Uncorrectable" \in Texts /\ "" \in Texts /\ "1" \in Texts
  BY PageAssumption DEF Page!Assumption, Page!Words

LEMMA NoneIsNoText ==
    /\ \A text \in Texts : text # None
    /\ None # "span" /\ None # "td" /\ None # "th" /\ None # "acs-th" /\ None # "tr"
    /\ None # "table" /\ None # "label" /\ None # "value" /\ None # "caption"
    /\ None # "row_label" /\ None # "cell" /\ None # "Internet" /\ None # "Active"
    /\ None # "Downstream" /\ None # "Upstream" /\ None # "Channel Bonding Value"
    /\ None # "CM Error Codewords" /\ None # "Index" /\ None # "Lock Status"
    /\ None # "Power Level" /\ None # "Unerrored" /\ None # "Correctable"
    /\ None # "Uncorrectable" /\ None # "" /\ None # "1"
  BY WordsAreTexts, PageAssumption DEF Page!Assumption

ElementSet ==
    {Page!Open(tag) : tag \in Texts} \cup {Page!Close(tag) : tag \in Texts}
    \cup {Page!Cell(tag, text, close) : tag \in Texts, text \in Texts, close \in Texts}

LEMMA Opens == \A tag \in Texts : Page!Open(tag) \in ElementSet
  BY DEF ElementSet

LEMMA Closes == \A tag \in Texts : Page!Close(tag) \in ElementSet
  BY DEF ElementSet

LEMMA Cells == \A tag, text, close \in Texts : Page!Cell(tag, text, close) \in ElementSet
  BY DEF ElementSet

LEMMA IsSequence ==
    ASSUME NEW S, NEW n \in Nat, NEW f, DOMAIN f = 1 .. n, \A i \in 1 .. n : f[i] \in S,
           f = [i \in 1 .. n |-> f[i]]
    PROVE  f \in Seq(S) /\ Len(f) = n
  OBVIOUS

LEMMA TwoElements ==
    ASSUME NEW S, NEW x \in S, NEW y \in S
    PROVE  <<x, y>> \in Seq(S) /\ Len(<<x, y>>) = 2 /\ <<x, y>>[1] = x /\ <<x, y>>[2] = y
  OBVIOUS

LEMMA RangeOfThree ==
    ASSUME NEW q, DOMAIN q = 1 .. 3
    PROVE  \A e \in Page!Range(q) : e \in {q[1], q[2], q[3]}
  BY DEF Page!Range

LEMMA LabelsAre ==
    /\ DOMAIN Page!ChannelRows = 1 .. 3 /\ DOMAIN Page!CodewordRows = 1 .. 3
    /\ Page!ChannelRows[1] = "Index" /\ Page!ChannelRows[2] = "Lock Status"
    /\ Page!ChannelRows[3] = "Power Level" /\ Page!CodewordRows[1] = "Unerrored"
    /\ Page!CodewordRows[2] = "Correctable" /\ Page!CodewordRows[3] = "Uncorrectable"
  BY DEF Page!ChannelRows, Page!CodewordRows

LEMMA SpanLineIs ==
    /\ Page!SpanLine \in Seq(ElementSet) /\ Len(Page!SpanLine) = 2
    /\ Page!SpanLine[1] = Page!Cell("label", "Internet", "span")
    /\ Page!SpanLine[2] = Page!Cell("value", "Active", "span")
<1>1. /\ Page!Cell("label", "Internet", "span") \in ElementSet
      /\ Page!Cell("value", "Active", "span") \in ElementSet
  BY WordsAreTexts, Cells
<1> QED
  BY <1>1, TwoElements DEF Page!SpanLine

LEMMA CaptionLineIs ==
    ASSUME NEW captions \in Seq(Texts)
    PROVE  LET q == Page!CaptionLine(captions) IN
           /\ q \in Seq(ElementSet) /\ Len(q) = Len(captions) + 3
           /\ q[1] = Page!Open("table") /\ q[2] = Page!Open("tr")
           /\ q[Len(captions) + 3] = Page!Close("tr")
           /\ \A i \in 1 .. Len(captions) : q[i + 2] = Page!Cell("acs-th", captions[i], "td")
<1> DEFINE f == [i \in DOMAIN captions |-> Page!Cell("acs-th", captions[i], "td")]
<1>0. \A i \in DOMAIN captions : Page!Cell("acs-th", captions[i], "td") \in ElementSet
  <2> TAKE i \in DOMAIN captions
  <2>1. captions[i] \in Texts
    OBVIOUS
  <2> QED
    BY <2>1, WordsAreTexts, Cells
<1>1. f \in Seq(ElementSet) /\ Len(f) = Len(captions)
  BY <1>0
<1>2. \A i \in 1 .. Len(captions) : f[i] = Page!Cell("acs-th", captions[i], "td")
  OBVIOUS
<1>3. /\ Page!Open("table") \in ElementSet /\ Page!Open("tr") \in ElementSet
      /\ Page!Close("tr") \in ElementSet
  BY WordsAreTexts, Opens, Closes, Cells
<1>4. Page!CaptionLine(captions) = <<Page!Open("table"), Page!Open("tr")>> \o f \o <<Page!Close("tr")>>
  BY DEF Page!CaptionLine
<1> HIDE DEF f
<1> QED
  BY <1>1, <1>2, <1>3, <1>4, LineOf

LEMMA RowLineIs ==
    ASSUME NEW row, NEW close \in Texts, row.label \in Texts, row.texts \in Seq(Texts)
    PROVE  LET q == Page!RowLine(row, close) IN
           /\ q \in Seq(ElementSet) /\ Len(q) = Len(row.texts) + 3
           /\ q[1] = Page!Open("tr") /\ q[2] = Page!Cell("th", row.label, close)
           /\ q[Len(row.texts) + 3] = Page!Close("tr")
           /\ \A i \in 1 .. Len(row.texts) : q[i + 2] = Page!Cell("td", row.texts[i], "td")
<1> DEFINE f == [i \in DOMAIN row.texts |-> Page!Cell("td", row.texts[i], "td")]
<1>0. \A i \in DOMAIN row.texts : Page!Cell("td", row.texts[i], "td") \in ElementSet
  <2> TAKE i \in DOMAIN row.texts
  <2>1. row.texts[i] \in Texts
    OBVIOUS
  <2> QED
    BY <2>1, WordsAreTexts, Cells
<1>1. f \in Seq(ElementSet) /\ Len(f) = Len(row.texts)
  BY <1>0
<1>2. \A i \in 1 .. Len(row.texts) : f[i] = Page!Cell("td", row.texts[i], "td")
  OBVIOUS
<1>3. /\ Page!Open("tr") \in ElementSet /\ Page!Cell("th", row.label, close) \in ElementSet
      /\ Page!Close("tr") \in ElementSet
  BY WordsAreTexts, Opens, Closes, Cells
<1>4. Page!RowLine(row, close)
      = <<Page!Open("tr"), Page!Cell("th", row.label, close)>> \o f \o <<Page!Close("tr")>>
  BY DEF Page!RowLine
<1> HIDE DEF f
<1> QED
  BY <1>1, <1>2, <1>3, <1>4, LineOf

LEMMA PageIs ==
    ASSUME NEW page \in Pages
    PROVE  /\ page.close \in {"td", "th"} /\ page.quirk \in BOOLEAN /\ page.upstreamFirst \in BOOLEAN
           /\ page.channels \in Seq(Page!Channel) /\ page.channels # <<>>
           /\ page.fault # None => page.fault \in
                {"Index", "Lock Status", "Power Level", "Unerrored", "Correctable", "Uncorrectable"}
<1>1. \A f : f \in Page!Range(Page!ChannelRows) \cup Page!Range(Page!CodewordRows) =>
         f \in {"Index", "Lock Status", "Power Level", "Unerrored", "Correctable", "Uncorrectable"}
  BY RangeOfThree, LabelsAre
<1> QED
  BY <1>1, PageAssumption DEF Page!Assumption

LEMMA FrontIs ==
    ASSUME NEW S, NEW q \in Seq(S), q # <<>>
    PROVE  Page!Front(q) \in Seq(S) /\ Len(Page!Front(q)) = Len(q) - 1
<1>1. Len(q) \in Nat /\ Len(q) # 0 /\ \A i \in 1 .. Len(q) - 1 : q[i] \in S
  BY EmptySeq
<1> DEFINE n == Len(q) - 1
<1>2. n \in Nat
  BY <1>1
<1>3. SubSeq(q, 1, n) = [i \in 1 .. n |-> q[i]]
  BY <1>2
<1>4. [i \in 1 .. n |-> q[i]] \in Seq(S) /\ Len([i \in 1 .. n |-> q[i]]) = n
  BY <1>1, <1>2
<1> QED
  BY <1>3, <1>4 DEF Page!Front

\* A table as it is rendered: the row at fault lacks a cell.
RendersRows(d, page, labels, texts) ==
    \A r \in 1 .. 3 :
        /\ d.rows[r].label = labels[r]
        /\ page.fault = labels[r] => Len(d.rows[r].texts) = Len(texts[r]) - 1
        /\ page.fault # labels[r] => d.rows[r].texts = texts[r]

LEMMA TableOfIs ==
    ASSUME NEW page, NEW captions \in Seq(Texts), captions # <<>>, NEW labels, NEW texts,
           \A r \in 1 .. 3 : labels[r] \in Texts /\ texts[r] \in Seq(Texts) /\ texts[r] # <<>>,
           \A q, r \in 1 .. 3 : labels[q] = labels[r] => q = r
    PROVE  /\ IsTable(Page!TableOf(page, captions, labels, texts))
           /\ Page!TableOf(page, captions, labels, texts).captions = captions
           /\ RendersRows(Page!TableOf(page, captions, labels, texts), page, labels, texts)
<1> DEFINE d == Page!TableOf(page, captions, labels, texts)
<1>1. \A r \in 1 .. 3 :
         /\ d.rows[r].label = labels[r]
         /\ page.fault = labels[r] => d.rows[r].texts = Page!Front(texts[r])
         /\ page.fault # labels[r] => d.rows[r].texts = texts[r]
  BY DEF Page!TableOf
<1>2. d.captions = captions
  BY DEF Page!TableOf
<1> HIDE DEF d
<1>3. \A r \in 1 .. 3 : Page!Front(texts[r]) \in Seq(Texts)
                        /\ Len(Page!Front(texts[r])) = Len(texts[r]) - 1
  BY FrontIs
<1>4. IsTable(d)
  <2>1. \A r \in 1 .. 3 : d.rows[r].label \in Texts /\ d.rows[r].texts \in Seq(Texts)
    <3>1. SUFFICES ASSUME NEW r \in 1 .. 3
                   PROVE  d.rows[r].label \in Texts /\ d.rows[r].texts \in Seq(Texts)
      OBVIOUS
    <3>4. labels[r] \in Texts /\ texts[r] \in Seq(Texts) /\ d.rows[r].label = labels[r]
      BY <1>1, ZenonT(30)
    <3>2. CASE page.fault = labels[r]
      <4>1. d.rows[r].texts = Page!Front(texts[r])
        BY <1>1, <3>2, ZenonT(30)
      <4> QED
        BY <1>3, <3>4, <4>1, ZenonT(30)
    <3>3. CASE page.fault # labels[r]
      <4>1. d.rows[r].texts = texts[r]
        BY <1>1, <3>3, ZenonT(30)
      <4> QED
        BY <3>4, <4>1, ZenonT(30)
    <3> QED
      BY <3>2, <3>3, Zenon
  <2>2. ASSUME NEW q \in 1 .. 3, NEW r \in 1 .. 3, d.rows[q].label = d.rows[r].label
        PROVE  q = r
    <3>1. d.rows[q].label = labels[q] /\ d.rows[r].label = labels[r]
      BY <1>1, ZenonT(30)
    <3>2. labels[q] = labels[r]
      BY <2>2, <3>1, ZenonT(30)
    <3> QED
      BY <3>2, ZenonT(30)
  <2> QED
    BY <1>2, <2>1, <2>2, Zenon DEF IsTable
<1>5. RendersRows(d, page, labels, texts)
  BY <1>1, <1>3 DEF RendersRows
<1> QED
  BY <1>2, <1>4, <1>5 DEF d

LEMMA LabelsDiffer ==
    /\ \A r \in 1 .. 3 : Page!ChannelRows[r] \in Texts /\ Page!CodewordRows[r] \in Texts
    /\ \A q, r \in 1 .. 3 : Page!ChannelRows[q] = Page!ChannelRows[r] => q = r
    /\ \A q, r \in 1 .. 3 : Page!CodewordRows[q] = Page!CodewordRows[r] => q = r
    /\ \A q, r \in 1 .. 3 : Page!ChannelRows[q] # Page!CodewordRows[r]
<1>1. \A r \in 1 .. 3 : r = 1 \/ r = 2 \/ r = 3
  OBVIOUS
<1> QED
  BY <1>1, LabelsAre, WordsAreTexts

LEMMA OneElement ==
    ASSUME NEW S, NEW x \in S
    PROVE  <<x>> \in Seq(S) /\ <<x>> # <<>> /\ <<x>>[1] = x /\ Len(<<x>>) - 1 = 0
  OBVIOUS

LEMMA OnlyElement == \A x : \A i \in DOMAIN <<x>> : <<x>>[i] = x
  OBVIOUS

\* The texts of the rows, of a page without a fault.
ChannelTexts(page, r) ==
    [i \in DOMAIN page.channels |->
        IF r = 1 THEN page.channels[i].index
        ELSE IF r = 2 THEN page.channels[i].locked ELSE page.channels[i].power]
CodewordTexts(page, r) == [i \in DOMAIN page.channels |-> Page!Shown(page, i)[r]]

LEMMA ChannelIs ==
    ASSUME NEW page \in Pages
    PROVE  /\ Len(page.channels) \in Nat \ {0} /\ DOMAIN page.channels = 1 .. Len(page.channels)
           /\ \A i \in DOMAIN page.channels :
                 /\ page.channels[i].index \in Texts /\ page.channels[i].locked \in Texts
                 /\ page.channels[i].power \in Texts
                 /\ page.channels[i].counts \in [1 .. 3 -> Texts]
<1>1. page.channels \in Seq(Page!Channel) /\ page.channels # <<>>
  BY PageIs
<1>2. \A i \in DOMAIN page.channels : page.channels[i] \in Page!Channel
  BY <1>1
<1> QED
  BY <1>1, <1>2, EmptySeq DEF Page!Channel

LEMMA ShownIs ==
    ASSUME NEW page \in Pages, NEW i \in DOMAIN page.channels
    PROVE  /\ Page!Shown(page, i) \in [1 .. 3 -> Texts]
           /\ page.quirk /\ i = 1 => Page!Shown(page, i) = page.channels[Len(page.channels)].counts
           /\ ~(page.quirk /\ i = 1) => Page!Shown(page, i) = page.channels[i].counts
  BY ChannelIs DEF Page!Shown

LEMMA ChannelTextsAre ==
    ASSUME NEW page \in Pages, NEW r \in 1 .. 3
    PROVE  /\ ChannelTexts(page, r) \in Seq(Texts)
           /\ Len(ChannelTexts(page, r)) = Len(page.channels) /\ ChannelTexts(page, r) # <<>>
<1>1. \A i \in 1 .. Len(page.channels) : ChannelTexts(page, r)[i] \in Texts
  BY ChannelIs DEF ChannelTexts
<1>2. /\ DOMAIN ChannelTexts(page, r) = 1 .. Len(page.channels)
      /\ ChannelTexts(page, r) = [i \in 1 .. Len(page.channels) |-> ChannelTexts(page, r)[i]]
  BY ChannelIs DEF ChannelTexts
<1>3. Len(page.channels) \in Nat \ {0}
  BY ChannelIs
<1>4. ChannelTexts(page, r) \in Seq(Texts) /\ Len(ChannelTexts(page, r)) = Len(page.channels)
  BY <1>1, <1>2, <1>3, IsSequence
<1> QED
  BY <1>3, <1>4

LEMMA CodewordTextsAre ==
    ASSUME NEW page \in Pages, NEW r \in 1 .. 3
    PROVE  /\ CodewordTexts(page, r) \in Seq(Texts)
           /\ Len(CodewordTexts(page, r)) = Len(page.channels) /\ CodewordTexts(page, r) # <<>>
<1>1. \A i \in 1 .. Len(page.channels) : CodewordTexts(page, r)[i] \in Texts
  BY ChannelIs, ShownIs DEF CodewordTexts
<1>2. /\ DOMAIN CodewordTexts(page, r) = 1 .. Len(page.channels)
      /\ CodewordTexts(page, r) = [i \in 1 .. Len(page.channels) |-> CodewordTexts(page, r)[i]]
  BY ChannelIs DEF CodewordTexts
<1>3. Len(page.channels) \in Nat \ {0}
  BY ChannelIs
<1>4. CodewordTexts(page, r) \in Seq(Texts) /\ Len(CodewordTexts(page, r)) = Len(page.channels)
  BY <1>1, <1>2, <1>3, IsSequence
<1> QED
  BY <1>3, <1>4

LEMMA DownstreamIs ==
    ASSUME NEW page \in Pages
    PROVE  LET d == Page!DownstreamOf(page) IN
           /\ IsTable(d) /\ d.captions[1] = "Downstream"
           /\ \A r \in 1 .. 3 :
                 /\ d.rows[r].label = Page!ChannelRows[r]
                 /\ page.fault = Page!ChannelRows[r] => Len(d.rows[r].texts) = Len(page.channels) - 1
                 /\ page.fault # Page!ChannelRows[r] => d.rows[r].texts = ChannelTexts(page, r)
<1> DEFINE texts == << [i \in DOMAIN page.channels |-> page.channels[i].index],
                       [i \in DOMAIN page.channels |-> page.channels[i].locked],
                       [i \in DOMAIN page.channels |-> page.channels[i].power] >>
           captions == <<"Downstream", "Channel Bonding Value">>
           d == Page!DownstreamOf(page)
<1>1. \A r \in 1 .. 3 : texts[r] = ChannelTexts(page, r)
  BY DEF ChannelTexts
<1>2. captions \in Seq(Texts) /\ captions # <<>> /\ captions[1] = "Downstream"
  BY WordsAreTexts, TwoElements
<1>3. d = Page!TableOf(page, captions, Page!ChannelRows, texts)
  BY DEF Page!DownstreamOf
<1> HIDE DEF texts, captions, d
<1>4. \A r \in 1 .. 3 : texts[r] \in Seq(Texts) /\ texts[r] # <<>>
  BY <1>1, ChannelTextsAre
<1>5. /\ IsTable(d) /\ d.captions = captions
      /\ RendersRows(d, page, Page!ChannelRows, texts)
  BY <1>2, <1>3, <1>4, LabelsDiffer, TableOfIs
<1>6. \A r \in 1 .. 3 :
         /\ d.rows[r].label = Page!ChannelRows[r]
         /\ page.fault = Page!ChannelRows[r] => Len(d.rows[r].texts) = Len(texts[r]) - 1
         /\ page.fault # Page!ChannelRows[r] => d.rows[r].texts = texts[r]
  BY <1>5 DEF RendersRows
<1> QED
  BY <1>1, <1>2, <1>5, <1>6, ChannelTextsAre DEF d

LEMMA UpstreamIs ==
    ASSUME NEW page \in Pages
    PROVE  LET d == Page!UpstreamOf(page) IN
           /\ IsTable(d) /\ d.captions[1] = "Upstream"
           /\ \A r \in 1 .. 3 : d.rows[r].label = Page!ChannelRows[r]
           /\ \A i \in DOMAIN d.rows[2].texts : d.rows[2].texts[i] = ""
<1> DEFINE texts == << <<"1">>, <<"">>, <<"">> >>
           captions == <<"Upstream", "Channel Bonding Value">>
           d == Page!UpstreamOf(page)
<1>1. texts[1] = <<"1">> /\ texts[2] = <<"">> /\ texts[3] = <<"">>
  OBVIOUS
<1>2. captions \in Seq(Texts) /\ captions # <<>> /\ captions[1] = "Upstream"
  BY WordsAreTexts, TwoElements
<1>3. d = Page!TableOf(page, captions, Page!ChannelRows, texts)
  BY DEF Page!UpstreamOf
<1> HIDE DEF texts, captions, d
<1>4. \A r \in 1 .. 3 : texts[r] \in Seq(Texts) /\ texts[r] # <<>> /\ Len(texts[r]) - 1 = 0
  <2>1. /\ texts[1] \in Seq(Texts) /\ texts[1] # <<>> /\ Len(texts[1]) - 1 = 0
        /\ texts[2] \in Seq(Texts) /\ texts[2] # <<>> /\ Len(texts[2]) - 1 = 0
        /\ texts[3] \in Seq(Texts) /\ texts[3] # <<>> /\ Len(texts[3]) - 1 = 0
    BY <1>1, WordsAreTexts, OneElement
  <2>2. \A r \in 1 .. 3 : r = 1 \/ r = 2 \/ r = 3
    OBVIOUS
  <2> QED
    BY <2>1, <2>2, Zenon
<1>5. \A i \in DOMAIN texts[2] : texts[2][i] = ""
  BY <1>1, OnlyElement, Zenon
<1>6. /\ IsTable(d) /\ d.captions = captions
      /\ RendersRows(d, page, Page!ChannelRows, texts)
  BY <1>2, <1>3, <1>4, LabelsDiffer, TableOfIs
<1> DEFINE q == d.rows[2].texts
<1>7. /\ \A r \in 1 .. 3 : d.rows[r].label = Page!ChannelRows[r]
      /\ q \in Seq(Texts) /\ (Len(q) = Len(texts[2]) - 1 \/ q = texts[2])
  BY <1>6 DEF RendersRows, IsTable
<1> HIDE DEF q
<1>8. \A i \in DOMAIN q : q[i] = ""
  <2>1. CASE Len(q) = Len(texts[2]) - 1
    <3>1. \A i \in 1 .. Len(q) : FALSE
      <4>1. Len(texts[2]) - 1 = 0
        BY <1>4
      <4> QED
        BY ONLY <2>1, <4>1
    <3>2. DOMAIN q = 1 .. Len(q)
      BY <1>7, LenProperties
    <3> QED
      BY <3>1, <3>2, Zenon
  <2>2. CASE q = texts[2]
    BY <2>2, <1>5, Zenon
  <2> QED
    BY <1>7, <2>1, <2>2
<1> QED
  BY <1>2, <1>6, <1>7, <1>8 DEF d, q

LEMMA CodewordsIs ==
    ASSUME NEW page \in Pages
    PROVE  LET d == Page!CodewordsOf(page) IN
           /\ IsTable(d) /\ d.captions[1] = "CM Error Codewords"
           /\ \A r \in 1 .. 3 :
                 /\ d.rows[r].label = Page!CodewordRows[r]
                 /\ page.fault = Page!CodewordRows[r] => Len(d.rows[r].texts) = Len(page.channels) - 1
                 /\ page.fault # Page!CodewordRows[r] => d.rows[r].texts = CodewordTexts(page, r)
<1> DEFINE texts == [r \in 1 .. 3 |-> [i \in DOMAIN page.channels |-> Page!Shown(page, i)[r]]]
           captions == <<"CM Error Codewords">>
           d == Page!CodewordsOf(page)
<1>1. \A r \in 1 .. 3 : texts[r] = CodewordTexts(page, r)
  BY DEF CodewordTexts
<1>2. captions \in Seq(Texts) /\ captions # <<>> /\ captions[1] = "CM Error Codewords"
  BY WordsAreTexts, OneElement
<1>3. d = Page!TableOf(page, captions, Page!CodewordRows, texts)
  BY DEF Page!CodewordsOf
<1> HIDE DEF texts, captions, d
<1>4. \A r \in 1 .. 3 : /\ Page!CodewordRows[r] \in Texts
                        /\ texts[r] \in Seq(Texts) /\ texts[r] # <<>>
  BY <1>1, CodewordTextsAre, LabelsDiffer
<1>5. /\ IsTable(d) /\ d.captions = captions
      /\ RendersRows(d, page, Page!CodewordRows, texts)
  <2>1. \A q, r \in 1 .. 3 : Page!CodewordRows[q] = Page!CodewordRows[r] => q = r
    BY LabelsDiffer
  <2>2. captions \in Seq(Texts) /\ captions # <<>>
    BY <1>2
  <2> DEFINE e == Page!TableOf(page, captions, Page!CodewordRows, texts)
  <2>3. \A r \in 1 .. 3 : Page!CodewordRows[r] \in Texts /\ texts[r] \in Seq(Texts) /\ texts[r] # <<>>
    BY <1>4
  <2>4. IsTable(e) /\ e.captions = captions
    BY <2>1, <2>2, <2>3, TableOfIs
  <2>5. RendersRows(e, page, Page!CodewordRows, texts)
    BY <2>1, <2>2, <2>3, TableOfIs
  <2> QED
    BY <2>4, <2>5, <1>3
<1>6. \A r \in 1 .. 3 :
         /\ d.rows[r].label = Page!CodewordRows[r]
         /\ page.fault = Page!CodewordRows[r] => Len(d.rows[r].texts) = Len(texts[r]) - 1
         /\ page.fault # Page!CodewordRows[r] => d.rows[r].texts = texts[r]
  BY <1>5 DEF RendersRows
<1> QED
  BY <1>1, <1>2, <1>5, <1>6, CodewordTextsAre DEF d

\* Where the downstream table is.
DownstreamAt(page) == IF page.upstreamFirst THEN 2 ELSE 1

LEMMA TablesAre ==
    ASSUME NEW page \in Pages
    PROVE  LET ds == Page!TablesOf(page) IN
           /\ \A t \in 1 .. 3 : IsTable(ds[t])
           /\ DownstreamAt(page) \in 1 .. 2
           /\ ds[DownstreamAt(page)] = Page!DownstreamOf(page)
           /\ ds[3 - DownstreamAt(page)] = Page!UpstreamOf(page)
           /\ ds[3] = Page!CodewordsOf(page)
<1> DEFINE ds == Page!TablesOf(page)
           d == Page!DownstreamOf(page)
           u == Page!UpstreamOf(page)
           w == Page!CodewordsOf(page)
<1>1. IsTable(d) /\ IsTable(u) /\ IsTable(w)
  BY DownstreamIs, UpstreamIs, CodewordsIs
<1>2. CASE page.upstreamFirst
  <2>1. ds = <<u, d, w>>
    BY <1>2 DEF Page!TablesOf
  <2> HIDE DEF ds, d, u, w
  <2>2. ds[1] = u /\ ds[2] = d /\ ds[3] = w
    BY <2>1
  <2>3. \A t \in 1 .. 3 : IsTable(ds[t])
    BY <2>2, <1>1
  <2> QED
    BY <2>2, <2>3, <1>2 DEF DownstreamAt, ds, d, u, w
<1>3. CASE ~page.upstreamFirst
  <2>1. ds = <<d, u, w>>
    BY <1>3 DEF Page!TablesOf
  <2> HIDE DEF ds, d, u, w
  <2>2. ds[1] = d /\ ds[2] = u /\ ds[3] = w
    BY <2>1
  <2>3. \A t \in 1 .. 3 : IsTable(ds[t])
    BY <2>2, <1>1
  <2> QED
    BY <2>2, <2>3, <1>3 DEF DownstreamAt, ds, d, u, w
<1> QED
  BY <1>2, <1>3

LEMMA TableLinesAre ==
    ASSUME NEW d, IsTable(d), NEW close \in Texts
    PROVE  LET q == Page!TableLines(d, close) IN
           /\ IsLines(q, Seq(ElementSet), 5)
           /\ q[1] = Page!CaptionLine(d.captions)
           /\ \A r \in 1 .. 3 : q[r + 1] = Page!RowLine(d.rows[r], close)
           /\ q[5] = <<Page!Close("table")>>
<1> DEFINE e == Page!CaptionLine(d.captions)
           f == Page!RowLine(d.rows[1], close)
           g == Page!RowLine(d.rows[2], close)
           h == Page!RowLine(d.rows[3], close)
           z == <<Page!Close("table")>>
           q == Page!TableLines(d, close)
<1>1. e \in Seq(ElementSet)
  BY CaptionLineIs DEF IsTable
<1>2. f \in Seq(ElementSet) /\ g \in Seq(ElementSet) /\ h \in Seq(ElementSet)
  BY RowLineIs DEF IsTable
<1>3. z \in Seq(ElementSet)
  BY WordsAreTexts, Closes, OneElement
<1>4. q = <<e, f, g, h, z>>
  BY DEF Page!TableLines
<1> HIDE DEF e, f, g, h, z, q
<1>5. IsLines(q, Seq(ElementSet), 5)
  BY <1>1, <1>2, <1>3, <1>4, FiveLines DEF IsLines
<1>6. q[1] = e /\ q[2] = f /\ q[3] = g /\ q[4] = h /\ q[5] = z
  BY <1>4
<1>7. \A r \in 1 .. 3 : q[r + 1] = Page!RowLine(d.rows[r], close)
  BY <1>6 DEF f, g, h
<1> QED
  BY <1>5, <1>6, <1>7 DEF q, e, z

LEMMA RenderedIs ==
    ASSUME NEW page \in Pages
    PROVE  /\ IsLines(Page!Rendered(page), Seq(ElementSet), 16)
           /\ Page!Rendered(page)[1] = Page!SpanLine
           /\ \A t \in 1 .. 3, s \in 0 .. 4 :
                 Page!Rendered(page)[5 * t + s - 3]
                 = Page!TableLines(Page!TablesOf(page)[t], page.close)[s + 1]
<1> DEFINE a == Page!TableLines(Page!TablesOf(page)[1], page.close)
           b == Page!TableLines(Page!TablesOf(page)[2], page.close)
           c == Page!TableLines(Page!TablesOf(page)[3], page.close)
           z == Page!SpanLine
           q == Page!Rendered(page)
<1>1. page.close \in Texts
  BY PageIs, WordsAreTexts
<1>2. /\ IsLines(a, Seq(ElementSet), 5) /\ IsLines(b, Seq(ElementSet), 5)
      /\ IsLines(c, Seq(ElementSet), 5)
  BY <1>1, TablesAre, TableLinesAre
<1>3. z \in Seq(ElementSet)
  BY SpanLineIs
<1>4. q = <<z>> \o a \o b \o c
  BY DEF Page!Rendered
<1> HIDE DEF a, b, c, z, q
<1>5. IsLines(q, Seq(ElementSet), 16) /\ JoinsLines(q, z, a, b, c)
  BY <1>2, <1>3, <1>4, SixteenLines
<1>6. /\ q[1] = z
      /\ \A i \in 1 .. 5 : q[i + 1] = a[i] /\ q[i + 6] = b[i] /\ q[i + 11] = c[i]
  BY <1>5 DEF JoinsLines
<1>7. \A t \in 1 .. 3, s \in 0 .. 4 :
         q[5 * t + s - 3] = Page!TableLines(Page!TablesOf(page)[t], page.close)[s + 1]
  <2> TAKE t \in 1 .. 3, s \in 0 .. 4
  <2>1. s + 1 \in 1 .. 5
    OBVIOUS
  <2>2. CASE t = 1
    BY <2>1, <2>2, <1>6 DEF a
  <2>3. CASE t = 2
    BY <2>1, <2>3, <1>6 DEF b
  <2>4. CASE t = 3
    BY <2>1, <2>4, <1>6 DEF c
  <2> QED
    BY <2>2, <2>3, <2>4
<1> QED
  BY <1>5, <1>6, <1>7 DEF q, z

\* The elements of a line of a table.
CaptionElements(q, d) ==
    /\ q \in Seq(ElementSet) /\ Len(q) = Len(d.captions) + 3
    /\ q[1] = Page!Open("table") /\ q[2] = Page!Open("tr")
    /\ q[Len(d.captions) + 3] = Page!Close("tr")
    /\ \A i \in 1 .. Len(d.captions) : q[i + 2] = Page!Cell("acs-th", d.captions[i], "td")

RowElements(q, row, close) ==
    /\ q \in Seq(ElementSet) /\ Len(q) = Len(row.texts) + 3
    /\ q[1] = Page!Open("tr") /\ q[2] = Page!Cell("th", row.label, close)
    /\ q[Len(row.texts) + 3] = Page!Close("tr")
    /\ \A i \in 1 .. Len(row.texts) : q[i + 2] = Page!Cell("td", row.texts[i], "td")

EndElements(q) == q \in Seq(ElementSet) /\ Len(q) = 1 /\ q[1] = Page!Close("table")

LEMMA TableElements ==
    ASSUME NEW page \in Pages, NEW t \in 1 .. 3
    PROVE  LET d == Page!TablesOf(page)[t] IN
           /\ CaptionElements(Page!Rendered(page)[5 * t - 3], d)
           /\ \A s \in 1 .. 3 :
                 RowElements(Page!Rendered(page)[5 * t + s - 3], d.rows[s], page.close)
           /\ EndElements(Page!Rendered(page)[5 * t + 1])
<1> DEFINE d == Page!TablesOf(page)[t]
           q == Page!TableLines(d, page.close)
           Line(s) == Page!Rendered(page)[5 * t + s - 3]
<1>1. IsTable(d) /\ page.close \in Texts
  BY TablesAre, PageIs, WordsAreTexts
<1>2. \A s \in 0 .. 4 : Line(s) = q[s + 1]
  BY RenderedIs
<1>3. /\ q[1] = Page!CaptionLine(d.captions) /\ q[5] = <<Page!Close("table")>>
      /\ \A r \in 1 .. 3 : q[r + 1] = Page!RowLine(d.rows[r], page.close)
  BY <1>1, TableLinesAre
<1> HIDE DEF d, q, Line
<1>4. CaptionElements(Line(0), d)
  <2>1. CaptionElements(Page!CaptionLine(d.captions), d)
    BY <1>1, CaptionLineIs DEF IsTable, CaptionElements
  <2> QED
    BY <2>1, <1>2, <1>3
<1>5. \A s \in 1 .. 3 : RowElements(Line(s), d.rows[s], page.close)
  <2> TAKE s \in 1 .. 3
  <2>1. RowElements(Page!RowLine(d.rows[s], page.close), d.rows[s], page.close)
    BY <1>1, RowLineIs DEF IsTable, RowElements
  <2> QED
    BY <2>1, <1>2, <1>3
<1>6. EndElements(Line(4))
  <2>1. EndElements(<<Page!Close("table")>>)
    <3> DEFINE e == Page!Close("table")
               z == <<e>>
    <3>1. e \in ElementSet
      BY WordsAreTexts, Closes
    <3> HIDE DEF e
    <3>2. z \in Seq(ElementSet)
      BY <3>1
    <3>3. Len(z) = 1 /\ z[1] = e
      OBVIOUS
    <3> HIDE DEF z
    <3>4. z \in Seq(ElementSet) /\ Len(z) = 1 /\ z[1] = Page!Close("table")
      BY <3>2, <3>3 DEF e
    <3>5. EndElements(z)
      BY <3>4 DEF EndElements
    <3> QED
      BY <3>5 DEF z, e
  <2> QED
    BY <2>1, <1>2, <1>3
<1>7. /\ Line(0) = Page!Rendered(page)[5 * t - 3] /\ Line(4) = Page!Rendered(page)[5 * t + 1]
  BY DEF Line
<1> QED
  BY <1>4, <1>5, <1>6, <1>7 DEF d, Line

-----------------------------------------------------------------------------
(***************************************************************************)
(* What the parser does with an element.                                   *)
(***************************************************************************)

LEMMA NoCapture ==
    /\ None # "label" /\ None # "value" /\ None # "caption" /\ None # "row_label" /\ None # "cell"
  BY NoneIsNoText

LEMMA IsThis ==
    ASSUME NEW p, NEW fields, NEW ts, NEW open, NEW pending, NEW kind, NEW text, NEW label, NEW cells,
           Is(p, fields, ts, open, pending, kind, text, label, cells)
    PROVE  /\ p.fields = fields /\ p.tables = ts /\ p.open = open /\ p.pending = pending
           /\ p.capture = kind /\ p.buffer = text /\ p.rowLabel = label /\ p.rowCells = cells
  BY DEF Is

LEMMA IsWith ==
    ASSUME NEW p, NEW fields, NEW ts, NEW open, NEW pending, NEW kind, NEW text, NEW label, NEW cells,
           NEW x, Is(p, fields, ts, open, pending, kind, text, label, cells)
    PROVE  /\ Is([p EXCEPT !.fields = x], x, ts, open, pending, kind, text, label, cells)
           /\ Is([p EXCEPT !.tables = x], fields, x, open, pending, kind, text, label, cells)
           /\ Is([p EXCEPT !.open = x], fields, ts, x, pending, kind, text, label, cells)
           /\ Is([p EXCEPT !.pending = x], fields, ts, open, x, kind, text, label, cells)
           /\ Is([p EXCEPT !.capture = x], fields, ts, open, pending, x, text, label, cells)
           /\ Is([p EXCEPT !.buffer = x], fields, ts, open, pending, kind, x, label, cells)
           /\ Is([p EXCEPT !.rowLabel = x], fields, ts, open, pending, kind, text, x, cells)
           /\ Is([p EXCEPT !.rowCells = x], fields, ts, open, pending, kind, text, label, x)
  BY DEF Is

LEMMA HoldsThis ==
    ASSUME NEW p, NEW ts, NEW open, NEW kind, NEW text, NEW label, NEW cells,
           Holds(p, ts, open, kind, text, label, cells)
    PROVE  /\ p.tables = ts /\ p.open = open /\ p.capture = kind /\ p.buffer = text
           /\ p.rowLabel = label /\ p.rowCells = cells /\ p.pending = None
           /\ p.fields = InternetActive
  BY IsThis DEF Holds

LEMMA HoldsWith ==
    ASSUME NEW p, NEW ts, NEW open, NEW kind, NEW text, NEW label, NEW cells, NEW x,
           Holds(p, ts, open, kind, text, label, cells)
    PROVE  /\ Holds([p EXCEPT !.capture = x], ts, open, x, text, label, cells)
           /\ Holds([p EXCEPT !.buffer = x], ts, open, kind, x, label, cells)
           /\ Holds([p EXCEPT !.tables = x], x, open, kind, text, label, cells)
           /\ Holds([p EXCEPT !.open = x], ts, x, kind, text, label, cells)
           /\ Holds([p EXCEPT !.rowLabel = x], ts, open, kind, text, x, cells)
           /\ Holds([p EXCEPT !.rowCells = x], ts, open, kind, text, label, x)
  BY IsWith DEF Holds

LEMMA FinishNothing ==
    ASSUME NEW p, NEW ts, NEW open, NEW text, NEW label, NEW cells,
           Holds(p, ts, open, None, text, label, cells)
    PROVE  Holds(Page!FinishCapture(p), ts, open, None, text, label, cells)
<1>1. p.capture = None
  BY HoldsThis
<1>2. PICK q : q = [p EXCEPT !.capture = None]
  OBVIOUS
<1>3. Page!FinishCapture(p) = q
  BY <1>1, <1>2, NoCapture DEF Page!FinishCapture
<1>4. Holds(q, ts, open, None, text, label, cells)
  BY <1>2, HoldsWith
<1> QED
  BY <1>3, <1>4

LEMMA StartHolds ==
    ASSUME NEW p, NEW ts, NEW open, NEW text, NEW label, NEW cells, NEW kind,
           Holds(p, ts, open, None, text, label, cells)
    PROVE  Holds(Page!StartCapture(p, kind), ts, open, kind, "", label, cells)
<1>1. PICK q : q = Page!FinishCapture(p)
  OBVIOUS
<1>2. Holds(q, ts, open, None, text, label, cells)
  BY <1>1, FinishNothing
<1>3. Holds([q EXCEPT !.capture = kind, !.buffer = ""], ts, open, kind, "", label, cells)
  BY <1>2, HoldsWith
<1> QED
  BY <1>1, <1>3 DEF Page!StartCapture

LEMMA FinishCell ==
    ASSUME NEW p, NEW ts, NEW open, NEW text, NEW label, NEW cells,
           Holds(p, ts, open, "cell", text, label, cells)
    PROVE  Holds(Page!FinishCapture(p), ts, open, None, text, label, Append(cells, text))
<1>1. p.capture = "cell" /\ p.buffer = text /\ p.rowCells = cells
  BY HoldsThis
<1>2. PICK q : q = [p EXCEPT !.capture = None]
  OBVIOUS
<1>3. Holds(q, ts, open, None, text, label, cells)
  BY <1>2, HoldsWith
<1>31. q.rowCells = cells
  BY <1>3, HoldsThis
<1>4. Page!FinishCapture(p) = [q EXCEPT !.rowCells = Append(cells, text)]
  BY <1>1, <1>2, <1>31 DEF Page!FinishCapture
<1>5. Holds([q EXCEPT !.rowCells = Append(cells, text)], ts, open, None, text, label, Append(cells, text))
  BY <1>3, HoldsWith
<1> QED
  BY <1>4, <1>5

LEMMA FinishLabel ==
    ASSUME NEW p, NEW ts, NEW open, NEW text, NEW label, NEW cells,
           Holds(p, ts, open, "row_label", text, label, cells)
    PROVE  Holds(Page!FinishCapture(p), ts, open, None, text, text, <<>>)
<1>1. p.capture = "row_label" /\ p.buffer = text
  BY HoldsThis
<1>2. PICK q : q = [p EXCEPT !.capture = None]
  OBVIOUS
<1>3. Holds(q, ts, open, None, text, label, cells)
  BY <1>2, HoldsWith
<1>4. Page!FinishCapture(p) = [q EXCEPT !.rowLabel = text, !.rowCells = <<>>]
  BY <1>1, <1>2 DEF Page!FinishCapture
<1>5. Holds([q EXCEPT !.rowLabel = text, !.rowCells = <<>>], ts, open, None, text, text, <<>>)
  BY <1>3, HoldsWith
<1> QED
  BY <1>4, <1>5

\* The last table, changed.
Ending(ts, held) == [ts EXCEPT ![Len(ts)] = held]

LEMMA FinishCaption ==
    ASSUME NEW p, NEW ts, NEW text, NEW label, NEW cells,
           Holds(p, ts, TRUE, "caption", text, label, cells)
    PROVE  IF ts[Len(ts)].caption = ""
           THEN Holds(Page!FinishCapture(p), Ending(ts, [ts[Len(ts)] EXCEPT !.caption = text]),
                      TRUE, None, text, label, cells)
           ELSE Holds(Page!FinishCapture(p), ts, TRUE, None, text, label, cells)
<1>1. p.capture = "caption" /\ p.open /\ p.tables = ts /\ p.buffer = text
  BY HoldsThis
<1>2. Page!OpenTable(p) = ts[Len(ts)]
  BY <1>1 DEF Page!OpenTable
<1>3. PICK done : done = [p EXCEPT !.capture = None]
  OBVIOUS
<1>4. Holds(done, ts, TRUE, None, text, label, cells)
  BY <1>3, HoldsWith
<1>5. CASE ts[Len(ts)].caption = ""
  <2>1. PICK held : held = [ts[Len(ts)] EXCEPT !.caption = text]
    OBVIOUS
  <2>2. Page!FinishCapture(p) = Page!InOpenTable(done, held)
    BY <1>1, <1>2, <1>3, <1>5, <2>1 DEF Page!FinishCapture
  <2>3. Page!InOpenTable(done, held) = [done EXCEPT !.tables = Ending(ts, held)]
    <3>1. done.tables = ts
      BY <1>4, HoldsThis
    <3> QED
      BY <3>1 DEF Page!InOpenTable, Ending
  <2>4. Holds([done EXCEPT !.tables = Ending(ts, held)], Ending(ts, held), TRUE, None, text, label, cells)
    BY <1>4, HoldsWith
  <2> QED
    BY <1>5, <2>1, <2>2, <2>3, <2>4
<1>6. CASE ts[Len(ts)].caption # ""
  <2>1. Page!FinishCapture(p) = done
    BY <1>1, <1>2, <1>3, <1>6 DEF Page!FinishCapture
  <2> QED
    BY <1>4, <1>6, <2>1
<1> QED
  BY <1>5, <1>6

LEMMA DataHolds ==
    ASSUME NEW p, NEW ts, NEW open, NEW label, NEW cells, NEW kind, NEW held, NEW text, kind # None,
           Holds(p, ts, open, kind, held, label, cells)
    PROVE  Holds(Page!HandleData(p, text), ts, open, kind, text, label, cells)
<1>1. p.capture = kind
  BY HoldsThis
<1>2. PICK q : q = [p EXCEPT !.buffer = text]
  OBVIOUS
<1>3. Holds(q, ts, open, kind, text, label, cells)
  BY <1>2, HoldsWith
<1> QED
  BY <1>1, <1>2, <1>3 DEF Page!HandleData

LEMMA FinishesRow ==
    ASSUME NEW p, NEW ts, NEW open, NEW text, NEW label, NEW cells,
           Holds(p, ts, open, None, text, label, cells)
    PROVE  /\ label = None => Holds(Page!FinishRow(p), ts, open, None, text, None, <<>>)
           /\ label # None /\ open = TRUE =>
                 Holds(Page!FinishRow(p),
                       Ending(ts, [ts[Len(ts)] EXCEPT !.rows = Page!With(@, label, cells)]),
                       TRUE, None, text, None, <<>>)
<1>1. p.rowLabel = label /\ p.rowCells = cells /\ p.open = open /\ p.tables = ts
  BY HoldsThis
<1>2. ASSUME label = None
      PROVE  Holds(Page!FinishRow(p), ts, open, None, text, None, <<>>)
  <2>1. Holds([p EXCEPT !.rowLabel = None, !.rowCells = <<>>], ts, open, None, text, None, <<>>)
    BY HoldsWith
  <2>2. Page!FinishRow(p) = [p EXCEPT !.rowLabel = None, !.rowCells = <<>>]
    BY <1>1, <1>2 DEF Page!FinishRow
  <2> QED
    BY <2>1, <2>2
<1>3. ASSUME label # None, open = TRUE, NEW held,
             held = [ts[Len(ts)] EXCEPT !.rows = Page!With(@, label, cells)]
      PROVE  Holds(Page!FinishRow(p), Ending(ts, held), TRUE, None, text, None, <<>>)
  <2>1. PICK kept : kept = [p EXCEPT !.tables = Ending(ts, held)]
    OBVIOUS
  <2>2. Holds(kept, Ending(ts, held), TRUE, None, text, label, cells)
    BY <2>1, <1>3, HoldsWith
  <2>3. Holds([kept EXCEPT !.rowLabel = None, !.rowCells = <<>>], Ending(ts, held),
              TRUE, None, text, None, <<>>)
    BY <2>2, HoldsWith
  <2>4. Page!InOpenTable(p, held) = kept
    BY <2>1, <1>1 DEF Page!InOpenTable, Ending
  <2>5. Page!OpenTable(p) = ts[Len(ts)]
    BY <1>1 DEF Page!OpenTable
  <2>6. [Page!OpenTable(p) EXCEPT !.rows = Page!With(@, p.rowLabel, p.rowCells)] = held
    BY <2>5, <1>1, <1>3
  <2>7. Page!FinishRow(p)
        = [Page!InOpenTable(p, [Page!OpenTable(p) EXCEPT !.rows = Page!With(@, p.rowLabel, p.rowCells)])
           EXCEPT !.rowLabel = None, !.rowCells = <<>>]
    BY <1>1, <1>3 DEF Page!FinishRow
  <2> QED
    BY <2>3, <2>4, <2>6, <2>7
<1> QED
  BY <1>2, <1>3

LEMMA OpeningFed ==
    ASSUME NEW p, NEW tag, tag # None
    PROVE  Page!Fed(p, Page!Open(tag)) = Page!HandleStartTag(p, tag)
<1>1. PICK e : e = Page!Open(tag)
  OBVIOUS
<1>2. e.open = tag /\ e.text = "" /\ e.close = None
  BY <1>1 DEF Page!Open
<1>3. Page!Fed(p, e) = Page!HandleStartTag(p, tag)
  BY <1>2 DEF Page!Fed
<1> QED
  BY <1>1, <1>3

LEMMA ClosingFed ==
    ASSUME NEW p, NEW tag, tag # None
    PROVE  Page!Fed(p, Page!Close(tag)) = Page!HandleEndTag(p, tag)
<1>1. PICK e : e = Page!Close(tag)
  OBVIOUS
<1>2. e.open = None /\ e.text = "" /\ e.close = tag
  BY <1>1 DEF Page!Close
<1>3. Page!Fed(p, e) = Page!HandleEndTag(p, tag)
  BY <1>2 DEF Page!Fed
<1> QED
  BY <1>1, <1>3

\* A cell whose start tag begins a capture hands its text to the end tag.
Hands(p, tag, text, close, ts, open, kind, label, cells) ==
    \E q : /\ Holds(q, ts, open, kind, text, label, cells)
           /\ Page!Fed(p, Page!Cell(tag, text, close)) = Page!HandleEndTag(q, close)

LEMMA CellFed ==
    ASSUME NEW p, NEW tag, NEW text, NEW close, tag # None, close # None,
           NEW ts, NEW open, NEW kind, NEW label, NEW cells, kind # None,
           Holds(Page!HandleStartTag(p, tag), ts, open, kind, "", label, cells)
    PROVE  Hands(p, tag, text, close, ts, open, kind, label, cells)
<1>1. PICK e : e = Page!Cell(tag, text, close)
  OBVIOUS
<1>2. e.open = tag /\ e.text = text /\ e.close = close
  BY <1>1 DEF Page!Cell
<1>3. PICK o : o = Page!HandleStartTag(p, tag)
  OBVIOUS
<1>4. CASE text = ""
  <2>1. Page!Fed(p, e) = Page!HandleEndTag(o, close)
    BY <1>2, <1>3, <1>4 DEF Page!Fed
  <2> QED
    BY <2>1, <1>1, <1>3, <1>4 DEF Hands
<1>5. CASE text # ""
  <2>1. Page!Fed(p, e) = Page!HandleEndTag(Page!HandleData(o, text), close)
    BY <1>2, <1>3, <1>5 DEF Page!Fed
  <2>2. Holds(Page!HandleData(o, text), ts, open, kind, text, label, cells)
    BY <1>3, DataHolds
  <2> QED
    BY <2>1, <2>2, <1>1 DEF Hands
<1> QED
  BY <1>4, <1>5

LEMMA EndsCapture ==
    ASSUME NEW p, NEW close \in {"span", "td", "th"}
    PROVE  Page!HandleEndTag(p, close) = Page!FinishCapture(p)
  BY DEF Page!HandleEndTag

LEMMA FedOpenTable ==
    ASSUME NEW p, NEW ts, NEW open, NEW label, NEW cells, IsAt(p, ts, open, label, cells)
    PROVE  IsAt(Page!Fed(p, Page!Open("table")), Append(ts, Page!NewTable), TRUE, label, cells)
<1>1. PICK text : Holds(p, ts, open, None, text, label, cells)
  BY DEF IsAt
<1>2. PICK q : q = Page!FinishCapture(p)
  OBVIOUS
<1>3. Holds(q, ts, open, None, text, label, cells)
  BY <1>1, <1>2, FinishNothing
<1>4. q.tables = ts
  BY <1>3, HoldsThis
<1>5. Page!HandleStartTag(p, "table") = [q EXCEPT !.open = TRUE, !.tables = Append(ts, Page!NewTable)]
  BY <1>2, <1>4 DEF Page!HandleStartTag
<1>6. Holds([q EXCEPT !.open = TRUE, !.tables = Append(ts, Page!NewTable)],
            Append(ts, Page!NewTable), TRUE, None, text, label, cells)
  BY <1>3, HoldsWith
<1> QED
  BY <1>5, <1>6, OpeningFed, NoneIsNoText DEF IsAt

LEMMA FedOpenRow ==
    ASSUME NEW p, NEW ts, NEW label, NEW cells, IsAt(p, ts, TRUE, label, cells)
    PROVE  IsAt(Page!Fed(p, Page!Open("tr")), ts, TRUE, None, <<>>)
<1>1. PICK text : Holds(p, ts, TRUE, None, text, label, cells)
  BY DEF IsAt
<1>2. PICK q : q = Page!FinishCapture(p)
  OBVIOUS
<1>3. Holds(q, ts, TRUE, None, text, label, cells)
  BY <1>1, <1>2, FinishNothing
<1>4. p.open
  BY <1>1, HoldsThis
<1>5. Page!HandleStartTag(p, "tr") = [q EXCEPT !.rowLabel = None, !.rowCells = <<>>]
  BY <1>2, <1>4 DEF Page!HandleStartTag
<1>6. Holds([q EXCEPT !.rowLabel = None, !.rowCells = <<>>], ts, TRUE, None, text, None, <<>>)
  BY <1>3, HoldsWith
<1> QED
  BY <1>5, <1>6, OpeningFed, NoneIsNoText DEF IsAt

LEMMA FedCaption ==
    ASSUME NEW p, NEW ts, NEW label, NEW cells, IsAt(p, ts, TRUE, label, cells), NEW text
    PROVE  LET q == Page!Fed(p, Page!Cell("acs-th", text, "td")) IN
           IF ts[Len(ts)].caption = ""
           THEN IsAt(q, Ending(ts, [ts[Len(ts)] EXCEPT !.caption = text]), TRUE, label, cells)
           ELSE IsAt(q, ts, TRUE, label, cells)
<1>1. PICK held : Holds(p, ts, TRUE, None, held, label, cells)
  BY DEF IsAt
<1>2. p.open
  BY <1>1, HoldsThis
<1>3. Page!HandleStartTag(p, "acs-th") = Page!StartCapture(p, "caption")
  BY <1>2 DEF Page!HandleStartTag
<1>4. Holds(Page!HandleStartTag(p, "acs-th"), ts, TRUE, "caption", "", label, cells)
  BY <1>1, <1>3, StartHolds
<1>5. None # "acs-th" /\ None # "td" /\ None # "caption"
  BY NoneIsNoText
<1>51. Hands(p, "acs-th", text, "td", ts, TRUE, "caption", label, cells)
  BY <1>4, <1>5, CellFed
<1>6. PICK q : /\ Holds(q, ts, TRUE, "caption", text, label, cells)
               /\ Page!Fed(p, Page!Cell("acs-th", text, "td")) = Page!HandleEndTag(q, "td")
  BY <1>51 DEF Hands
<1>7. Page!HandleEndTag(q, "td") = Page!FinishCapture(q)
  BY EndsCapture
<1> QED
  BY <1>6, <1>7, FinishCaption DEF IsAt

LEMMA FedLabel ==
    ASSUME NEW p, NEW ts, NEW label, NEW cells, IsAt(p, ts, TRUE, label, cells),
           NEW text, NEW close \in {"td", "th"}
    PROVE  IsAt(Page!Fed(p, Page!Cell("th", text, close)), ts, TRUE, text, <<>>)
<1>1. PICK held : Holds(p, ts, TRUE, None, held, label, cells)
  BY DEF IsAt
<1>2. p.open
  BY <1>1, HoldsThis
<1>3. Page!HandleStartTag(p, "th") = Page!StartCapture(p, "row_label")
  BY <1>2 DEF Page!HandleStartTag
<1>4. Holds(Page!HandleStartTag(p, "th"), ts, TRUE, "row_label", "", label, cells)
  BY <1>1, <1>3, StartHolds
<1>5. None # "th" /\ None # close /\ None # "row_label"
  BY NoneIsNoText
<1>51. Hands(p, "th", text, close, ts, TRUE, "row_label", label, cells)
  BY <1>4, <1>5, CellFed
<1>6. PICK q : /\ Holds(q, ts, TRUE, "row_label", text, label, cells)
               /\ Page!Fed(p, Page!Cell("th", text, close)) = Page!HandleEndTag(q, close)
  BY <1>51 DEF Hands
<1>7. Page!HandleEndTag(q, close) = Page!FinishCapture(q)
  BY EndsCapture
<1>8. Holds(Page!FinishCapture(q), ts, TRUE, None, text, text, <<>>)
  BY <1>6, FinishLabel
<1> QED
  BY <1>6, <1>7, <1>8 DEF IsAt

LEMMA FedData ==
    ASSUME NEW p, NEW ts, NEW label, NEW cells, IsAt(p, ts, TRUE, label, cells),
           label # None, NEW text
    PROVE  IsAt(Page!Fed(p, Page!Cell("td", text, "td")), ts, TRUE, label, Append(cells, text))
<1>1. PICK held : Holds(p, ts, TRUE, None, held, label, cells)
  BY DEF IsAt
<1>2. p.open /\ p.rowLabel # None
  BY <1>1, HoldsThis
<1>3. Page!HandleStartTag(p, "td") = Page!StartCapture(p, "cell")
  BY <1>2 DEF Page!HandleStartTag
<1>4. Holds(Page!HandleStartTag(p, "td"), ts, TRUE, "cell", "", label, cells)
  BY <1>1, <1>3, StartHolds
<1>5. None # "td" /\ None # "cell"
  BY NoneIsNoText
<1>51. Hands(p, "td", text, "td", ts, TRUE, "cell", label, cells)
  BY <1>4, <1>5, CellFed
<1>6. PICK q : /\ Holds(q, ts, TRUE, "cell", text, label, cells)
               /\ Page!Fed(p, Page!Cell("td", text, "td")) = Page!HandleEndTag(q, "td")
  BY <1>51 DEF Hands
<1>7. Page!HandleEndTag(q, "td") = Page!FinishCapture(q)
  BY EndsCapture
<1>8. Holds(Page!FinishCapture(q), ts, TRUE, None, text, label, Append(cells, text))
  BY <1>6, FinishCell
<1> QED
  BY <1>6, <1>7, <1>8 DEF IsAt

LEMMA FedCloseRow ==
    ASSUME NEW p, NEW ts, NEW label, NEW cells, IsAt(p, ts, TRUE, label, cells)
    PROVE  LET q == Page!Fed(p, Page!Close("tr")) IN
           IF label = None THEN IsAt(q, ts, TRUE, None, <<>>)
           ELSE IsAt(q, Ending(ts, [ts[Len(ts)] EXCEPT !.rows = Page!With(@, label, cells)]),
                     TRUE, None, <<>>)
<1>1. PICK held : Holds(p, ts, TRUE, None, held, label, cells)
  BY DEF IsAt
<1>2. PICK r : r = Page!FinishCapture(p)
  OBVIOUS
<1>3. Holds(r, ts, TRUE, None, held, label, cells)
  BY <1>1, <1>2, FinishNothing
<1>4. Page!Fed(p, Page!Close("tr")) = Page!FinishRow(r)
  <2>1. Page!HandleEndTag(p, "tr") = Page!FinishRow(r)
    BY <1>2 DEF Page!HandleEndTag
  <2> QED
    BY <2>1, ClosingFed, NoneIsNoText
<1>5. CASE label = None
  BY <1>3, <1>4, <1>5, FinishesRow DEF IsAt
<1>6. CASE label # None
  <2>1. Holds(Page!FinishRow(r),
              Ending(ts, [ts[Len(ts)] EXCEPT !.rows = Page!With(@, label, cells)]),
              TRUE, None, held, None, <<>>)
    BY <1>3, <1>6, FinishesRow
  <2> QED
    BY <1>4, <1>6, <2>1 DEF IsAt
<1> QED
  BY <1>5, <1>6

LEMMA FedCloseTable ==
    ASSUME NEW p, NEW ts, NEW cells, IsAt(p, ts, TRUE, None, cells)
    PROVE  IsAt(Page!Fed(p, Page!Close("table")), ts, FALSE, None, <<>>)
<1>1. PICK held : Holds(p, ts, TRUE, None, held, None, cells)
  BY DEF IsAt
<1>2. PICK q, r : q = Page!FinishCapture(p) /\ r = Page!FinishRow(q)
  OBVIOUS
<1>3. Holds(q, ts, TRUE, None, held, None, cells)
  BY <1>1, <1>2, FinishNothing
<1>4. Holds(r, ts, TRUE, None, held, None, <<>>)
  BY <1>2, <1>3, FinishesRow
<1>5. Page!HandleEndTag(p, "table") = [r EXCEPT !.open = FALSE]
  BY <1>2 DEF Page!HandleEndTag
<1>6. Holds([r EXCEPT !.open = FALSE], ts, FALSE, None, held, None, <<>>)
  BY <1>4, HoldsWith
<1> QED
  BY <1>5, <1>6, ClosingFed, NoneIsNoText DEF IsAt

\* The span line: the label, then the value.
LEMMA HeadsThis ==
    ASSUME NEW p, NEW pending, NEW kind, NEW text, Heads(p, pending, kind, text)
    PROVE  /\ p.pending = pending /\ p.capture = kind /\ p.buffer = text
           /\ p.fields = NoFields
  BY IsThis DEF Heads

LEMMA HeadsWith ==
    ASSUME NEW p, NEW pending, NEW kind, NEW text, NEW x, Heads(p, pending, kind, text)
    PROVE  /\ Heads([p EXCEPT !.pending = x], x, kind, text)
           /\ Heads([p EXCEPT !.capture = x], pending, x, text)
           /\ Heads([p EXCEPT !.buffer = x], pending, kind, x)
  BY IsWith DEF Heads

LEMMA HeadStarts ==
    ASSUME NEW p, NEW pending, NEW held, NEW kind \in {"label", "value"}, NEW text, text # "",
           Heads(p, pending, None, held)
    PROVE  \E q : /\ Heads(q, pending, kind, text)
                  /\ Page!Fed(p, Page!Cell(kind, text, "span")) = Page!FinishCapture(q)
<1>1. p.capture = None
  BY HeadsThis
<1>2. PICK a : a = [p EXCEPT !.capture = None]
  OBVIOUS
<1>3. Page!FinishCapture(p) = a
  BY <1>1, <1>2, NoCapture DEF Page!FinishCapture
<1>4. Heads(a, pending, None, held)
  BY <1>2, HeadsWith
<1>5. PICK b : b = [a EXCEPT !.capture = kind, !.buffer = ""]
  OBVIOUS
<1>6. Heads(b, pending, kind, "")
  BY <1>4, <1>5, HeadsWith
<1>7. Page!HandleStartTag(p, kind) = b
  BY <1>3, <1>5 DEF Page!HandleStartTag, Page!StartCapture
<1>8. PICK q : q = [b EXCEPT !.buffer = text]
  OBVIOUS
<1>9. Heads(q, pending, kind, text)
  BY <1>6, <1>8, HeadsWith
<1>10. Page!HandleData(b, text) = q
  <2>1. b.capture = kind
    BY <1>6, HeadsThis
  <2> QED
    BY <2>1, <1>8, NoCapture DEF Page!HandleData
<1>11. Page!HandleEndTag(q, "span") = Page!FinishCapture(q)
  BY EndsCapture
<1>12. PICK e : e = Page!Cell(kind, text, "span")
  OBVIOUS
<1>13. e.open = kind /\ e.text = text /\ e.close = "span"
  BY <1>12 DEF Page!Cell
<1>14. kind # None /\ "span" # None
  BY NoneIsNoText
<1>15. Page!Fed(p, e) = Page!HandleEndTag(q, "span")
  BY <1>7, <1>10, <1>13, <1>14 DEF Page!Fed
<1> QED
  BY <1>9, <1>11, <1>12, <1>15

LEMMA FedHeading ==
    ASSUME NEW p, Heading(p, None)
    PROVE  Heading(Page!Fed(p, Page!Cell("label", "Internet", "span")), "Internet")
<1>1. PICK held : Heads(p, None, None, held)
  BY DEF Heading
<1>2. PICK q : /\ Heads(q, None, "label", "Internet")
               /\ Page!Fed(p, Page!Cell("label", "Internet", "span")) = Page!FinishCapture(q)
  BY <1>1, HeadStarts
<1>3. q.capture = "label" /\ q.buffer = "Internet"
  BY <1>2, HeadsThis
<1>4. PICK done : done = [q EXCEPT !.capture = None]
  OBVIOUS
<1>5. Heads(done, None, None, "Internet")
  BY <1>2, <1>4, HeadsWith
<1>6. Heads([done EXCEPT !.pending = "Internet"], "Internet", None, "Internet")
  BY <1>5, HeadsWith
<1>7. Page!FinishCapture(q) = [done EXCEPT !.pending = "Internet"]
  BY <1>3, <1>4 DEF Page!FinishCapture
<1> QED
  BY <1>2, <1>6, <1>7 DEF Heading

LEMMA InternetIsActive == Page!With(NoFields, "Internet", "Active") = InternetActive
  BY DEF NoFields, Page!With, InternetActive

LEMMA FedHeadingValue ==
    ASSUME NEW p, Heading(p, "Internet")
    PROVE  IsAt(Page!Fed(p, Page!Cell("value", "Active", "span")), <<>>, FALSE, None, <<>>)
<1>1. PICK held : Heads(p, "Internet", None, held)
  BY DEF Heading
<1>2. PICK q : /\ Heads(q, "Internet", "value", "Active")
               /\ Page!Fed(p, Page!Cell("value", "Active", "span")) = Page!FinishCapture(q)
  BY <1>1, HeadStarts
<1>3. q.capture = "value" /\ q.buffer = "Active" /\ q.pending = "Internet"
  BY <1>2, HeadsThis
<1>4. PICK done : done = [q EXCEPT !.capture = None]
  OBVIOUS
<1>5. Heads(done, "Internet", None, "Active")
  BY <1>2, <1>4, HeadsWith
<1>6. done.fields = NoFields
  BY <1>5, HeadsThis
<1>7. PICK r : r = [done EXCEPT !.pending = None]
  OBVIOUS
<1>8. Heads(r, None, None, "Active")
  BY <1>5, <1>7, HeadsWith
<1>9. Holds([r EXCEPT !.fields = InternetActive], <<>>, FALSE, None, "Active", None, <<>>)
  BY <1>8, IsWith DEF Heads, Holds
<1>10. Page!FinishCapture(q) = [r EXCEPT !.fields = InternetActive]
  <2>1. "Internet" \notin {None} \cup DOMAIN done.fields
    BY <1>6, NoneIsNoText DEF NoFields
  <2>2. Page!FinishCapture(q)
        = [done EXCEPT !.pending = None, !.fields = Page!With(done.fields, "Internet", "Active")]
    BY <1>3, <1>4, <2>1 DEF Page!FinishCapture
  <2>3. Page!With(done.fields, "Internet", "Active") = InternetActive
    BY <1>6, InternetIsActive
  <2> QED
    BY <2>2, <2>3, <1>7
<1> QED
  BY <1>2, <1>9, <1>10 DEF IsAt

-----------------------------------------------------------------------------
(***************************************************************************)
(* The tables as they grow.                                                *)
(***************************************************************************)
LEMMA TablesFedIs ==
    ASSUME NEW page, NEW n \in 0 .. 3, NEW j
    PROVE  LET ts == TablesFed(page, n, j) IN
           /\ DOMAIN ts = 1 .. n /\ Len(ts) = n
           /\ n > 0 => ts[n] = TableFed(Page!TablesOf(page)[n], j)
           /\ \A u \in 1 .. n - 1 : ts[u] = TableFed(Page!TablesOf(page)[u], 4)
<1> DEFINE ts == TablesFed(page, n, j)
<1>1. DOMAIN ts = 1 .. n
  BY DEF TablesFed
<1>2. Len(ts) = n
  <2>1. ts \in Seq({ts[u] : u \in 1 .. n})
    <3>1. ts = [u \in 1 .. n |-> ts[u]]
      BY DEF TablesFed
    <3> HIDE DEF ts
    <3> QED
      BY <3>1
  <2> HIDE DEF ts
  <2> QED
    BY <1>1, <2>1
<1>3. n > 0 => ts[n] = TableFed(Page!TablesOf(page)[n], j)
  BY DEF TablesFed
<1>4. \A u \in 1 .. n - 1 : ts[u] = TableFed(Page!TablesOf(page)[u], 4)
  BY DEF TablesFed
<1> QED
  BY <1>1, <1>2, <1>3, <1>4

\* Only the last table differs.
LEMMA TablesChange ==
    ASSUME NEW page, NEW n \in 1 .. 3, NEW j, NEW i, NEW held,
           held = TableFed(Page!TablesOf(page)[n], j)
    PROVE  Ending(TablesFed(page, n, i), held) = TablesFed(page, n, j)
<1> DEFINE ts == TablesFed(page, n, i)
           us == TablesFed(page, n, j)
<1>0. n \in 0 .. 3
  OBVIOUS
<1>1. DOMAIN ts = 1 .. n /\ Len(ts) = n /\ DOMAIN us = 1 .. n
  BY <1>0, TablesFedIs DEF TablesFed
<1>2. us[n] = held
  BY DEF TablesFed
<1>21. \A u \in 1 .. n - 1 : us[u] = ts[u]
  BY DEF TablesFed
<1>3. us = [u \in 1 .. n |-> us[u]]
  BY DEF TablesFed
<1> HIDE DEF ts, us
<1>4. [ts EXCEPT ![n] = held] = [u \in 1 .. n |-> IF u = n THEN held ELSE ts[u]]
  BY <1>1
<1>5. \A u \in 1 .. n : us[u] = IF u = n THEN held ELSE ts[u]
  BY <1>2, <1>21
<1>6. us = [u \in 1 .. n |-> IF u = n THEN held ELSE ts[u]]
  BY <1>3, <1>5
<1>7. Ending(ts, held) = us
  BY <1>1, <1>4, <1>6 DEF Ending
<1> QED
  BY <1>7 DEF ts, us

LEMMA UntitledIs == \A d : TableFed(d, 0).caption = ""
  <1> TAKE d
  <1> DEFINE rows == [label \in Labels(d, 0 - 1) |-> d.rows[RowCalled(d, label)].texts]
             blank == ""
  <1>1. TableFed(d, 0) = [caption |-> blank, rows |-> rows]
    BY DEF TableFed
  <1> HIDE DEF blank, rows
  <1>2. TableFed(d, 0).caption = blank
    BY <1>1
  <1> QED
    BY <1>2 DEF blank

LEMMA TableFedIs ==
    ASSUME NEW d
    PROVE  /\ \A j \in 1 .. 4 : TableFed(d, j).caption = d.captions[1]
           /\ [TableFed(d, 0) EXCEPT !.caption = d.captions[1]] = TableFed(d, 1)
<1> DEFINE rows(j) == [label \in Labels(d, j - 1) |-> d.rows[RowCalled(d, label)].texts]
           caption == d.captions[1]
           blank == ""
<1>1. \A j : TableFed(d, j) = [caption |-> IF j = 0 THEN blank ELSE caption, rows |-> rows(j)]
  BY DEF TableFed
<1>2. rows(0) = rows(1)
  <2>1. Labels(d, 0 - 1) = {} /\ Labels(d, 1 - 1) = {}
    BY DEF Labels
  <2> QED
    BY <2>1
<1> HIDE DEF rows, caption, blank
<1>3. TableFed(d, 0) = [caption |-> blank, rows |-> rows(0)]
  BY <1>1
<1>4. \A j \in 1 .. 4 : TableFed(d, j) = [caption |-> caption, rows |-> rows(j)]
  <2> TAKE j \in 1 .. 4
  <2>1. j # 0
    OBVIOUS
  <2> QED
    BY <1>1, <2>1, Zenon
<1>5. PICK held : held = TableFed(d, 0)
  OBVIOUS
<1>6. [held EXCEPT !.caption = caption] = TableFed(d, 1)
  BY <1>2, <1>3, <1>4, <1>5
<1>7. \A j \in 1 .. 4 : TableFed(d, j).caption = caption
  BY <1>3, <1>4
<1> QED
  BY <1>5, <1>6, <1>7 DEF caption, blank

LEMMA NewTableIs == ASSUME NEW d PROVE Page!NewTable = TableFed(d, 0)
<1>1. Labels(d, 0 - 1) = {}
  BY DEF Labels
<1>2. [label \in Labels(d, 0 - 1) |-> d.rows[RowCalled(d, label)].texts] = [label \in {} |-> <<>>]
  BY <1>1
<1> QED
  BY <1>2 DEF Page!NewTable, Page!NoRows, TableFed

LEMMA TablesBegin ==
    ASSUME NEW page, NEW n \in 0 .. 2
    PROVE  Append(TablesFed(page, n, 4), Page!NewTable) = TablesFed(page, n + 1, 0)
<1> DEFINE ts == TablesFed(page, n, 4)
           us == TablesFed(page, n + 1, 0)
           new == Page!NewTable
<1>1. DOMAIN ts = 1 .. n /\ Len(ts) = n
      /\ \A u \in 1 .. n : ts[u] = TableFed(Page!TablesOf(page)[u], 4)
  BY TablesFedIs DEF TablesFed
<1>2. DOMAIN us = 1 .. n + 1 /\ us[n + 1] = new
      /\ \A u \in 1 .. n : us[u] = TableFed(Page!TablesOf(page)[u], 4)
  <2>1. TableFed(Page!TablesOf(page)[n + 1], 0) = new
    BY NewTableIs
  <2> QED
    BY <2>1 DEF TablesFed
<1>3. us = [u \in 1 .. n + 1 |-> us[u]]
  BY DEF TablesFed
<1> HIDE DEF ts, us, new
<1>4. \A u \in 1 .. n + 1 : us[u] = IF u = n + 1 THEN new ELSE ts[u]
  BY <1>1, <1>2
<1>5. Append(ts, new) = us
  <2> DEFINE S == {ts[u] : u \in 1 .. n} \cup {new}
             x == Append(ts, new)
  <2>1. ts \in Seq(S)
    <3>1. ts = [u \in 1 .. n |-> ts[u]]
      BY DEF TablesFed, ts
    <3> QED
      BY <3>1
  <2>2. new \in S
    OBVIOUS
  <2> HIDE DEF S
  <2>3. x \in Seq(S) /\ Len(x) = Len(ts) + 1 /\ x[Len(ts) + 1] = new
        /\ \A u \in 1 .. Len(ts) : x[u] = ts[u]
    BY <2>1, <2>2, AppendProperties
  <2> HIDE DEF x
  <2>4. DOMAIN x = 1 .. n + 1 /\ x = [u \in DOMAIN x |-> x[u]]
    BY <2>3, <1>1
  <2>5. \A u \in 1 .. n + 1 : x[u] = us[u]
    BY <2>3, <1>1, <1>4
  <2>6. x = us
    BY <2>4, <2>5, <1>3
  <2> QED
    BY <2>6 DEF x
<1> QED
  BY <1>5 DEF ts, us, new

LEMMA RowCalledIs ==
    ASSUME NEW d, IsTable(d), NEW r \in 1 .. 3
    PROVE  RowCalled(d, d.rows[r].label) = r
<1>1. \A q \in 1 .. 3 : d.rows[q].label = d.rows[r].label => q = r
  BY DEF IsTable
<1> QED
  BY <1>1 DEF RowCalled

LEMMA RowOfTable ==
    ASSUME NEW d, IsTable(d), NEW j \in 0 .. 4
    PROVE  LET rows == TableFed(d, j).rows IN
           /\ DOMAIN rows = Labels(d, j - 1)
           /\ \A r \in 1 .. j - 1 : d.rows[r].label \in Labels(d, j - 1)
                                    /\ rows[d.rows[r].label] = d.rows[r].texts
<1>1. TableFed(d, j).rows = [label \in Labels(d, j - 1) |-> d.rows[RowCalled(d, label)].texts]
  BY DEF TableFed
<1>2. \A r \in 1 .. j - 1 : d.rows[r].label \in Labels(d, j - 1)
  BY DEF Labels
<1>3. \A r \in 1 .. j - 1 : RowCalled(d, d.rows[r].label) = r
  BY RowCalledIs
<1> QED
  BY <1>1, <1>2, <1>3

LEMMA RowsGrow ==
    ASSUME NEW d, IsTable(d), NEW r \in 1 .. 3
    PROVE  [TableFed(d, r) EXCEPT !.rows = Page!With(@, d.rows[r].label, d.rows[r].texts)]
           = TableFed(d, r + 1)
<1> DEFINE f(k) == [label \in Labels(d, k) |-> d.rows[RowCalled(d, label)].texts]
           key == d.rows[r].label
           value == d.rows[r].texts
<1>1. Labels(d, r) = Labels(d, r - 1) \cup {key}
  BY DEF Labels
<1>2. d.rows[RowCalled(d, key)].texts = value
  BY RowCalledIs
<1>3. Page!With(f(r - 1), key, value)
      = [label \in Labels(d, r - 1) \cup {key} |-> IF label = key THEN value ELSE f(r - 1)[label]]
  BY DEF Page!With
<1>4. \A label \in Labels(d, r) : (IF label = key THEN value ELSE f(r - 1)[label])
                                  = d.rows[RowCalled(d, label)].texts
  BY <1>1, <1>2
<1>5. Page!With(f(r - 1), key, value) = f(r)
  BY <1>1, <1>3, <1>4
<1>6. PICK held : held = TableFed(d, r)
  OBVIOUS
<1>7. held = [caption |-> d.captions[1], rows |-> f(r - 1)]
  <2>1. r # 0
    OBVIOUS
  <2> QED
    BY <1>6, <2>1 DEF TableFed
<1>8. TableFed(d, r + 1) = [caption |-> d.captions[1], rows |-> f(r)]
  <2>1. r + 1 - 1 = r /\ r + 1 # 0
    OBVIOUS
  <2> QED
    BY <2>1 DEF TableFed
<1> HIDE DEF f
<1>9. [held EXCEPT !.rows = Page!With(@, key, value)] = [caption |-> d.captions[1], rows |-> f(r)]
  BY <1>5, <1>7
<1> QED
  BY <1>6, <1>8, <1>9

-----------------------------------------------------------------------------
(***************************************************************************)
(* An element brings the parser to the next place.                         *)
(***************************************************************************)
Line(page, t, s) == Page!Rendered(page)[5 * t + s - 3]

\* The place after element c of line s of table t.
NextPlace(p, page, t, s, c) ==
    IF c < Len(Line(page, t, s)) THEN InTable(p, page, t, s, c + 1)
    ELSE IF s < 4 THEN InTable(p, page, t, s + 1, 1)
    ELSE IsAt(p, TablesFed(page, t, 4), FALSE, None, <<>>)

LEMMA SubSeqGrows ==
    ASSUME NEW S, NEW texts \in Seq(S)
    PROVE  /\ SubSeq(texts, 1, 0) = <<>>
           /\ SubSeq(texts, 1, Len(texts)) = texts
           /\ \A i \in 1 .. Len(texts) :
                 Append(SubSeq(texts, 1, i - 1), texts[i]) = SubSeq(texts, 1, i)
<1>1. SubSeq(texts, 1, 0) = <<>>
  OBVIOUS
<1>2. SubSeq(texts, 1, Len(texts)) = texts
  OBVIOUS
<1>3. \A i \in 1 .. Len(texts) : Append(SubSeq(texts, 1, i - 1), texts[i]) = SubSeq(texts, 1, i)
  OBVIOUS
<1> QED
  BY <1>1, <1>2, <1>3

LEMMA CaptionsAre ==
    ASSUME NEW page \in Pages, NEW t \in 1 .. 3
    PROVE  LET d == Page!TablesOf(page)[t] IN
           /\ IsTable(d) /\ Len(d.captions) \in Nat \ {0} /\ d.captions[1] # ""
           /\ t < 3 => d.captions[1] \in {"Downstream", "Upstream"}
           /\ t = 3 => d.captions[1] = "CM Error Codewords"
<1> DEFINE d == Page!TablesOf(page)[t]
<1>1. t = 1 \/ t = 2 \/ t = 3
  OBVIOUS
<1>2. IsTable(d)
  BY TablesAre
<1>3. /\ t < 3 => d = Page!DownstreamOf(page) \/ d = Page!UpstreamOf(page)
      /\ t = 3 => d = Page!CodewordsOf(page)
  BY TablesAre, <1>1
<1>4. /\ t < 3 => d.captions[1] \in {"Downstream", "Upstream"}
      /\ t = 3 => d.captions[1] = "CM Error Codewords"
  <2>1. Page!DownstreamOf(page).captions[1] = "Downstream"
    BY DownstreamIs, ZenonT(30)
  <2>2. Page!UpstreamOf(page).captions[1] = "Upstream"
    BY UpstreamIs, ZenonT(30)
  <2>3. Page!CodewordsOf(page).captions[1] = "CM Error Codewords"
    BY CodewordsIs, ZenonT(30)
  <2> HIDE DEF d
  <2> QED
    BY <1>3, <2>1, <2>2, <2>3, ZenonT(30)
<1>5. Len(d.captions) \in Nat \ {0}
  BY <1>2, EmptySeq DEF IsTable
<1> HIDE DEF d
<1>6. d.captions[1] # ""
  <2>1. t < 3 \/ t = 3
    OBVIOUS
  <2>2. "Downstream" # "" /\ "Upstream" # "" /\ "CM Error Codewords" # ""
    OBVIOUS
  <2> QED
    BY <1>4, <2>1, <2>2, Zenon
<1> QED
  BY <1>2, <1>4, <1>5, <1>6 DEF d

\* Being at a place, one lemma for each kind of place.
LEMMA AtStart ==
    ASSUME NEW p, NEW page, NEW t, IsAt(p, TablesFed(page, t - 1, 4), FALSE, None, <<>>)
    PROVE  InTable(p, page, t, 0, 1)
<1>1. 0 \notin 1 .. 3 /\ 1 \notin {2, 3} /\ ~(1 > 3) /\ 0 # 4
  OBVIOUS
<1> QED
  BY <1>1, Zenon DEF InTable

LEMMA AtCaption ==
    ASSUME NEW p, NEW page, NEW t, NEW c \in {2, 3}, IsAt(p, TablesFed(page, t, 0), TRUE, None, <<>>)
    PROVE  InTable(p, page, t, 0, c)
<1>1. 0 \notin 1 .. 3 /\ c # 1 /\ ~(c > 3) /\ 0 # 4
  OBVIOUS
<1> QED
  BY <1>1, Zenon DEF InTable

LEMMA AfterCaption ==
    ASSUME NEW p, NEW page, NEW t, NEW c \in Nat, c > 3, IsAt(p, TablesFed(page, t, 1), TRUE, None, <<>>)
    PROVE  InTable(p, page, t, 0, c)
<1>1. 0 \notin 1 .. 3 /\ c # 1 /\ c \notin {2, 3} /\ 0 # 4
  OBVIOUS
<1> QED
  BY <1>1, Zenon DEF InTable

LEMMA AtRow ==
    ASSUME NEW p, NEW page, NEW t, NEW s \in 1 .. 3, NEW c \in 1 .. 2,
           IsAt(p, TablesFed(page, t, s), TRUE, None, <<>>)
    PROVE  InTable(p, page, t, s, c)
<1>1. s # 0 /\ ~(c > 2) /\ s # 4
  OBVIOUS
<1> QED
  BY <1>1, Zenon DEF InTable

LEMMA InRow ==
    ASSUME NEW p, NEW page, NEW t, NEW s \in 1 .. 3, NEW c \in Nat, c > 2, NEW row,
           row = Page!TablesOf(page)[t].rows[s],
           IsAt(p, TablesFed(page, t, s), TRUE, row.label, SubSeq(row.texts, 1, c - 3))
    PROVE  InTable(p, page, t, s, c)
<1>1. s # 0 /\ ~(c < 3) /\ s # 4
  OBVIOUS
<1> QED
  BY <1>1, Zenon DEF InTable

LEMMA AtEnd ==
    ASSUME NEW p, NEW page, NEW t, NEW c, IsAt(p, TablesFed(page, t, 4), TRUE, None, <<>>)
    PROVE  InTable(p, page, t, 4, c)
<1>1. 4 # 0 /\ 4 \notin 1 .. 3
  OBVIOUS
<1> QED
  BY <1>1, Zenon DEF InTable

LEMMA FedEndLine ==
    ASSUME NEW page \in Pages, NEW t \in 1 .. 3, NEW c \in DOMAIN Line(page, t, 4), NEW p,
           InTable(p, page, t, 4, c)
    PROVE  NextPlace(Page!Fed(p, Line(page, t, 4)[c]), page, t, 4, c)
<1> DEFINE z == Line(page, t, 4)
<1>1. EndElements(z)
  BY TableElements DEF Line
<1> HIDE DEF z
<1>2. ~(c < Len(z)) /\ z[c] = Page!Close("table")
  <2>1. c \in DOMAIN z
    BY DEF z
  <2> QED
    BY <1>1, <2>1 DEF EndElements
<1>3. IsAt(p, TablesFed(page, t, 4), TRUE, None, <<>>)
  BY DEF InTable
<1>4. IsAt(Page!Fed(p, Page!Close("table")), TablesFed(page, t, 4), FALSE, None, <<>>)
  BY <1>3, FedCloseTable
<1>5. ~(4 < 4)
  OBVIOUS
<1> QED
  BY <1>2, <1>4, <1>5, Zenon DEF NextPlace, z

LEMMA FedCaptionLine ==
    ASSUME NEW page \in Pages, NEW t \in 1 .. 3, NEW c \in DOMAIN Line(page, t, 0), NEW p,
           InTable(p, page, t, 0, c)
    PROVE  NextPlace(Page!Fed(p, Line(page, t, 0)[c]), page, t, 0, c)
<1> DEFINE d == Page!TablesOf(page)[t]
           n == Len(d.captions)
           z == Line(page, t, 0)
           e == z[c]
           q == Page!Fed(p, e)
           new == TablesFed(page, t, 0)
           titled == TablesFed(page, t, 1)
<1>1. CaptionElements(z, d)
  BY TableElements DEF Line
<1>2. n \in Nat \ {0}
  BY CaptionsAre
<1>21. d.captions[1] # ""
  BY CaptionsAre
<1>3. /\ c = 1 => IsAt(p, TablesFed(page, t - 1, 4), FALSE, None, <<>>)
      /\ c \in {2, 3} => IsAt(p, new, TRUE, None, <<>>)
      /\ c > 3 => IsAt(p, titled, TRUE, None, <<>>)
  BY DEF InTable
<1>4. c \in DOMAIN z
  OBVIOUS
<1> HIDE DEF z
<1>5. Len(z) = n + 3 /\ c \in 1 .. n + 3
  BY <1>1, <1>2, <1>4 DEF CaptionElements
<1>6. /\ c < n + 3 /\ InTable(q, page, t, 0, c + 1) => NextPlace(q, page, t, 0, c)
      /\ c = n + 3 /\ InTable(q, page, t, 1, 1) => NextPlace(q, page, t, 0, c)
  <2>1. c < n + 3 <=> c < Len(z)
    BY <1>5
  <2>2. c = n + 3 => ~(c < n + 3)
    BY <1>5, <1>2
  <2>3. 0 < 4 /\ 0 + 1 = 1
    OBVIOUS
  <2> QED
    BY <2>1, <2>2, <2>3, Zenon DEF NextPlace, z
<1>7. /\ z[1] = Page!Open("table") /\ z[2] = Page!Open("tr") /\ z[n + 3] = Page!Close("tr")
      /\ \A i \in 1 .. n : z[i + 2] = Page!Cell("acs-th", d.captions[i], "td")
  BY <1>1 DEF CaptionElements
<1> HIDE DEF d, n, e, new, titled
<1>8. CASE c = 1
  <2>1. e = Page!Open("table")
    BY <1>7, <1>8 DEF e
  <2>2. IsAt(q, Append(TablesFed(page, t - 1, 4), Page!NewTable), TRUE, None, <<>>)
    BY <1>3, <1>8, <2>1, FedOpenTable
  <2>3. Append(TablesFed(page, t - 1, 4), Page!NewTable) = new
    <3>1. t - 1 \in 0 .. 2 /\ t - 1 + 1 = t
      OBVIOUS
    <3> QED
      BY <3>1, TablesBegin DEF new
  <2>4. InTable(q, page, t, 0, 2)
    BY <2>2, <2>3, AtCaption DEF new
  <2>5. c < n + 3 /\ c + 1 = 2
    BY <1>2, <1>8
  <2> QED
    BY <2>4, <2>5, <1>6, Zenon DEF e, z
<1>9. CASE c = 2
  <2>1. e = Page!Open("tr")
    BY <1>7, <1>9 DEF e
  <2>2. IsAt(q, new, TRUE, None, <<>>)
    BY <1>3, <1>9, <2>1, FedOpenRow
  <2>3. InTable(q, page, t, 0, 3)
    BY <2>2, AtCaption DEF new
  <2>4. c < n + 3 /\ c + 1 = 3
    BY <1>2, <1>9
  <2> QED
    BY <2>3, <2>4, <1>6, Zenon DEF e, z
<1>10. CASE c = 3
  <2>1. e = Page!Cell("acs-th", d.captions[1], "td")
    <3>1. 1 \in 1 .. n /\ 1 + 2 = c
      BY <1>2, <1>10
    <3> QED
      BY <3>1, <1>7, Zenon DEF e
  <2> DEFINE last == new[Len(new)]
  <2>2. last = TableFed(d, 0)
    BY TablesFedIs DEF d, new
  <2>3. last.caption = ""
    BY <2>2, UntitledIs
  <2>4. [last EXCEPT !.caption = d.captions[1]] = TableFed(d, 1)
    BY <2>2, TableFedIs
  <2> HIDE DEF last
  <2>5. IsAt(q, Ending(new, [last EXCEPT !.caption = d.captions[1]]), TRUE, None, <<>>)
    BY <1>3, <1>10, <2>1, <2>3, FedCaption DEF last
  <2>6. Ending(new, TableFed(d, 1)) = titled
    BY TablesChange DEF d, new, titled
  <2>7. c + 1 \in Nat /\ c + 1 > 3 /\ c < n + 3
    BY <1>2, <1>10
  <2>8. InTable(q, page, t, 0, c + 1)
    BY <2>4, <2>5, <2>6, <2>7, AfterCaption DEF titled
  <2> QED
    BY <2>7, <2>8, <1>6, Zenon DEF e, z
<1>11. CASE c > 3 /\ c < n + 3
  <2>1. e = Page!Cell("acs-th", d.captions[c - 2], "td")
    <3>1. c - 2 \in 1 .. n /\ c - 2 + 2 = c
      BY <1>2, <1>5, <1>11
    <3> QED
      BY <3>1, <1>7, Zenon DEF e
  <2> DEFINE last == titled[Len(titled)]
  <2>2. last = TableFed(d, 1)
    BY TablesFedIs DEF d, titled
  <2>3. last.caption # ""
    <3>1. last.caption = d.captions[1]
      BY <2>2, TableFedIs
    <3> QED
      BY <3>1, <1>21, Zenon
  <2>4. IsAt(q, titled, TRUE, None, <<>>)
    BY <1>3, <1>11, <2>1, <2>3, FedCaption
  <2>5. c + 1 \in Nat /\ c + 1 > 3
    BY <1>5, <1>11
  <2>6. InTable(q, page, t, 0, c + 1)
    BY <2>4, <2>5, AfterCaption DEF titled
  <2> QED
    BY <2>6, <1>11, <1>6, Zenon DEF e, z
<1>12. CASE c = n + 3
  <2>1. e = Page!Close("tr")
    BY <1>7, <1>12 DEF e
  <2>2. c > 3
    BY <1>2, <1>12
  <2>3. IsAt(q, titled, TRUE, None, <<>>)
    BY <1>3, <2>1, <2>2, FedCloseRow
  <2>4. InTable(q, page, t, 1, 1)
    <3>1. 1 \in 1 .. 3 /\ 1 \in 1 .. 2
      OBVIOUS
    <3> QED
      BY <2>3, <3>1, AtRow, Zenon DEF titled
  <2> QED
    BY <2>4, <1>12, <1>6, Zenon DEF e, z
<1>13. c = 1 \/ c = 2 \/ c = 3 \/ (c > 3 /\ c < n + 3) \/ c = n + 3
  BY <1>5, <1>2
<1> QED
  BY <1>8, <1>9, <1>10, <1>11, <1>12, <1>13, Zenon DEF e, z

LEMMA FedRowLine ==
    ASSUME NEW page \in Pages, NEW t \in 1 .. 3, NEW s \in 1 .. 3,
           NEW c \in DOMAIN Line(page, t, s), NEW p, InTable(p, page, t, s, c)
    PROVE  NextPlace(Page!Fed(p, Line(page, t, s)[c]), page, t, s, c)
<1> DEFINE d == Page!TablesOf(page)[t]
           row == d.rows[s]
           texts == row.texts
           n == Len(texts)
           z == Line(page, t, s)
           e == z[c]
           q == Page!Fed(p, e)
           ts == TablesFed(page, t, s)
<1>1. RowElements(z, row, page.close)
  BY TableElements DEF Line
<1>2. IsTable(d) /\ row.label \in Texts /\ texts \in Seq(Texts) /\ page.close \in {"td", "th"}
  BY CaptionsAre, PageIs DEF IsTable
<1>3. row.label # None
  BY <1>2, NoneIsNoText
<1>4. /\ c < 3 => IsAt(p, ts, TRUE, None, <<>>)
      /\ c > 2 => IsAt(p, ts, TRUE, row.label, SubSeq(texts, 1, c - 3))
  BY DEF InTable
<1>5. c \in DOMAIN z
  OBVIOUS
<1>6. n \in Nat
  <2>1. \A f \in Seq(Texts) : Len(f) \in Nat
    OBVIOUS
  <2> QED
    BY <1>2, <2>1, Zenon
<1> HIDE DEF z, n
<1>7. Len(z) = n + 3 /\ c \in 1 .. n + 3
  <2>1. z \in Seq(ElementSet) /\ Len(z) = n + 3
    BY <1>1, Zenon DEF RowElements, n
  <2>2. \A f \in Seq(ElementSet) : DOMAIN f = 1 .. Len(f)
    OBVIOUS
  <2> QED
    BY <1>5, <2>1, <2>2, Zenon
<1>8. /\ z[1] = Page!Open("tr") /\ z[2] = Page!Cell("th", row.label, page.close)
      /\ z[n + 3] = Page!Close("tr")
      /\ \A i \in 1 .. n : z[i + 2] = Page!Cell("td", texts[i], "td")
  BY <1>1 DEF RowElements, n
<1>9. /\ c < n + 3 /\ InTable(q, page, t, s, c + 1) => NextPlace(q, page, t, s, c)
      /\ c = n + 3 /\ InTable(q, page, t, s + 1, 1) => NextPlace(q, page, t, s, c)
  <2>1. c < n + 3 <=> c < Len(z)
    BY <1>7
  <2>2. c = n + 3 => ~(c < n + 3)
    BY <1>6, <1>7
  <2>3. s < 4
    OBVIOUS
  <2> QED
    BY <2>1, <2>2, <2>3, Zenon DEF NextPlace, z
<1> HIDE DEF d, e, ts
<1>10. CASE c = 1
  <2>1. e = Page!Open("tr")
    BY <1>8, <1>10 DEF e
  <2>2. c < 3
    BY <1>10
  <2>3. IsAt(q, ts, TRUE, None, <<>>)
    BY <1>4, <2>1, <2>2, FedOpenRow
  <2>4. c < n + 3 /\ c + 1 = 2 /\ 2 \in 1 .. 2
    BY <1>6, <1>10
  <2>5. InTable(q, page, t, s, 2)
    BY <2>3, <2>4, AtRow, Zenon DEF ts
  <2> QED
    BY <2>4, <2>5, <1>9, Zenon DEF e, z
<1>11. CASE c = 2
  <2>1. e = Page!Cell("th", row.label, page.close)
    BY <1>8, <1>11 DEF e
  <2>2. c < 3
    BY <1>11
  <2>3. IsAt(q, ts, TRUE, row.label, <<>>)
    BY <1>2, <1>4, <2>1, <2>2, FedLabel
  <2>4. SubSeq(texts, 1, 3 - 3) = <<>>
    <3>1. SubSeq(texts, 1, 0) = <<>>
      BY <1>2, SubSeqGrows
    <3> QED
      BY <3>1
  <2>5. c < n + 3 /\ c + 1 = 3 /\ 3 \in Nat /\ 3 > 2
    BY <1>6, <1>11
  <2>6. IsAt(q, ts, TRUE, row.label, SubSeq(texts, 1, 3 - 3))
    BY <2>3, <2>4, Zenon
  <2>7. InTable(q, page, t, s, 3)
    BY <2>5, <2>6, InRow, Zenon DEF ts, d
  <2> QED
    BY <2>5, <2>7, <1>9, Zenon DEF e, z
<1>12. CASE c > 2 /\ c < n + 3
  <2>1. c - 2 \in 1 .. n /\ c - 2 + 2 = c /\ c - 3 = c - 2 - 1
    BY <1>6, <1>7, <1>12
  <2>2. e = Page!Cell("td", texts[c - 2], "td")
    BY <2>1, <1>8, Zenon DEF e
  <2>3. IsAt(q, ts, TRUE, row.label, Append(SubSeq(texts, 1, c - 3), texts[c - 2]))
    BY <1>3, <1>4, <1>12, <2>2, FedData
  <2>4. Append(SubSeq(texts, 1, c - 3), texts[c - 2]) = SubSeq(texts, 1, c - 2)
    <3>1. Append(SubSeq(texts, 1, c - 2 - 1), texts[c - 2]) = SubSeq(texts, 1, c - 2)
      BY <1>2, <2>1, SubSeqGrows DEF n
    <3> QED
      BY <2>1, <3>1, Zenon
  <2>6. PICK k : k = c + 1 /\ k \in Nat /\ k > 2 /\ k - 3 = c - 2
    BY <1>6, <1>7, <1>12
  <2>7. IsAt(q, ts, TRUE, row.label, SubSeq(texts, 1, k - 3))
    BY <2>3, <2>4, <2>6, Zenon
  <2>8. InTable(q, page, t, s, k)
    BY <2>6, <2>7, InRow, Zenon DEF ts, d
  <2> QED
    BY <2>6, <2>8, <1>12, <1>9, Zenon DEF e, z
<1>13. CASE c = n + 3
  <2>1. e = Page!Close("tr")
    BY <1>8, <1>13 DEF e
  <2>2. c > 2 /\ c - 3 = n
    BY <1>6, <1>13
  <2>3. SubSeq(texts, 1, c - 3) = texts
    <3>1. SubSeq(texts, 1, n) = texts
      BY <1>2, SubSeqGrows DEF n
    <3> QED
      BY <2>2, <3>1, Zenon
  <2>4. IsAt(p, ts, TRUE, row.label, texts)
    BY <1>4, <2>2, <2>3, Zenon
  <2> DEFINE last == ts[Len(ts)]
             grown == [last EXCEPT !.rows = Page!With(@, row.label, texts)]
  <2>5. IsAt(q, Ending(ts, grown), TRUE, None, <<>>)
    BY <2>1, <2>4, <1>3, FedCloseRow
  <2>6. last = TableFed(d, s)
    BY TablesFedIs DEF ts, d
  <2> HIDE DEF last
  <2>7. grown = TableFed(d, s + 1)
    <3>1. [TableFed(d, s) EXCEPT !.rows = Page!With(@, row.label, texts)] = TableFed(d, s + 1)
      BY <1>2, RowsGrow
    <3> QED
      BY <2>6, <3>1
  <2> HIDE DEF grown
  <2>8. Ending(ts, grown) = TablesFed(page, t, s + 1)
    BY <2>7, TablesChange DEF ts, d
  <2>9. IsAt(q, TablesFed(page, t, s + 1), TRUE, None, <<>>)
    BY <2>5, <2>8, Zenon DEF last, grown
  <2>10. InTable(q, page, t, s + 1, 1)
    <3>1. CASE s < 3
      <4>1. s + 1 \in 1 .. 3 /\ 1 \in 1 .. 2
        BY <3>1
      <4> QED
        BY <4>1, <2>9, AtRow, Zenon
    <3>2. CASE s = 3
      <4>1. s + 1 = 4
        BY <3>2
      <4> QED
        BY <4>1, <2>9, AtEnd, Zenon
    <3>3. s < 3 \/ s = 3
      OBVIOUS
    <3> QED
      BY <3>1, <3>2, <3>3, Zenon
  <2> QED
    BY <2>10, <1>13, <1>9, Zenon DEF e, z
<1>14. c = 1 \/ c = 2 \/ (c > 2 /\ c < n + 3) \/ c = n + 3
  BY <1>6, <1>7
<1> QED
  BY <1>10, <1>11, <1>12, <1>13, <1>14, Zenon DEF e, z

LEMMA PlaceIs ==
    /\ \A l \in 2 .. 16 : \E t \in 1 .. 3, s \in 0 .. 4 : l = 5 * t + s - 3
    /\ \A t \in 1 .. 3, s \in 0 .. 4 : 5 * t + s - 3 \in 2 .. 16
    /\ \A t, u \in 1 .. 3, s, v \in 0 .. 4 : 5 * t + s - 3 = 5 * u + v - 3 => t = u /\ s = v
<1>1. \A l \in 2 .. 16 : \E t \in 1 .. 3, s \in 0 .. 4 : l = 5 * t + s - 3
  <2> TAKE l \in 2 .. 16
  <2>1. CASE l < 7
    <3>1. l - 2 \in 0 .. 4 /\ l = 5 * 1 + (l - 2) - 3
      BY <2>1
    <3> QED
      BY <3>1
  <2>2. CASE l \in 7 .. 11
    <3>1. l - 7 \in 0 .. 4 /\ l = 5 * 2 + (l - 7) - 3
      BY <2>2
    <3> QED
      BY <3>1
  <2>3. CASE l > 11
    <3>1. l - 12 \in 0 .. 4 /\ l = 5 * 3 + (l - 12) - 3
      BY <2>3
    <3> QED
      BY <3>1
  <2> QED
    BY <2>1, <2>2, <2>3
<1>2. \A t \in 1 .. 3, s \in 0 .. 4 : 5 * t + s - 3 \in 2 .. 16
  OBVIOUS
<1>3. \A t, u \in 1 .. 3, s, v \in 0 .. 4 : 5 * t + s - 3 = 5 * u + v - 3 => t = u /\ s = v
  OBVIOUS
<1> QED
  BY <1>1, <1>2, <1>3

LEMMA AtInTable ==
    ASSUME NEW p, NEW page, NEW l, NEW c, NEW t \in 1 .. 3, NEW s \in 0 .. 4, l = 5 * t + s - 3,
           InTable(p, page, t, s, c)
    PROVE  At(p, page, l, c)
<1>1. l # 1 /\ l # 17
  BY PlaceIs
<1>2. \A u \in 1 .. 3, v \in 0 .. 4 : l = 5 * u + v - 3 => u = t /\ v = s
  BY PlaceIs
<1>3. \A u \in 1 .. 3, v \in 0 .. 4 : l = 5 * u + v - 3 => InTable(p, page, u, v, c)
  BY <1>2
<1> QED
  BY <1>1, <1>3, Zenon DEF At

LEMMA AtLast ==
    ASSUME NEW p, NEW page, NEW c, IsAt(p, TablesFed(page, 3, 4), FALSE, None, <<>>)
    PROVE  At(p, page, 17, c)
<1>1. \A t \in 1 .. 3, s \in 0 .. 4 : 17 # 5 * t + s - 3
  OBVIOUS
<1>2. 17 # 1
  OBVIOUS
<1> QED
  BY <1>1, <1>2, Zenon DEF At

\* The parser is fed what comes next, and is where it should be.
LEMMA FedIsAt ==
    ASSUME NEW page \in Pages, NEW l \in 1 .. 16, NEW c \in DOMAIN Page!Rendered(page)[l],
           NEW p, At(p, page, l, c)
    PROVE  LET q == Page!Fed(p, Page!Rendered(page)[l][c]) IN
           IF c < Len(Page!Rendered(page)[l]) THEN At(q, page, l, c + 1) ELSE At(q, page, l + 1, 1)
<1> DEFINE z == Page!Rendered(page)[l]
           q == Page!Fed(p, z[c])
<1>1. CASE l = 1
  <2>1. z = Page!SpanLine
    BY <1>1, RenderedIs
  <2>2. z \in Seq(ElementSet) /\ Len(z) = 2 /\ z[1] = Page!Cell("label", "Internet", "span")
        /\ z[2] = Page!Cell("value", "Active", "span")
    BY <2>1, SpanLineIs
  <2>3. c \in DOMAIN z
    OBVIOUS
  <2> HIDE DEF z
  <2>4. c = 1 \/ c = 2
    BY <2>2, <2>3
  <2>5. Heading(p, IF c = 1 THEN None ELSE "Internet")
    BY <1>1 DEF At
  <2>6. CASE c = 1
    <3>1. Heading(q, "Internet")
      BY <2>2, <2>5, <2>6, FedHeading
    <3>2. \A t \in 1 .. 3, s \in 0 .. 4 : 1 # 5 * t + s - 3
      OBVIOUS
    <3>3. 1 # 17 /\ 1 + 1 # 1
      OBVIOUS
    <3>4. At(q, page, 1, 1 + 1)
      BY <3>1, <3>2, <3>3, Zenon DEF At
    <3>5. c < Len(z)
      BY <2>2, <2>6
    <3> QED
      BY <3>4, <3>5, <1>1, <2>6, Zenon DEF z
  <2>7. CASE c = 2
    <3>0. c # 1
      BY <2>7
    <3>01. Heading(p, "Internet")
      BY <2>5, <3>0, Zenon
    <3>02. z[c] = Page!Cell("value", "Active", "span")
      BY <2>2, <2>7, Zenon
    <3>1. IsAt(q, <<>>, FALSE, None, <<>>)
      BY <3>01, <3>02, FedHeadingValue
    <3>2. TablesFed(page, 1 - 1, 4) = <<>>
      BY TablesFedIs DEF TablesFed
    <3>3. InTable(q, page, 1, 0, 1)
      BY <3>1, <3>2, AtStart, Zenon
    <3>4. 1 + 1 = 5 * 1 + 0 - 3 /\ 1 \in 1 .. 3 /\ 0 \in 0 .. 4
      OBVIOUS
    <3>5. At(q, page, 1 + 1, 1)
      BY <3>3, <3>4, AtInTable
    <3>6. ~(c < Len(z))
      BY <2>2, <2>7
    <3> QED
      BY <3>5, <3>6, <1>1, <2>7, Zenon DEF z
  <2> QED
    BY <2>4, <2>6, <2>7, Zenon DEF z
<1>2. CASE l # 1
  <2>1. PICK t \in 1 .. 3, s \in 0 .. 4 : l = 5 * t + s - 3
    BY <1>2, PlaceIs
  <2>2. InTable(p, page, t, s, c)
    BY <2>1 DEF At
  <2>3. z = Line(page, t, s)
    BY <2>1 DEF Line
  <2>4. NextPlace(q, page, t, s, c)
    <3>1. CASE s = 0
      BY <2>2, <2>3, <3>1, FedCaptionLine
    <3>2. CASE s \in 1 .. 3
      BY <2>2, <2>3, <3>2, FedRowLine
    <3>3. CASE s = 4
      BY <2>2, <2>3, <3>3, FedEndLine
    <3> QED
      BY <3>1, <3>2, <3>3
  <2> HIDE DEF z
  <2>5. CASE c < Len(z)
    <3>1. InTable(q, page, t, s, c + 1)
      BY <2>3, <2>4, <2>5 DEF NextPlace
    <3>2. At(q, page, l, c + 1)
      BY <2>1, <3>1, AtInTable
    <3> QED
      BY <3>2, <2>5, Zenon DEF z
  <2>6. CASE ~(c < Len(z)) /\ s < 4
    <3>1. InTable(q, page, t, s + 1, 1)
      BY <2>3, <2>4, <2>6 DEF NextPlace
    <3>2. l + 1 = 5 * t + (s + 1) - 3 /\ s + 1 \in 0 .. 4
      BY <2>1, <2>6
    <3>3. At(q, page, l + 1, 1)
      BY <3>1, <3>2, AtInTable
    <3> QED
      BY <3>3, <2>6, Zenon DEF z
  <2>7. CASE ~(c < Len(z)) /\ ~(s < 4) /\ t < 3
    <3>1. IsAt(q, TablesFed(page, t, 4), FALSE, None, <<>>)
      BY <2>3, <2>4, <2>7 DEF NextPlace
    <3>2. PICK u \in 1 .. 3 : u = t + 1 /\ u - 1 = t
      BY <2>7
    <3>3. InTable(q, page, u, 0, 1)
      BY <3>1, <3>2, AtStart, Zenon
    <3>4. l + 1 = 5 * u + 0 - 3 /\ 0 \in 0 .. 4
      BY <2>1, <2>7, <3>2
    <3>5. At(q, page, l + 1, 1)
      BY <3>3, <3>4, AtInTable
    <3> QED
      BY <3>5, <2>7, Zenon DEF z
  <2>8. CASE ~(c < Len(z)) /\ ~(s < 4) /\ t = 3
    <3>1. IsAt(q, TablesFed(page, t, 4), FALSE, None, <<>>)
      BY <2>3, <2>4, <2>8 DEF NextPlace
    <3>2. l + 1 = 17
      BY <2>1, <2>8
    <3>3. At(q, page, 17, 1)
      BY <3>1, <2>8, AtLast
    <3> QED
      BY <3>2, <3>3, <2>8, Zenon DEF z
  <2>9. t < 3 \/ t = 3
    OBVIOUS
  <2> QED
    BY <2>5, <2>6, <2>7, <2>8, <2>9, Zenon DEF z
<1> QED
  BY <1>1, <1>2, Zenon DEF z

-----------------------------------------------------------------------------
(***************************************************************************)
(* A connection that ends early leaves a part of the page.                 *)
(***************************************************************************)
Captures == {None, "label", "value", "caption", "row_label", "cell"}

\* Between two elements nothing is captured.
Rests(p, tables) ==
    \E fields, open, pending, text, label, cells :
        Is(p, fields, tables, open, pending, None, text, label, cells)

LEMMA IsAtRests ==
    ASSUME NEW p, NEW ts, NEW open, NEW label, NEW cells, IsAt(p, ts, open, label, cells)
    PROVE  Rests(p, ts)
  BY Zenon DEF IsAt, Holds, Rests

LEMMA HeadingRests == ASSUME NEW p, NEW pending, Heading(p, pending) PROVE Rests(p, <<>>)
  BY Zenon DEF Heading, Heads, Rests

LEMMA RestsThis == ASSUME NEW p, NEW ts, Rests(p, ts) PROVE p.tables = ts /\ p.capture = None
  BY IsThis DEF Rests

LEMMA Starts ==
    ASSUME NEW p, NEW ts, Rests(p, ts), NEW tag
    PROVE  LET q == Page!HandleStartTag(p, tag) IN
           /\ q.capture \in Captures
           /\ tag = "table" => q.tables = Append(ts, Page!NewTable)
           /\ tag # "table" => q.tables = ts
<1> DEFINE q == Page!HandleStartTag(p, tag)
<1>1. PICK fields, open, pending, text, label, cells :
         Is(p, fields, ts, open, pending, None, text, label, cells)
  BY DEF Rests
<1>2. PICK r : r = [p EXCEPT !.capture = None]
  OBVIOUS
<1>3. Is(r, fields, ts, open, pending, None, text, label, cells)
  BY <1>1, <1>2, IsWith
<1>4. Page!FinishCapture(p) = r
  <2>1. p.capture = None
    BY <1>1, IsThis
  <2> QED
    BY <2>1, <1>2, NoCapture DEF Page!FinishCapture
<1>5. ASSUME NEW kind \in Captures
      PROVE  /\ Page!StartCapture(p, kind).capture = kind
             /\ Page!StartCapture(p, kind).tables = ts
  <2>1. PICK x : x = [r EXCEPT !.capture = kind]
    OBVIOUS
  <2>2. Is(x, fields, ts, open, pending, kind, text, label, cells)
    BY <1>3, <2>1, IsWith
  <2>3. PICK y : y = [x EXCEPT !.buffer = ""]
    OBVIOUS
  <2>4. Is(y, fields, ts, open, pending, kind, "", label, cells)
    BY <2>2, <2>3, IsWith
  <2>5. Page!StartCapture(p, kind) = y
    BY <1>4, <2>1, <2>3 DEF Page!StartCapture
  <2> QED
    BY <2>4, <2>5, IsThis
<1>6. CASE q = p /\ tag # "table"
  BY <1>6, RestsThis DEF Captures
<1>7. CASE tag # "table" /\ \E kind \in Captures : q = Page!StartCapture(p, kind)
  BY <1>5, <1>7
<1>8. CASE tag = "table"
  <2>1. r.tables = ts
    BY <1>3, IsThis
  <2>2. q = [[r EXCEPT !.open = TRUE] EXCEPT !.tables = Append(ts, Page!NewTable)]
    BY <1>4, <1>8, <2>1 DEF Page!HandleStartTag
  <2>3. PICK x : x = [r EXCEPT !.open = TRUE]
    OBVIOUS
  <2>4. Is(x, fields, ts, TRUE, pending, None, text, label, cells)
    BY <1>3, <2>3, IsWith
  <2>5. Is([x EXCEPT !.tables = Append(ts, Page!NewTable)], fields, Append(ts, Page!NewTable),
           TRUE, pending, None, text, label, cells)
    BY <2>4, IsWith
  <2>6. Is(q, fields, Append(ts, Page!NewTable), TRUE, pending, None, text, label, cells)
    BY <2>2, <2>3, <2>5
  <2> HIDE DEF q
  <2>7. q.tables = Append(ts, Page!NewTable) /\ q.capture = None
    BY <2>6, IsThis
  <2> QED
    BY <1>8, <2>7 DEF Captures, q
<1>9. CASE tag = "tr" /\ p.open
  <2>1. q = [r EXCEPT !.rowLabel = None, !.rowCells = <<>>]
    BY <1>4, <1>9 DEF Page!HandleStartTag
  <2>2. PICK x : x = [r EXCEPT !.rowLabel = None]
    OBVIOUS
  <2>3. Is(x, fields, ts, open, pending, None, text, None, cells)
    BY <1>3, <2>2, IsWith
  <2>4. Is([x EXCEPT !.rowCells = <<>>], fields, ts, open, pending, None, text, None, <<>>)
    BY <2>3, IsWith
  <2>5. Is(q, fields, ts, open, pending, None, text, None, <<>>)
    BY <2>1, <2>2, <2>4
  <2> HIDE DEF q
  <2>6. q.tables = ts /\ q.capture = None
    BY <2>5, IsThis
  <2> QED
    BY <1>9, <2>6 DEF Captures, q
<1>10. \/ q = p /\ tag # "table"
       \/ tag # "table" /\ \E kind \in Captures : q = Page!StartCapture(p, kind)
       \/ tag = "table" \/ (tag = "tr" /\ p.open)
  BY DEF Page!HandleStartTag, Captures
<1> QED
  BY <1>6, <1>7, <1>8, <1>9, <1>10

LEMMA ElementIs ==
    ASSUME NEW e \in ElementSet
    PROVE  \E x, y, z : e = [open |-> x, text |-> y, close |-> z]
<1>1. ASSUME NEW tag, e = Page!Open(tag) PROVE \E x, y, z : e = [open |-> x, text |-> y, close |-> z]
  BY <1>1, Zenon DEF Page!Open
<1>2. ASSUME NEW tag, e = Page!Close(tag) PROVE \E x, y, z : e = [open |-> x, text |-> y, close |-> z]
  BY <1>2, Zenon DEF Page!Close
<1>3. ASSUME NEW tag, NEW text, NEW close, e = Page!Cell(tag, text, close)
      PROVE  \E x, y, z : e = [open |-> x, text |-> y, close |-> z]
  BY <1>3, Zenon DEF Page!Cell
<1> QED
  BY <1>1, <1>2, <1>3 DEF ElementSet

\* An element that is cut: its start tag and some text.
IsCutOf(f, e, part) == f = [e EXCEPT !.text = part, !.close = None]
CutGives(q, tables) == q.capture \in Captures /\ q.tables = tables

LEMMA CutElement ==
    ASSUME NEW p, NEW ts, Rests(p, ts), NEW e \in ElementSet, NEW part, NEW f, IsCutOf(f, e, part)
    PROVE  /\ e.open = "table" => CutGives(Page!Fed(p, f), Append(ts, Page!NewTable))
           /\ e.open # "table" => CutGives(Page!Fed(p, f), ts)
<1> DEFINE o == IF e.open = None THEN p ELSE Page!HandleStartTag(p, e.open)
           q == Page!Fed(p, f)
<1>1. f.open = e.open /\ f.text = part /\ f.close = None
  <2>1. PICK x, y, z : e = [open |-> x, text |-> y, close |-> z]
    BY ElementIs
  <2> QED
    BY <2>1 DEF IsCutOf
<1>2. /\ o.capture \in Captures
      /\ e.open = "table" => o.tables = Append(ts, Page!NewTable)
      /\ e.open # "table" => o.tables = ts
  <2>1. CASE e.open = None
    <3>1. o = p /\ e.open # "table" /\ p.tables = ts /\ p.capture = None
      BY <2>1, RestsThis, NoneIsNoText
    <3> HIDE DEF o
    <3> QED
      BY <3>1 DEF Captures
  <2>2. CASE e.open # None
    <3>1. o = Page!HandleStartTag(p, e.open)
      BY <2>2
    <3> HIDE DEF o
    <3> QED
      BY <3>1, Starts
  <2> QED
    BY <2>1, <2>2
<1>3. q = o \/ q = [o EXCEPT !.buffer = part]
  <2>1. o = IF f.open = None THEN p ELSE Page!HandleStartTag(p, f.open)
    BY <1>1
  <2>2. q = IF f.text = "" THEN o ELSE Page!HandleData(o, f.text)
    <3>1. PICK x : x = IF f.open = None THEN p ELSE Page!HandleStartTag(p, f.open)
      OBVIOUS
    <3>2. Page!Fed(p, f) = IF f.text = "" THEN x ELSE Page!HandleData(x, f.text)
      BY <1>1, <3>1 DEF Page!Fed
    <3>3. x = o
      BY <2>1, <3>1
    <3> HIDE DEF o
    <3> QED
      BY <3>2, <3>3
  <2> HIDE DEF o, q
  <2>3. q = o \/ q = Page!HandleData(o, part)
    BY <2>2, <1>1
  <2>4. Page!HandleData(o, part) = o \/ Page!HandleData(o, part) = [o EXCEPT !.buffer = part]
    BY DEF Page!HandleData
  <2> QED
    BY <2>3, <2>4
<1>4. [o EXCEPT !.buffer = part].capture = o.capture /\ [o EXCEPT !.buffer = part].tables = o.tables
  <2> HIDE DEF o
  <2> QED
    OBVIOUS
<1> HIDE DEF o, q
<1>5. q.capture = o.capture /\ q.tables = o.tables
  BY <1>3, <1>4
<1> QED
  BY <1>2, <1>5 DEF q, CutGives

LEMMA AtRests ==
    ASSUME NEW page, NEW l \in 1 .. 17, NEW c \in Nat \ {0}, NEW p, At(p, page, l, c)
    PROVE  \E n \in 0 .. 3, j \in 0 .. 4 : Rests(p, TablesFed(page, n, j))
<1>1. CASE l = 1
  <2>1. PICK pending : Heading(p, pending)
    BY <1>1 DEF At
  <2>2. Rests(p, <<>>)
    BY <2>1, HeadingRests
  <2>3. TablesFed(page, 0, 4) = <<>>
    BY TablesFedIs DEF TablesFed
  <2> QED
    BY <2>2, <2>3
<1>2. CASE l = 17
  <2>1. IsAt(p, TablesFed(page, 3, 4), FALSE, None, <<>>)
    BY <1>2, Zenon DEF At
  <2>2. Rests(p, TablesFed(page, 3, 4))
    BY <2>1, IsAtRests
  <2> QED
    BY <2>2
<1>3. CASE l \in 2 .. 16
  <2>1. PICK t \in 1 .. 3, s \in 0 .. 4 : l = 5 * t + s - 3
    BY <1>3, PlaceIs
  <2>2. InTable(p, page, t, s, c)
    BY <2>1 DEF At
  <2>3. CASE s = 0 /\ c = 1
    <3>1. IsAt(p, TablesFed(page, t - 1, 4), FALSE, None, <<>>)
      BY <2>2, <2>3, Zenon DEF InTable
    <3>2. Rests(p, TablesFed(page, t - 1, 4))
      BY <3>1, IsAtRests
    <3>3. t - 1 \in 0 .. 3 /\ 4 \in 0 .. 4
      OBVIOUS
    <3> QED
      BY <3>2, <3>3
  <2>4. CASE ~(s = 0 /\ c = 1)
    <3>1. PICK j \in 0 .. 4 : Rests(p, TablesFed(page, t, j))
      <4>0. 0 \in 0 .. 4 /\ 1 \in 0 .. 4 /\ 4 \in 0 .. 4 /\ s \in 0 .. 4
        OBVIOUS
      <4>1. CASE s = 0 /\ c \in {2, 3}
        <5>1. IsAt(p, TablesFed(page, t, 0), TRUE, None, <<>>)
          BY <2>2, <4>1, Zenon DEF InTable
        <5> QED
          BY <4>0, <5>1, IsAtRests, Zenon
      <4>2. CASE s = 0 /\ c > 3
        <5>1. IsAt(p, TablesFed(page, t, 1), TRUE, None, <<>>)
          BY <2>2, <4>2, Zenon DEF InTable
        <5> QED
          BY <4>0, <5>1, IsAtRests, Zenon
      <4>3. CASE s \in 1 .. 3 /\ c < 3
        <5>1. IsAt(p, TablesFed(page, t, s), TRUE, None, <<>>)
          BY <2>2, <4>3, Zenon DEF InTable
        <5> QED
          BY <4>0, <5>1, IsAtRests, Zenon
      <4>4. CASE s \in 1 .. 3 /\ c > 2
        <5>1. PICK label, cells : IsAt(p, TablesFed(page, t, s), TRUE, label, cells)
          BY <2>2, <4>4, Zenon DEF InTable
        <5> QED
          BY <4>0, <5>1, IsAtRests, Zenon
      <4>5. CASE s = 4
        <5>1. IsAt(p, TablesFed(page, t, 4), TRUE, None, <<>>)
          BY <2>2, <4>5, Zenon DEF InTable
        <5> QED
          BY <4>0, <5>1, IsAtRests, Zenon
      <4>6. (s = 0 \/ s \in 1 .. 3 \/ s = 4) /\ (c < 3 \/ c > 2)
            /\ (c = 1 \/ c \in {2, 3} \/ c > 3)
        OBVIOUS
      <4> QED
        BY <2>4, <4>1, <4>2, <4>3, <4>4, <4>5, <4>6, Zenon
    <3>2. t \in 0 .. 3
      OBVIOUS
    <3> QED
      BY <3>1, <3>2
  <2> QED
    BY <2>3, <2>4
<1>4. l = 1 \/ l = 17 \/ l \in 2 .. 16
  OBVIOUS
<1> QED
  BY <1>1, <1>2, <1>3, <1>4

LEMMA NoTable == None # "table"
  BY NoneIsNoText

LEMMA TagsAre ==
    /\ \A tag : Page!Open(tag).open = tag
    /\ \A tag : Page!Close(tag).open = None
    /\ \A tag, text, close : Page!Cell(tag, text, close).open = tag
  BY DEF Page!Open, Page!Close, Page!Cell

\* A table begins where the page opens one, and nowhere else.
LEMMA TableOpens ==
    ASSUME NEW page \in Pages, NEW t \in 1 .. 3, NEW s \in 0 .. 4, NEW c \in DOMAIN Line(page, t, s),
           Line(page, t, s)[c].open = "table"
    PROVE  s = 0 /\ c = 1
<1> DEFINE z == Line(page, t, s)
           d == Page!TablesOf(page)[t]
<1>0. c \in DOMAIN z /\ z[c].open = "table"
  OBVIOUS
<1>1. CASE s = 0
  <2> DEFINE n == Len(d.captions)
  <2>1. CaptionElements(z, d)
    BY <1>1, TableElements DEF Line
  <2>2. n \in Nat \ {0}
    BY CaptionsAre
  <2> HIDE DEF z, d
  <2>3. c \in 1 .. n + 3
    BY <1>0, <2>1, <2>2 DEF CaptionElements
  <2>4. /\ z[2] = Page!Open("tr") /\ z[n + 3] = Page!Close("tr")
        /\ \A i \in 1 .. n : z[i + 2] = Page!Cell("acs-th", d.captions[i], "td")
    BY <2>1 DEF CaptionElements
  <2> HIDE DEF n
  <2>5. c = 1 \/ c = 2 \/ c = n + 3 \/ (c - 2 \in 1 .. n /\ c - 2 + 2 = c)
    BY <2>2, <2>3
  <2>6. CASE c = 2
    BY <1>0, <2>4, <2>6, TagsAre
  <2>7. CASE c = n + 3
    BY <1>0, <2>4, <2>7, TagsAre, NoTable
  <2>8. CASE c - 2 \in 1 .. n /\ c - 2 + 2 = c
    <3>1. z[c] = Page!Cell("acs-th", d.captions[c - 2], "td")
      BY <2>4, <2>8, Zenon
    <3> QED
      BY <1>0, <3>1, TagsAre
  <2> QED
    BY <1>1, <2>5, <2>6, <2>7, <2>8
<1>2. CASE s \in 1 .. 3
  <2> DEFINE row == d.rows[s]
             n == Len(row.texts)
  <2>1. RowElements(z, row, page.close)
    BY <1>2, TableElements DEF Line
  <2>2. n \in Nat
    <3>1. row.texts \in Seq(Texts)
      BY <1>2, TablesAre DEF IsTable
    <3> HIDE DEF row
    <3> QED
      BY <3>1
  <2> HIDE DEF z, row
  <2>3. c \in 1 .. n + 3
    BY <1>0, <2>1, <2>2 DEF RowElements
  <2>4. /\ z[1] = Page!Open("tr") /\ z[2] = Page!Cell("th", row.label, page.close)
        /\ z[n + 3] = Page!Close("tr")
        /\ \A i \in 1 .. n : z[i + 2] = Page!Cell("td", row.texts[i], "td")
    BY <2>1 DEF RowElements
  <2> HIDE DEF n
  <2>5. c = 1 \/ c = 2 \/ c = n + 3 \/ (c - 2 \in 1 .. n /\ c - 2 + 2 = c)
    BY <2>2, <2>3
  <2>6. CASE c = 1 \/ c = 2
    BY <1>0, <2>4, <2>6, TagsAre
  <2>7. CASE c = n + 3
    BY <1>0, <2>4, <2>7, TagsAre, NoTable
  <2>8. CASE c - 2 \in 1 .. n /\ c - 2 + 2 = c
    <3>1. z[c] = Page!Cell("td", row.texts[c - 2], "td")
      BY <2>4, <2>8, Zenon
    <3> QED
      BY <1>0, <3>1, TagsAre
  <2> QED
    BY <2>5, <2>6, <2>7, <2>8
<1>3. CASE s = 4
  <2>1. EndElements(z)
    BY <1>3, TableElements DEF Line
  <2> HIDE DEF z
  <2>2. z[c] = Page!Close("table")
    BY <1>0, <2>1 DEF EndElements
  <2> QED
    BY <1>0, <2>2, TagsAre, NoTable
<1> QED
  BY <1>1, <1>2, <1>3

LEMMA AtIsPart ==
    ASSUME NEW page, NEW l \in 1 .. 17, NEW c \in Nat \ {0}, NEW p, At(p, page, l, c)
    PROVE  PartOf(p, page)
<1>1. PICK n \in 0 .. 3, j \in 0 .. 4 : Rests(p, TablesFed(page, n, j))
  BY AtRests
<1> QED
  BY <1>1, RestsThis DEF PartOf

LEMMA LineIs ==
    ASSUME NEW page \in Pages, NEW l \in 1 .. 16
    PROVE  Page!Rendered(page)[l] \in Seq(ElementSet)
<1> DEFINE S == Seq(ElementSet)
           w == Page!Rendered(page)
<1>1. IsLines(w, S, 16)
  BY RenderedIs
<1> HIDE DEF S, w
<1>2. w \in Seq(S) /\ l \in 1 .. Len(w)
  BY <1>1 DEF IsLines
<1>3. w[l] \in S
  BY <1>2
<1> QED
  BY <1>3 DEF w, S

LEMMA CutIsPart ==
    ASSUME NEW page \in Pages, NEW l \in 1 .. 16, NEW c \in DOMAIN Page!Rendered(page)[l],
           NEW p, At(p, page, l, c), NEW part, NEW f,
           IsCutOf(f, Page!Rendered(page)[l][c], part)
    PROVE  PartOf(Page!Fed(p, f), page)
<1> DEFINE z == Page!Rendered(page)[l]
           e == z[c]
<1>1. z \in Seq(ElementSet)
  BY LineIs
<1>2. e \in ElementSet /\ c \in Nat \ {0}
  <2> HIDE DEF z
  <2>1. c \in DOMAIN z
    BY DEF z
  <2> QED
    BY <1>1, <2>1
<1>3. IsCutOf(f, e, part)
  OBVIOUS
<1> HIDE DEF e
<1>4. CASE e.open # "table"
  <2>1. PICK n \in 0 .. 3, j \in 0 .. 4 : Rests(p, TablesFed(page, n, j))
    BY <1>2, AtRests
  <2>2. CutGives(Page!Fed(p, f), TablesFed(page, n, j))
    BY <1>2, <1>4, <1>3, <2>1, CutElement
  <2> QED
    BY <2>2 DEF PartOf, Captures, CutGives
<1>5. CASE e.open = "table"
  <2>1. l # 1
    <3>1. SUFFICES ASSUME l = 1 PROVE FALSE
      OBVIOUS
    <3>2. z = Page!SpanLine
      BY <3>1, RenderedIs
    <3>3. c = 1 \/ c = 2
      <4>1. z \in Seq(ElementSet) /\ Len(z) = 2
        BY <3>2, SpanLineIs
      <4>2. c \in DOMAIN z
        OBVIOUS
      <4> HIDE DEF z
      <4> QED
        BY <4>1, <4>2
    <3>4. e = Page!Cell("label", "Internet", "span") \/ e = Page!Cell("value", "Active", "span")
      BY <3>2, <3>3, SpanLineIs DEF e
    <3> QED
      BY <1>5, <3>4, TagsAre
  <2>2. PICK t \in 1 .. 3, s \in 0 .. 4 : l = 5 * t + s - 3
    BY <2>1, PlaceIs
  <2>3. z = Line(page, t, s)
    BY <2>2 DEF Line
  <2>4. s = 0 /\ c = 1
    BY <1>5, <2>3, TableOpens DEF e
  <2>5. InTable(p, page, t, s, c)
    BY <2>2 DEF At
  <2>6. IsAt(p, TablesFed(page, t - 1, 4), FALSE, None, <<>>)
    BY <2>4, <2>5, Zenon DEF InTable
  <2>7. Rests(p, TablesFed(page, t - 1, 4))
    BY <2>6, IsAtRests
  <2>8. CutGives(Page!Fed(p, f), Append(TablesFed(page, t - 1, 4), Page!NewTable))
    BY <1>2, <1>5, <1>3, <2>7, CutElement
  <2>9. Append(TablesFed(page, t - 1, 4), Page!NewTable) = TablesFed(page, t, 0)
    <3>1. t - 1 \in 0 .. 2 /\ t - 1 + 1 = t
      OBVIOUS
    <3> QED
      BY <3>1, TablesBegin
  <2>10. t \in 0 .. 3 /\ 0 \in 0 .. 4
    OBVIOUS
  <2> QED
    BY <2>8, <2>9, <2>10 DEF PartOf, Captures, CutGives
<1> QED
  BY <1>4, <1>5
-----------------------------------------------------------------------------
(***************************************************************************)
(* What is read from the tables the parser holds.                          *)
(***************************************************************************)
LEMMA FirstOf ==
    ASSUME NEW S, NEW d \in Nat, S \subseteq {d}
    PROVE  /\ Page!First(S) # 0 => Page!First(S) = d /\ d \in S
           /\ d \in S => Page!First(S) = d
<1>1. CASE S = {}
  BY <1>1 DEF Page!First
<1>2. CASE S = {d}
  BY <1>2 DEF Page!First
<1> QED
  BY <1>1, <1>2

\* Every table that has been begun is one of the page, the last one in part.
LEMMA TableAt ==
    ASSUME NEW page, NEW n \in 0 .. 3, NEW j \in 0 .. 4, NEW u \in 1 .. n
    PROVE  \E k \in 0 .. 4 : /\ TablesFed(page, n, j)[u] = TableFed(Page!TablesOf(page)[u], k)
                             /\ u < n => k = 4
                             /\ u = n => k = j
<1> DEFINE ts == TablesFed(page, n, j)
<1>1. /\ ts[n] = TableFed(Page!TablesOf(page)[n], j)
      /\ \A v \in 1 .. n - 1 : ts[v] = TableFed(Page!TablesOf(page)[v], 4)
  BY TablesFedIs
<1> HIDE DEF ts
<1>2. CASE u = n
  BY <1>1, <1>2 DEF ts
<1>3. CASE u < n
  <2>1. u \in 1 .. n - 1 /\ 4 \in 0 .. 4 /\ u # n
    BY <1>3
  <2> QED
    BY <1>1, <1>3, <2>1 DEF ts
<1> QED
  BY <1>2, <1>3

LEMMA RowIs ==
    ASSUME NEW d, IsTable(d), NEW j \in 0 .. 4
    PROVE  /\ \A r \in 1 .. 3 : r < j => Page!Row(TableFed(d, j), d.rows[r].label) = d.rows[r].texts
           /\ \A r \in 1 .. 3 : ~(r < j) => Page!Row(TableFed(d, j), d.rows[r].label) = <<>>
           /\ \A label : (\A r \in 1 .. 3 : d.rows[r].label # label)
                         => Page!Row(TableFed(d, j), label) = <<>>
<1> DEFINE rows == TableFed(d, j).rows
<1>1. /\ DOMAIN rows = Labels(d, j - 1)
      /\ \A r \in 1 .. j - 1 : d.rows[r].label \in Labels(d, j - 1)
                               /\ rows[d.rows[r].label] = d.rows[r].texts
  BY RowOfTable
<1>2. \A label : Page!Row(TableFed(d, j), label)
                 = IF label \in DOMAIN rows THEN rows[label] ELSE <<>>
  BY DEF Page!Row
<1> HIDE DEF rows
<1>3. \A label \in Labels(d, j - 1) : \E q \in 1 .. 3 : q < j /\ label = d.rows[q].label
  BY DEF Labels
<1>4. \A r \in 1 .. 3 : r < j => Page!Row(TableFed(d, j), d.rows[r].label) = d.rows[r].texts
  BY <1>1, <1>2
<1>5. ASSUME NEW r \in 1 .. 3, ~(r < j)
      PROVE  Page!Row(TableFed(d, j), d.rows[r].label) = <<>>
  <2>1. d.rows[r].label \notin Labels(d, j - 1)
    BY <1>3, <1>5 DEF IsTable
  <2> QED
    BY <2>1, <1>1, <1>2
<1>6. ASSUME NEW label, \A r \in 1 .. 3 : d.rows[r].label # label
      PROVE  Page!Row(TableFed(d, j), label) = <<>>
  <2>1. label \notin Labels(d, j - 1)
    BY <1>3, <1>6
  <2> QED
    BY <2>1, <1>1, <1>2
<1> QED
  BY <1>4, <1>5, <1>6

LEMMA FirstLabels ==
    /\ Page!ChannelRows[1] = "Index" /\ Page!ChannelRows[2] = "Lock Status"
    /\ Page!ChannelRows[3] = "Power Level"
    /\ \A r \in 1 .. 3 : Page!CodewordRows[r] # "Index"
<1>1. /\ Page!ChannelRows[1] = "Index" /\ Page!ChannelRows[2] = "Lock Status"
      /\ Page!ChannelRows[3] = "Power Level"
  BY LabelsAre
<1>2. 1 \in 1 .. 3
  OBVIOUS
<1>3. \A r \in 1 .. 3 : Page!ChannelRows[1] # Page!CodewordRows[r]
  BY <1>2, LabelsDiffer
<1> QED
  BY <1>1, <1>3, Zenon

LEMMA ThreeTables ==
    ASSUME NEW page \in Pages, NEW u \in 1 .. 3
    PROVE  u = DownstreamAt(page) \/ u = 3 - DownstreamAt(page) \/ u = 3
  BY TablesAre

LEMMA TitledIs == ASSUME NEW d, NEW j \in 1 .. 4 PROVE TableFed(d, j).caption = d.captions[1]
  BY TableFedIs

LEMMA UpstreamLocks ==
    ASSUME NEW page \in Pages
    PROVE  \A i \in DOMAIN Page!UpstreamOf(page).rows[2].texts :
              Page!UpstreamOf(page).rows[2].texts[i] = ""
  BY UpstreamIs, Zenon

LEMMA Begun == \A k \in 0 .. 4 : k # 0 => k \in 1 .. 4
  OBVIOUS

\* A table with an index and with a lock status is the downstream table.
LEMMA OnlyDownstream ==
    ASSUME NEW page \in Pages, NEW u \in 1 .. 3, NEW k \in 0 .. 4,
           Page!IsDownstream(TableFed(Page!TablesOf(page)[u], k))
    PROVE  u = DownstreamAt(page)
<1> DEFINE d == Page!TablesOf(page)[u]
           t == TableFed(d, k)
<1>1. IsTable(d)
  BY TablesAre
<1>2. /\ Page!Row(t, "Index") # <<>>
      /\ \E cell \in Page!Range(Page!Row(t, "Lock Status")) : cell # ""
  BY DEF Page!IsDownstream
<1>3. u # 3
  <2>1. SUFFICES ASSUME u = 3 PROVE FALSE
    OBVIOUS
  <2>2. d = Page!CodewordsOf(page)
    BY <2>1, TablesAre
  <2>3. \A r \in 1 .. 3 : d.rows[r].label # "Index"
    BY <2>2, CodewordsIs, FirstLabels, ZenonT(30)
  <2> HIDE DEF d
  <2>4. Page!Row(t, "Index") = <<>>
    BY <1>1, <2>3, RowIs, ZenonT(30)
  <2> QED
    BY ONLY <1>2, <2>4, Zenon
<1>4. u # 3 - DownstreamAt(page)
  <2>1. SUFFICES ASSUME u = 3 - DownstreamAt(page) PROVE FALSE
    OBVIOUS
  <2>2. d = Page!UpstreamOf(page)
    BY <2>1, TablesAre
  <2>3. 2 \in 1 .. 3 /\ (2 < k \/ ~(2 < k))
    OBVIOUS
  <2>4. d.rows[2].label = Page!ChannelRows[2]
    BY <2>2, <2>3, UpstreamIs, ZenonT(30)
  <2>5. \A i \in DOMAIN d.rows[2].texts : d.rows[2].texts[i] = ""
    BY <2>2, UpstreamLocks, Zenon
  <2> HIDE DEF d
  <2>6. d.rows[2].label = "Lock Status"
    BY <2>4, FirstLabels
  <2>7. Page!Row(t, "Lock Status") \in {d.rows[2].texts, <<>>}
    <3>1. Page!Row(t, d.rows[2].label) = d.rows[2].texts \/ Page!Row(t, d.rows[2].label) = <<>>
      BY <1>1, <2>3, RowIs
    <3> QED
      BY <2>6, <3>1
  <2>8. DOMAIN <<>> = {}
    OBVIOUS
  <2> QED
    BY <1>2, <2>5, <2>7, <2>8 DEF Page!Range
<1>5. DownstreamAt(page) \in 1 .. 2
  BY TablesAre
<1> QED
  BY <1>3, <1>4, <1>5

IsCodewords(held) == held.caption = "CM Error Codewords"
CodewordTable(tables) == Page!TableWithCaption(tables, "CM Error Codewords")

LEMMA CodewordTableIs ==
    \A tables : CodewordTable(tables) = Page!First({t \in DOMAIN tables : IsCodewords(tables[t])})
  BY DEF CodewordTable, IsCodewords, Page!TableWithCaption

\* The caption of the codewords is that of the third table alone.
LEMMA OnlyCodewords ==
    ASSUME NEW page \in Pages, NEW u \in 1 .. 3, NEW k \in 0 .. 4,
           IsCodewords(TableFed(Page!TablesOf(page)[u], k))
    PROVE  u = 3 /\ k # 0
<1> DEFINE d == Page!TablesOf(page)[u]
<1>1. k # 0
  BY UntitledIs DEF IsCodewords
<1>2. d.captions[1] = "CM Error Codewords"
  <2>1. k \in 1 .. 4
    BY <1>1, Begun
  <2> QED
    BY <2>1, TitledIs DEF IsCodewords
<1>3. CASE u = DownstreamAt(page)
  <2>1. d.captions[1] = "Downstream"
    BY <1>3, TablesAre, DownstreamIs
  <2> QED
    BY <2>1, <1>2
<1>4. CASE u = 3 - DownstreamAt(page)
  <2>1. d.captions[1] = "Upstream"
    BY <1>4, TablesAre, UpstreamIs
  <2> QED
    BY <2>1, <1>2
<1> QED
  BY <1>1, <1>3, <1>4, ThreeTables

LEMMA DownstreamFound ==
    ASSUME NEW page \in Pages, NEW n \in 0 .. 3, NEW j \in 0 .. 4,
           Page!DownstreamTable(TablesFed(page, n, j)) # 0
    PROVE  /\ Page!DownstreamTable(TablesFed(page, n, j)) = DownstreamAt(page)
           /\ DownstreamAt(page) \in 1 .. n
           /\ Page!IsDownstream(TablesFed(page, n, j)[DownstreamAt(page)])
<1> DEFINE ts == TablesFed(page, n, j)
           S == {t \in DOMAIN ts : Page!IsDownstream(ts[t])}
<1>1. DOMAIN ts = 1 .. n
  BY TablesFedIs
<1>2. S \subseteq {DownstreamAt(page)}
  <2>1. SUFFICES ASSUME NEW u \in 1 .. n, Page!IsDownstream(ts[u]) PROVE u = DownstreamAt(page)
    BY <1>1
  <2>2. PICK k \in 0 .. 4 : ts[u] = TableFed(Page!TablesOf(page)[u], k)
    BY TableAt
  <2>3. u \in 1 .. 3
    OBVIOUS
  <2> HIDE DEF ts
  <2> QED
    BY <2>1, <2>2, <2>3, OnlyDownstream
<1>3. DownstreamAt(page) \in Nat
  BY TablesAre
<1>4. Page!First(S) # 0
  BY DEF Page!DownstreamTable
<1>5. Page!First(S) = DownstreamAt(page) /\ DownstreamAt(page) \in S
  <2> HIDE DEF S
  <2> QED
    BY <1>2, <1>3, <1>4, FirstOf
<1> QED
  BY <1>1, <1>5 DEF Page!DownstreamTable

LEMMA CodewordsFound ==
    ASSUME NEW page \in Pages, NEW n \in 0 .. 3, NEW j \in 0 .. 4,
           CodewordTable(TablesFed(page, n, j)) # 0
    PROVE  n = 3 /\ j # 0 /\ CodewordTable(TablesFed(page, n, j)) = 3
<1> DEFINE ts == TablesFed(page, n, j)
           S == {t \in DOMAIN ts : IsCodewords(ts[t])}
<1>1. DOMAIN ts = 1 .. n
  BY TablesFedIs
<1>2. \A u \in 1 .. n : IsCodewords(ts[u]) => u = 3 /\ (u = n => j # 0)
  <2>1. SUFFICES ASSUME NEW u \in 1 .. n, IsCodewords(ts[u]) PROVE u = 3 /\ (u = n => j # 0)
    OBVIOUS
  <2>2. PICK k \in 0 .. 4 : ts[u] = TableFed(Page!TablesOf(page)[u], k) /\ (u = n => k = j)
    BY TableAt
  <2>3. u \in 1 .. 3
    OBVIOUS
  <2> HIDE DEF ts
  <2> QED
    BY <2>1, <2>2, <2>3, OnlyCodewords
<1>3. S \subseteq {3}
  BY <1>1, <1>2
<1>4. Page!First(S) # 0
  BY CodewordTableIs
<1>5. Page!First(S) = 3 /\ 3 \in S
  <2> HIDE DEF S
  <2> QED
    BY <1>3, <1>4, FirstOf
<1>6. 3 \in 1 .. n /\ IsCodewords(ts[3])
  BY <1>1, <1>5
<1>7. n = 3
  BY <1>6
<1>8. j # 0
  BY <1>2, <1>6, <1>7
<1> QED
  BY <1>5, <1>7, <1>8, CodewordTableIs

LEMMA TablesFound ==
    ASSUME NEW page \in Pages, NEW n \in 0 .. 3, NEW j \in 0 .. 4, NEW p, p.tables = TablesFed(page, n, j),
           Page!DownstreamTable(p.tables) # 0,
           CodewordTable(p.tables) # 0
    PROVE  /\ n = 3 /\ j # 0
           /\ Page!Downstream(p) = TableFed(Page!DownstreamOf(page), 4)
           /\ Page!Codewords(p) = TableFed(Page!CodewordsOf(page), j)
           /\ Page!IsDownstream(TableFed(Page!DownstreamOf(page), 4))
<1> DEFINE ts == TablesFed(page, n, j)
           dn == DownstreamAt(page)
<1>1. n = 3 /\ j # 0 /\ CodewordTable(ts) = 3
  BY CodewordsFound
<1>2. Page!DownstreamTable(ts) = dn /\ Page!IsDownstream(ts[dn])
  BY DownstreamFound
<1>3. dn \in 1 .. 2 /\ Page!TablesOf(page)[dn] = Page!DownstreamOf(page)
      /\ Page!TablesOf(page)[3] = Page!CodewordsOf(page)
  BY TablesAre
<1>4. n = 3 /\ j # 0
  BY <1>1
<1>5. ts[dn] = TableFed(Page!DownstreamOf(page), 4)
  <2>1. dn \in 1 .. n /\ dn < n
    <3> HIDE DEF dn
    <3> QED
      BY <1>3, <1>4
  <2> HIDE DEF dn
  <2>2. PICK k \in 0 .. 4 : ts[dn] = TableFed(Page!TablesOf(page)[dn], k) /\ (dn < n => k = 4)
    BY <2>1, TableAt
  <2> QED
    BY <1>3, <2>1, <2>2
<1>6. ts[3] = TableFed(Page!CodewordsOf(page), j)
  <2>1. PICK k \in 0 .. 4 : ts[3] = TableFed(Page!TablesOf(page)[3], k) /\ (3 = n => k = j)
    BY <1>4, TableAt
  <2> QED
    BY <1>3, <1>4, <2>1
<1> HIDE DEF ts, dn
<1>7. Page!Downstream(p) = ts[dn]
  BY <1>2 DEF Page!Downstream, ts
<1>8. Page!Codewords(p) = ts[3]
  BY <1>1 DEF Page!Codewords, CodewordTable, ts
<1> QED
  BY <1>2, <1>4, <1>5, <1>6, <1>7, <1>8

\* What the reader asks of the tables, row by row.
FieldsAreRight(p) == "Internet" \in DOMAIN p.fields /\ p.fields["Internet"] \in {"Active", "Inactive"}
ChannelRow(p, r) == Page!Row(Page!Downstream(p), Page!ChannelRows[r])
CodewordRow(p, r) == Page!Row(Page!Codewords(p), Page!CodewordRows[r])

TablesAreRight(p) ==
    /\ Page!DownstreamTable(p.tables) # 0 /\ CodewordTable(p.tables) # 0
    /\ \A r \in 1 .. 3 : Len(ChannelRow(p, r)) = Page!Width(p) /\ Len(CodewordRow(p, r)) = Page!Width(p)
CellsAreRight(p) ==
    /\ \A i \in DOMAIN ChannelRow(p, 1) : ChannelRow(p, 1)[i] \in DOMAIN Page!Numerals
    /\ \A i, k \in DOMAIN ChannelRow(p, 1) : ChannelRow(p, 1)[i] = ChannelRow(p, 1)[k] => i = k
    /\ \A i \in DOMAIN ChannelRow(p, 2) : ChannelRow(p, 2)[i] \in DOMAIN Page!LockStatus
    /\ \A i \in DOMAIN ChannelRow(p, 3) : Page!Counts(ChannelRow(p, 3)[i])
    /\ \A r \in DOMAIN Page!CountRows(p) : \A i \in DOMAIN Page!CountRows(p)[r] :
          Page!Counts(Page!CountRows(p)[r][i])

LEMMA RowsAre ==
    ASSUME NEW p
    PROVE  /\ Page!Row(Page!Downstream(p), "Index") = ChannelRow(p, 1)
           /\ Page!Row(Page!Downstream(p), "Lock Status") = ChannelRow(p, 2)
           /\ Page!Row(Page!Downstream(p), "Power Level") = ChannelRow(p, 3)
           /\ Page!Width(p) = Len(ChannelRow(p, 1))
<1>1. /\ Page!ChannelRows[1] = "Index" /\ Page!ChannelRows[2] = "Lock Status"
      /\ Page!ChannelRows[3] = "Power Level"
  BY FirstLabels
<1> QED
  BY <1>1, Zenon DEF ChannelRow, Page!Width

LEMMA RangesOfRows ==
    /\ Page!Range(Page!ChannelRows) = {Page!ChannelRows[r] : r \in 1 .. 3}
    /\ Page!Range(Page!CodewordRows) = {Page!CodewordRows[r] : r \in 1 .. 3}
  BY LabelsAre, Zenon DEF Page!Range

LEMMA ParsesIs ==
    ASSUME NEW p
    PROVE  Page!Parses(p) <=> FieldsAreRight(p) /\ TablesAreRight(p) /\ CellsAreRight(p)
<1> DEFINE lengths ==
             /\ \A label \in Page!Range(Page!ChannelRows) :
                   Len(Page!Row(Page!Downstream(p), label)) = Page!Width(p)
             /\ \A label \in Page!Range(Page!CodewordRows) :
                   Len(Page!Row(Page!Codewords(p), label)) = Page!Width(p)
           indexes == ChannelRow(p, 1)
           cells ==
             /\ (\A i \in DOMAIN indexes : indexes[i] \in DOMAIN Page!Numerals) /\ Page!IsInjective(indexes)
             /\ \A text \in Page!Range(ChannelRow(p, 2)) : text \in DOMAIN Page!LockStatus
             /\ \A text \in Page!Range(ChannelRow(p, 3)) : Page!Counts(text)
             /\ \A row \in Page!Range(Page!CountRows(p)) : \A text \in Page!Range(row) : Page!Counts(text)
<1>1. Page!Parses(p) <=> /\ FieldsAreRight(p)
                         /\ Page!DownstreamTable(p.tables) # 0 /\ CodewordTable(p.tables) # 0
                         /\ lengths /\ cells
  BY RowsAre, Zenon DEF Page!Parses, FieldsAreRight, CodewordTable
<1>2. lengths <=> \A r \in 1 .. 3 : Len(ChannelRow(p, r)) = Page!Width(p)
                                    /\ Len(CodewordRow(p, r)) = Page!Width(p)
  BY RangesOfRows, Zenon DEF ChannelRow, CodewordRow
<1>3. cells <=> CellsAreRight(p)
  BY Zenon DEF CellsAreRight, Page!Range, Page!IsInjective
<1> HIDE DEF lengths, cells
<1> QED
  BY <1>1, <1>2, <1>3 DEF TablesAreRight

LEMMA FaultIs ==
    ASSUME NEW page \in Pages
    PROVE  /\ page.fault # None => \E r \in 1 .. 3 : \/ page.fault = Page!ChannelRows[r]
                                                     \/ page.fault = Page!CodewordRows[r]
           /\ page.fault = None => \A r \in 1 .. 3 : /\ page.fault # Page!ChannelRows[r]
                                                     /\ page.fault # Page!CodewordRows[r]
<1>1. page.fault # None => page.fault \in Page!Range(Page!ChannelRows) \cup Page!Range(Page!CodewordRows)
  BY PageAssumption DEF Page!Assumption
<1>2. ASSUME page.fault = None, NEW r \in 1 .. 3
      PROVE  page.fault # Page!ChannelRows[r] /\ page.fault # Page!CodewordRows[r]
  BY <1>2, LabelsDiffer, NoneIsNoText, Zenon
<1> QED
  BY <1>1, <1>2, RangesOfRows

\* The texts a page without a fault shows, as the tables of the parser hold them.
Reads(p, page) ==
    /\ \A r \in 1 .. 3 : ChannelRow(p, r) = ChannelTexts(page, r)
    /\ \A r \in 1 .. 3 : CodewordRow(p, r) = CodewordTexts(page, r)

LEMMA RowsOfTables ==
    ASSUME NEW page \in Pages, NEW j \in 0 .. 4, NEW p,
           Page!Downstream(p) = TableFed(Page!DownstreamOf(page), 4),
           Page!Codewords(p) = TableFed(Page!CodewordsOf(page), j)
    PROVE  /\ \A r \in 1 .. 3 : ChannelRow(p, r) = Page!DownstreamOf(page).rows[r].texts
           /\ \A r \in 1 .. 3 : r < j => CodewordRow(p, r) = Page!CodewordsOf(page).rows[r].texts
           /\ \A r \in 1 .. 3 : ~(r < j) => CodewordRow(p, r) = <<>>
<1> DEFINE d == Page!DownstreamOf(page)
           w == Page!CodewordsOf(page)
<1>1. IsTable(d) /\ \A r \in 1 .. 3 : d.rows[r].label = Page!ChannelRows[r]
  BY DownstreamIs
<1>2. IsTable(w) /\ \A r \in 1 .. 3 : w.rows[r].label = Page!CodewordRows[r]
  BY CodewordsIs
<1> HIDE DEF d, w
<1>3. 4 \in 0 .. 4 /\ \A r \in 1 .. 3 : r < 4
  OBVIOUS
<1>4. \A r \in 1 .. 3 : Page!Row(TableFed(d, 4), d.rows[r].label) = d.rows[r].texts
  BY <1>1, <1>3, RowIs
<1>5. /\ \A r \in 1 .. 3 : r < j => Page!Row(TableFed(w, j), w.rows[r].label) = w.rows[r].texts
      /\ \A r \in 1 .. 3 : ~(r < j) => Page!Row(TableFed(w, j), w.rows[r].label) = <<>>
  BY <1>2, RowIs
<1> QED
  BY <1>1, <1>2, <1>4, <1>5 DEF ChannelRow, CodewordRow, d, w

LEMMA TextsAre ==
    ASSUME NEW page \in Pages
    PROVE  /\ \A r \in 1 .. 3 : Page!DownstreamOf(page).rows[r].texts \in Seq(Texts)
           /\ \A r \in 1 .. 3 : Page!CodewordsOf(page).rows[r].texts \in Seq(Texts)
           /\ \A r \in 1 .. 3 : page.fault # Page!ChannelRows[r] =>
                 Page!DownstreamOf(page).rows[r].texts = ChannelTexts(page, r)
           /\ \A r \in 1 .. 3 : page.fault # Page!CodewordRows[r] =>
                 Page!CodewordsOf(page).rows[r].texts = CodewordTexts(page, r)
<1>1. IsTable(Page!DownstreamOf(page)) /\ IsTable(Page!CodewordsOf(page))
  BY DownstreamIs, CodewordsIs
<1>2. \A r \in 1 .. 3 : page.fault # Page!ChannelRows[r] =>
         Page!DownstreamOf(page).rows[r].texts = ChannelTexts(page, r)
  BY DownstreamIs, Zenon
<1>3. \A r \in 1 .. 3 : page.fault # Page!CodewordRows[r] =>
         Page!CodewordsOf(page).rows[r].texts = CodewordTexts(page, r)
  BY CodewordsIs, Zenon
<1> QED
  BY <1>1, <1>2, <1>3 DEF IsTable

LEMMA LengthsAre ==
    ASSUME NEW page \in Pages
    PROVE  LET n == Len(page.channels)
               d == Page!DownstreamOf(page)
               w == Page!CodewordsOf(page)
           IN  /\ n \in Nat \ {0}
               /\ \A r \in 1 .. 3 : /\ page.fault = Page!ChannelRows[r] => Len(d.rows[r].texts) = n - 1
                                    /\ page.fault # Page!ChannelRows[r] => Len(d.rows[r].texts) = n
               /\ \A r \in 1 .. 3 : /\ page.fault = Page!CodewordRows[r] => Len(w.rows[r].texts) = n - 1
                                    /\ page.fault # Page!CodewordRows[r] => Len(w.rows[r].texts) = n
<1> DEFINE n == Len(page.channels)
           d == Page!DownstreamOf(page)
           w == Page!CodewordsOf(page)
<1>1. n \in Nat \ {0}
  BY ChannelIs
<1>2. \A r \in 1 .. 3 : Len(ChannelTexts(page, r)) = n /\ Len(CodewordTexts(page, r)) = n
  BY ChannelTextsAre, CodewordTextsAre
<1>3. \A r \in 1 .. 3 : page.fault = Page!ChannelRows[r] => Len(d.rows[r].texts) = n - 1
  BY DownstreamIs, Zenon
<1>4. \A r \in 1 .. 3 : page.fault = Page!CodewordRows[r] => Len(w.rows[r].texts) = n - 1
  BY CodewordsIs, Zenon
<1>5. \A r \in 1 .. 3 : page.fault # Page!ChannelRows[r] => Len(d.rows[r].texts) = n
  BY <1>2, TextsAre
<1>6. \A r \in 1 .. 3 : page.fault # Page!CodewordRows[r] => Len(w.rows[r].texts) = n
  BY <1>2, TextsAre
<1> QED
  BY <1>1, <1>3, <1>4, <1>5, <1>6, Zenon

\* The tables are right if no row lacks a cell, and no line is missing.
LEMMA PageIsRead ==
    ASSUME NEW page \in Pages, NEW n \in 0 .. 3, NEW j \in 0 .. 4, NEW p, p.tables = TablesFed(page, n, j),
           TablesAreRight(p)
    PROVE  page.fault = None /\ Reads(p, page)
<1> DEFINE d == Page!DownstreamOf(page)
           w == Page!CodewordsOf(page)
           m == Len(page.channels)
<1>1. /\ Page!Downstream(p) = TableFed(d, 4) /\ Page!Codewords(p) = TableFed(w, j)
      /\ Page!IsDownstream(TableFed(d, 4))
  BY TablesFound DEF TablesAreRight
<1>2. /\ \A r \in 1 .. 3 : ChannelRow(p, r) = d.rows[r].texts
      /\ \A r \in 1 .. 3 : r < j => CodewordRow(p, r) = w.rows[r].texts
      /\ \A r \in 1 .. 3 : ~(r < j) => CodewordRow(p, r) = <<>>
  BY <1>1, RowsOfTables
<1>3. Page!Width(p) = Len(d.rows[1].texts) /\ d.rows[1].texts # <<>>
  <2>1. Page!Row(Page!Downstream(p), "Index") # <<>>
    BY <1>1 DEF Page!IsDownstream
  <2>2. ChannelRow(p, 1) # <<>> /\ Page!Width(p) = Len(ChannelRow(p, 1))
    BY <2>1, RowsAre
  <2>3. ChannelRow(p, 1) = d.rows[1].texts
    BY <1>2
  <2> HIDE DEF d
  <2> QED
    BY <2>2, <2>3
<1>4. \A r \in 1 .. 3 : Len(d.rows[r].texts) = Page!Width(p) /\ Len(CodewordRow(p, r)) = Page!Width(p)
  BY <1>2 DEF TablesAreRight
<1>5. Page!Width(p) \in Nat \ {0}
  <2>1. d.rows[1].texts \in Seq(Texts)
    BY TextsAre
  <2> HIDE DEF d
  <2> QED
    BY <1>3, <2>1
<1>6. \A r \in 1 .. 3 : r < j
  <2>1. SUFFICES ASSUME NEW r \in 1 .. 3, ~(r < j) PROVE FALSE
    OBVIOUS
  <2>2. Len(CodewordRow(p, r)) = 0
    BY <1>2, <2>1
  <2> QED
    BY <1>4, <1>5, <2>2
<1>7. /\ m \in Nat \ {0}
      /\ \A r \in 1 .. 3 : /\ page.fault = Page!ChannelRows[r] => Len(d.rows[r].texts) = m - 1
                           /\ page.fault # Page!ChannelRows[r] => Len(d.rows[r].texts) = m
      /\ \A r \in 1 .. 3 : /\ page.fault = Page!CodewordRows[r] => Len(w.rows[r].texts) = m - 1
                           /\ page.fault # Page!CodewordRows[r] => Len(w.rows[r].texts) = m
  BY LengthsAre
<1>8. \A r \in 1 .. 3 : Len(w.rows[r].texts) = Page!Width(p)
  BY <1>2, <1>4, <1>6
<1> HIDE DEF d, w, m
<1>9. page.fault = None
  <2>1. SUFFICES ASSUME page.fault # None PROVE FALSE
    OBVIOUS
  <2>2. ASSUME NEW r \in 1 .. 3, page.fault = Page!ChannelRows[r] PROVE FALSE
    <3>1. PICK q \in 1 .. 3 : q # r
      OBVIOUS
    <3>2. page.fault # Page!ChannelRows[q]
      BY <2>2, <3>1, LabelsDiffer
    <3>3. Len(d.rows[r].texts) = m - 1 /\ Len(d.rows[q].texts) = m
      BY <1>7, <2>2, <3>2
    <3>4. Len(d.rows[r].texts) = Len(d.rows[q].texts)
      BY <1>4
    <3> QED
      BY <1>7, <3>3, <3>4
  <2>3. ASSUME NEW r \in 1 .. 3, page.fault = Page!CodewordRows[r] PROVE FALSE
    <3>1. page.fault # Page!ChannelRows[r]
      BY <2>3, LabelsDiffer
    <3>2. Len(w.rows[r].texts) = m - 1 /\ Len(d.rows[r].texts) = m
      BY <1>7, <2>3, <3>1
    <3>3. Len(w.rows[r].texts) = Len(d.rows[r].texts)
      BY <1>4, <1>8
    <3> QED
      BY <1>7, <3>2, <3>3
  <2> QED
    BY <2>1, <2>2, <2>3, FaultIs
<1>10. \A r \in 1 .. 3 : d.rows[r].texts = ChannelTexts(page, r) /\ w.rows[r].texts = CodewordTexts(page, r)
  BY <1>9, FaultIs, TextsAre DEF d, w
<1> QED
  BY <1>2, <1>6, <1>9, <1>10 DEF Reads

\* The first column of the page repeats the last, and the reader can tell.
ShownRows(page) == [r \in 1 .. 3 |-> CodewordTexts(page, r)]
FirstDropped(page) == Len(page.channels) > 1 /\ Page!FirstColumnRepeatsLast(ShownRows(page))
IsZero(text) == text = "0"

LEMMA EndsOf == ASSUME NEW S, NEW q \in Seq(S), NEW n \in Nat, n > 0, Len(q) = n
                PROVE  Head(q) = q[1] /\ Page!Last(q) = q[n]
  BY DEF Page!Last

LEMMA ShownRowsAre ==
    ASSUME NEW page \in Pages, NEW r \in 1 .. 3
    PROVE  /\ Head(ShownRows(page)[r]) = Page!Shown(page, 1)[r]
           /\ Page!Last(ShownRows(page)[r]) = Page!Shown(page, Len(page.channels))[r]
<1> DEFINE n == Len(page.channels)
           q == CodewordTexts(page, r)
<1>1. n \in Nat \ {0} /\ DOMAIN page.channels = 1 .. n
  BY ChannelIs
<1>2. q \in Seq(Texts) /\ Len(q) = n
  BY CodewordTextsAre
<1>3. \A i \in 1 .. n : q[i] = Page!Shown(page, i)[r]
  BY <1>1 DEF CodewordTexts
<1>4. ShownRows(page)[r] = q
  BY DEF ShownRows
<1> HIDE DEF n, q
<1>5. Head(q) = q[1] /\ Page!Last(q) = q[n]
  BY <1>1, <1>2, EndsOf
<1>6. 1 \in 1 .. n /\ n \in 1 .. n
  BY <1>1
<1> QED
  BY <1>3, <1>4, <1>5, <1>6 DEF n

LEMMA DroppedIs ==
    ASSUME NEW page \in Pages
    PROVE  FirstDropped(page) <=>
              /\ Len(page.channels) > 1
              /\ \A r \in 1 .. 3 : Page!Shown(page, 1)[r] = Page!Shown(page, Len(page.channels))[r]
              /\ \A r \in 1 .. 3 : ~Page!IsPlaceholder(Page!Shown(page, 1)[r])
              /\ \E r \in 1 .. 3 : ~IsZero(Page!Shown(page, 1)[r])
<1> DEFINE rows == ShownRows(page)
<1>1. Page!Range(rows) = {rows[r] : r \in 1 .. 3}
  BY DEF Page!Range, ShownRows
<1>2. \A r \in 1 .. 3 : /\ Head(rows[r]) = Page!Shown(page, 1)[r]
                        /\ Page!Last(rows[r]) = Page!Shown(page, Len(page.channels))[r]
  BY ShownRowsAre
<1> HIDE DEF rows
<1>3. Page!FirstColumnRepeatsLast(rows) <=>
        /\ \A r \in 1 .. 3 : Head(rows[r]) = Page!Last(rows[r]) /\ ~Page!IsPlaceholder(Head(rows[r]))
        /\ \E r \in 1 .. 3 : ~IsZero(Head(rows[r]))
  BY <1>1, Zenon DEF Page!FirstColumnRepeatsLast, IsZero
<1>4. Page!FirstColumnRepeatsLast(rows) <=>
        /\ \A r \in 1 .. 3 : /\ Page!Shown(page, 1)[r] = Page!Shown(page, Len(page.channels))[r]
                             /\ ~Page!IsPlaceholder(Page!Shown(page, 1)[r])
        /\ \E r \in 1 .. 3 : ~IsZero(Page!Shown(page, 1)[r])
  BY <1>2, <1>3, Zenon
<1> QED
  BY <1>4 DEF FirstDropped, rows

LEMMA BlankIsPlaceholder == Page!IsPlaceholder("")
  BY DEF Page!IsPlaceholder, Page!Placeholders

LEMMA ReadsShown ==
    ASSUME NEW page \in Pages, NEW p, Reads(p, page)
    PROVE  /\ Page!Width(p) = Len(page.channels)
           /\ [r \in 1 .. 3 |-> Page!Row(Page!Codewords(p), Page!CodewordRows[r])] = ShownRows(page)
<1>1. Page!Width(p) = Len(page.channels)
  <2>1. Page!Width(p) = Len(ChannelRow(p, 1))
    BY RowsAre
  <2>2. ChannelRow(p, 1) = ChannelTexts(page, 1)
    BY DEF Reads
  <2>3. Len(ChannelTexts(page, 1)) = Len(page.channels)
    BY ChannelTextsAre
  <2> QED
    BY <2>1, <2>2, <2>3
<1>2. \A r \in 1 .. 3 : Page!Row(Page!Codewords(p), Page!CodewordRows[r]) = CodewordTexts(page, r)
  BY DEF Reads, CodewordRow
<1> QED
  BY <1>1, <1>2 DEF ShownRows

\* A text of a row whose first one is blanked.
LEMMA BlankFirst ==
    ASSUME NEW q, NEW n \in Nat \ {0}, DOMAIN q = 1 .. n, NEW blank
    PROVE  LET z == [q EXCEPT ![1] = blank] IN
           DOMAIN z = 1 .. n /\ z[1] = blank /\ \A i \in 1 .. n : i # 1 => z[i] = q[i]
  OBVIOUS

LEMMA CountsRead ==
    ASSUME NEW page \in Pages, NEW p, Reads(p, page)
    PROVE  LET rows == Page!CountRows(p)
               n == Len(page.channels)
           IN  /\ DOMAIN rows = 1 .. 3
               /\ \A r \in 1 .. 3 : DOMAIN rows[r] = 1 .. n
               /\ \A r \in 1 .. 3, i \in 1 .. n :
                     /\ FirstDropped(page) /\ i = 1 => Page!IsPlaceholder(rows[r][i])
                     /\ ~(FirstDropped(page) /\ i = 1) => rows[r][i] = Page!Shown(page, i)[r]
<1> DEFINE n == Len(page.channels)
           rows == Page!CountRows(p)
<1>1. rows = IF FirstDropped(page) THEN [r \in 1 .. 3 |-> [ShownRows(page)[r] EXCEPT ![1] = ""]]
             ELSE ShownRows(page)
  <2> DEFINE z == [r \in 1 .. 3 |-> Page!Row(Page!Codewords(p), Page!CodewordRows[r])]
  <2>1. rows = IF Page!Width(p) > 1 /\ Page!FirstColumnRepeatsLast(z)
               THEN [r \in 1 .. 3 |-> [z[r] EXCEPT ![1] = ""]] ELSE z
    BY Zenon DEF Page!CountRows
  <2>2. z = ShownRows(page) /\ Page!Width(p) = Len(page.channels)
    BY ReadsShown
  <2> HIDE DEF z, rows
  <2> QED
    BY <2>1, <2>2, Zenon DEF FirstDropped
<1>2. n \in Nat \ {0} /\ DOMAIN page.channels = 1 .. n
  BY ChannelIs
<1>3. \A r \in 1 .. 3 : /\ DOMAIN ShownRows(page)[r] = 1 .. n
                        /\ \A i \in 1 .. n : ShownRows(page)[r][i] = Page!Shown(page, i)[r]
  BY <1>2 DEF ShownRows, CodewordTexts
<1>4. DOMAIN ShownRows(page) = 1 .. 3
  BY DEF ShownRows
<1> HIDE DEF n, rows
<1>5. CASE ~FirstDropped(page)
  BY <1>1, <1>3, <1>4, <1>5 DEF n, rows
<1>6. CASE FirstDropped(page)
  <2>1. rows = [r \in 1 .. 3 |-> [ShownRows(page)[r] EXCEPT ![1] = ""]]
    BY <1>1, <1>6
  <2>2. DOMAIN rows = 1 .. 3 /\ \A r \in 1 .. 3 : rows[r] = [ShownRows(page)[r] EXCEPT ![1] = ""]
    BY <2>1
  <2>3. ASSUME NEW r \in 1 .. 3
        PROVE  /\ DOMAIN rows[r] = 1 .. n /\ Page!IsPlaceholder(rows[r][1])
               /\ \A i \in 1 .. n : i # 1 => rows[r][i] = Page!Shown(page, i)[r]
    <3>1. PICK q : q = ShownRows(page)[r]
      OBVIOUS
    <3>2. PICK blank : blank = ""
      OBVIOUS
    <3>3. PICK z : z = [q EXCEPT ![1] = blank]
      OBVIOUS
    <3>4. DOMAIN z = 1 .. n /\ z[1] = blank /\ \A i \in 1 .. n : i # 1 => z[i] = q[i]
      BY <1>2, <1>3, <3>1, <3>3, BlankFirst
    <3>5. rows[r] = z
      BY <2>2, <3>1, <3>2, <3>3
    <3>6. Page!IsPlaceholder(blank)
      BY <3>2, BlankIsPlaceholder
    <3> QED
      BY <1>3, <3>1, <3>4, <3>5, <3>6
  <2> QED
    BY <1>6, <2>2, <2>3 DEF n, rows
<1> QED
  BY <1>5, <1>6

LEMMA ChannelTextIs ==
    ASSUME NEW page \in Pages
    PROVE  /\ \A r \in 1 .. 3 : DOMAIN ChannelTexts(page, r) = DOMAIN page.channels
           /\ \A i \in DOMAIN page.channels :
                 /\ ChannelTexts(page, 1)[i] = page.channels[i].index
                 /\ ChannelTexts(page, 2)[i] = page.channels[i].locked
                 /\ ChannelTexts(page, 3)[i] = page.channels[i].power
  BY DEF ChannelTexts

\* The reader accepts the cells of a well-formed page, and no others.
CellsOf(page) ==
    /\ \A i \in DOMAIN page.channels :
          /\ page.channels[i].index \in DOMAIN Page!Numerals
          /\ page.channels[i].locked \in DOMAIN Page!LockStatus
          /\ Page!Counts(page.channels[i].power)
    /\ \A i, k \in DOMAIN page.channels : page.channels[i].index = page.channels[k].index => i = k
    /\ \A i \in DOMAIN page.channels, r \in 1 .. 3 : Page!Counts(Page!Shown(page, i)[r])

LEMMA WellFormedIs ==
    ASSUME NEW page \in Pages
    PROVE  Page!WellFormed(page) <=> page.fault = None /\ CellsOf(page)
  BY Zenon DEF Page!WellFormed, CellsOf, Page!Range

LEMMA PlaceholderCounts == \A text : Page!IsPlaceholder(text) => Page!Counts(text)
  BY DEF Page!Counts

LEMMA CountsOfRows ==
    ASSUME NEW page \in Pages, NEW p, Reads(p, page)
    PROVE  (\A r \in DOMAIN Page!CountRows(p) : \A i \in DOMAIN Page!CountRows(p)[r] :
               Page!Counts(Page!CountRows(p)[r][i]))
           <=> \A i \in DOMAIN page.channels, r \in 1 .. 3 : Page!Counts(Page!Shown(page, i)[r])
<1> DEFINE n == Len(page.channels)
           rows == Page!CountRows(p)
<1>1. n \in Nat \ {0} /\ DOMAIN page.channels = 1 .. n
  BY ChannelIs
<1>2. /\ DOMAIN rows = 1 .. 3
      /\ \A r \in 1 .. 3 : DOMAIN rows[r] = 1 .. n
      /\ \A r \in 1 .. 3, i \in 1 .. n :
            /\ FirstDropped(page) /\ i = 1 => Page!IsPlaceholder(rows[r][i])
            /\ ~(FirstDropped(page) /\ i = 1) => rows[r][i] = Page!Shown(page, i)[r]
  BY CountsRead
<1>3. FirstDropped(page) => n > 1 /\ \A r \in 1 .. 3 : Page!Shown(page, 1)[r] = Page!Shown(page, n)[r]
  BY DroppedIs
<1> HIDE DEF n, rows
<1>4. ASSUME \A r \in 1 .. 3, i \in 1 .. n : Page!Counts(rows[r][i]), NEW i \in 1 .. n, NEW r \in 1 .. 3
      PROVE  Page!Counts(Page!Shown(page, i)[r])
  <2>1. CASE ~(FirstDropped(page) /\ i = 1)
    BY <1>2, <1>4, <2>1
  <2>2. CASE FirstDropped(page) /\ i = 1
    <3>1. n \in 1 .. n /\ n # 1
      BY <1>1, <1>3, <2>2
    <3>2. Page!Counts(Page!Shown(page, n)[r])
      BY <1>2, <1>4, <3>1
    <3> QED
      BY <1>3, <2>2, <3>2
  <2> QED
    BY <2>1, <2>2
<1>5. ASSUME \A i \in 1 .. n, r \in 1 .. 3 : Page!Counts(Page!Shown(page, i)[r]),
             NEW r \in 1 .. 3, NEW i \in 1 .. n
      PROVE  Page!Counts(rows[r][i])
  BY <1>2, <1>5, PlaceholderCounts
<1>6. (\A r \in 1 .. 3, i \in 1 .. n : Page!Counts(rows[r][i]))
      <=> \A i \in 1 .. n, r \in 1 .. 3 : Page!Counts(Page!Shown(page, i)[r])
  BY <1>4, <1>5
<1> QED
  BY <1>1, <1>2, <1>6, Zenon DEF rows

LEMMA CellsAre ==
    ASSUME NEW page \in Pages, NEW p, Reads(p, page)
    PROVE  CellsAreRight(p) <=> CellsOf(page)
<1>1. /\ ChannelRow(p, 1) = ChannelTexts(page, 1) /\ ChannelRow(p, 2) = ChannelTexts(page, 2)
      /\ ChannelRow(p, 3) = ChannelTexts(page, 3)
  BY DEF Reads
<1>2. /\ DOMAIN ChannelTexts(page, 1) = DOMAIN page.channels
      /\ DOMAIN ChannelTexts(page, 2) = DOMAIN page.channels
      /\ DOMAIN ChannelTexts(page, 3) = DOMAIN page.channels
  BY ChannelTextIs
<1>3. \A i \in DOMAIN page.channels :
         /\ ChannelTexts(page, 1)[i] = page.channels[i].index
         /\ ChannelTexts(page, 2)[i] = page.channels[i].locked
         /\ ChannelTexts(page, 3)[i] = page.channels[i].power
  BY ChannelTextIs
<1>4. CellsAreRight(p) <=>
        /\ \A i \in DOMAIN page.channels : ChannelTexts(page, 1)[i] \in DOMAIN Page!Numerals
        /\ \A i, k \in DOMAIN page.channels : ChannelTexts(page, 1)[i] = ChannelTexts(page, 1)[k] => i = k
        /\ \A i \in DOMAIN page.channels : ChannelTexts(page, 2)[i] \in DOMAIN Page!LockStatus
        /\ \A i \in DOMAIN page.channels : Page!Counts(ChannelTexts(page, 3)[i])
        /\ \A i \in DOMAIN page.channels, r \in 1 .. 3 : Page!Counts(Page!Shown(page, i)[r])
  BY <1>1, <1>2, CountsOfRows, Zenon DEF CellsAreRight
<1>5. CellsAreRight(p) <=>
        /\ \A i \in DOMAIN page.channels : page.channels[i].index \in DOMAIN Page!Numerals
        /\ \A i, k \in DOMAIN page.channels : page.channels[i].index = page.channels[k].index => i = k
        /\ \A i \in DOMAIN page.channels : page.channels[i].locked \in DOMAIN Page!LockStatus
        /\ \A i \in DOMAIN page.channels : Page!Counts(page.channels[i].power)
        /\ \A i \in DOMAIN page.channels, r \in 1 .. 3 : Page!Counts(Page!Shown(page, i)[r])
  BY ONLY <1>3, <1>4, SMTT(60)
<1> QED
  BY ONLY <1>5, ZenonT(30) DEF CellsOf

\* A channel of the status.
LEMMA ChannelsRead ==
    ASSUME NEW page \in Pages, NEW p, Reads(p, page)
    PROVE  LET s == Page!Channels(p)
               n == Len(page.channels)
           IN  /\ s = [i \in 1 .. n |-> s[i]]
               /\ \A i \in 1 .. n :
                     s[i] = [index |-> Page!Numerals[page.channels[i].index],
                                   locked |-> Page!LockStatus[page.channels[i].locked],
                                   power |-> Page!Count(page.channels[i].power),
                                   counts |-> [r \in 1 .. 3 |-> Page!Count(Page!CountRows(p)[r][i])]]
<1> DEFINE n == Len(page.channels)
<1>1. Page!Width(p) = n
  BY ReadsShown
<1>2. DOMAIN page.channels = 1 .. n
  BY ChannelIs
<1>3. /\ Page!Row(Page!Downstream(p), "Index") = ChannelTexts(page, 1)
      /\ Page!Row(Page!Downstream(p), "Lock Status") = ChannelTexts(page, 2)
      /\ Page!Row(Page!Downstream(p), "Power Level") = ChannelTexts(page, 3)
  <2>1. /\ ChannelRow(p, 1) = ChannelTexts(page, 1) /\ ChannelRow(p, 2) = ChannelTexts(page, 2)
        /\ ChannelRow(p, 3) = ChannelTexts(page, 3)
    BY DEF Reads
  <2> QED
    BY <2>1, RowsAre
<1>4. \A i \in 1 .. n :
         /\ ChannelTexts(page, 1)[i] = page.channels[i].index
         /\ ChannelTexts(page, 2)[i] = page.channels[i].locked
         /\ ChannelTexts(page, 3)[i] = page.channels[i].power
  BY <1>2, ChannelTextIs
<1> HIDE DEF n
<1>5. Page!Channels(p) =
        [i \in 1 .. n |->
           [index |-> Page!Numerals[ChannelTexts(page, 1)[i]],
            locked |-> Page!LockStatus[ChannelTexts(page, 2)[i]],
            power |-> Page!Count(ChannelTexts(page, 3)[i]),
            counts |-> [r \in 1 .. 3 |-> Page!Count(Page!CountRows(p)[r][i])]]]
  BY <1>1, <1>3, Zenon DEF Page!Channels
<1> QED
  BY <1>4, <1>5 DEF n

LEMMA NumeralsAre ==
    /\ \A text \in DOMAIN Page!Numerals : Page!Numerals[text] \in Nat
    /\ "0" \in DOMAIN Page!Numerals /\ Page!Numerals["0"] = 0
  BY DEF Page!Numerals

LEMMA LockStatusIs == \A text \in DOMAIN Page!LockStatus : Page!LockStatus[text] \in BOOLEAN
  BY DEF Page!LockStatus

LEMMA ZeroIsNoPlaceholder == ~Page!IsPlaceholder("0")
  BY DEF Page!IsPlaceholder, Page!Placeholders

LEMMA CountIs ==
    /\ \A text : Page!IsPlaceholder(text) => Page!Count(text) = None
    /\ \A text : Page!Counts(text) /\ ~Page!IsPlaceholder(text) => Page!Count(text) \in Nat
    /\ \A text : IsZero(text) => Page!Count(text) = 0
  BY NumeralsAre, ZeroIsNoPlaceholder, Zenon DEF Page!Count, Page!Counts, IsZero

LEMMA NoneIsNoNumber == None \notin Nat
  BY PageAssumption DEF Page!Assumption

LEMMA ThreeZeros ==
    ASSUME NEW f, f = [r \in 1 .. 3 |-> f[r]], \A r \in 1 .. 3 : f[r] = 0
    PROVE  f = <<0, 0, 0>>
  OBVIOUS

\* Of each channel, the counts that are shown in its column, or none.
LEMMA CountsAre ==
    ASSUME NEW page \in Pages, NEW p, Reads(p, page), CellsOf(page),
           NEW i \in 1 .. Len(page.channels), NEW r \in 1 .. 3
    PROVE  LET count == Page!Count(Page!CountRows(p)[r][i]) IN
           /\ FirstDropped(page) /\ i = 1 => count = None
           /\ ~(FirstDropped(page) /\ i = 1) => count = Page!Count(Page!Shown(page, i)[r])
           /\ count \in Nat \cup {None}
<1> DEFINE text == Page!CountRows(p)[r][i]
<1>1. /\ FirstDropped(page) /\ i = 1 => Page!IsPlaceholder(text)
      /\ ~(FirstDropped(page) /\ i = 1) => text = Page!Shown(page, i)[r]
  BY CountsRead
<1>2. Page!Counts(Page!Shown(page, i)[r])
  BY ChannelIs DEF CellsOf
<1> HIDE DEF text
<1>3. Page!Counts(text)
  BY <1>1, <1>2, PlaceholderCounts
<1>4. Page!Count(text) \in Nat \cup {None}
  BY <1>3, CountIs
<1> QED
  BY <1>1, <1>4, CountIs DEF text

\* The properties of a status of a page.
Whole(s, page) ==
    /\ Page!WellFormed(page)
    /\ DOMAIN s = DOMAIN page.channels
    /\ \A i \in DOMAIN s :
          LET c == page.channels[i] IN
          /\ s[i].index = Page!Numerals[c.index]
          /\ s[i].locked = Page!LockStatus[c.locked]
          /\ s[i].power = Page!Count(c.power)
          /\ \A r \in 1 .. 3 : s[i].counts[r] \in {None, Page!Count(Page!Shown(page, i)[r])}
OwnCounts(s, page) ==
    \A i \in DOMAIN s, r \in 1 .. 3 :
        \/ s[i].counts[r] \in {None, Page!Count(page.channels[i].counts[r])}
        \/ /\ page.quirk /\ i = 1
           /\ \/ s[i].counts = <<0, 0, 0>>
              \/ \E q \in 1 .. 3 : Page!IsPlaceholder(Page!Shown(page, i)[q])
Full(s, page) ==
    \A i \in DOMAIN s, r \in 1 .. 3 :
        \/ s[i].counts[r] # None
        \/ Page!IsPlaceholder(Page!Shown(page, i)[r])
        \/ /\ i = 1 /\ Len(page.channels) > 1
           /\ Page!Shown(page, 1) = Page!Shown(page, Len(page.channels))

LEMMA IsStatusRecord ==
    ASSUME NEW a \in Nat, NEW b \in BOOLEAN, NEW c \in Nat \cup {None},
           NEW f \in [1 .. 3 -> Nat \cup {None}]
    PROVE  [index |-> a, locked |-> b, power |-> c, counts |-> f] \in Page!Status
  BY DEF Page!Status

LEMMA StatusIs ==
    ASSUME NEW page \in Pages, NEW p, Reads(p, page), CellsOf(page)
    PROVE  LET s == Page!Channels(p) IN
           /\ DOMAIN s = 1 .. Len(page.channels)
           /\ s = [i \in 1 .. Len(page.channels) |-> s[i]]
           /\ \A i \in 1 .. Len(page.channels) :
                 /\ s[i].index = Page!Numerals[page.channels[i].index]
                 /\ s[i].locked = Page!LockStatus[page.channels[i].locked]
                 /\ s[i].power = Page!Count(page.channels[i].power)
                 /\ s[i].counts = [r \in 1 .. 3 |-> Page!Count(Page!CountRows(p)[r][i])]
                 /\ s[i] \in Page!Status
<1> DEFINE s == Page!Channels(p)
           n == Len(page.channels)
<1>1. /\ s = [i \in 1 .. n |-> s[i]]
      /\ \A i \in 1 .. n :
            s[i] = [index |-> Page!Numerals[page.channels[i].index],
                    locked |-> Page!LockStatus[page.channels[i].locked],
                    power |-> Page!Count(page.channels[i].power),
                    counts |-> [r \in 1 .. 3 |-> Page!Count(Page!CountRows(p)[r][i])]]
  BY ChannelsRead
<1>2. DOMAIN page.channels = 1 .. n
  BY ChannelIs
<1> HIDE DEF s, n
<1>3. DOMAIN s = 1 .. n
  BY <1>1
<1>4. ASSUME NEW i \in 1 .. n
      PROVE  s[i] \in Page!Status
  <2>1. /\ page.channels[i].index \in DOMAIN Page!Numerals
        /\ page.channels[i].locked \in DOMAIN Page!LockStatus
        /\ Page!Counts(page.channels[i].power)
    BY <1>2 DEF CellsOf
  <2>2. Page!Numerals[page.channels[i].index] \in Nat
    BY <2>1, NumeralsAre
  <2>3. Page!LockStatus[page.channels[i].locked] \in BOOLEAN
    BY <2>1, LockStatusIs
  <2>4. Page!Count(page.channels[i].power) \in Nat \cup {None}
    BY <2>1, CountIs
  <2>5. [r \in 1 .. 3 |-> Page!Count(Page!CountRows(p)[r][i])] \in [1 .. 3 -> Nat \cup {None}]
    BY CountsAre DEF n
  <2> QED
    <3>1. [index |-> Page!Numerals[page.channels[i].index],
           locked |-> Page!LockStatus[page.channels[i].locked],
           power |-> Page!Count(page.channels[i].power),
           counts |-> [r \in 1 .. 3 |-> Page!Count(Page!CountRows(p)[r][i])]] \in Page!Status
      BY <2>2, <2>3, <2>4, <2>5, IsStatusRecord, Zenon
    <3> QED
      BY <1>1, <3>1, Zenon
<1>5. \A i \in 1 .. n :
         /\ s[i].index = Page!Numerals[page.channels[i].index]
         /\ s[i].locked = Page!LockStatus[page.channels[i].locked]
         /\ s[i].power = Page!Count(page.channels[i].power)
         /\ s[i].counts = [r \in 1 .. 3 |-> Page!Count(Page!CountRows(p)[r][i])]
  BY <1>1
<1> QED
  BY <1>1, <1>3, <1>4, <1>5 DEF s, n

LEMMA StatusIsWhole ==
    ASSUME NEW page \in Pages, NEW p, Reads(p, page), CellsOf(page), page.fault = None
    PROVE  Whole(Page!Channels(p), page)
<1> DEFINE s == Page!Channels(p)
           n == Len(page.channels)
<1>1. Page!WellFormed(page)
  BY WellFormedIs
<1>2. DOMAIN s = 1 .. n
  BY StatusIs
<1>3. DOMAIN page.channels = 1 .. n
  BY ChannelIs
<1>4. \A i \in 1 .. n : /\ s[i].index = Page!Numerals[page.channels[i].index]
                        /\ s[i].locked = Page!LockStatus[page.channels[i].locked]
                        /\ s[i].power = Page!Count(page.channels[i].power)
                        /\ s[i].counts = [r \in 1 .. 3 |-> Page!Count(Page!CountRows(p)[r][i])]
  BY StatusIs
<1>5. ASSUME NEW i \in 1 .. n, NEW r \in 1 .. 3
      PROVE  s[i].counts[r] \in {None, Page!Count(Page!Shown(page, i)[r])}
  <2>1. Page!Count(Page!CountRows(p)[r][i]) \in {None, Page!Count(Page!Shown(page, i)[r])}
    BY CountsAre
  <2>2. s[i].counts[r] = Page!Count(Page!CountRows(p)[r][i])
    BY <1>4
  <2> QED
    BY <2>1, <2>2
<1> HIDE DEF s, n
<1>6. \A i \in DOMAIN s :
        LET c == page.channels[i] IN
        /\ s[i].index = Page!Numerals[c.index]
        /\ s[i].locked = Page!LockStatus[c.locked]
        /\ s[i].power = Page!Count(c.power)
        /\ \A r \in 1 .. 3 : s[i].counts[r] \in {None, Page!Count(Page!Shown(page, i)[r])}
  BY <1>2, <1>4, <1>5, Zenon
<1> QED
  BY <1>1, <1>2, <1>3, <1>6, Zenon DEF Whole, s

\* Only where the reader cannot tell, the first channel has the last one's counts.
LEMMA StatusIsOwn ==
    ASSUME NEW page \in Pages, NEW p, Reads(p, page), CellsOf(page)
    PROVE  OwnCounts(Page!Channels(p), page)
<1> DEFINE s == Page!Channels(p)
           n == Len(page.channels)
<1>1. DOMAIN s = 1 .. n
  BY StatusIs
<1>2. n \in Nat \ {0} /\ DOMAIN page.channels = 1 .. n
  BY ChannelIs
<1>3. \A i \in 1 .. n : s[i].counts = [r \in 1 .. 3 |-> Page!Count(Page!CountRows(p)[r][i])]
  BY StatusIs
<1>4. \A i \in 1 .. n, r \in 1 .. 3 :
         /\ FirstDropped(page) /\ i = 1 => s[i].counts[r] = None
         /\ ~(FirstDropped(page) /\ i = 1) => s[i].counts[r] = Page!Count(Page!Shown(page, i)[r])
  <2> TAKE i \in 1 .. n, r \in 1 .. 3
  <2>1. /\ FirstDropped(page) /\ i = 1 => Page!Count(Page!CountRows(p)[r][i]) = None
        /\ ~(FirstDropped(page) /\ i = 1) =>
              Page!Count(Page!CountRows(p)[r][i]) = Page!Count(Page!Shown(page, i)[r])
    BY CountsAre
  <2>2. s[i].counts[r] = Page!Count(Page!CountRows(p)[r][i])
    BY <1>3
  <2> QED
    BY <2>1, <2>2
<1>5. \A i \in 1 .. n : /\ page.quirk /\ i = 1 => Page!Shown(page, i) = page.channels[n].counts
                        /\ ~(page.quirk /\ i = 1) => Page!Shown(page, i) = page.channels[i].counts
  BY <1>2, ShownIs
<1>6. FirstDropped(page) <=>
        /\ n > 1
        /\ \A r \in 1 .. 3 : Page!Shown(page, 1)[r] = Page!Shown(page, n)[r]
        /\ \A r \in 1 .. 3 : ~Page!IsPlaceholder(Page!Shown(page, 1)[r])
        /\ \E r \in 1 .. 3 : ~IsZero(Page!Shown(page, 1)[r])
  BY DroppedIs
<1> HIDE DEF s, n
<1>7. SUFFICES ASSUME NEW i \in 1 .. n, NEW r \in 1 .. 3
               PROVE  \/ s[i].counts[r] \in {None, Page!Count(page.channels[i].counts[r])}
                      \/ /\ page.quirk /\ i = 1
                         /\ \/ s[i].counts = <<0, 0, 0>>
                            \/ \E q \in 1 .. 3 : Page!IsPlaceholder(Page!Shown(page, i)[q])
  BY <1>1 DEF OwnCounts, s
<1>8. CASE FirstDropped(page) /\ i = 1
  BY <1>4, <1>8
<1>9. CASE ~(page.quirk /\ i = 1)
  BY <1>4, <1>5, <1>9
<1>10. CASE ~FirstDropped(page) /\ page.quirk /\ i = 1
  <2>1. CASE n = 1
    <3>1. Page!Shown(page, i) = page.channels[i].counts
      BY <1>5, <1>10, <2>1
    <3> QED
      BY <1>4, <1>10, <3>1
  <2>2. CASE n > 1
    <3>1. n \in 1 .. n /\ n # 1
      BY <1>2, <2>2
    <3>2. Page!Shown(page, 1) = page.channels[n].counts /\ Page!Shown(page, n) = page.channels[n].counts
      BY <1>5, <1>10, <3>1
    <3>3. \/ \E q \in 1 .. 3 : Page!IsPlaceholder(Page!Shown(page, i)[q])
          \/ \A q \in 1 .. 3 : IsZero(Page!Shown(page, i)[q])
      BY <1>6, <1>10, <2>2, <3>2
    <3>4. ASSUME \A q \in 1 .. 3 : IsZero(Page!Shown(page, i)[q])
          PROVE  s[i].counts = <<0, 0, 0>>
      <4>1. \A q \in 1 .. 3 : s[i].counts[q] = 0
        BY <1>4, <1>10, <3>4, CountIs
      <4>2. s[i].counts = [q \in 1 .. 3 |-> s[i].counts[q]]
        BY <1>3
      <4> QED
        BY <4>1, <4>2, ThreeZeros
    <3> QED
      BY <1>10, <3>3, <3>4
  <2> QED
    BY <1>2, <2>1, <2>2
<1> QED
  BY <1>8, <1>9, <1>10

LEMMA StatusIsFull ==
    ASSUME NEW page \in Pages, NEW p, Reads(p, page), CellsOf(page)
    PROVE  Full(Page!Channels(p), page)
<1> DEFINE s == Page!Channels(p)
           n == Len(page.channels)
<1>1. DOMAIN s = 1 .. n
  BY StatusIs
<1>2. n \in Nat \ {0} /\ DOMAIN page.channels = 1 .. n
  BY ChannelIs
<1>3. \A i \in 1 .. n : s[i].counts = [r \in 1 .. 3 |-> Page!Count(Page!CountRows(p)[r][i])]
  BY StatusIs
<1>4. \A i \in 1 .. n, r \in 1 .. 3 :
         ~(FirstDropped(page) /\ i = 1) => s[i].counts[r] = Page!Count(Page!Shown(page, i)[r])
  <2> TAKE i \in 1 .. n, r \in 1 .. 3
  <2>1. ~(FirstDropped(page) /\ i = 1) =>
           Page!Count(Page!CountRows(p)[r][i]) = Page!Count(Page!Shown(page, i)[r])
    BY CountsAre
  <2>2. s[i].counts[r] = Page!Count(Page!CountRows(p)[r][i])
    BY <1>3
  <2> QED
    BY <2>1, <2>2
<1>5. FirstDropped(page) => n > 1 /\ \A r \in 1 .. 3 : Page!Shown(page, 1)[r] = Page!Shown(page, n)[r]
  BY DroppedIs
<1>6. \A i \in 1 .. n : Page!Shown(page, i) \in [1 .. 3 -> Texts]
  BY <1>2, ShownIs
<1> HIDE DEF s
<1>7. SUFFICES ASSUME NEW i \in 1 .. n, NEW r \in 1 .. 3
               PROVE  \/ s[i].counts[r] # None
                      \/ Page!IsPlaceholder(Page!Shown(page, i)[r])
                      \/ i = 1 /\ n > 1 /\ Page!Shown(page, 1) = Page!Shown(page, n)
  BY <1>1 DEF Full, s
<1>8. CASE FirstDropped(page) /\ i = 1
  <2>1. Page!Shown(page, 1) \in [1 .. 3 -> Texts] /\ Page!Shown(page, n) \in [1 .. 3 -> Texts]
    <3> HIDE DEF n
    <3>1. 1 \in 1 .. n /\ n \in 1 .. n
      BY <1>2
    <3> QED
      BY <1>6, <3>1
  <2>2. Page!Shown(page, 1) = Page!Shown(page, n)
    BY <1>5, <1>8, <2>1
  <2> QED
    BY <1>5, <1>8, <2>2
<1>9. CASE ~(FirstDropped(page) /\ i = 1) /\ ~Page!IsPlaceholder(Page!Shown(page, i)[r])
  <2>1. Page!Counts(Page!Shown(page, i)[r])
    BY <1>2 DEF CellsOf
  <2>2. Page!Count(Page!Shown(page, i)[r]) \in Nat
    BY <1>9, <2>1, CountIs
  <2>3. s[i].counts[r] = Page!Count(Page!Shown(page, i)[r])
    BY <1>4, <1>9
  <2> QED
    BY <2>2, <2>3, NoneIsNoNumber
<1> QED
  BY <1>8, <1>9

\* A whole page without a fault is read.
LEMMA WholeIsRead ==
    ASSUME NEW page \in Pages, NEW p, p.tables = TablesFed(page, 3, 4), Page!WellFormed(page)
    PROVE  TablesAreRight(p)
<1> DEFINE ts == TablesFed(page, 3, 4)
           d == Page!DownstreamOf(page)
           w == Page!CodewordsOf(page)
           dn == DownstreamAt(page)
           n == Len(page.channels)
<1>0. 3 \in 0 .. 3 /\ 4 \in 0 .. 4
  OBVIOUS
<1>1. dn \in 1 .. 2 /\ Page!TablesOf(page)[dn] = d /\ Page!TablesOf(page)[3] = w
  BY TablesAre
<1>2. page.fault = None /\ CellsOf(page)
  BY WellFormedIs
<1>3. DOMAIN ts = 1 .. 3
  BY DEF TablesFed
<1>4. ts[dn] = TableFed(d, 4) /\ ts[3] = TableFed(w, 4)
  <2> HIDE DEF dn, ts, d, w
  <2>1. dn \in 1 .. 3 /\ 3 \in 1 .. 3
    BY <1>1
  <2>2. \A u \in 1 .. 3 : \E k \in 0 .. 4 : /\ ts[u] = TableFed(Page!TablesOf(page)[u], k)
                                            /\ u < 3 => k = 4
                                            /\ u = 3 => k = 4
    BY <1>0, TableAt DEF ts
  <2>3. \A u \in 1 .. 3 : u < 3 \/ u = 3
    OBVIOUS
  <2>4. \A u \in 1 .. 3 : ts[u] = TableFed(Page!TablesOf(page)[u], 4)
    BY <2>2, <2>3, Zenon
  <2> QED
    BY <1>1, <2>1, <2>4
<1>5. \A r \in 1 .. 3 : d.rows[r].texts = ChannelTexts(page, r) /\ w.rows[r].texts = CodewordTexts(page, r)
  BY <1>2, FaultIs, TextsAre
<1>6. Page!Row(TableFed(d, 4), "Index") = ChannelTexts(page, 1)
      /\ Page!Row(TableFed(d, 4), "Lock Status") = ChannelTexts(page, 2)
  <2>1. IsTable(d) /\ \A r \in 1 .. 3 : d.rows[r].label = Page!ChannelRows[r]
    BY DownstreamIs
  <2> HIDE DEF d
  <2>2. 1 \in 1 .. 3 /\ 2 \in 1 .. 3 /\ 1 < 4 /\ 2 < 4
    OBVIOUS
  <2>3. Page!Row(TableFed(d, 4), d.rows[1].label) = ChannelTexts(page, 1)
        /\ Page!Row(TableFed(d, 4), d.rows[2].label) = ChannelTexts(page, 2)
    BY <1>0, <1>5, <2>1, <2>2, RowIs
  <2>4. d.rows[1].label = "Index" /\ d.rows[2].label = "Lock Status"
    BY <2>1, <2>2, FirstLabels
  <2> QED
    BY <2>3, <2>4, Zenon
<1>7. Page!IsDownstream(TableFed(d, 4))
  <2>1. ChannelTexts(page, 1) # <<>>
    BY ChannelTextsAre
  <2>2. 1 \in DOMAIN page.channels
    BY ChannelIs
  <2>3. page.channels[1].locked \in DOMAIN Page!LockStatus
    BY <1>2, <2>2 DEF CellsOf
  <2>4. page.channels[1].locked # ""
    BY <2>3 DEF Page!LockStatus
  <2>5. \E cell \in Page!Range(ChannelTexts(page, 2)) : cell # ""
    <3>1. ChannelTexts(page, 2)[1] = page.channels[1].locked
      BY <2>2, ChannelTextIs
    <3>2. 1 \in DOMAIN ChannelTexts(page, 2)
      BY <2>2, ChannelTextIs
    <3>3. ChannelTexts(page, 2)[1] \in Page!Range(ChannelTexts(page, 2))
      BY <3>2 DEF Page!Range
    <3> QED
      BY <2>4, <3>1, <3>3
  <2> QED
    BY <1>6, <2>1, <2>5, Zenon DEF Page!IsDownstream
<1>8. IsCodewords(TableFed(w, 4))
  <2>1. w.captions[1] = "CM Error Codewords"
    BY CodewordsIs
  <2>2. 4 \in 1 .. 4
    OBVIOUS
  <2>3. TableFed(w, 4).caption = w.captions[1]
    BY <2>2, TitledIs
  <2> QED
    BY <2>1, <2>3, Zenon DEF IsCodewords
<1> HIDE DEF ts, d, w
<1>9. Page!DownstreamTable(ts) # 0
  <2> DEFINE S == {t \in DOMAIN ts : Page!IsDownstream(ts[t])}
  <2>1. S \subseteq {dn}
    <3>1. SUFFICES ASSUME NEW u \in 1 .. 3, Page!IsDownstream(ts[u]) PROVE u = dn
      BY <1>3
    <3>2. PICK k \in 0 .. 4 : ts[u] = TableFed(Page!TablesOf(page)[u], k)
      BY <1>0, TableAt DEF ts
    <3> QED
      BY <3>1, <3>2, OnlyDownstream
  <2>2. dn \in S
    <3> HIDE DEF dn
    <3>1. dn \in 1 .. 3
      BY <1>1
    <3> QED
      BY <1>3, <1>4, <1>7, <3>1
  <2>3. dn \in Nat \ {0}
    <3> HIDE DEF dn
    <3> QED
      BY <1>1
  <2> HIDE DEF S, dn
  <2>4. Page!First(S) = dn
    BY <2>1, <2>2, <2>3, FirstOf
  <2> QED
    BY <2>3, <2>4 DEF Page!DownstreamTable, S
<1>10. CodewordTable(ts) # 0
  <2> DEFINE S == {t \in DOMAIN ts : IsCodewords(ts[t])}
  <2>1. S \subseteq {3}
    <3>1. SUFFICES ASSUME NEW u \in 1 .. 3, IsCodewords(ts[u]) PROVE u = 3
      BY <1>3
    <3>2. PICK k \in 0 .. 4 : ts[u] = TableFed(Page!TablesOf(page)[u], k)
      BY <1>0, TableAt DEF ts
    <3> QED
      BY <3>1, <3>2, OnlyCodewords
  <2>2. 3 \in S
    BY <1>3, <1>4, <1>8
  <2> HIDE DEF S
  <2>4. Page!First(S) = 3
    BY <2>1, <2>2, FirstOf
  <2> QED
    BY <2>4, CodewordTableIs DEF S
<1>11. /\ Page!Downstream(p) = TableFed(d, 4) /\ Page!Codewords(p) = TableFed(w, 4)
  BY <1>0, <1>9, <1>10, TablesFound DEF ts, d, w
<1>12. \A r \in 1 .. 3 : ChannelRow(p, r) = d.rows[r].texts /\ CodewordRow(p, r) = w.rows[r].texts
  <2>1. \A r \in 1 .. 3 : r < 4
    OBVIOUS
  <2> QED
    BY <1>0, <1>11, <2>1, RowsOfTables DEF d, w
<1>13. \A r \in 1 .. 3 : Len(ChannelRow(p, r)) = n /\ Len(CodewordRow(p, r)) = n
  BY <1>5, <1>12, ChannelTextsAre, CodewordTextsAre
<1>14. Page!Width(p) = n
  <2>1. 1 \in 1 .. 3
    OBVIOUS
  <2> QED
    BY <1>13, <2>1, RowsAre
<1> QED
  BY <1>9, <1>10, <1>13, <1>14 DEF TablesAreRight, ts

-----------------------------------------------------------------------------
(***************************************************************************)
(* The invariant of the page reader, and its theorems.                     *)
(***************************************************************************)
LEMMA InternetIsRight == ASSUME NEW p, p.fields = InternetActive PROVE FieldsAreRight(p)
  BY DEF FieldsAreRight, InternetActive

\* Whatever the parser has been fed of the page, a status is of the whole page.
LEMMA ReadGives ==
    ASSUME NEW page \in Pages, NEW p, PartOf(p, page), Page!Parses(p)
    PROVE  LET s == Page!Channels(p) IN
           Whole(s, page) /\ OwnCounts(s, page) /\ Full(s, page) /\ s \in Seq(Page!Status)
<1>1. TablesAreRight(p) /\ CellsAreRight(p)
  BY ParsesIs
<1>2. PICK k \in 0 .. 3, j \in 0 .. 4 : p.tables = TablesFed(page, k, j)
  BY DEF PartOf
<1>3. page.fault = None /\ Reads(p, page)
  BY <1>1, <1>2, PageIsRead
<1>4. CellsOf(page)
  BY <1>1, <1>3, CellsAre
<1>5. Page!Channels(p) \in Seq(Page!Status)
  <2> DEFINE s == Page!Channels(p)
             n == Len(page.channels)
  <2>1. s = [i \in 1 .. n |-> s[i]] /\ \A i \in 1 .. n : s[i] \in Page!Status
    BY <1>3, <1>4, StatusIs
  <2>2. n \in Nat
    BY ChannelIs
  <2> HIDE DEF s, n
  <2>3. DOMAIN s = 1 .. n
    BY <2>1
  <2>4. s \in Seq(Page!Status)
    BY <2>1, <2>2, <2>3, IsSequence
  <2> QED
    BY <2>4 DEF s
<1> QED
  BY <1>3, <1>4, <1>5, StatusIsWhole, StatusIsOwn, StatusIsFull

LEMMA EndParses ==
    ASSUME NEW page \in Pages, NEW p, NEW c, At(p, page, 17, c), Page!WellFormed(page)
    PROVE  Page!Parses(p)
<1>1. IsAt(p, TablesFed(page, 3, 4), FALSE, None, <<>>)
  BY Zenon DEF At
<1>2. p.tables = TablesFed(page, 3, 4) /\ p.fields = InternetActive
  BY <1>1, HoldsThis DEF IsAt
<1>3. TablesAreRight(p)
  BY <1>2, WholeIsRead
<1>4. Reads(p, page)
  <2>1. 3 \in 0 .. 3 /\ 4 \in 0 .. 4
    OBVIOUS
  <2> QED
    BY <1>2, <1>3, <2>1, PageIsRead
<1>5. CellsAreRight(p)
  BY <1>4, CellsAre, WellFormedIs
<1> QED
  BY <1>2, <1>3, <1>5, InternetIsRight, ParsesIs

LEMMA NoStatus == /\ ParseError # None
                  /\ \A s \in Seq(Page!Status) : s \notin {None, ParseError}
  BY PageAssumption DEF Page!Assumption

LEMMA ReadIs ==
    ASSUME NEW page \in Pages, NEW p, PartOf(p, page), NEW s, s = Page!ParsePage(Page!Closed(p))
    PROVE  /\ s # None
           /\ s # ParseError => Whole(s, page) /\ OwnCounts(s, page) /\ Full(s, page)
           /\ Page!Parses(p) => s # ParseError
<1>1. s = IF Page!Parses(p) THEN Page!Channels(p) ELSE ParseError
  BY DEF Page!ParsePage, Page!Closed
<1>2. CASE Page!Parses(p)
  <2>1. s = Page!Channels(p)
    BY <1>1, <1>2
  <2> QED
    BY <1>2, <2>1, ReadGives, NoStatus
<1>3. CASE ~Page!Parses(p)
  BY <1>1, <1>3, NoStatus
<1> QED
  BY <1>2, <1>3

LEMMA EmptyIsHeading == Heading(Page!EmptyParser, None)
  BY DEF Heading, Heads, Is, NoFields, Page!EmptyParser

LEMMA BeginsAt ==
    ASSUME NEW page, NEW p, Heading(p, None)
    PROVE  At(p, page, 1, 1)
<1>1. \A t \in 1 .. 3, s \in 0 .. 4 : 1 # 5 * t + s - 3
  OBVIOUS
<1>2. 1 # 17
  OBVIOUS
<1> QED
  BY <1>1, <1>2, Zenon DEF At

LEMMA LineLength ==
    ASSUME NEW page \in Pages, NEW t \in 1 .. 3, NEW s \in 0 .. 4
    PROVE  Len(Line(page, t, s)) # 0
<1> DEFINE z == Line(page, t, s)
           d == Page!TablesOf(page)[t]
<1>1. CASE s = 0
  <2>1. Len(z) = Len(d.captions) + 3
    <3>1. CaptionElements(z, d)
      BY <1>1, TableElements DEF Line
    <3> HIDE DEF z, d
    <3> QED
      BY <3>1 DEF CaptionElements
  <2>2. Len(d.captions) \in Nat
    BY CaptionsAre
  <2> HIDE DEF z, d
  <2>3. Len(z) # 0
    BY <2>1, <2>2
  <2> QED
    BY <2>3 DEF z
<1>2. CASE s \in 1 .. 3
  <2>1. Len(z) = Len(d.rows[s].texts) + 3
    BY <1>2, TableElements DEF Line, RowElements
  <2>2. d.rows[s].texts \in Seq(Texts)
    BY <1>2, TablesAre DEF IsTable
  <2> HIDE DEF z, d
  <2>3. Len(z) # 0
    BY <2>1, <2>2
  <2> QED
    BY <2>3 DEF z
<1>3. CASE s = 4
  BY <1>3, TableElements DEF Line, EndElements
<1> QED
  BY <1>1, <1>2, <1>3

LEMMA RenderedLength ==
    ASSUME NEW page \in Pages
    PROVE  /\ Len(Page!Rendered(page)) = 16
           /\ \A l \in 1 .. 16 : /\ 1 \in DOMAIN Page!Rendered(page)[l]
                                 /\ Len(Page!Rendered(page)[l]) \in Nat
                                 /\ DOMAIN Page!Rendered(page)[l] = 1 .. Len(Page!Rendered(page)[l])
<1> DEFINE z == Page!Rendered(page)
<1>1. Len(z) = 16
  BY RenderedIs DEF IsLines
<1>2. ASSUME NEW l \in 1 .. 16
      PROVE  1 \in DOMAIN z[l] /\ Len(z[l]) \in Nat /\ DOMAIN z[l] = 1 .. Len(z[l])
  <2>1. z[l] \in Seq(ElementSet)
    BY LineIs
  <2>2. Len(z[l]) # 0
    <3>1. CASE l = 1
      <4>1. z[1] = Page!SpanLine
        BY RenderedIs
      <4>2. Len(Page!SpanLine) # 0
        BY SpanLineIs
      <4> HIDE DEF z
      <4> QED
        BY <3>1, <4>1, <4>2
    <3>2. CASE l \in 2 .. 16
      <4>1. PICK t \in 1 .. 3, s \in 0 .. 4 : l = 5 * t + s - 3
        BY <3>2, PlaceIs
      <4>2. z[l] = Line(page, t, s)
        BY <4>1 DEF Line
      <4> QED
        BY <4>2, LineLength
    <3> QED
      BY <3>1, <3>2
  <2> HIDE DEF z
  <2> QED
    BY <2>1, <2>2
<1> QED
  BY <1>1, <1>2 DEF z

LEMMA NoStatusYet ==
    ASSUME status' = None
    PROVE  Page!WholeOrNothing' /\ Page!OwnCountsOnly' /\ Page!WholePageParses'
  BY DEF Page!WholeOrNothing, Page!OwnCountsOnly, Page!WholePageParses, Page!IsStatus

LEMMA PageNotNone == \A page \in Pages : page # None
  BY PageAssumption DEF Page!Assumption

LEMMA PageInit == Page!Init => PageInv
<1> SUFFICES ASSUME Page!Init PROVE PageInv
  OBVIOUS
<1> USE DEF Page!Init
<1>1. PagePlaced
  BY DEF PagePlaced
<1>2. Page!WholeOrNothing /\ Page!OwnCountsOnly /\ Page!WholePageParses
  BY DEF Page!WholeOrNothing, Page!OwnCountsOnly, Page!WholePageParses, Page!IsStatus
<1> QED
  BY <1>1, <1>2 DEF PageInv

LEMMA PageAnswersStep ==
    ASSUME PageInv, NEW page \in Pages, Page!Answers(page)
    PROVE  PageInv'
<1>1. /\ gateway' = page /\ page \in Pages /\ page # None /\ line' = 1 /\ column' = 1
      /\ parser' = Page!EmptyParser /\ status' = None /\ cut' = FALSE
  BY PageNotNone DEF Page!Answers, PageInv, PagePlaced
<1>2. 1 \in DOMAIN Page!Rendered(page)[1]
  <2>1. 1 \in 1 .. 16
    OBVIOUS
  <2> QED
    BY <2>1, RenderedLength
<1>3. At(Page!EmptyParser, page, 1, 1)
  BY EmptyIsHeading, BeginsAt
<1>4. PagePlaced'
  <2>1. gateway' # None /\ gateway' \in Pages /\ line' # 17 /\ line' \in 1 .. 17
    BY <1>1
  <2>2. column' \in DOMAIN Page!Rendered(gateway')[line'] /\ At(parser', gateway', line', column')
    BY <1>1, <1>2, <1>3, Zenon
  <2> QED
    BY <1>1, <2>1, <2>2, Zenon DEF PagePlaced
<1> QED
  BY <1>1, <1>4, NoStatusYet DEF PageInv

LEMMA EndIs == ASSUME gateway \in Pages PROVE Page!End = 17
<1> DEFINE z == Page!Rendered(gateway)
<1>1. Len(z) = 16
  BY RenderedLength
<1>2. Page!End = Len(z) + 1
  BY DEF Page!End
<1> HIDE DEF z
<1> QED
  BY <1>1, <1>2

LEMMA FedNow ==
    ASSUME PageInv, Page!IsFed
    PROVE  /\ gateway \in Pages /\ line \in 1 .. 16 /\ Page!End = 17
           /\ column \in DOMAIN Page!Rendered(gateway)[line]
           /\ Page!Elements = Page!Rendered(gateway)[line]
           /\ status = None /\ cut = FALSE /\ At(parser, gateway, line, column)
<1>1. gateway # None /\ line < Page!End /\ gateway \in Pages
  BY DEF Page!IsFed, PageInv, PagePlaced
<1>2. Page!End = 17
  BY <1>1, EndIs
<1>3. line \in 1 .. 16
  BY <1>1, <1>2 DEF PageInv, PagePlaced
<1>4. line < 17
  BY <1>3
<1> QED
  BY <1>1, <1>2, <1>3, <1>4, Zenon DEF PageInv, PagePlaced, Page!Elements

LEMMA FeedStep ==
    ASSUME PageInv, Page!Feed
    PROVE  PageInv'
<1> DEFINE z == Page!Rendered(gateway)[line]
<1>1. /\ gateway \in Pages /\ line \in 1 .. 16 /\ column \in DOMAIN z /\ Page!Elements = z
      /\ status = None /\ cut = FALSE /\ At(parser, gateway, line, column)
  BY FedNow DEF Page!Feed
<1>2. /\ parser' = Page!Fed(parser, z[column])
      /\ IF column < Len(z) THEN column' = column + 1 /\ line' = line
         ELSE column' = 1 /\ line' = line + 1
      /\ gateway' = gateway /\ status' = None /\ cut' = FALSE
  BY <1>1 DEF Page!Feed
<1>3. IF column < Len(z) THEN At(parser', gateway, line, column + 1)
      ELSE At(parser', gateway, line + 1, 1)
  BY <1>1, <1>2, FedIsAt
<1>4. Len(z) \in Nat /\ DOMAIN z = 1 .. Len(z)
  BY <1>1, RenderedLength
<1>5. gateway # None
  BY <1>1, PageNotNone
<1>6. CASE column < Len(z)
  <2>1. column + 1 \in DOMAIN z
    <3> HIDE DEF z
    <3> QED
      BY <1>1, <1>4, <1>6
  <2>2. line' \in 1 .. 17 /\ line' # 17 /\ line' = line /\ column' = column + 1
    BY <1>1, <1>2, <1>6
  <2>3. At(parser', gateway', line', column') /\ column' \in DOMAIN Page!Rendered(gateway')[line']
    BY <1>2, <1>3, <1>6, <2>1, <2>2
  <2>4. PagePlaced'
    BY <1>1, <1>2, <1>5, <2>2, <2>3 DEF PagePlaced
  <2> QED
    BY <1>2, <2>4, NoStatusYet DEF PageInv
<1>7. CASE ~(column < Len(z))
  <2>1. line' \in 1 .. 17 /\ line' = line + 1 /\ column' = 1
    <3>1. line \in 1 .. 16
      BY <1>1, Zenon
    <3>2. line' = line + 1 /\ column' = 1
      BY <1>2, <1>7, Zenon
    <3> QED
      BY ONLY <3>1, <3>2
  <2>2. At(parser', gateway', line', column')
    BY <1>2, <1>3, <1>7, <2>1
  <2>3. line' < 17 => column' \in DOMAIN Page!Rendered(gateway')[line']
    <3>1. line' < 17 => line' \in 1 .. 16
      BY <2>1
    <3> QED
      BY <1>1, <1>2, <2>1, <3>1, RenderedLength
  <2>4. PagePlaced'
    BY <1>1, <1>2, <1>5, <2>1, <2>2, <2>3 DEF PagePlaced
  <2> QED
    BY <1>2, <2>4, NoStatusYet DEF PageInv
<1> QED
  BY <1>6, <1>7

LEMMA CutStep ==
    ASSUME PageInv, Page!Cut
    PROVE  PageInv'
<1> DEFINE z == Page!Rendered(gateway)[line]
<1>1. /\ gateway \in Pages /\ line \in 1 .. 16 /\ column \in DOMAIN z /\ Page!Elements = z
      /\ status = None /\ Page!End = 17 /\ At(parser, gateway, line, column)
  BY FedNow DEF Page!Cut
<1>2. /\ line' = 17 /\ column' = 1 /\ cut' = TRUE /\ gateway' = gateway /\ status' = None
      /\ \/ parser' = parser
         \/ \E part : parser' = Page!Fed(parser, [z[column] EXCEPT !.text = part, !.close = None])
  BY <1>1 DEF Page!Cut
<1>3. PartOf(parser', gateway)
  <2>1. CASE parser' = parser
    <3>1. Len(z) \in Nat /\ DOMAIN z = 1 .. Len(z)
      BY <1>1, RenderedLength
    <3>2. column \in Nat \ {0}
      <4> HIDE DEF z
      <4> QED
        BY <1>1, <3>1
    <3>3. line \in 1 .. 17
      BY <1>1
    <3> QED
      BY <1>1, <2>1, <3>2, <3>3, AtIsPart
  <2>2. CASE \E part : parser' = Page!Fed(parser, [z[column] EXCEPT !.text = part, !.close = None])
    <3>1. PICK part : parser' = Page!Fed(parser, [z[column] EXCEPT !.text = part, !.close = None])
      BY <2>2
    <3>2. PICK f : f = [z[column] EXCEPT !.text = part, !.close = None]
      OBVIOUS
    <3>3. IsCutOf(f, z[column], part)
      BY <3>2 DEF IsCutOf
    <3>4. PartOf(Page!Fed(parser, f), gateway)
      BY <1>1, <3>3, CutIsPart
    <3> QED
      BY <3>1, <3>2, <3>4
  <2> QED
    BY <1>2, <2>1, <2>2
<1>4. gateway # None
  BY <1>1, PageNotNone
<1>5. PagePlaced'
  <2>1. line' \in 1 .. 17 /\ ~(line' < 17) /\ gateway' # None /\ gateway' \in Pages
    <3>1. 17 \in 1 .. 17 /\ ~(17 < 17)
      OBVIOUS
    <3> QED
      BY <1>1, <1>2, <1>4, <3>1, Zenon
  <2>2. PartOf(parser', gateway')
    BY <1>2, <1>3
  <2> QED
    BY <1>2, <2>1, <2>2, Zenon DEF PagePlaced
<1> QED
  BY <1>2, <1>5, NoStatusYet DEF PageInv

LEMMA ReadStep ==
    ASSUME PageInv, Page!Read
    PROVE  PageInv'
<1>1. /\ gateway # None /\ ~Page!IsFed /\ status = None /\ gateway \in Pages
      /\ status' = Page!ParsePage(Page!Closed(parser)) /\ parser' = Page!EmptyParser
      /\ gateway' = gateway /\ line' = line /\ column' = column /\ cut' = cut
  BY DEF Page!Read, PageInv, PagePlaced
<1>2. line = 17 /\ column = 1
  <2>1. Page!End = 17
    BY <1>1, EndIs
  <2>2. line \in 1 .. 17 /\ ~(line < 17)
    BY <1>1, <2>1 DEF Page!IsFed, PageInv, PagePlaced
  <2> QED
    BY <1>1, <2>2 DEF PageInv, PagePlaced
<1>3. /\ cut => PartOf(parser, gateway)
      /\ ~cut => At(parser, gateway, 17, 1)
  BY <1>1, <1>2 DEF PageInv, PagePlaced
<1>4. PartOf(parser, gateway)
  <2>1. 17 \in 1 .. 17 /\ 1 \in Nat \ {0}
    OBVIOUS
  <2> QED
    BY <1>3, <2>1, AtIsPart
<1>5. /\ status' # None
      /\ status' # ParseError => Whole(status', gateway) /\ OwnCounts(status', gateway) /\ Full(status', gateway)
      /\ Page!Parses(parser) => status' # ParseError
  BY <1>1, <1>4, ReadIs
<1>6. ~cut /\ Page!WellFormed(gateway) => status' # ParseError
  BY <1>1, <1>3, <1>5, EndParses
<1>7. Page!WholeOrNothing'
  BY <1>1, <1>5, Zenon DEF Page!WholeOrNothing, Page!IsStatus, Whole
<1>8. Page!OwnCountsOnly'
  BY <1>1, <1>5, Zenon DEF Page!OwnCountsOnly, Page!IsStatus, OwnCounts
<1>9. Page!WholePageParses'
  BY <1>1, <1>5, <1>6, Zenon DEF Page!WholePageParses, Page!IsStatus, Full
<1>10. PagePlaced'
  BY <1>1, <1>2, <1>5 DEF PageInv, PagePlaced
<1> QED
  BY <1>7, <1>8, <1>9, <1>10 DEF PageInv

LEMMA NextPollStep ==
    ASSUME PageInv, Page!NextPoll
    PROVE  PageInv'
<1>1. /\ gateway' = None /\ status' = None /\ cut' = FALSE /\ line' = 1 /\ column' = 1
      /\ parser' = Page!EmptyParser
  BY DEF Page!NextPoll, PageInv, PagePlaced
<1>2. PagePlaced'
  BY <1>1 DEF PagePlaced
<1> QED
  BY <1>1, <1>2, NoStatusYet DEF PageInv

LEMMA PageInductive == PageInv /\ [Page!Next]_(Page!vars) => PageInv'
<1> SUFFICES ASSUME PageInv, [Page!Next]_(Page!vars) PROVE PageInv'
  OBVIOUS
<1>1. CASE UNCHANGED Page!vars
  <2>1. /\ gateway' = gateway /\ line' = line /\ column' = column /\ parser' = parser
        /\ status' = status /\ cut' = cut
    BY <1>1 DEF Page!vars
  <2>2. PagePlaced'
    BY <2>1, Zenon DEF PageInv, PagePlaced
  <2>3. Page!WholeOrNothing' /\ Page!OwnCountsOnly' /\ Page!WholePageParses'
    BY <2>1, Zenon DEF PageInv, Page!WholeOrNothing, Page!OwnCountsOnly, Page!WholePageParses, Page!IsStatus
  <2> QED
    BY <2>2, <2>3 DEF PageInv
<1> QED
  BY <1>1, PageAnswersStep, FeedStep, CutStep, ReadStep, NextPollStep, Zenon DEF Page!Next

LEMMA PageInvType == PageInv => Page!TypeOK
<1> SUFFICES ASSUME PageInv PROVE Page!TypeOK
  OBVIOUS
<1> USE DEF PageInv
<1>1. gateway \in Pages \cup {None} /\ cut \in BOOLEAN
  BY Zenon DEF PagePlaced
<1>2. ASSUME gateway # None PROVE line \in 1 .. Page!End
  <2>1. gateway \in Pages /\ line \in 1 .. 17
    BY <1>2, Zenon DEF PagePlaced
  <2> QED
    BY <2>1, EndIs
<1>3. ASSUME Page!IsFed PROVE column \in DOMAIN Page!Elements
  BY <1>3, FedNow, Zenon
<1>4. parser.capture \in Captures
  <2>1. CASE parser = Page!EmptyParser
    <3>1. Page!EmptyParser.capture = None
      BY DEF Page!EmptyParser
    <3> QED
      BY <2>1, <3>1 DEF Captures
  <2>2. CASE gateway # None /\ status = None
    <3>1. CASE cut
      BY <2>2, <3>1, Zenon DEF PagePlaced, PartOf, Captures
    <3>2. CASE ~cut
      <4>1. At(parser, gateway, line, column) /\ gateway \in Pages /\ line \in 1 .. 17
        BY <2>2, <3>2, Zenon DEF PagePlaced
      <4>2. column \in Nat \ {0}
        <5>1. CASE line = 17
          BY <2>2, <5>1 DEF PagePlaced
        <5>2. CASE line \in 1 .. 16
          <6> DEFINE z == Page!Rendered(gateway)[line]
          <6>1. DOMAIN z = 1 .. Len(z) /\ Len(z) \in Nat
            BY <4>1, <5>2, RenderedLength
          <6>2. line < 17
            BY <5>2
          <6>3. column \in DOMAIN z
            BY <2>2, <6>2, Zenon DEF PagePlaced
          <6> HIDE DEF z
          <6> QED
            BY <6>1, <6>3
        <5> QED
          BY <4>1, <5>1, <5>2
      <4> QED
        BY <4>1, <4>2, AtIsPart, Zenon DEF PartOf, Captures
    <3> QED
      BY <3>1, <3>2
  <2> QED
    BY <2>1, <2>2, Zenon DEF PagePlaced
<1> QED
  BY <1>1, <1>2, <1>3, <1>4, Zenon DEF Page!TypeOK, Captures

LEMMA PageInvariant == Page!Spec => []PageInv
<1>1. Page!Init => PageInv
  BY PageInit
<1>2. PageInv /\ [Page!Next]_(Page!vars) => PageInv'
  BY PageInductive
<1> QED
  BY <1>1, <1>2, PTL DEF Page!Spec

\* The state of the page reader is well formed.
THEOREM PageTypeCorrect == Page!Spec => []Page!TypeOK
<1>1. PageInv => Page!TypeOK
  BY PageInvType
<1> QED
  BY <1>1, PageInvariant, PTL

\* A status of the gateway is what the whole page says, each channel with its
\* own codeword counts, or there is none: wherever the connection ends, and
\* whatever cell the page lacks (gateway/parser.py).
THEOREM StatusIsWholeOrNothing == Page!Spec => []PageWholeOrNothing
<1>1. PageInv => PageWholeOrNothing
  BY DEF PageInv, PageWholeOrNothing
<1> QED
  BY <1>1, PageInvariant, PTL

\* A page that ends as it should gives a status, and only what it lacks is
\* missing from it (gateway/parser.py).
THEOREM WholePageGivesStatus == Page!Spec => []PageWholeParses
<1>1. PageInv => PageWholeParses
  BY DEF PageInv, PageWholeParses
<1> QED
  BY <1>1, PageInvariant, PTL

\* The states of the three readers, side by side, are well formed.
THEOREM ReadersAreTyped == Spec /\ Page!Spec /\ Record!Spec => []ReadersTypeOK
<1>1. TypeOK /\ Page!TypeOK /\ Record!TypeOK => ReadersTypeOK
  BY DEF ReadersTypeOK
<1> QED
  BY <1>1, TypeCorrect, PageTypeCorrect, RecordTypeCorrect, PTL
=============================================================================
