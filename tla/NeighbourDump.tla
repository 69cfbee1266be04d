---------------------------- MODULE NeighbourDump ----------------------------
(***************************************************************************)
(* The LAN discovery exporter reads the kernel's neighbour table           *)
(* (lan_discovery/neigh.py): a netlink dump that arrives in several        *)
(* buffers while the table changes, what of it counts as a sighting, and   *)
(* at what time the device was heard.                                      *)
(*                                                                         *)
(* The kernel and the devices are the environment.  A device answers for   *)
(* an address or announces itself; the kernel ages and probes the entry as *)
(* the comment at the head of neigh.py tells it, and bumps an entry's      *)
(* "updated" time for reasons of its own: only some bumps mean that the    *)
(* device was heard.                                                       *)
(***************************************************************************)
EXTENDS Integers, Sequences, FiniteSets

CONSTANTS
    NumAddresses,   \* addresses the kernel may have an entry for
    OnLan,          \* those on the LAN interface and inside the LAN subnet
    Devices,        \* hardware addresses
    ReachableTime,  \* how long an entry stays REACHABLE without an answer
    MaxTime,        \* bound: the clock stops there
    MaxChanges,     \* bound: what happens to the table, or the clock, in one read
    None            \* no entry, no hardware address, never

ASSUME NeighbourDumpAssumption ==
    /\ NumAddresses \in Nat
    /\ OnLan \subseteq 1 .. NumAddresses
    /\ ReachableTime \in Nat
    /\ MaxTime \in Nat /\ MaxChanges \in Nat
    /\ None \notin Devices /\ None \notin Nat

Addresses == 1 .. NumAddresses
LongAgo == -2 * ReachableTime   \* the confirmation of an entry nobody confirmed

VARIABLES
    (* the kernel and the devices *)
    now,        \* the clock
    table,      \* table[a]: the entry of the address a, or None
    heard,      \* heard[a][d]: when d last answered for a or announced it
    changes,    \* how much happened since the read began
    (* the dump in progress *)
    cursor,     \* the kernel has sent the entries of the addresses below
    buffer,     \* a receive buffer nobody has read yet, or <<>>
    (* the exporter *)
    reading,    \* read_neighbours is waiting for a buffer
    pollAt,     \* the time the poll took as now
    received,   \* the neighbours parsed so far
    outcome,    \* how the last read ended: "read", "failed", or "none"
    sightings,  \* the sightings it ended with, until the poll takes them
    (* history of the dump *)
    sent,       \* the neighbours the kernel sent
    answer      \* "none", "refused", or "done" if the kernel ended the dump

kernel == <<now, table, heard>>
dump == <<cursor, buffer, sent, answer>>
exporter == <<reading, pollAt, received, outcome, sightings>>
vars == <<kernel, changes, dump, exporter>>

HeardFrom == {"REACHABLE", "STALE", "DELAY", "PROBE"}
States == HeardFrom \cup {"INCOMPLETE", "FAILED"}

Entry == [mac : Devices \cup {None}, state : States, confirmed : Int, updated : Int]

\* A neighbour as the dump has it: the ages are of the moment it was sent.
Neighbour == [addr : Addresses, mac : Devices \cup {None}, state : States,
              confirmedAge : Int, updatedAge : Int]
Message == [kind : {"newneigh"}, neighbour : Neighbour] \cup [kind : {"error", "done"}]
SightingSet == SUBSET [addr : Addresses, mac : Devices, at : Int]

\* The state is well formed.
TypeOK ==
    /\ now \in Nat
    /\ table \in [Addresses -> Entry \cup {None}]
    /\ heard \in [Addresses -> [Devices -> Nat \cup {None}]]
    /\ changes \in Nat
    /\ cursor \in 1 .. NumAddresses + 1
    /\ buffer \in Seq(Message)
    /\ reading \in BOOLEAN /\ pollAt \in Nat
    /\ received \in SUBSET Neighbour
    /\ outcome \in {"none", "read", "failed"}
    /\ sightings \in SightingSet
    /\ sent \in SUBSET Neighbour
    /\ answer \in {"none", "refused", "done"}

Init ==
    /\ now = 0
    /\ table = [a \in Addresses |-> None]
    /\ heard = [a \in Addresses |-> [d \in Devices |-> None]]
    /\ changes = 0
    /\ cursor = 1 /\ buffer = <<>> /\ sent = {} /\ answer = "none"
    /\ reading = FALSE /\ pollAt = 0 /\ received = {}
    /\ outcome = "none" /\ sightings = {}

(***************************************************************************)
(* The kernel's table.                                                     *)
(***************************************************************************)
Tick ==
    /\ now < MaxTime
    /\ \A a \in Addresses : table[a] # None /\ table[a].state = "REACHABLE"
                              => now < table[a].confirmed + ReachableTime
    /\ now' = now + 1
    /\ UNCHANGED <<table, heard, dump, exporter>>

Set(a, e) == table' = [table EXCEPT ![a] = e]
In(a, states) == table[a] # None /\ table[a].state \in states
Known(a, d) == table[a] # None /\ table[a].mac = d

\* The device answers: the entry is confirmed.
Answers(a, d) ==
    /\ Set(a, [mac |-> d, state |-> "REACHABLE", confirmed |-> now, updated |-> now])
    /\ heard' = [heard EXCEPT ![a][d] = now]
    /\ UNCHANGED <<now, dump, exporter>>

\* A gratuitous ARP makes the entry STALE: it updates it, and confirms nothing.
Announces(a, d) ==
    /\ Set(a, [mac |-> d, state |-> "STALE", updated |-> now,
               confirmed |-> IF Known(a, d) THEN table[a].confirmed ELSE LongAgo])
    /\ heard' = [heard EXCEPT ![a][d] = now]
    /\ UNCHANGED <<now, dump, exporter>>

\* The entry changes for reasons of the kernel's own, and that updates it.
Turned(e, state) ==
    [mac |-> e.mac, state |-> state, confirmed |-> e.confirmed, updated |-> now]

\* Somebody sends to the address: the kernel asks for it, or uses its entry.
Asked(e) ==
    IF e = None
    THEN [mac |-> None, state |-> "INCOMPLETE", confirmed |-> LongAgo, updated |-> now]
    ELSE IF e.state = "STALE" THEN Turned(e, "DELAY") ELSE e

IsAsked(a) == Set(a, Asked(table[a])) /\ UNCHANGED <<now, heard, dump, exporter>>

\* The entry ages, is probed (more than once), and is given up.
KernelTurns == {<<"REACHABLE", "STALE">>, <<"DELAY", "PROBE">>, <<"PROBE", "PROBE">>,
                <<"PROBE", "FAILED">>, <<"INCOMPLETE", "FAILED">>}

Turns(a) ==
    \E turn \in KernelTurns :
        /\ In(a, {turn[1]})
        /\ Set(a, Turned(table[a], turn[2]))
        /\ UNCHANGED <<now, heard, dump, exporter>>

Dropped(a) ==
    /\ In(a, {"STALE", "FAILED"})
    /\ Set(a, None)
    /\ UNCHANGED <<now, heard, dump, exporter>>

Idle == ~reading /\ outcome = "none"

Kernel ==
    /\ Idle \/ changes < MaxChanges
    /\ changes' = IF Idle THEN 0 ELSE changes + 1
    /\ \/ Tick
       \/ \E a \in Addresses :
             \/ \E d \in Devices : Answers(a, d) \/ Announces(a, d)
             \/ Turns(a) \/ IsAsked(a) \/ Dropped(a)

(***************************************************************************)
(* The dump.                                                               *)
(***************************************************************************)
AsSent(a) ==
    [addr |-> a, mac |-> table[a].mac, state |-> table[a].state,
     confirmedAge |-> now - table[a].confirmed, updatedAge |-> now - table[a].updated]

\* The addresses with an entry between the cursor and upTo, in order.
Orders(upTo) ==
    LET with == {a \in cursor .. upTo - 1 : table[a] # None}
    IN  {order \in [1 .. Cardinality(with) -> with] :
            /\ \A a \in with : \E i \in DOMAIN order : order[i] = a
            /\ \A i, j \in DOMAIN order : i < j => order[i] < order[j]}

Messages(order) ==
    [i \in DOMAIN order |-> [kind |-> "newneigh", neighbour |-> AsSent(order[i])]]

\* The kernel fills the next buffer with as many entries as it has room for,
\* and when there are no more ends the dump, in that buffer or in one more.
Fills ==
    /\ reading /\ buffer = <<>> /\ answer = "none"
    /\ \E upTo \in cursor .. NumAddresses + 1, ends \in BOOLEAN :
       \E order \in Orders(upTo) :
          /\ ends => upTo = NumAddresses + 1
          /\ ends \/ order # <<>>
          /\ buffer' = Messages(order) \o IF ends THEN <<[kind |-> "done"]>> ELSE <<>>
          /\ sent' = sent \cup {AsSent(order[i]) : i \in DOMAIN order}
          /\ cursor' = upTo
          /\ answer' = IF ends THEN "done" ELSE "none"
    /\ UNCHANGED <<kernel, changes, exporter>>

\* The kernel, or a seccomp policy, refuses.
Refuses ==
    /\ reading /\ buffer = <<>> /\ answer = "none"
    /\ buffer' = <<[kind |-> "error"]>>
    /\ answer' = "refused"
    /\ UNCHANGED <<kernel, changes, exporter, cursor, sent>>

(***************************************************************************)
(* The three scans of one buffer.                                          *)
(***************************************************************************)
Kinds(data) == {data[i].kind : i \in DOMAIN data}

\* raise_netlink_error: an error reply (here always with an error number).
IsError(data) == "error" \in Kinds(data)

\* A mistake: only the first message is looked at.
StartsWithEnd(data) == data # <<>> /\ Head(data).kind \in {"done", "error"}

\* _dump_finished
DumpFinished(data) == Kinds(data) \cap {"done", "error"} # {}

\* parse_neighbour_dump: the neighbours before the end of the dump.
Parsed(data) ==
    {data[i].neighbour : i \in {i \in DOMAIN data :
        \A j \in 1 .. i : data[j].kind = "newneigh"}}

(***************************************************************************)
(* neighbour_sightings.                                                    *)
(***************************************************************************)
\* A mistake: an entry is kept whatever its state, with no MAC to it too.
AnyNeighbour(n) == n.addr \in OnLan

Kept(n) == n.addr \in OnLan /\ n.mac # None /\ n.state \in HeardFrom

\* A mistake: the entry's last change taken for the device's last word.
LatestAge(n) == IF n.updatedAge < n.confirmedAge THEN n.updatedAge ELSE n.confirmedAge

\* The age of the sighting: only a STALE entry's update can mean an announcement.
Age(n) ==
    IF n.state = "STALE" /\ n.updatedAge < n.confirmedAge
    THEN n.updatedAge ELSE n.confirmedAge

SightingsOf(neighbours) ==
    {[addr |-> n.addr, mac |-> n.mac, at |-> pollAt - Age(n)] :
        n \in {n \in neighbours : Kept(n)}}

(***************************************************************************)
(* read_neighbours.                                                        *)
(***************************************************************************)
StartRead ==
    /\ Idle
    /\ reading' = TRUE /\ pollAt' = now
    /\ UNCHANGED <<kernel, changes, dump, received, outcome, sightings>>

NoDump == cursor' = 1 /\ buffer' = <<>> /\ sent' = {} /\ answer' = "none"

\* The read is over: the socket is closed, and what is left of the dump with it.
EndRead(how, found) ==
    /\ reading' = FALSE /\ received' = {}
    /\ outcome' = how /\ sightings' = found
    /\ NoDump
    /\ UNCHANGED <<kernel, changes, pollAt>>

\* A mistake: a refusal ends the read as the end of the table would.
RefusalEnds ==
    /\ reading /\ buffer # <<>> /\ IsError(buffer)
    /\ EndRead("read", SightingsOf(received))

ReadRaises ==
    /\ reading /\ buffer # <<>> /\ IsError(buffer)
    /\ EndRead("failed", {})

Receive ==
    /\ reading /\ buffer # <<>> /\ ~IsError(buffer)
    /\ LET parsed == received \cup Parsed(buffer)
       IN  IF DumpFinished(buffer)
           THEN EndRead("read", SightingsOf(parsed))
           ELSE /\ buffer' = <<>> /\ received' = parsed
                /\ UNCHANGED <<kernel, changes, reading, pollAt, outcome,
                               sightings, cursor, sent, answer>>

\* Five seconds without a buffer.
TimesOut ==
    /\ reading /\ buffer = <<>>
    /\ EndRead("failed", {})

\* The poll takes the result, and records the sightings.
Taken ==
    /\ outcome # "none"
    /\ outcome' = "none" /\ sightings' = {}
    /\ changes' = 0
    /\ UNCHANGED <<kernel, dump, reading, pollAt, received>>

\* provoke: a datagram to each address of a set, as far as it can be sent.
Provoke(reached) ==
    /\ Idle
    /\ table' = [a \in Addresses |-> IF a \in reached THEN Asked(table[a]) ELSE table[a]]
    /\ UNCHANGED <<now, heard, changes, dump, exporter>>

Exporter ==
    \/ StartRead \/ ReadRaises \/ Receive \/ TimesOut \/ Taken
    \/ \E reached \in SUBSET Addresses : Provoke(reached)

Next == Kernel \/ Fills \/ Refuses \/ Exporter

Spec == Init /\ [][Next]_vars

(***************************************************************************)
(* Properties.                                                             *)
(***************************************************************************)

\* What neigh.py says a sighting is: a device of the LAN that was itself heard
\* at that address, at most ReachableTime before the time given and never after
\* the poll, whatever the kernel did to the entry since and however long the
\* dump took.
SightingHonest ==
    \A s \in sightings :
        /\ s.addr \in OnLan
        /\ s.at <= pollAt
        /\ heard[s.addr][s.mac] # None
        /\ s.at <= heard[s.addr][s.mac] + ReachableTime

\* A read ends with every device of the whole dump, or it fails: a refusal, or
\* a dump that stops half way, is never taken for a table of what came before,
\* and a dump that was read to its end does not fail.
WholeDumpOrFailure ==
    [][reading /\ ~reading' =>
          IF answer = "done"
          THEN outcome' = "read" /\ sightings' = SightingsOf(sent)
          ELSE outcome' = "failed" /\ sightings' = {}]_vars
=============================================================================
