---------------------------- MODULE LanDiscovery ----------------------------
(***************************************************************************)
(* The producers and the consumer of the device address inventory: the     *)
(* AmpliFi exporter writes router.json (amplifi/main.py), the LAN          *)
(* discovery exporter (lan_discovery/main.py) writes mdns.json and         *)
(* arp.json, loads all three, publishes its metrics and renders the two    *)
(* probe target files.  The processes share nothing but the files.         *)
(*                                                                         *)
(* Devices change addresses and hear of it at their own pace: a source may *)
(* report an address its device no longer has, but never claims to have    *)
(* seen it later than it did.  Every device here is a tracked HomePod.     *)
(***************************************************************************)
EXTENDS DeviceAddresses

CONSTANTS
    HostOf,       \* HostOf[d]: the device's hostname
    Enabled,      \* which of "arp" and "mdns" the exporter runs
    Reachable,    \* seconds by which a STALE neighbour entry may flatter
    Fragile,      \* bound: the sources whose files may be lost
    MaxTime       \* bound: seconds

ASSUME LanDiscoveryAssumption ==
    /\ HostOf \in [Devices -> Hosts]
    /\ \A d, e \in Devices : HostOf[d] = HostOf[e] => d = e
    /\ Enabled \subseteq {"arp", "mdns"}
    /\ Reachable \in Nat
    /\ Fragile \subseteq Sources
    /\ MaxTime \in Nat

VARIABLES
    (* the network *)
    now,           \* the wall clock
    addr,          \* addr[d]: the device's address, None before it first came
    heldAt,        \* heldAt[d][a]: the last second d held a, None if never
    (* the shared directory *)
    docs,          \* docs[s]: the observations in s.json
    pingFile,      \* ping-targets.yml: the set of its targets
    airplayFile,   \* airplay-targets.json
    (* the LAN discovery exporter *)
    pc,            \* what the poll does next
    pollAt,        \* the time the poll took at its start, 0 between polls
    snapshot,      \* the published answer for each device, or None
    targetFilesOk, \* lan_discovery_target_files_ok, None before the first poll
    up,            \* lan_discovery_up
    (* history *)
    newest         \* newest[s][i]: the last sighting of i recorded in s.json

network == <<now, addr, heldAt>>
exporter == <<pc, pollAt, snapshot, targetFilesOk, up>>
vars == <<network, docs, pingFile, airplayFile, exporter, newest>>

Answer == [source: Sources, addr: Addresses, last: Nat]
Snapshot == [Devices -> Answer \cup {None}]
Target == [addr: Addresses, device: Devices]

ASSUME NoneAssumption == None \notin Answer /\ None \notin Snapshot

TypeOK ==
    /\ now \in Nat
    /\ addr \in [Devices -> Addresses \cup {None}]
    /\ heldAt \in [Devices -> [Addresses -> Nat \cup {None}]]
    /\ docs \in [Sources -> SUBSET Observations]
    /\ pingFile \subseteq Target
    /\ airplayFile \subseteq Target
    /\ pc \in {"idle", "arp", "load", "ping", "airplay"}
    /\ pollAt \in Nat
    /\ snapshot \in Snapshot \cup {None}
    /\ targetFilesOk \in BOOLEAN \cup {None}
    /\ up \in BOOLEAN
    /\ newest \in [Sources -> [Identities -> Nat \cup {None}]]

Unheard == [i \in Identities |-> None]

Init ==
    /\ now = 0
    /\ addr = [d \in Devices |-> None]
    /\ heldAt = [d \in Devices |-> [a \in Addresses |-> None]]
    /\ docs = [s \in Sources |-> {}]
    /\ pingFile = {} /\ airplayFile = {}
    /\ pc = "idle" /\ pollAt = 0
    /\ snapshot = None /\ targetFilesOk = None /\ up = FALSE
    /\ newest = [s \in Sources |-> Unheard]

(***************************************************************************)
(* The network.                                                            *)
(***************************************************************************)
Tick ==
    /\ now < MaxTime
    /\ now' = now + 1
    /\ heldAt' = [d \in Devices |-> [a \in Addresses |->
                    IF addr[d] = a THEN now + 1 ELSE heldAt[d][a]]]
    /\ UNCHANGED <<addr, docs, pingFile, airplayFile, exporter, newest>>

\* A device comes, or moves, to an address nobody else has.  One that goes
\* away is one no source reports any more, which they never have to.
Move(d, a) ==
    /\ \A e \in Devices : addr[e] # a
    /\ addr' = [addr EXCEPT ![d] = a]
    /\ heldAt' = [heldAt EXCEPT ![d][a] = now]
    /\ UNCHANGED <<now, docs, pingFile, airplayFile, exporter, newest>>

\* A source file is lost or damaged: either is read as no observations.
LoseFile(s) ==
    /\ docs' = [docs EXCEPT ![s] = {}]
    /\ newest' = [newest EXCEPT ![s] = Unheard]
    /\ UNCHANGED <<network, pingFile, airplayFile, exporter>>

(***************************************************************************)
(* Sightings.                                                              *)
(***************************************************************************)
Sighting(m, h, a, t) == [mac |-> m, host |-> h, addr |-> a, last |-> t]

\* The router lists its clients and wired devices at the poll's time, with the
\* address it has for them, which may be an old one.
RouterSightings ==
    {s \in {Sighting(d, HostOf[d], a, now) : d \in Devices, a \in Addresses} :
        heldAt[s.mac][s.addr] # None}

\* The neighbour table says when the device last answered for the address, or,
\* for a STALE entry, a little later, but never later than it is read.
NeighbourTimes(d, a) ==
    {IF t <= pollAt THEN t ELSE pollAt : t \in {heldAt[d][a], heldAt[d][a] + Reachable}}

NeighbourSightings ==
    {s \in {Sighting(d, None, a, t) : d \in Devices, a \in Addresses, t \in 0 .. pollAt} :
        heldAt[s.mac][s.addr] # None /\ s.last \in NeighbourTimes(s.mac, s.addr)}

\* A mistake: a sighting of neither a MAC nor a hostname is let through.
NamelessSightings ==
    UNION {{Sighting(None, None, a, heldAt[d][a]) :
              a \in {a \in Addresses : heldAt[d][a] # None}} : d \in Devices}

\* An mDNS announcement carries the hostname and the time it came.
MdnsSightings ==
    UNION {{Sighting(None, HostOf[d], a, heldAt[d][a]) :
              a \in {a \in Addresses : heldAt[d][a] # None}} : d \in Devices}

\* A poll's sightings have distinct keys; the neighbour table moreover has one
\* entry per address.
DistinctKeys(S) == \A s, t \in S : SameKey(s, t) => s = t
RouterPolls == {S \in SUBSET RouterSightings : DistinctKeys(S)}
MdnsPolls == {S \in SUBSET MdnsSightings : DistinctKeys(S)}
NeighbourPolls ==
    {S \in SUBSET NeighbourSightings : \A s, t \in S : s.addr = t.addr => s = t}

\* SourceStore.record into s.json at time t.
Record(s, S, t) ==
    /\ docs' = [docs EXCEPT ![s] = Recorded(@, S, t)]
    /\ newest' = [newest EXCEPT ![s] = [i \in Identities |->
          LET times == {x.last : x \in {y \in S : Identity(y) = i}}
                          \cup (IF @[i] = None THEN {} ELSE {@[i]})
          IN  IF times = {} THEN None
              ELSE CHOOSE m \in times : \A n \in times : n <= m]]

\* One producer's part of a poll: nothing recorded (the source could not be
\* read, or its file not written), or the sightings of one of polls.
RecordOrFail(s, polls, t) ==
    \/ UNCHANGED <<docs, newest>>
    \/ \E S \in polls : Record(s, S, t)

\* The AmpliFi exporter records a poll of the router.
RecordRouter ==
    /\ \E S \in RouterPolls : Record("router", S, now)
    /\ UNCHANGED <<network, pingFile, airplayFile, exporter>>

(***************************************************************************)
(* The poll of the LAN discovery exporter.                                 *)
(***************************************************************************)
StartPoll ==
    /\ pc = "idle"
    /\ pc' = "arp" /\ pollAt' = now
    /\ IF "mdns" \in Enabled
       THEN RecordOrFail("mdns", MdnsPolls, now)
       ELSE UNCHANGED <<docs, newest>>
    /\ UNCHANGED <<network, pingFile, airplayFile, snapshot, targetFilesOk, up>>

RecordNeighbours ==
    /\ pc = "arp"
    /\ pc' = "load"
    /\ IF "arp" \in Enabled
       THEN RecordOrFail("arp", NeighbourPolls, pollAt)
       ELSE UNCHANGED <<docs, newest>>
    /\ UNCHANGED <<network, pingFile, airplayFile, pollAt, snapshot, targetFilesOk, up>>

\* target_infos: the tracked devices with a fresh address, by MAC, and of two
\* with the same address only the first.
Targets(latest) ==
    {[addr |-> latest[d].addr, device |-> d] :
        d \in {d \in Devices :
            /\ latest[d] # None
            /\ \A e \in 1 .. d - 1 :
                  latest[e] # None => latest[e].addr # latest[d].addr}}

\* The inventory is loaded and what it says published.
Load ==
    /\ pc = "load"
    /\ snapshot' = [d \in Devices |-> Latest(docs, d, pollAt)]
    /\ pc' = "ping"
    /\ UNCHANGED <<network, docs, pingFile, airplayFile, pollAt, targetFilesOk, up,
                   newest>>

\* Loading raises: the poll fails with the snapshot cleared.
LoadFails ==
    /\ pc = "load"
    /\ snapshot' = None /\ up' = FALSE
    /\ pc' = "idle" /\ pollAt' = 0
    /\ UNCHANGED <<network, docs, pingFile, airplayFile, targetFilesOk, newest>>

WritePing ==
    /\ pc = "ping"
    /\ pingFile' = Targets(snapshot)
    /\ pc' = "airplay"
    /\ UNCHANGED <<network, docs, airplayFile, pollAt, snapshot, targetFilesOk, up,
                   newest>>

\* The second file ends the poll well; asking the network about the devices
\* without a fresh address changes nothing here.
WriteAirplay ==
    /\ pc = "airplay"
    /\ airplayFile' = Targets(snapshot)
    /\ targetFilesOk' = TRUE /\ up' = TRUE
    /\ pc' = "idle" /\ pollAt' = 0
    /\ UNCHANGED <<network, docs, pingFile, snapshot, newest>>

\* A mistake: the failure leaves lan_discovery_up as it was.
FailureUnnoticed ==
    /\ pc \in {"ping", "airplay"}
    /\ pc' = "idle" /\ pollAt' = 0
    /\ UNCHANGED <<network, docs, pingFile, airplayFile, snapshot, targetFilesOk, up,
                   newest>>

\* Writing a file raises, before or (syncing the directory) after the file was
\* replaced: the poll fails, with the snapshot in place.
WriteFails ==
    /\ \/ pc = "ping" /\ pingFile' \in {pingFile, Targets(snapshot)}
          /\ UNCHANGED airplayFile
       \/ pc = "airplay" /\ airplayFile' \in {airplayFile, Targets(snapshot)}
          /\ UNCHANGED pingFile
    /\ targetFilesOk' = FALSE /\ up' = FALSE
    /\ pc' = "idle" /\ pollAt' = 0
    /\ UNCHANGED <<network, docs, snapshot, newest>>

\* The exporter dies and starts again; the files stay.
Restart ==
    /\ pc' = "idle" /\ pollAt' = 0
    /\ snapshot' = None /\ targetFilesOk' = None /\ up' = FALSE
    /\ UNCHANGED <<network, docs, pingFile, airplayFile, newest>>

Network ==
    \/ Tick
    \/ \E d \in Devices, a \in Addresses : Move(d, a)
    \/ \E s \in Fragile : LoseFile(s)

Poll ==
    StartPoll \/ RecordNeighbours \/ Load \/ LoadFails
        \/ WritePing \/ WriteAirplay \/ WriteFails

Next == Network \/ RecordRouter \/ Poll \/ Restart

Spec == Init /\ [][Next]_vars

(***************************************************************************)
(* Properties.                                                             *)
(***************************************************************************)

\* The fail-safe the inventory exists for: when targets are published, the
\* device had the address within the freshness window, unless only the router
\* says so.  Whatever was merged, trimmed, lost, or recorded late.
TargetsWereHeld ==
    pc = "ping" =>
        \A d \in Devices :
            (snapshot[d] # None /\ snapshot[d].source # "router") =>
                /\ heldAt[d][snapshot[d].addr] # None
                /\ heldAt[d][snapshot[d].addr]
                     + (IF snapshot[d].source = "arp" THEN Reachable ELSE 0)
                     >= pollAt - MaxAge

\* Neither the cap nor retention, nor an older sighting that comes late, ever
\* costs a device its newest recorded sighting while it is within retention.
NewestSurvives ==
    \A s \in Sources, i \in Identities :
        (newest[s][i] # None /\ now - newest[s][i] <= Retention) =>
            \E o \in docs[s] : Identity(o) = i /\ o.last = newest[s][i]

\* A device the neighbour table has seen within the freshness window is
\* published with the newest address it was seen at there, whatever the router
\* still lists.
ArpDecides ==
    [][(pc = "load" /\ pc' = "ping") =>
          \A d \in Devices :
              (newest["arp"][d] # None /\ pollAt - newest["arp"][d] <= MaxAge) =>
                  /\ snapshot'[d] # None
                  /\ snapshot'[d].source = "arp"
                  /\ snapshot'[d].last = newest["arp"][d]]_vars

\* Between polls, lan_discovery_up 1 means that both target files are the ones
\* for the published snapshot.
FilesFollowSnapshot ==
    (pc = "idle" /\ up) =>
        /\ snapshot # None /\ targetFilesOk = TRUE
        /\ pingFile = Targets(snapshot) /\ airplayFile = Targets(snapshot)

\* alerts.yml.j2:83-86: while LanDiscoveryFailing fires (lan_discovery_up 0) no
\* HomePod rule follows a stale address.  HomePodAirPlayPortDown watches the
\* targets of the frozen file of each device whose address is fresh.
FrozenRulesQuiet ==
    (pc = "idle" /\ ~up /\ snapshot # None) =>
        \A t \in airplayFile :
            snapshot[t.device] # None =>
                t.addr = snapshot[t.device].addr
=============================================================================
