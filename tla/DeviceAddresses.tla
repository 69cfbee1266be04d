--------------------------- MODULE DeviceAddresses ---------------------------
(***************************************************************************)
(* The device address inventory, common/device_addresses.py: what one      *)
(* producer's file keeps of the sightings it is given, and the address the *)
(* consumers make of all the files together.                               *)
(*                                                                         *)
(* Times are seconds.  Devices are MACs and, like addresses, numbered in   *)
(* the order the code sorts them.  What nobody reads back to choose an     *)
(* address (first_seen, name, role, extra) is left out.                    *)
(***************************************************************************)
EXTENDS Integers, FiniteSets

CONSTANTS
    NumDevices,          \* devices, by MAC
    NumAddresses,        \* IPv4 addresses
    Hosts,               \* canonical hostnames
    MaxAddressesPerMac,  \* addresses a file keeps per device
    Retention,           \* seconds a file keeps an observation
    MaxAge,              \* seconds an observation counts as fresh
    None                 \* no MAC, no hostname, no address

Devices == 1 .. NumDevices
Addresses == 1 .. NumAddresses

ASSUME DeviceAddressesAssumption ==
    /\ NumDevices \in Nat
    /\ NumAddresses \in Nat
    /\ MaxAddressesPerMac \in Nat \ {0}
    /\ Retention \in Nat
    /\ MaxAge \in 0 .. Retention
    /\ None \notin Int
    /\ None \notin Hosts
    /\ Hosts \cap Int = {}

\* A mistake: announcements outrank the neighbour table.
MdnsFirst(s, t) == \/ s = "mdns" /\ t \in {"arp", "router"}
                   \/ s = "arp" /\ t = "router"

\* In the order in which latest() prefers them.
Sources == {"arp", "mdns", "router"}
Before(s, t) == \/ s = "arp" /\ t \in {"mdns", "router"}
                \/ s = "mdns" /\ t = "router"

\* An Observation, and a Sighting alike: at least one of mac and host is known.
Observations == {o \in [mac: Devices \cup {None}, host: Hosts \cup {None},
                        addr: Addresses, last: Nat] :
                   o.mac # None \/ o.host # None}

Identities == Devices \cup Hosts
Identity(o) == IF o.mac # None THEN o.mac ELSE o.host

SameKey(o, p) == Identity(o) = Identity(p) /\ o.addr = p.addr

\* The order of a device's observations: newest first, then by address.
Precedes(o, p) == o.last > p.last \/ (o.last = p.last /\ o.addr < p.addr)

(***************************************************************************)
(* SourceStore.                                                            *)
(***************************************************************************)

\* A mistake: a repeat sighting takes over as it is, however late it comes.
TakeOver(doc, s) == s

\* A sighting merged with what doc has recorded under its key.
Refreshed(doc, s) ==
    LET previous == {o \in doc : SameKey(o, s)}
    IN  IF previous = {} THEN s
        ELSE LET p == CHOOSE o \in previous : TRUE
             IN  [mac |-> s.mac, addr |-> s.addr,
                  host |-> IF s.host = None THEN p.host ELSE s.host,
                  last |-> IF s.last < p.last THEN p.last ELSE s.last]

Merged(doc, sightings) ==
    {o \in doc : \A s \in sightings : ~SameKey(o, s)}
        \cup {Refreshed(doc, s) : s \in sightings}

\* Retention, and the cap on each device's addresses.
Trimmed(doc, now) ==
    {o \in doc :
        /\ now - o.last <= Retention
        /\ Cardinality({p \in doc : Identity(p) = Identity(o) /\ Precedes(p, o)})
             < MaxAddressesPerMac}

\* record: sightings of one poll have distinct keys.
Recorded(doc, sightings, now) == Trimmed(Merged(doc, sightings), now)

(***************************************************************************)
(* AddressInventory, over docs[s], the observations read from source s.    *)
(***************************************************************************)
MacsOf(docs, h) ==
    {o.mac : o \in {p \in UNION {docs[s] : s \in Sources} :
                       p.mac # None /\ p.host = h}}

\* The device an observation counts for: a hostname stands for the one MAC
\* some source pairs it with, and for nothing when there is none or several.
Owns(docs, d, o) ==
    \/ o.mac = d
    \/ o.mac = None /\ MacsOf(docs, o.host) = {d}

\* A mistake: whatever is on file counts as fresh.
AnyAge(docs, s, d, now) == {o \in docs[s] : Owns(docs, d, o)}

Fresh(docs, s, d, now) ==
    {o \in docs[s] : Owns(docs, d, o) /\ now - o.last <= MaxAge}

\* latest: the newest fresh observation of the first source that has any.
AnswersFrom(docs, s, d, now) ==
    {[source |-> s, addr |-> o.addr, last |-> o.last] :
        o \in {p \in Fresh(docs, s, d, now) :
                 \A q \in Fresh(docs, s, d, now) : ~Precedes(q, p)}}

Answers(docs, d, now) ==
    UNION {AnswersFrom(docs, s, d, now) :
             s \in {t \in Sources : \A u \in Sources :
                      Before(u, t) => Fresh(docs, u, d, now) = {}}}

Latest(docs, d, now) ==
    LET answers == Answers(docs, d, now)
    IN  IF answers = {} THEN None ELSE CHOOSE r \in answers : TRUE
=============================================================================
