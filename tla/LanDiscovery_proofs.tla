------------------------ MODULE LanDiscovery_proofs -------------------------
(***************************************************************************)
(* Proofs about LanDiscovery, for any devices, addresses, cap, retention   *)
(* and freshness window.                                                   *)
(***************************************************************************)
EXTENDS LanDiscovery, FiniteSetTheorems, WellFoundedInduction, TLAPS

USE DeviceAddressesAssumption, LanDiscoveryAssumption

-----------------------------------------------------------------------------
(* Natural numbers. *)

LEMMA LeastOf ==
    ASSUME NEW T \in SUBSET Nat, T # {}
    PROVE  \E m \in T : \A x \in T : m <= x
<1>1. PICK m \in T : \A x \in T : ~ (<<x, m>> \in OpToRel(<, Nat))
  BY WFMin, NatLessThanWellFounded
<1>2. \A x \in T : ~ (x < m)
  BY <1>1 DEF OpToRel
<1>3. QED
  BY <1>2

LEMMA GreatestOf ==
    ASSUME NEW n \in Nat, NEW T \in SUBSET (0 .. n), T # {}
    PROVE  \E m \in T : \A x \in T : x <= m
<1> DEFINE U == {k \in Nat : n - k \in T}
<1>1. U \in SUBSET Nat /\ U # {}
  <2>1. PICK x \in T : TRUE
    OBVIOUS
  <2>2. n - x \in U
    BY <2>1
  <2>3. QED
    BY <2>2
<1>2. PICK k \in U : \A y \in U : k <= y
  <2> HIDE DEF U
  <2>1. \E k \in U : \A y \in U : k <= y
    BY <1>1, LeastOf
  <2>2. QED
    BY <2>1
<1>3. PICK m \in T : m = n - k
  BY <1>2
<1>4. ASSUME NEW x \in T PROVE x <= m
  <2>1. n - x \in U
    OBVIOUS
  <2>2. k <= n - x
    BY <1>2, <2>1
  <2>3. QED
    BY <1>2, <1>3, <2>2
<1>5. QED
  BY <1>4

-----------------------------------------------------------------------------
(* One source file. *)

\* What merging a sighting with the file leaves as it was: the key.  Its time
\* and hostname come from the sighting or from what was recorded.
LEMMA RefreshedFacts ==
    ASSUME NEW doc \in SUBSET Observations, NEW s \in Observations
    PROVE  LET r == Refreshed(doc, s)
           IN  /\ r \in Observations
               /\ r.mac = s.mac /\ r.addr = s.addr
               /\ s.host # None => r.host = s.host
               /\ Identity(r) = Identity(s)
               /\ s.last <= r.last
               /\ \/ r = s
                  \/ \E p \in doc : /\ SameKey(p, s)
                                    /\ r.last \in {s.last, p.last}
                                    /\ r.host \in {s.host, p.host}
<1> DEFINE previous == {o \in doc : SameKey(o, s)}
           p == CHOOSE o \in previous : TRUE
<1>1. CASE previous = {}
  <2>1. Refreshed(doc, s) = s
    BY <1>1 DEF Refreshed
  <2>2. s.last \in Nat
    BY DEF Observations
  <2>3. QED
    BY <2>1, <2>2
<1>2. CASE previous # {}
  <2>1. p \in doc /\ SameKey(p, s)
    BY <1>2
  <2>2. /\ s.last \in Nat /\ p.last \in Nat
        /\ s.mac \in Devices \cup {None} /\ s.addr \in Addresses
        /\ {s.host, p.host} \subseteq Hosts \cup {None}
        /\ s.mac # None \/ s.host # None
    BY <2>1 DEF Observations
  <2> DEFINE r == [mac |-> s.mac, addr |-> s.addr,
                   host |-> IF s.host = None THEN p.host ELSE s.host,
                   last |-> IF s.last < p.last THEN p.last ELSE s.last]
  <2>3. Refreshed(doc, s) = r
    BY <1>2 DEF Refreshed
  <2>4. /\ r.mac = s.mac /\ r.addr = s.addr
        /\ s.host # None => r.host = s.host
        /\ r.host \in {s.host, p.host}
        /\ r.last \in {s.last, p.last} /\ s.last <= r.last
    BY <2>2
  <2>5. r \in Observations
    BY <2>2 DEF Observations
  <2>6. Identity(r) = Identity(s)
    BY <2>2, <2>4 DEF Identity
  <2> HIDE DEF p, r
  <2>7. QED
    BY <2>1, <2>3, <2>4, <2>5, <2>6
<1>3. QED
  BY <1>1, <1>2

UniqueKeys(doc) == \A o, p \in doc : SameKey(o, p) => o = p

\* A later time recorded under the same key survives a merge.
LEMMA RefreshedKeepsLast ==
    ASSUME NEW doc \in SUBSET Observations, UniqueKeys(doc),
           NEW s \in Observations, NEW o \in doc, SameKey(o, s)
    PROVE  o.last <= Refreshed(doc, s).last
<1> DEFINE previous == {q \in doc : SameKey(q, s)}
           p == CHOOSE q \in previous : TRUE
<1>1. p \in doc /\ SameKey(p, s)
  OBVIOUS
<1>2. p = o
  BY <1>1 DEF UniqueKeys, SameKey
<1>3. previous # {}
  OBVIOUS
<1>4. Refreshed(doc, s).last = IF s.last < p.last THEN p.last ELSE s.last
  BY <1>3 DEF Refreshed
<1>5. s.last \in Nat /\ o.last \in Nat
  BY DEF Observations
<1> HIDE DEF p
<1>6. QED
  BY <1>2, <1>4, <1>5

LEMMA RecordedType ==
    ASSUME NEW doc \in SUBSET Observations, NEW S \in SUBSET Observations,
           NEW t \in Nat
    PROVE  /\ Merged(doc, S) \in SUBSET Observations
           /\ Recorded(doc, S, t) \in SUBSET Observations
BY RefreshedFacts DEF Recorded, Trimmed, Merged

\* Recording sightings with distinct keys keeps a file's keys distinct.
LEMMA RecordedUnique ==
    ASSUME NEW doc \in SUBSET Observations, NEW S \in SUBSET Observations,
           NEW t \in Nat, UniqueKeys(doc), DistinctKeys(S)
    PROVE  UniqueKeys(Recorded(doc, S, t))
<1> SUFFICES ASSUME NEW o \in Merged(doc, S), NEW p \in Merged(doc, S), SameKey(o, p)
             PROVE  o = p
  BY DEF UniqueKeys, Recorded, Trimmed
<1> DEFINE Old(x) == x \in doc /\ \A s \in S : ~SameKey(x, s)
<1>1. ASSUME NEW x \in Merged(doc, S)
      PROVE  Old(x) \/ \E s \in S : x = Refreshed(doc, s)
  BY DEF Merged
<1>2. \A s \in S : /\ Identity(Refreshed(doc, s)) = Identity(s)
                    /\ Refreshed(doc, s).addr = s.addr
  BY RefreshedFacts
<1>3. CASE Old(o) /\ Old(p)
  BY <1>3 DEF UniqueKeys
<1>4. CASE (\E s \in S : o = Refreshed(doc, s)) /\ (\E s \in S : p = Refreshed(doc, s))
  <2>1. PICK s \in S : o = Refreshed(doc, s)
    BY <1>4
  <2>2. PICK r \in S : p = Refreshed(doc, r)
    BY <1>4
  <2>3. SameKey(s, r)
    BY <1>2, <2>1, <2>2 DEF SameKey
  <2>4. QED
    BY <2>1, <2>2, <2>3 DEF DistinctKeys
<1>5. CASE Old(o) /\ \E s \in S : p = Refreshed(doc, s)
  BY <1>2, <1>5 DEF SameKey
<1>6. CASE Old(p) /\ \E s \in S : o = Refreshed(doc, s)
  BY <1>2, <1>6 DEF SameKey
<1>7. QED
  BY <1>1, <1>3, <1>4, <1>5, <1>6

\* What a file says of a device was said before by the file or by a sighting.
LEMMA MergedBound ==
    ASSUME NEW doc \in SUBSET Observations, NEW S \in SUBSET Observations,
           NEW o \in Merged(doc, S)
    PROVE  \E q \in doc \cup S : Identity(q) = Identity(o) /\ q.last = o.last
<1>1. CASE o \in doc
  BY <1>1
<1>2. CASE \E s \in S : o = Refreshed(doc, s)
  <2>1. PICK s \in S : o = Refreshed(doc, s)
    BY <1>2
  <2>2. /\ Identity(o) = Identity(s)
        /\ o = s \/ \E p \in doc : SameKey(p, s) /\ o.last \in {s.last, p.last}
    BY <2>1, RefreshedFacts
  <2>3. QED
    BY <2>2 DEF SameKey
<1>3. QED
  BY <1>1, <1>2 DEF Merged

NewestIn(doc, i, m) ==
    /\ \A q \in doc : Identity(q) = i => q.last <= m
    /\ \E q \in doc : Identity(q) = i /\ q.last = m

\* The newest time said of a device stays on file while it is within retention:
\* the cap drops only observations that another one precedes.
LEMMA RecordedNewest ==
    ASSUME NEW doc \in SUBSET Observations, NEW S \in SUBSET Observations,
           NEW t \in Nat, UniqueKeys(doc), NEW i, NEW m \in Nat,
           t - m <= Retention, NewestIn(doc \cup S, i, m)
    PROVE  \E o \in Recorded(doc, S, t) : Identity(o) = i /\ o.last = m
<1>1. \A o \in Merged(doc, S) : Identity(o) = i => o.last <= m
  BY MergedBound DEF NewestIn
<1>2. \E o \in Merged(doc, S) : Identity(o) = i /\ o.last = m
  <2>1. PICK q \in doc \cup S : Identity(q) = i /\ q.last = m
    BY DEF NewestIn
  <2>2. CASE \E s \in S : s = q \/ (q \in doc /\ SameKey(q, s))
    <3>1. PICK s \in S : s = q \/ (q \in doc /\ SameKey(q, s))
      BY <2>2
    <3>2. Refreshed(doc, s) \in Merged(doc, S)
      BY DEF Merged
    <3>3. Identity(Refreshed(doc, s)) = i
      BY <2>1, <3>1, RefreshedFacts DEF SameKey
    <3>4. m <= Refreshed(doc, s).last
      <4>1. CASE s = q
        BY <2>1, <4>1, RefreshedFacts
      <4>2. CASE q \in doc /\ SameKey(q, s)
        <5>1. q.last <= Refreshed(doc, s).last
          BY <4>2, RefreshedKeepsLast
        <5>2. QED
          BY <2>1, <5>1
      <4>3. QED
        BY <3>1, <4>1, <4>2
    <3>5. Refreshed(doc, s).last \in Nat
      BY RefreshedFacts DEF Observations
    <3>6. Refreshed(doc, s).last <= m
      BY <1>1, <3>2, <3>3
    <3>7. Refreshed(doc, s).last = m
      BY <3>4, <3>5, <3>6
    <3>8. QED
      BY <3>2, <3>3, <3>7
  <2>3. CASE q \in doc /\ \A s \in S : ~SameKey(q, s)
    BY <2>1, <2>3 DEF Merged
  <2>4. CASE q \in S
    BY <2>2, <2>4
  <2>5. QED
    BY <2>2, <2>3, <2>4
<1> DEFINE T == {a \in Addresses : \E o \in Merged(doc, S) :
                   Identity(o) = i /\ o.last = m /\ o.addr = a}
<1>3. Merged(doc, S) \in SUBSET Observations
  BY RecordedType
<1>4. T \in SUBSET Nat /\ T # {}
  BY <1>2, <1>3 DEF Observations, Addresses
<1>5. PICK a \in T : \A b \in T : a <= b
  <2> HIDE DEF T
  <2>1. \E a \in T : \A b \in T : a <= b
    BY <1>4, LeastOf
  <2>2. QED
    BY <2>1
<1>6. PICK o \in Merged(doc, S) : Identity(o) = i /\ o.last = m /\ o.addr = a
  BY <1>5
<1>7. ASSUME NEW p \in Merged(doc, S), Identity(p) = i
      PROVE  ~Precedes(p, o)
  <2>1. p.last <= m /\ p.last \in Nat /\ p.addr \in Addresses
    BY <1>1, <1>3, <1>7 DEF Observations
  <2>2. p.last = m => a <= p.addr
    BY <1>5, <1>7, <2>1
  <2>3. a \in Nat /\ p.addr \in Nat
    BY <1>4, <2>1 DEF Addresses
  <2>4. QED
    BY <1>6, <2>1, <2>2, <2>3 DEF Precedes
<1>8. {p \in Merged(doc, S) : Identity(p) = Identity(o) /\ Precedes(p, o)} = {}
  BY <1>6, <1>7
<1>9. o \in Recorded(doc, S, t)
  <2>1. Cardinality({}) < MaxAddressesPerMac
    BY FS_EmptySet
  <2>2. t - o.last <= Retention
    BY <1>6
  <2>3. QED
    BY <1>8, <2>1, <2>2 DEF Recorded, Trimmed
<1>10. QED
  BY <1>6, <1>9

-----------------------------------------------------------------------------
(* The inventory. *)

\* What each source's observations say about the network.
ArpClaim(o) ==
    /\ o.mac # None /\ o.host = None
    /\ heldAt[o.mac][o.addr] # None
    /\ o.last <= heldAt[o.mac][o.addr] + Reachable
MdnsClaim(o) ==
    /\ o.mac = None
    /\ \E d \in Devices : /\ o.host = HostOf[d]
                          /\ heldAt[d][o.addr] # None
                          /\ o.last <= heldAt[d][o.addr]
RouterClaim(o) == o.mac # None /\ o.host = HostOf[o.mac]

Claims ==
    /\ \A o \in docs["arp"] : ArpClaim(o)
    /\ \A o \in docs["mdns"] : MdnsClaim(o)
    /\ \A o \in docs["router"] : RouterClaim(o)

\* latest names an observation of one source that is fresh for the device.
LEMMA LatestFacts ==
    ASSUME NEW d \in Devices, NEW t, Latest(docs, d, t) # None
    PROVE  \E s \in Sources : \E o \in Fresh(docs, s, d, t) :
              Latest(docs, d, t) = [source |-> s, addr |-> o.addr, last |-> o.last]
<1>1. Latest(docs, d, t) \in Answers(docs, d, t)
  BY DEF Latest
<1>2. PICK s \in Sources : Latest(docs, d, t) \in AnswersFrom(docs, s, d, t)
  BY <1>1 DEF Answers
<1>3. QED
  BY <1>2 DEF AnswersFrom

\* An answer is well-formed, and its address was held within the window unless
\* the router alone vouches for it: a hostname leads to the device itself.
LEMMA LatestHeld ==
    ASSUME TypeOK, Claims, NEW d \in Devices, NEW t \in Nat,
           Latest(docs, d, t) # None
    PROVE  /\ Latest(docs, d, t) \in Answer
           /\ Latest(docs, d, t).source # "router" =>
                /\ heldAt[d][Latest(docs, d, t).addr] # None
                /\ heldAt[d][Latest(docs, d, t).addr]
                     + (IF Latest(docs, d, t).source = "arp" THEN Reachable ELSE 0)
                     >= t - MaxAge
<1>0. PICK s \in Sources : \E o \in Fresh(docs, s, d, t) :
         Latest(docs, d, t) = [source |-> s, addr |-> o.addr, last |-> o.last]
  BY LatestFacts
<1>1. PICK o \in Fresh(docs, s, d, t) :
         Latest(docs, d, t) = [source |-> s, addr |-> o.addr, last |-> o.last]
  BY <1>0
<1> DEFINE r == Latest(docs, d, t)
<1>2. r.source = s /\ r.addr = o.addr /\ r.last = o.last
  BY <1>1
<1>3. /\ o \in docs[s] /\ Owns(docs, d, o) /\ t - o.last <= MaxAge
      /\ o \in Observations
  BY DEF Fresh, TypeOK
<1>4. o.addr \in Addresses /\ o.last \in Nat
  BY <1>3 DEF Observations
<1>5. r \in Answer
  BY <1>1, <1>4 DEF Answer
<1>6. heldAt[d][o.addr] \in Nat \cup {None}
  BY <1>4 DEF TypeOK
<1>7. d # None
  BY DEF Devices
<1>8. CASE s = "arp"
  <2>1. o.mac # None /\ heldAt[o.mac][o.addr] # None
          /\ o.last <= heldAt[o.mac][o.addr] + Reachable
    BY <1>3, <1>8 DEF Claims, ArpClaim
  <2>2. o.mac = d
    BY <1>3, <2>1 DEF Owns
  <2>3. heldAt[d][o.addr] + Reachable >= t - MaxAge
    BY <1>3, <1>4, <1>6, <2>1, <2>2
  <2>4. QED
    BY <1>2, <1>5, <1>8, <2>1, <2>2, <2>3
<1>9. CASE s = "mdns"
  <2>1. o.mac = None
    BY <1>3, <1>9 DEF Claims, MdnsClaim
  <2>2. PICK e \in Devices : /\ o.host = HostOf[e]
                             /\ heldAt[e][o.addr] # None
                             /\ o.last <= heldAt[e][o.addr]
    BY <1>3, <1>9 DEF Claims, MdnsClaim
  <2>3. d \in MacsOf(docs, o.host)
    BY <1>3, <1>7, <2>1 DEF Owns
  <2>0. PICK u \in Sources : \E p \in docs[u] : p.mac = d /\ p.host = o.host
    BY <2>3 DEF MacsOf
  <2>4. PICK p \in docs[u] : p.mac = d /\ p.host = o.host
    BY <2>0
  <2>5. o.host # None
    BY <2>2
  <2>6. u = "router"
    BY <1>7, <2>4, <2>5 DEF Sources, Claims, ArpClaim, MdnsClaim
  <2>7. e = d
    BY <2>2, <2>4, <2>6 DEF Claims, RouterClaim
  <2>8. heldAt[d][o.addr] + 0 >= t - MaxAge
    BY <1>3, <1>4, <1>6, <2>2, <2>7
  <2>9. QED
    BY <1>2, <1>5, <1>9, <2>2, <2>7, <2>8
<1>10. CASE s = "router"
  BY <1>2, <1>5, <1>10
<1>11. QED
  BY <1>8, <1>9, <1>10 DEF Sources

-----------------------------------------------------------------------------
(* The inductive invariant. *)

Clocks ==
    /\ pollAt <= now
    /\ \A d \in Devices, a \in Addresses : heldAt[d][a] # None => heldAt[d][a] <= now

\* No file says more of a device than the newest sighting recorded in it.
FilesBounded ==
    \A s \in Sources :
        /\ UniqueKeys(docs[s])
        /\ \A i \in Identities : newest[s][i] # None => newest[s][i] <= now
        /\ \A o \in docs[s] : /\ newest[s][Identity(o)] # None
                              /\ o.last <= newest[s][Identity(o)]

\* What the poll has written of its snapshot so far.
FileOrder ==
    /\ pc \in {"ping", "airplay"} => snapshot # None
    /\ pc = "airplay" => pingFile = Targets(snapshot)
    /\ FilesFollowSnapshot

IInv ==
    /\ TypeOK
    /\ Clocks
    /\ Claims
    /\ FilesBounded
    /\ NewestSurvives
    /\ TargetsWereHeld
    /\ FileOrder

LEMMA InitIInv == Init => IInv
<1> SUFFICES ASSUME Init PROVE IInv
  OBVIOUS
<1>1. TypeOK
  BY DEF Init, TypeOK, Unheard
<1>2. Clocks /\ Claims
  BY DEF Init, Clocks, Claims, Sources
<1>3. FilesBounded /\ NewestSurvives
  BY DEF Init, FilesBounded, NewestSurvives, UniqueKeys, Unheard
<1>4. TargetsWereHeld /\ FileOrder
  BY DEF Init, TargetsWereHeld, FileOrder, FilesFollowSnapshot
<1>5. QED
  BY <1>1, <1>2, <1>3, <1>4 DEF IInv

\* Time passes, or a device moves: what was said of the network stays true.
LEMMA NetworkStep ==
    ASSUME IInv, Tick \/ \E d \in Devices, a \in Addresses : Move(d, a)
    PROVE  IInv'
<1>1. /\ now' \in Nat /\ now <= now'
      /\ UNCHANGED <<docs, pingFile, airplayFile, exporter, newest>>
  BY DEF IInv, TypeOK, Tick, Move
<1>2. /\ addr' \in [Devices -> Addresses \cup {None}]
      /\ heldAt' \in [Devices -> [Addresses -> Nat \cup {None}]]
      /\ \A d \in Devices, a \in Addresses :
            /\ heldAt'[d][a] # None => heldAt'[d][a] <= now'
            /\ heldAt[d][a] # None => heldAt'[d][a] # None /\ heldAt[d][a] <= heldAt'[d][a]
  <2>1. CASE Tick
    BY <2>1 DEF IInv, TypeOK, Clocks, Tick
  <2>2. ASSUME NEW d \in Devices, NEW a \in Addresses, Move(d, a)
        PROVE  /\ addr' \in [Devices -> Addresses \cup {None}]
               /\ heldAt' \in [Devices -> [Addresses -> Nat \cup {None}]]
               /\ now' = now
               /\ \A e \in Devices, b \in Addresses :
                     heldAt'[e][b] = IF e = d /\ b = a THEN now ELSE heldAt[e][b]
    BY <2>2 DEF IInv, TypeOK, Move
  <2>3. ASSUME NEW d \in Devices, NEW a \in Addresses, Move(d, a)
        PROVE  \A e \in Devices, b \in Addresses :
                  /\ heldAt'[e][b] # None => heldAt'[e][b] <= now'
                  /\ heldAt[e][b] # None =>
                        heldAt'[e][b] # None /\ heldAt[e][b] <= heldAt'[e][b]
    BY <2>2, <2>3 DEF IInv, TypeOK, Clocks
  <2>4. QED
    BY <2>1, <2>2, <2>3
<1>3. TypeOK'
  BY <1>1, <1>2 DEF IInv, TypeOK, exporter
<1>4. Clocks'
  BY <1>1, <1>2 DEF IInv, Clocks, TypeOK, exporter
<1>5. ASSUME NEW s \in Sources, NEW o \in docs[s]
      PROVE  o.addr \in Addresses /\ o.last \in Nat /\ o.mac \in Devices \cup {None}
  BY DEF IInv, TypeOK, Observations
<1>6. Claims'
  <2>1. docs' = docs
    BY <1>1
  <2>2. ASSUME NEW o \in docs["arp"] PROVE ArpClaim(o)'
    <3>1. ArpClaim(o) /\ o.addr \in Addresses /\ o.last \in Nat /\ o.mac \in Devices
      BY <1>5 DEF IInv, Claims, ArpClaim, Sources
    <3>2. /\ heldAt[o.mac][o.addr] \in Nat \cup {None}
          /\ heldAt'[o.mac][o.addr] \in Nat \cup {None}
      BY <1>2, <3>1 DEF IInv, TypeOK
    <3>3. QED
      BY <1>2, <3>1, <3>2 DEF ArpClaim
  <2>3. ASSUME NEW o \in docs["mdns"] PROVE MdnsClaim(o)'
    <3>1. MdnsClaim(o) /\ o.addr \in Addresses /\ o.last \in Nat
      BY <1>5 DEF IInv, Claims, Sources
    <3>2. PICK d \in Devices : /\ o.host = HostOf[d]
                               /\ heldAt[d][o.addr] # None
                               /\ o.last <= heldAt[d][o.addr]
      BY <3>1 DEF MdnsClaim
    <3>3. /\ heldAt[d][o.addr] \in Nat \cup {None}
          /\ heldAt'[d][o.addr] \in Nat \cup {None}
      BY <1>2, <3>1 DEF IInv, TypeOK
    <3>4. heldAt'[d][o.addr] # None /\ o.last <= heldAt'[d][o.addr]
      BY <1>2, <3>1, <3>2, <3>3
    <3>5. QED
      BY <3>1, <3>2, <3>4 DEF MdnsClaim
  <2>4. \A o \in docs["router"] : RouterClaim(o)'
    BY DEF IInv, Claims, RouterClaim
  <2>5. QED
    BY <2>1, <2>2, <2>3, <2>4 DEF Claims
<1>7. FilesBounded' /\ NewestSurvives'
  BY <1>1 DEF IInv, TypeOK, FilesBounded, NewestSurvives
<1>8. TargetsWereHeld'
  <2>1. UNCHANGED <<pc, pollAt, snapshot>>
    BY <1>1 DEF exporter
  <2>2. ASSUME pc = "ping", NEW d \in Devices, snapshot[d] # None,
               snapshot[d].source # "router"
        PROVE  /\ heldAt'[d][snapshot[d].addr] # None
               /\ heldAt'[d][snapshot[d].addr]
                    + (IF snapshot[d].source = "arp" THEN Reachable ELSE 0)
                    >= pollAt - MaxAge
    <3>1. snapshot[d] \in Answer
      BY <2>2 DEF IInv, TypeOK, FileOrder, Snapshot
    <3>2. snapshot[d].addr \in Addresses
      BY <3>1 DEF Answer
    <3>3. /\ heldAt[d][snapshot[d].addr] \in Nat \cup {None}
          /\ heldAt'[d][snapshot[d].addr] \in Nat \cup {None}
      BY <1>2, <3>2 DEF IInv, TypeOK
    <3>4. /\ heldAt[d][snapshot[d].addr] # None
          /\ heldAt[d][snapshot[d].addr]
               + (IF snapshot[d].source = "arp" THEN Reachable ELSE 0)
               >= pollAt - MaxAge
      BY <2>2 DEF IInv, TargetsWereHeld
    <3>5. heldAt'[d][snapshot[d].addr] # None
            /\ heldAt[d][snapshot[d].addr] <= heldAt'[d][snapshot[d].addr]
      BY <1>2, <3>2, <3>4
    <3>6. pollAt \in Nat
      BY DEF IInv, TypeOK
    <3>7. QED
      BY <3>3, <3>4, <3>5, <3>6
  <2>3. QED
    BY <2>1, <2>2 DEF TargetsWereHeld
<1>9. FileOrder'
  BY <1>1 DEF IInv, FileOrder, FilesFollowSnapshot, exporter, Targets
<1>10. QED
  BY <1>3, <1>4, <1>6, <1>7, <1>8, <1>9 DEF IInv

LEMMA IdentityType ==
    ASSUME NEW o \in Observations
    PROVE  Identity(o) \in Identities
BY DEF Observations, Identity, Identities

\* The newest sighting recorded of an identity is that of the file or of the
\* poll, and none of either is newer.
RecordedTime(s, S, i) ==
    \/ /\ newest'[s][i] = None /\ newest[s][i] = None
       /\ \A y \in S : Identity(y) # i
    \/ /\ newest'[s][i] \in Nat /\ newest'[s][i] <= now
       /\ newest[s][i] # None => newest[s][i] <= newest'[s][i]
       /\ \A y \in S : Identity(y) = i => y.last <= newest'[s][i]
       /\ \/ newest[s][i] = newest'[s][i]
          \/ \E y \in S : Identity(y) = i /\ y.last = newest'[s][i]

LEMMA RecordTimes ==
    ASSUME IInv, NEW s \in Sources, NEW t \in Nat, t <= now,
           NEW S \in SUBSET Observations, \A x \in S : x.last <= t,
           Record(s, S, t), NEW i \in Identities
    PROVE  RecordedTime(s, S, i)
<1> DEFINE T == {x.last : x \in {y \in S : Identity(y) = i}}
                  \cup (IF newest[s][i] = None THEN {} ELSE {newest[s][i]})
<1>1. /\ newest \in [Sources -> [Identities -> Nat \cup {None}]]
      /\ now \in Nat
  BY DEF IInv, TypeOK
<1>2. newest'[s][i] = IF T = {} THEN None
                      ELSE CHOOSE m \in T : \A n \in T : n <= m
  BY <1>1 DEF Record
<1>3. T \in SUBSET (0 .. now)
  <2>1. \A x \in S : x.last \in 0 .. now
    BY <1>1 DEF Observations
  <2>2. newest[s][i] # None => newest[s][i] \in 0 .. now
    BY <1>1 DEF IInv, FilesBounded
  <2>3. QED
    BY <2>1, <2>2
<1>4. CASE T = {}
  <2>1. newest[s][i] = None
    BY <1>4
  <2>2. \A y \in S : Identity(y) # i
    BY <1>4
  <2>3. QED
    BY <1>2, <1>4, <2>1, <2>2 DEF RecordedTime
<1>5. CASE T # {}
  <2>1. newest'[s][i] \in T /\ \A n \in T : n <= newest'[s][i]
    <3> HIDE DEF T
    <3>1. \E m \in T : \A n \in T : n <= m
      BY <1>1, <1>3, <1>5, GreatestOf
    <3>2. QED
      BY <1>2, <1>5, <3>1
  <2>2. newest'[s][i] \in Nat /\ newest'[s][i] <= now
    <3> HIDE DEF T
    <3>1. newest'[s][i] \in 0 .. now
      BY <1>3, <2>1
    <3>2. QED
      BY <1>1, <3>1
  <2>3. newest[s][i] # None => newest[s][i] <= newest'[s][i]
    BY <2>1
  <2>4. \A y \in S : Identity(y) = i => y.last <= newest'[s][i]
    BY <2>1
  <2>5. \/ newest[s][i] = newest'[s][i]
        \/ \E y \in S : Identity(y) = i /\ y.last = newest'[s][i]
    BY <2>1
  <2>6. QED
    BY <2>2, <2>3, <2>4, <2>5 DEF RecordedTime
<1>6. QED
  BY <1>4, <1>5

\* The newest sighting of an identity, while within retention at the time of
\* the poll, stays on file or comes on file.
LEMMA RecordKeeps ==
    ASSUME IInv, NEW s \in Sources, NEW t \in Nat, t <= now,
           NEW S \in SUBSET Observations, \A x \in S : x.last <= t,
           Record(s, S, t), NEW i \in Identities, newest'[s][i] # None,
           t - newest'[s][i] <= Retention,
           newest[s][i] = newest'[s][i] =>
              \E o \in docs[s] : Identity(o) = i /\ o.last = newest[s][i]
    PROVE  \E o \in docs'[s] : Identity(o) = i /\ o.last = newest'[s][i]
<1> DEFINE m == newest'[s][i]
<1>1. /\ docs[s] \in SUBSET Observations
      /\ newest[s][i] \in Nat \cup {None}
      /\ UniqueKeys(docs[s])
  BY DEF IInv, TypeOK, FilesBounded
<1>2. docs'[s] = Recorded(docs[s], S, t)
  BY DEF Record, IInv, TypeOK
<1>3. /\ m \in Nat /\ m <= now
      /\ newest[s][i] # None => newest[s][i] <= m
      /\ \A y \in S : Identity(y) = i => y.last <= m
      /\ newest[s][i] = m \/ \E y \in S : Identity(y) = i /\ y.last = m
  <2>1. RecordedTime(s, S, i)
    BY RecordTimes
  <2>2. QED
    BY <2>1 DEF RecordedTime
<1>4. ASSUME NEW q \in docs[s], Identity(q) = i PROVE q.last <= m
  <2>1. newest[s][i] # None /\ q.last <= newest[s][i]
    BY <1>4 DEF IInv, FilesBounded
  <2>2. newest[s][i] \in Nat /\ q.last \in Nat
    BY <1>1, <2>1 DEF Observations
  <2>3. QED
    BY <1>3, <2>1, <2>2
<1>5. \E q \in docs[s] \cup S : Identity(q) = i /\ q.last = m
  BY <1>3
<1>6. NewestIn(docs[s] \cup S, i, m)
  BY <1>3, <1>4, <1>5 DEF NewestIn
<1>7. m \in Nat /\ t - m <= Retention
  BY <1>3
<1> HIDE DEF m
<1>8. \E o \in Recorded(docs[s], S, t) : Identity(o) = i /\ o.last = m
  BY <1>1, <1>6, <1>7, RecordedNewest
<1>9. QED
  BY <1>2, <1>8 DEF m

\* Recording sightings no newer than the poll keeps the file's promises.
LEMMA RecordFile ==
    ASSUME IInv, NEW s \in Sources, NEW t \in Nat, t <= now,
           NEW S \in SUBSET Observations, DistinctKeys(S),
           \A x \in S : x.last <= t,
           Record(s, S, t), now' = now
    PROVE  /\ docs' \in [Sources -> SUBSET Observations]
           /\ newest' \in [Sources -> [Identities -> Nat \cup {None}]]
           /\ FilesBounded' /\ NewestSurvives'
<1>1. /\ docs \in [Sources -> SUBSET Observations]
      /\ newest \in [Sources -> [Identities -> Nat \cup {None}]]
      /\ now \in Nat
  BY DEF IInv, TypeOK
<1>2. docs' = [docs EXCEPT ![s] = Recorded(docs[s], S, t)]
  BY DEF Record
<1>3. Recorded(docs[s], S, t) \in SUBSET Observations
  BY <1>1, RecordedType
<1>4. newest' = [newest EXCEPT ![s] = newest'[s]]
  BY <1>1 DEF Record
<1>5. ASSUME NEW i \in Identities
      PROVE  \/ /\ newest'[s][i] = None /\ newest[s][i] = None
                /\ \A y \in S : Identity(y) # i
             \/ /\ newest'[s][i] \in Nat /\ newest'[s][i] <= now
                /\ newest[s][i] # None => newest[s][i] <= newest'[s][i]
                /\ \A y \in S : Identity(y) = i => y.last <= newest'[s][i]
  <2>1. RecordedTime(s, S, i)
    BY RecordTimes
  <2>2. QED
    BY <2>1 DEF RecordedTime
<1>6. newest' \in [Sources -> [Identities -> Nat \cup {None}]]
  <2>1. \A i \in Identities : newest'[s][i] \in Nat \cup {None}
    BY <1>5
  <2>2. newest'[s] \in [Identities -> Nat \cup {None}]
    <3>1. newest'[s] = [i \in Identities |-> newest'[s][i]]
      BY <1>1 DEF Record
    <3>2. QED
      BY <2>1, <3>1
  <2>3. QED
    BY <1>1, <1>4, <2>2
<1>7. \A u \in Sources \ {s} : docs'[u] = docs[u] /\ newest'[u] = newest[u]
  BY <1>1, <1>2, <1>4
<1>8. docs'[s] = Recorded(docs[s], S, t)
  BY <1>1, <1>2
<1>9. UniqueKeys(docs[s])
  BY DEF IInv, FilesBounded
<1>10. UniqueKeys(docs'[s])
  BY <1>1, <1>8, <1>9, RecordedUnique
<1>11. ASSUME NEW o \in docs'[s]
       PROVE  newest'[s][Identity(o)] # None /\ o.last <= newest'[s][Identity(o)]
  <2>1. o \in Merged(docs[s], S) /\ o \in Observations
    BY <1>3, <1>8 DEF Recorded, Trimmed
  <2>2. PICK q \in docs[s] \cup S : Identity(q) = Identity(o) /\ q.last = o.last
    BY <1>1, <2>1, MergedBound
  <2>3. Identity(o) \in Identities
    BY <2>1, IdentityType
  <2>4. o.last \in Nat
    BY <2>1 DEF Observations
  <2>5. CASE q \in S
    BY <1>5, <2>2, <2>3, <2>5
  <2>6. CASE q \in docs[s]
    <3>1. newest[s][Identity(o)] # None /\ o.last <= newest[s][Identity(o)]
      BY <2>2, <2>6 DEF IInv, FilesBounded
    <3>2. newest[s][Identity(o)] \in Nat
      BY <1>1, <2>3, <3>1
    <3>3. QED
      BY <1>5, <2>3, <2>4, <3>1, <3>2
  <2>7. QED
    BY <2>5, <2>6
<1>12. FilesBounded'
  <2>1. ASSUME NEW i \in Identities, newest'[s][i] # None PROVE newest'[s][i] <= now'
    BY <1>5, <2>1
  <2>2. QED
    BY <1>7, <1>10, <1>11, <2>1 DEF IInv, FilesBounded
<1>13. ASSUME NEW i \in Identities, newest'[s][i] # None,
              now - newest'[s][i] <= Retention
       PROVE  \E o \in docs'[s] : Identity(o) = i /\ o.last = newest'[s][i]
  <2>1. newest'[s][i] \in Nat
    BY <1>5, <1>13
  <2>2. t - newest'[s][i] <= Retention
    BY <1>1, <1>13, <2>1
  <2>3. newest[s][i] = newest'[s][i] =>
           \E o \in docs[s] : Identity(o) = i /\ o.last = newest[s][i]
    BY <1>13 DEF IInv, NewestSurvives
  <2>4. QED
    BY <1>13, <2>2, <2>3, RecordKeeps
<1>14. NewestSurvives'
  BY <1>7, <1>13 DEF IInv, NewestSurvives
<1>15. QED
  BY <1>1, <1>2, <1>3, <1>6, <1>12, <1>14

-----------------------------------------------------------------------------
(* What each source reports. *)

LEMMA NeighbourPollFacts ==
    ASSUME TypeOK, NEW S \in NeighbourPolls
    PROVE  /\ S \in SUBSET Observations /\ DistinctKeys(S)
           /\ \A x \in S : x.last <= pollAt /\ ArpClaim(x)
<1>1. ASSUME NEW x \in S
      PROVE  x \in Observations /\ x.last <= pollAt /\ ArpClaim(x)
  <2>1. /\ x \in {Sighting(d, None, a, t) :
                   d \in Devices, a \in Addresses, t \in 0 .. pollAt}
        /\ heldAt[x.mac][x.addr] # None
        /\ x.last \in NeighbourTimes(x.mac, x.addr)
    BY DEF NeighbourPolls, NeighbourSightings
  <2>2. PICK d \in Devices, a \in Addresses, t \in 0 .. pollAt :
           x = Sighting(d, None, a, t)
    BY <2>1
  <2>3. x.mac = d /\ x.host = None /\ x.addr = a /\ x.last = t
    BY <2>2 DEF Sighting
  <2>4. d # None /\ pollAt \in Nat /\ t \in Nat
    BY DEF Devices, TypeOK
  <2>5. x \in Observations /\ x.last <= pollAt
    BY <2>2, <2>4 DEF Sighting, Observations
  <2>6. heldAt[d][a] \in Nat
    BY <2>1, <2>3 DEF TypeOK
  <2>7. t <= heldAt[d][a] + Reachable
    BY <2>1, <2>3, <2>4, <2>6 DEF NeighbourTimes
  <2>8. QED
    BY <2>1, <2>3, <2>4, <2>5, <2>7 DEF ArpClaim
<1>2. DistinctKeys(S)
  BY DEF NeighbourPolls, DistinctKeys, SameKey
<1>3. QED
  BY <1>1, <1>2

LEMMA MdnsPollFacts ==
    ASSUME TypeOK, Clocks, NEW S \in MdnsPolls
    PROVE  /\ S \in SUBSET Observations /\ DistinctKeys(S)
           /\ \A x \in S : x.last <= now /\ MdnsClaim(x)
<1>1. ASSUME NEW x \in S
      PROVE  x \in Observations /\ x.last <= now /\ MdnsClaim(x)
  <2>0. x \in MdnsSightings
    BY DEF MdnsPolls
  <2>1. PICK d \in Devices : x \in {Sighting(None, HostOf[d], a, heldAt[d][a]) :
                                 a \in {a \in Addresses : heldAt[d][a] # None}}
    BY <2>0 DEF MdnsSightings
  <2>2. PICK a \in Addresses : /\ heldAt[d][a] # None
                               /\ x = Sighting(None, HostOf[d], a, heldAt[d][a])
    BY <2>1
  <2>3. /\ x.mac = None /\ x.host = HostOf[d] /\ x.addr = a
        /\ x.last = heldAt[d][a]
    BY <2>2 DEF Sighting
  <2>4. HostOf[d] \in Hosts /\ HostOf[d] # None
    OBVIOUS
  <2>5. heldAt[d][a] \in Nat /\ heldAt[d][a] <= now
    BY <2>2 DEF TypeOK, Clocks
  <2>6. x \in Observations
    BY <2>2, <2>4, <2>5 DEF Sighting, Observations
  <2>7. QED
    BY <2>2, <2>3, <2>5, <2>6 DEF MdnsClaim
<1>2. DistinctKeys(S)
  BY DEF MdnsPolls
<1>3. QED
  BY <1>1, <1>2

LEMMA RouterPollFacts ==
    ASSUME TypeOK, NEW S \in RouterPolls
    PROVE  /\ S \in SUBSET Observations /\ DistinctKeys(S)
           /\ \A x \in S : x.last <= now /\ RouterClaim(x)
<1>1. ASSUME NEW x \in S
      PROVE  x \in Observations /\ x.last <= now /\ RouterClaim(x)
  <2>1. x \in {Sighting(d, HostOf[d], a, now) : d \in Devices, a \in Addresses}
    BY DEF RouterPolls, RouterSightings
  <2>2. PICK d \in Devices, a \in Addresses : x = Sighting(d, HostOf[d], a, now)
    BY <2>1
  <2>3. x.mac = d /\ x.host = HostOf[d] /\ x.addr = a /\ x.last = now
    BY <2>2 DEF Sighting
  <2>4. d # None /\ now \in Nat /\ HostOf[d] \in Hosts
    BY DEF Devices, TypeOK
  <2>5. x \in Observations
    BY <2>2, <2>4 DEF Sighting, Observations
  <2>6. QED
    BY <2>3, <2>4, <2>5 DEF RouterClaim
<1>2. DistinctKeys(S)
  BY DEF RouterPolls
<1>3. QED
  BY <1>1, <1>2

\* Merging keeps what a file claims when the sightings claim it too.
LEMMA ArpClaimsKept ==
    ASSUME NEW doc \in SUBSET Observations, NEW S \in SUBSET Observations,
           NEW t \in Nat, TypeOK,
           \A o \in doc \cup S : ArpClaim(o)
    PROVE  \A o \in Recorded(doc, S, t) : ArpClaim(o)
<1> SUFFICES ASSUME NEW s \in S PROVE ArpClaim(Refreshed(doc, s))
  BY DEF Recorded, Trimmed, Merged
<1> DEFINE r == Refreshed(doc, s)
<1>1. /\ r.mac = s.mac /\ r.addr = s.addr
      /\ \/ r = s
         \/ \E p \in doc : /\ SameKey(p, s)
                           /\ r.last \in {s.last, p.last} /\ r.host \in {s.host, p.host}
  BY RefreshedFacts
<1> HIDE DEF r
<1>2. ArpClaim(s)
  OBVIOUS
<1>3. CASE \E p \in doc : /\ SameKey(p, s)
                          /\ r.last \in {s.last, p.last} /\ r.host \in {s.host, p.host}
  <2>1. PICK p \in doc : /\ SameKey(p, s)
                         /\ r.last \in {s.last, p.last} /\ r.host \in {s.host, p.host}
    BY <1>3
  <2>2. ArpClaim(p)
    OBVIOUS
  <2>3. p.mac = s.mac /\ p.addr = s.addr
    BY <1>2, <2>1, <2>2 DEF SameKey, Identity, ArpClaim
  <2>4. s.host = None /\ p.host = None
    BY <1>2, <2>2 DEF ArpClaim
  <2>5. /\ r.host = None /\ r.mac # None /\ heldAt[r.mac][r.addr] # None
        /\ r.last \in {s.last, p.last}
    BY <1>1, <1>2, <2>1, <2>4 DEF ArpClaim
  <2>6. /\ s.last <= heldAt[r.mac][r.addr] + Reachable
        /\ p.last <= heldAt[r.mac][r.addr] + Reachable
    BY <1>1, <1>2, <2>2, <2>3 DEF ArpClaim
  <2>7. r.last <= heldAt[r.mac][r.addr] + Reachable
    BY <2>5, <2>6
  <2>8. QED
    BY <2>5, <2>7 DEF r, ArpClaim
<1>4. CASE r = s
  BY <1>2, <1>4 DEF r, ArpClaim
<1>5. QED
  BY <1>1, <1>3, <1>4

LEMMA MdnsClaimsKept ==
    ASSUME NEW doc \in SUBSET Observations, NEW S \in SUBSET Observations,
           NEW t \in Nat, TypeOK,
           \A o \in doc \cup S : MdnsClaim(o)
    PROVE  \A o \in Recorded(doc, S, t) : MdnsClaim(o)
<1> SUFFICES ASSUME NEW s \in S PROVE MdnsClaim(Refreshed(doc, s))
  BY DEF Recorded, Trimmed, Merged
<1> DEFINE r == Refreshed(doc, s)
<1>1. /\ r.mac = s.mac /\ r.addr = s.addr
      /\ s.host # None => r.host = s.host
      /\ \/ r = s
         \/ \E p \in doc : SameKey(p, s) /\ r.last \in {s.last, p.last}
  BY RefreshedFacts
<1> HIDE DEF r
<1>2. PICK d \in Devices : /\ s.host = HostOf[d]
                           /\ heldAt[d][s.addr] # None
                           /\ s.last <= heldAt[d][s.addr]
  BY DEF MdnsClaim
<1>3. s.mac = None /\ s.host # None
  BY <1>2 DEF MdnsClaim
<1>4. CASE \E p \in doc : SameKey(p, s) /\ r.last \in {s.last, p.last}
  <2>1. PICK p \in doc : SameKey(p, s) /\ r.last \in {s.last, p.last}
    BY <1>4
  <2>2. p.mac = None
    BY DEF MdnsClaim
  <2>3. PICK e \in Devices : /\ p.host = HostOf[e]
                             /\ heldAt[e][p.addr] # None
                             /\ p.last <= heldAt[e][p.addr]
    BY DEF MdnsClaim
  <2>4. p.host = s.host /\ p.addr = s.addr
    BY <1>3, <2>1, <2>2 DEF SameKey, Identity
  <2>5. e = d
    BY <1>2, <2>3, <2>4
  <2>6. r.mac = None /\ r.host = HostOf[d] /\ heldAt[d][r.addr] # None
    BY <1>1, <1>2, <1>3
  <2>7. s.last <= heldAt[d][r.addr] /\ p.last <= heldAt[d][r.addr]
    BY <1>1, <1>2, <2>3, <2>4, <2>5
  <2>8. r.last <= heldAt[d][r.addr]
    BY <2>1, <2>7
  <2>9. QED
    BY <2>6, <2>8 DEF r, MdnsClaim
<1>5. CASE r = s
  <2>1. MdnsClaim(s)
    OBVIOUS
  <2>2. QED
    BY <1>5, <2>1 DEF r, MdnsClaim
<1>6. QED
  BY <1>1, <1>4, <1>5

LEMMA RouterClaimsKept ==
    ASSUME NEW doc \in SUBSET Observations, NEW S \in SUBSET Observations,
           NEW t \in Nat,
           \A o \in doc \cup S : RouterClaim(o)
    PROVE  \A o \in Recorded(doc, S, t) : RouterClaim(o)
<1> SUFFICES ASSUME NEW s \in S PROVE RouterClaim(Refreshed(doc, s))
  BY DEF Recorded, Trimmed, Merged
<1>1. s.mac \in Devices /\ s.host = HostOf[s.mac] /\ s.mac # None
  BY DEF RouterClaim, Observations
<1>2. s.host # None
  BY <1>1
<1>3. QED
  BY <1>1, <1>2, RefreshedFacts DEF RouterClaim

-----------------------------------------------------------------------------
(* The steps. *)

\* What an action may do to the files: nothing, or record one source's poll.
FilesAction ==
    \/ UNCHANGED <<docs, newest>>
    \/ \E S \in RouterPolls : Record("router", S, now)
    \/ \E S \in MdnsPolls : Record("mdns", S, now)
    \/ \E S \in NeighbourPolls : Record("arp", S, pollAt)

FilesPart ==
    /\ docs \in [Sources -> SUBSET Observations]
    /\ newest \in [Sources -> [Identities -> Nat \cup {None}]]
    /\ Claims /\ FilesBounded /\ NewestSurvives

LEMMA FilesStep ==
    ASSUME IInv, UNCHANGED network, FilesAction
    PROVE  FilesPart'
<1>0. /\ docs \in [Sources -> SUBSET Observations] /\ TypeOK /\ Clocks
      /\ now \in Nat /\ pollAt \in Nat /\ pollAt <= now
      /\ now' = now /\ heldAt' = heldAt
  BY DEF IInv, TypeOK, Clocks, network
<1>1. CASE UNCHANGED <<docs, newest>>
  <2>1. Claims'
    BY <1>0, <1>1 DEF IInv, Claims, ArpClaim, MdnsClaim, RouterClaim
  <2>2. FilesBounded' /\ NewestSurvives'
    BY <1>0, <1>1 DEF IInv, FilesBounded, NewestSurvives
  <2>3. QED
    BY <1>1, <2>1, <2>2 DEF IInv, TypeOK, FilesPart
<1>2. ASSUME NEW S \in RouterPolls, Record("router", S, now)
      PROVE  FilesPart'
  <2>1. /\ S \in SUBSET Observations /\ DistinctKeys(S)
        /\ \A x \in S : x.last <= now /\ RouterClaim(x)
    BY <1>0, RouterPollFacts
  <2>2. docs' = [docs EXCEPT !["router"] = Recorded(docs["router"], S, now)]
    BY <1>2 DEF Record
  <2>3. \A o \in Recorded(docs["router"], S, now) : RouterClaim(o)
    <3>1. \A o \in docs["router"] \cup S : RouterClaim(o)
      BY <2>1 DEF IInv, Claims
    <3>2. docs["router"] \in SUBSET Observations
      BY <1>0 DEF Sources
    <3>3. QED
      BY <1>0, <2>1, <3>1, <3>2, RouterClaimsKept
  <2>4. Claims'
    BY <1>0, <2>2, <2>3
      DEF IInv, Claims, ArpClaim, MdnsClaim, RouterClaim, Sources
  <2>5. "router" \in Sources
    BY DEF Sources
  <2>6. QED
    BY <1>0, <1>2, <2>1, <2>4, <2>5, RecordFile DEF FilesPart
<1>3. ASSUME NEW S \in MdnsPolls, Record("mdns", S, now)
      PROVE  FilesPart'
  <2>1. /\ S \in SUBSET Observations /\ DistinctKeys(S)
        /\ \A x \in S : x.last <= now /\ MdnsClaim(x)
    BY <1>0, MdnsPollFacts
  <2>2. docs' = [docs EXCEPT !["mdns"] = Recorded(docs["mdns"], S, now)]
    BY <1>3 DEF Record
  <2>3. \A o \in Recorded(docs["mdns"], S, now) : MdnsClaim(o)
    <3>1. \A o \in docs["mdns"] \cup S : MdnsClaim(o)
      BY <2>1 DEF IInv, Claims
    <3>2. docs["mdns"] \in SUBSET Observations
      BY <1>0 DEF Sources
    <3>3. QED
      BY <1>0, <2>1, <3>1, <3>2, MdnsClaimsKept
  <2>4. Claims'
    BY <1>0, <2>2, <2>3
      DEF IInv, Claims, ArpClaim, MdnsClaim, RouterClaim, Sources
  <2>5. "mdns" \in Sources
    BY DEF Sources
  <2>6. QED
    BY <1>0, <1>3, <2>1, <2>4, <2>5, RecordFile DEF FilesPart
<1>4. ASSUME NEW S \in NeighbourPolls, Record("arp", S, pollAt)
      PROVE  FilesPart'
  <2>1. /\ S \in SUBSET Observations /\ DistinctKeys(S)
        /\ \A x \in S : x.last <= pollAt /\ ArpClaim(x)
    BY <1>0, NeighbourPollFacts
  <2>2. docs' = [docs EXCEPT !["arp"] = Recorded(docs["arp"], S, pollAt)]
    BY <1>4 DEF Record
  <2>3. \A o \in Recorded(docs["arp"], S, pollAt) : ArpClaim(o)
    <3>1. \A o \in docs["arp"] \cup S : ArpClaim(o)
      BY <2>1 DEF IInv, Claims
    <3>2. docs["arp"] \in SUBSET Observations
      BY <1>0 DEF Sources
    <3>3. QED
      BY <1>0, <2>1, <3>1, <3>2, ArpClaimsKept
  <2>4. Claims'
    BY <1>0, <2>2, <2>3
      DEF IInv, Claims, ArpClaim, MdnsClaim, RouterClaim, Sources
  <2>5. "arp" \in Sources
    BY DEF Sources
  <2>6. QED
    BY <1>0, <1>4, <2>1, <2>4, <2>5, RecordFile DEF FilesPart
<1>5. QED
  BY <1>1, <1>2, <1>3, <1>4 DEF FilesAction

LEMMA TargetsType ==
    ASSUME NEW l \in Snapshot
    PROVE  Targets(l) \subseteq Target
<1> SUFFICES ASSUME NEW d \in Devices, l[d] # None
             PROVE  [addr |-> l[d].addr, device |-> d] \in Target
  BY DEF Targets
<1>1. l[d] \in Answer
  BY DEF Snapshot
<1>2. QED
  BY <1>1 DEF Answer, Target

\* A source file is lost: whatever the others claim stands.
LEMMA LoseFileStep ==
    ASSUME IInv, NEW s \in Fragile, LoseFile(s)
    PROVE  IInv'
<1>1. /\ s \in Sources
      /\ docs' = [docs EXCEPT ![s] = {}]
      /\ newest' = [newest EXCEPT ![s] = Unheard]
      /\ UNCHANGED <<network, pingFile, airplayFile, exporter>>
  BY DEF LoseFile
<1>2. /\ docs \in [Sources -> SUBSET Observations]
      /\ newest \in [Sources -> [Identities -> Nat \cup {None}]]
  BY DEF IInv, TypeOK
<1>3. Unheard \in [Identities -> Nat \cup {None}]
  BY DEF Unheard
<1>4. TypeOK'
  BY <1>1, <1>2, <1>3 DEF IInv, TypeOK, network, exporter
<1>5. Clocks'
  BY <1>1 DEF IInv, Clocks, network, exporter
<1>6. Claims'
  BY <1>1, <1>2
    DEF IInv, Claims, ArpClaim, MdnsClaim, RouterClaim, Sources, network
<1>7. FilesBounded'
  BY <1>1, <1>2 DEF IInv, FilesBounded, UniqueKeys, Unheard, network
<1>8. NewestSurvives'
  BY <1>1, <1>2 DEF IInv, NewestSurvives, Unheard, network
<1>9. TargetsWereHeld' /\ FileOrder'
  BY <1>1 DEF IInv, TargetsWereHeld, FileOrder, FilesFollowSnapshot, Targets,
              network, exporter
<1>10. QED
  BY <1>4, <1>5, <1>6, <1>7, <1>8, <1>9 DEF IInv

\* The other steps leave the network alone, and the files to FilesAction.
LEMMA ProducerStep ==
    ASSUME IInv, RecordRouter \/ StartPoll \/ RecordNeighbours
    PROVE  IInv'
<1>1. FilesAction /\ UNCHANGED <<network, pingFile, airplayFile, snapshot,
                                  targetFilesOk, up>>
  BY DEF RecordRouter, StartPoll, RecordNeighbours, RecordOrFail, FilesAction, exporter
<1>2. FilesPart'
  BY <1>1, FilesStep
<1>3. \/ UNCHANGED <<pc, pollAt>>
      \/ pc' \in {"arp", "load"} /\ pollAt' \in {pollAt, now}
  BY DEF RecordRouter, StartPoll, RecordNeighbours, exporter
<1>4. pollAt \in Nat /\ now \in Nat /\ pollAt <= now
  BY DEF IInv, TypeOK, Clocks
<1>5. TypeOK'
  BY <1>1, <1>2, <1>3, <1>4 DEF IInv, TypeOK, FilesPart, network
<1>6. Clocks'
  BY <1>1, <1>3, <1>4 DEF IInv, Clocks, network
<1>7. TargetsWereHeld'
  BY <1>1, <1>3 DEF IInv, TargetsWereHeld, network
<1>8. FileOrder'
  BY <1>1, <1>3 DEF IInv, FileOrder, FilesFollowSnapshot, Targets
<1>9. QED
  BY <1>2, <1>5, <1>6, <1>7, <1>8 DEF IInv, FilesPart

LEMMA LoadStep ==
    ASSUME IInv, Load
    PROVE  IInv'
<1>1. /\ snapshot' = [d \in Devices |-> Latest(docs, d, pollAt)]
      /\ pc' = "ping"
      /\ UNCHANGED <<network, docs, pingFile, airplayFile, pollAt, targetFilesOk, up,
                     newest>>
  BY DEF Load
<1>2. FilesPart'
  BY <1>1, FilesStep DEF FilesAction
<1>3. ASSUME NEW d \in Devices, Latest(docs, d, pollAt) # None
      PROVE  /\ Latest(docs, d, pollAt) \in Answer
             /\ Latest(docs, d, pollAt).source # "router" =>
                  /\ heldAt[d][Latest(docs, d, pollAt).addr] # None
                  /\ heldAt[d][Latest(docs, d, pollAt).addr]
                       + (IF Latest(docs, d, pollAt).source = "arp"
                          THEN Reachable ELSE 0)
                       >= pollAt - MaxAge
  BY <1>3, LatestHeld DEF IInv, TypeOK
<1>4. snapshot' \in Snapshot /\ snapshot' # None
  BY <1>1, <1>3, NoneAssumption DEF Snapshot
<1>5. TypeOK'
  BY <1>1, <1>2, <1>4 DEF IInv, TypeOK, FilesPart, network
<1>6. Clocks'
  BY <1>1 DEF IInv, Clocks, network
<1>7. TargetsWereHeld'
  BY <1>1, <1>3 DEF TargetsWereHeld, network
<1>8. FileOrder'
  BY <1>1, <1>4 DEF FileOrder, FilesFollowSnapshot
<1>9. QED
  BY <1>2, <1>5, <1>6, <1>7, <1>8 DEF IInv, FilesPart

\* The poll ends or fails, or the exporter restarts: only its own state and the
\* target files change.
LEMMA FilesWrittenStep ==
    ASSUME IInv, LoadFails \/ WritePing \/ WriteAirplay \/ WriteFails \/ Restart
    PROVE  IInv'
<1>1. UNCHANGED <<network, docs, newest>>
  BY DEF LoadFails, WritePing, WriteAirplay, WriteFails, Restart
<1>2. FilesPart'
  BY <1>1, FilesStep DEF FilesAction
<1>3. /\ pc \in {"ping", "airplay"} => snapshot \in Snapshot
      /\ snapshot \in Snapshot => Targets(snapshot) \subseteq Target
  BY TargetsType DEF IInv, TypeOK, FileOrder
<1>4. TypeOK'
  <2>1. /\ now' \in Nat
        /\ addr' \in [Devices -> Addresses \cup {None}]
        /\ heldAt' \in [Devices -> [Addresses -> Nat \cup {None}]]
    BY <1>1 DEF IInv, TypeOK, network
  <2>2. pingFile' \subseteq Target /\ airplayFile' \subseteq Target
    BY <1>3 DEF IInv, TypeOK, LoadFails, WritePing, WriteAirplay, WriteFails, Restart
  <2>3. /\ pc' \in {"idle", "arp", "load", "ping", "airplay"}
        /\ pollAt' \in Nat
        /\ snapshot' \in Snapshot \cup {None}
    BY DEF IInv, TypeOK, LoadFails, WritePing, WriteAirplay, WriteFails, Restart
  <2>4. targetFilesOk' \in BOOLEAN \cup {None}
    BY Zenon DEF IInv, TypeOK, LoadFails, WritePing, WriteAirplay, WriteFails, Restart
  <2>5. up' \in BOOLEAN
    BY Zenon DEF IInv, TypeOK, LoadFails, WritePing, WriteAirplay, WriteFails, Restart
  <2>6. QED
    BY <1>2, <2>1, <2>2, <2>3, <2>4, <2>5 DEF TypeOK, FilesPart
<1>5. Clocks'
  BY <1>1
    DEF IInv, TypeOK, Clocks, network, LoadFails, WritePing, WriteAirplay, WriteFails,
        Restart
<1>6. TargetsWereHeld'
  BY DEF TargetsWereHeld, LoadFails, WritePing, WriteAirplay, WriteFails, Restart
<1>7. FileOrder'
  <2>1. CASE LoadFails
    BY <2>1 DEF LoadFails, FileOrder, FilesFollowSnapshot
  <2>2. CASE WritePing
    BY <2>2 DEF IInv, WritePing, FileOrder, FilesFollowSnapshot, Targets
  <2>3. CASE WriteAirplay
    BY <2>3 DEF IInv, WriteAirplay, FileOrder, FilesFollowSnapshot, Targets
  <2>4. CASE WriteFails
    BY <2>4 DEF WriteFails, FileOrder, FilesFollowSnapshot
  <2>5. CASE Restart
    BY <2>5 DEF Restart, FileOrder, FilesFollowSnapshot
  <2>6. QED
    BY <2>1, <2>2, <2>3, <2>4, <2>5
<1>8. QED
  BY <1>2, <1>4, <1>5, <1>6, <1>7 DEF IInv, FilesPart

LEMMA NextIInv == IInv /\ [Next]_vars => IInv'
<1> SUFFICES ASSUME IInv, [Next]_vars PROVE IInv'
  OBVIOUS
<1>1. CASE Tick \/ \E d \in Devices, a \in Addresses : Move(d, a)
  BY <1>1, NetworkStep
<1>2. ASSUME NEW s \in Fragile, LoseFile(s) PROVE IInv'
  BY <1>2, LoseFileStep
<1>3. CASE RecordRouter \/ StartPoll \/ RecordNeighbours
  BY <1>3, ProducerStep
<1>4. CASE Load
  BY <1>4, LoadStep
<1>5. CASE LoadFails \/ WritePing \/ WriteAirplay \/ WriteFails \/ Restart
  BY <1>5, FilesWrittenStep
<1>6. CASE UNCHANGED vars
  BY <1>6
    DEF IInv, vars, network, exporter, TypeOK, Clocks, Claims, ArpClaim, MdnsClaim,
        RouterClaim, FilesBounded, UniqueKeys, NewestSurvives, TargetsWereHeld,
        FileOrder, FilesFollowSnapshot, Targets
<1>7. QED
  BY <1>1, <1>2, <1>3, <1>4, <1>5, <1>6 DEF Next, Network, Poll

-----------------------------------------------------------------------------
(* The theorems. *)

THEOREM Invariance == Spec => []IInv
<1>1. QED
  BY InitIInv, NextIInv, PTL DEF Spec

\* The variables keep their types whatever is merged, trimmed, lost or written.
THEOREM TypeCorrect == Spec => []TypeOK
<1>1. IInv => TypeOK
  BY DEF IInv
<1>2. QED
  BY Invariance, <1>1, PTL

\* What is about to be written as a target was an address of its device within
\* the freshness window, unless only the router vouches for it.
THEOREM TargetsWereHeldHolds == Spec => []TargetsWereHeld
<1>1. IInv => TargetsWereHeld
  BY DEF IInv
<1>2. QED
  BY Invariance, <1>1, PTL

\* Neither the cap nor retention nor a late report costs a device its newest
\* sighting (SourceStore.record).
THEOREM NewestSurvivesHolds == Spec => []NewestSurvives
<1>1. IInv => NewestSurvives
  BY DEF IInv
<1>2. QED
  BY Invariance, <1>1, PTL

\* lan_discovery_up 1 means that both files are of the published snapshot.
THEOREM FilesFollowSnapshotHolds == Spec => []FilesFollowSnapshot
<1>1. IInv => FilesFollowSnapshot
  BY DEF IInv, FileOrder
<1>2. QED
  BY Invariance, <1>1, PTL

-----------------------------------------------------------------------------
(* The neighbour table decides. *)

\* The time a poll goes by, or would go by.
PollTime == IF pc = "idle" THEN now ELSE pollAt

\* While a poll is under way the clock goes on, but arp.json keeps what is
\* within retention at the time the poll took.
ArpOnFile ==
    \A i \in Identities :
        (newest["arp"][i] # None /\ PollTime - newest["arp"][i] <= Retention) =>
            \E o \in docs["arp"] : Identity(o) = i /\ o.last = newest["arp"][i]

LEMMA ArpOnFileInit == Init => ArpOnFile
BY DEF Init, ArpOnFile, Unheard, Sources

\* Whatever leaves arp.json alone and does not set the poll's time back.
LEMMA ArpOnFileKept ==
    ASSUME IInv, IInv', ArpOnFile, docs'["arp"] = docs["arp"],
           newest'["arp"] = newest["arp"], PollTime <= PollTime'
    PROVE  ArpOnFile'
<1> SUFFICES ASSUME NEW i \in Identities, newest'["arp"][i] # None,
                    PollTime' - newest'["arp"][i] <= Retention
             PROVE  \E o \in docs'["arp"] : Identity(o) = i /\ o.last = newest'["arp"][i]
  BY DEF ArpOnFile
<1>1. newest["arp"][i] \in Nat
  BY DEF IInv, TypeOK, Sources
<1>2. PollTime \in Nat /\ PollTime' \in Nat
  BY DEF IInv, TypeOK, PollTime
<1>3. PollTime - newest["arp"][i] <= Retention
  BY <1>1, <1>2
<1>4. QED
  BY <1>1, <1>3 DEF ArpOnFile

LEMMA ArpOnFileNext == IInv /\ ArpOnFile /\ [Next]_vars => ArpOnFile'
<1> SUFFICES ASSUME IInv, ArpOnFile, [Next]_vars PROVE ArpOnFile'
  OBVIOUS
<1>1. IInv'
  BY NextIInv
<1>2. /\ pollAt \in Nat /\ now \in Nat /\ pollAt <= now
      /\ docs \in [Sources -> SUBSET Observations]
      /\ newest \in [Sources -> [Identities -> Nat \cup {None}]]
  BY DEF IInv, TypeOK, Clocks
<1>3. CASE UNCHANGED vars
  BY <1>3 DEF vars, exporter, network, ArpOnFile, PollTime
<1>4. CASE Tick \/ \E d \in Devices, a \in Addresses : Move(d, a)
  <2>1. UNCHANGED <<docs, newest, pc, pollAt>> /\ now' \in {now, now + 1}
    BY <1>4 DEF Tick, Move, exporter
  <2>2. PollTime <= PollTime'
    BY <1>2, <2>1 DEF PollTime
  <2>3. QED
    BY <1>1, <2>1, <2>2, ArpOnFileKept
<1>5. ASSUME NEW s \in Fragile, LoseFile(s) PROVE ArpOnFile'
  <2>1. UNCHANGED <<pc, pollAt, now>>
    BY <1>5 DEF LoseFile, exporter, network
  <2>2. CASE s = "arp"
    <3>1. newest'["arp"] = Unheard
      BY <1>2, <1>5, <2>2 DEF LoseFile, Sources
    <3>2. QED
      BY <3>1 DEF ArpOnFile, Unheard
  <2>3. CASE s # "arp"
    <3>1. docs'["arp"] = docs["arp"] /\ newest'["arp"] = newest["arp"]
      BY <1>2, <1>5, <2>3 DEF LoseFile, Sources
    <3>2. PollTime <= PollTime'
      BY <1>2, <2>1 DEF PollTime
    <3>3. QED
      BY <1>1, <3>1, <3>2, ArpOnFileKept
  <2>4. QED
    BY <2>2, <2>3
<1>6. CASE RecordRouter \/ StartPoll
  <2>1. docs'["arp"] = docs["arp"] /\ newest'["arp"] = newest["arp"]
    BY <1>2, <1>6 DEF RecordRouter, StartPoll, RecordOrFail, Record, Sources
  <2>2. \/ UNCHANGED <<pc, pollAt, now>>
        \/ pc = "idle" /\ pc' = "arp" /\ pollAt' = now /\ now' = now
    BY <1>6 DEF RecordRouter, StartPoll, exporter, network
  <2>3. PollTime <= PollTime'
    BY <1>2, <2>2 DEF PollTime
  <2>4. QED
    BY <1>1, <2>1, <2>3, ArpOnFileKept
<1>7. CASE RecordNeighbours
  <2>1. /\ pc = "arp" /\ pc' = "load" /\ UNCHANGED <<pollAt, now>>
        /\ UNCHANGED <<docs, newest>>
              \/ \E S \in NeighbourPolls : Record("arp", S, pollAt)
    BY <1>7 DEF RecordNeighbours, RecordOrFail, network
  <2>2. CASE UNCHANGED <<docs, newest>>
    <3>1. PollTime <= PollTime'
      BY <1>2, <2>1 DEF PollTime
    <3>2. QED
      BY <1>1, <2>2, <3>1, ArpOnFileKept
  <2>3. ASSUME NEW S \in NeighbourPolls, Record("arp", S, pollAt),
               NEW i \in Identities, newest'["arp"][i] # None,
               PollTime' - newest'["arp"][i] <= Retention
        PROVE  \E o \in docs'["arp"] : Identity(o) = i /\ o.last = newest'["arp"][i]
    <3>1. PollTime = pollAt /\ PollTime' = pollAt
      BY <2>1 DEF PollTime
    <3>2. S \in SUBSET Observations /\ \A x \in S : x.last <= pollAt
      BY NeighbourPollFacts DEF IInv
    <3>3. newest["arp"][i] = newest'["arp"][i] =>
             \E o \in docs["arp"] : Identity(o) = i /\ o.last = newest["arp"][i]
      BY <2>3, <3>1 DEF ArpOnFile
    <3>4. "arp" \in Sources
      BY DEF Sources
    <3>5. QED
      BY <1>2, <2>3, <3>1, <3>2, <3>3, <3>4, RecordKeeps
  <2>4. QED
    BY <2>1, <2>2, <2>3 DEF ArpOnFile
<1>8. CASE Load \/ LoadFails \/ WritePing \/ WriteAirplay \/ WriteFails \/ Restart
  <2>1. /\ UNCHANGED <<docs, newest, now>>
        /\ pc' = "idle" \/ (pc # "idle" /\ pc' # "idle" /\ pollAt' = pollAt)
    BY <1>8 DEF Load, LoadFails, WritePing, WriteAirplay, WriteFails, Restart, network
  <2>2. CASE pc' = "idle"
    <3>1. PollTime' = now /\ PollTime <= now
      BY <1>2, <2>1, <2>2 DEF PollTime
    <3>2. QED
      BY <1>1, <2>1, <3>1, ArpOnFileKept
  <2>3. CASE pc # "idle" /\ pc' # "idle" /\ pollAt' = pollAt
    <3>1. PollTime' = pollAt /\ PollTime = pollAt
      BY <2>3 DEF PollTime
    <3>2. QED
      BY <1>1, <1>2, <2>1, <3>1, ArpOnFileKept
  <2>4. QED
    BY <2>1, <2>2, <2>3
<1>9. QED
  BY <1>3, <1>4, <1>5, <1>6, <1>7, <1>8 DEF Next, Network, Poll

LEMMA AlwaysArpOnFile == Spec => []ArpOnFile
BY ArpOnFileInit, ArpOnFileNext, Invariance, PTL DEF Spec

\* latest answers from the neighbour table whenever it has something fresh, and
\* with the newest of it.
LEMMA LatestOfArp ==
    ASSUME TypeOK, Claims, NEW d \in Devices, NEW t \in Nat, NEW m \in Nat,
           t - m <= MaxAge,
           \E o \in docs["arp"] : Identity(o) = d /\ o.last = m,
           \A o \in docs["arp"] : Identity(o) = d => o.last <= m
    PROVE  /\ Latest(docs, d, t) # None
           /\ Latest(docs, d, t).source = "arp"
           /\ Latest(docs, d, t).last = m
<1> DEFINE F == Fresh(docs, "arp", d, t)
<1>0. "arp" \in Sources /\ docs["arp"] \in SUBSET Observations
  BY DEF TypeOK, Sources
<1>1. ASSUME NEW o \in docs["arp"]
      PROVE  /\ Owns(docs, d, o) <=> Identity(o) = d
             /\ o.last \in Nat /\ o.addr \in Nat
  BY <1>0 DEF Claims, ArpClaim, Owns, Identity, Observations, Addresses
<1>2. \A p \in F : p.last <= m /\ p.last \in Nat /\ p.addr \in Nat
  BY <1>1 DEF Fresh
<1>3. \E p \in F : p.last = m
  BY <1>1 DEF Fresh
<1> HIDE DEF F
<1> DEFINE T == {a \in Nat : \E p \in F : p.last = m /\ p.addr = a}
<1>4. PICK a \in T : \A b \in T : a <= b
  <2>1. T \in SUBSET Nat /\ T # {}
    BY <1>2, <1>3
  <2> HIDE DEF T
  <2>2. \E a \in T : \A b \in T : a <= b
    BY <2>1, LeastOf
  <2>3. QED
    BY <2>2
<1>5. PICK p \in F : p.last = m /\ p.addr = a
  BY <1>4
<1>6. \A q \in F : ~Precedes(q, p)
  <2> SUFFICES ASSUME NEW q \in F PROVE ~Precedes(q, p)
    OBVIOUS
  <2>1. q.last <= m /\ q.last \in Nat /\ q.addr \in Nat
    BY <1>2
  <2>2. q.last = m => a <= q.addr
    BY <1>4, <2>1
  <2>3. QED
    BY <1>2, <1>5, <2>1, <2>2 DEF Precedes
<1>7. [source |-> "arp", addr |-> p.addr, last |-> p.last] \in AnswersFrom(docs, "arp", d, t)
  BY <1>6 DEF AnswersFrom, F
<1>8. \A u \in Sources : ~Before(u, "arp")
  BY DEF Before, Sources
<1>9. Answers(docs, d, t) # {}
  BY <1>0, <1>7, <1>8 DEF Answers
<1>10. Latest(docs, d, t) \in Answers(docs, d, t)
  BY <1>9 DEF Latest
<1>11. PICK s \in Sources : /\ \A u \in Sources : Before(u, s) => Fresh(docs, u, d, t) = {}
                            /\ Latest(docs, d, t) \in AnswersFrom(docs, s, d, t)
  BY <1>10 DEF Answers
<1>12. s = "arp"
  <2>1. Fresh(docs, "arp", d, t) # {}
    BY <1>3 DEF F
  <2>2. ~Before("arp", s)
    BY <1>0, <1>11, <2>1
  <2>3. QED
    BY <2>2 DEF Before, Sources
<1>13. PICK q \in F : /\ Latest(docs, d, t) = [source |-> "arp", addr |-> q.addr, last |-> q.last]
                      /\ \A r \in F : ~Precedes(r, q)
  BY <1>11, <1>12 DEF AnswersFrom, F
<1>14. q.last = m
  <2>1. ~Precedes(p, q)
    BY <1>13
  <2>2. QED
    BY <1>2, <1>5, <2>1 DEF Precedes
<1>15. Latest(docs, d, t) \in Answer
  <2>1. q \in Observations
    BY <1>0 DEF F, Fresh
  <2>2. QED
    BY <1>13, <2>1, <1>0 DEF Observations, Answer
<1>16. QED
  BY <1>13, <1>14, <1>15, NoneAssumption

\* What the neighbour table has seen within the window is what is published.
THEOREM ArpDecidesHolds == Spec => ArpDecides
<1>1. ASSUME IInv, ArpOnFile, [Next]_vars, pc = "load", pc' = "ping",
             NEW d \in Devices, newest["arp"][d] # None,
             pollAt - newest["arp"][d] <= MaxAge
      PROVE  /\ snapshot'[d] # None
             /\ snapshot'[d].source = "arp"
             /\ snapshot'[d].last = newest["arp"][d]
  <2> DEFINE m == newest["arp"][d]
  <2>1. d \in Identities /\ "arp" \in Sources
    BY DEF Identities, Sources
  <2>2. m \in Nat /\ pollAt \in Nat
    BY <1>1, <2>1 DEF IInv, TypeOK
  <2>3. \E o \in docs["arp"] : Identity(o) = d /\ o.last = m
    <3>1. PollTime - m <= Retention
      BY <1>1, <2>2 DEF PollTime
    <3>2. QED
      BY <1>1, <2>1, <3>1 DEF ArpOnFile
  <2>4. \A o \in docs["arp"] : Identity(o) = d => o.last <= m
    BY <1>1, <2>1 DEF IInv, FilesBounded
  <2>5. Load
    BY <1>1
      DEF Next, vars, Network, Poll, Tick, Move, LoseFile, RecordRouter, StartPoll,
          RecordNeighbours, LoadFails, WritePing, WriteAirplay, WriteFails, Restart,
          exporter
  <2>6. snapshot'[d] = Latest(docs, d, pollAt)
    BY <2>5 DEF Load
  <2> HIDE DEF m
  <2>7. /\ Latest(docs, d, pollAt) # None
        /\ Latest(docs, d, pollAt).source = "arp"
        /\ Latest(docs, d, pollAt).last = m
    <3>1. pollAt - m <= MaxAge
      BY <1>1 DEF m
    <3>2. QED
      BY <1>1, <2>2, <2>3, <2>4, <3>1, LatestOfArp DEF IInv
  <2>8. QED
    BY <2>6, <2>7 DEF m
<1>2. IInv /\ ArpOnFile /\ [Next]_vars =>
        [(pc = "load" /\ pc' = "ping") =>
           \A d \in Devices :
              (newest["arp"][d] # None /\ pollAt - newest["arp"][d] <= MaxAge) =>
                  /\ snapshot'[d] # None
                  /\ snapshot'[d].source = "arp"
                  /\ snapshot'[d].last = newest["arp"][d]]_vars
  BY <1>1
<1>3. QED
  BY <1>2, Invariance, AlwaysArpOnFile, PTL DEF Spec, ArpDecides
=============================================================================
