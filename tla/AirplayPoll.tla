----------------------------- MODULE AirplayPoll ------------------------------
(***************************************************************************)
(* The AirPlay exporter: airplay/main.py and airplay/resolver.py.  A poll  *)
(* reads the fresh addresses and the listener's announcements, asks for    *)
(* every service by multicast and for every HomePod by unicast at the same *)
(* time, and publishes what came of it; zeroconf's thread changes the      *)
(* announcements and the cache meanwhile.                                  *)
(*                                                                         *)
(* Moments are kept as ages, cut off at Horizon.                           *)
(***************************************************************************)
EXTENDS Integers, Functions

CONSTANTS
    HomePods,
    Services,   \* AIRPLAY_SERVICES
    Addresses,
    Ttl,        \* how long zeroconf answers from its cache
    MaxAge,     \* how long ago a HomePod may have left an address that counts as
                \* fresh: the window, and what a stale neighbour entry hides of it
    PollTime,   \* the longest a poll takes
    Horizon,    \* bound: ages past it are not told apart
    None        \* never, nothing, nobody

ASSUME AirplayPollAssumption ==
    /\ "airplay" \in Services
    /\ Ttl \in Nat \ {0} /\ MaxAge \in Nat /\ PollTime \in Nat
    /\ Horizon \in Nat /\ MaxAge + PollTime < Horizon
    /\ None \notin Nat /\ None \notin Addresses /\ None \notin HomePods

VARIABLES
    (* the HomePods *)
    alive,      \* alive[h]: its AirPlay service is up
    at,         \* at[h]: its address
    (* zeroconf *)
    cached,     \* cached[k]: the age of the service's records, or None
    listed,     \* listed[k]: the age of the last announcement, or None
    (* the poll *)
    pc,         \* "idle", "loaded", "asking"
    began,      \* the age of now
    targets,    \* targets[h]: the fresh sighting of its address, or None
    passive,    \* passive[k]: the copy of listed
    multicast,  \* multicast[k]: "pending", "yes", "no"
    unicast,    \* unicast[h]: "pending", "answered", "silent", or "unknown": not asked
    faulty,     \* a query raised
    lastSeen,   \* lastSeen[k]: kept across polls, or None
    snapshot,   \* the published observations, or None
    (* history *)
    sinceUp,    \* sinceUp[h]: the age of the last moment it was alive
    gone,       \* gone[h][a]: the age of the last moment it had the address
    excused     \* excused[h]: it was down at some moment of this poll, or a packet of
                \* the unicast query was lost

homepods == <<alive, at>>
zeroconf == <<cached, listed>>
queries == <<targets, passive, multicast, unicast, faulty>>
history == <<sinceUp, gone, excused>>
vars == <<homepods, zeroconf, pc, began, queries, lastSeen, snapshot, history>>

Keys == HomePods \X Services
Ages == 0 .. Horizon
\* A sighting in the inventory: another source's, or the router's.
Sighting == [addr: Addresses, source: {"seen", "router"}]
Heard == {"answered", "silent", "unknown"}
Observation == [resolved: BOOLEAN, unicast: Heard]

TypeOK ==
    /\ alive \in [HomePods -> BOOLEAN]
    /\ at \in [HomePods -> Addresses]
    /\ cached \in [Keys -> Ages \cup {None}]
    /\ listed \in [Keys -> Ages \cup {None}]
    /\ pc \in {"idle", "loaded", "asking"}
    /\ began \in Ages
    /\ targets \in [HomePods -> Sighting \cup {None}]
    /\ passive \in [Keys -> Ages \cup {None}]
    /\ multicast \in [Keys -> {"pending", "yes", "no"}]
    /\ unicast \in [HomePods -> Heard \cup {"pending"}]
    /\ faulty \in BOOLEAN
    /\ lastSeen \in [Keys -> Ages \cup {None}]
    /\ snapshot \in [Keys -> Observation] \cup {None}
    /\ sinceUp \in [HomePods -> Ages]
    /\ gone \in [HomePods -> [Addresses -> Ages]]
    /\ excused \in [HomePods -> BOOLEAN]

\* The exporter has just started, and so has zeroconf.
NothingSeen == [k \in Keys |-> None]
NoTargets == [h \in HomePods |-> None]
NotAsked == [h \in HomePods |-> "unknown"]
NotResolved == [k \in Keys |-> "no"]
Never == [h \in HomePods |-> FALSE]

Init ==
    /\ alive = [h \in HomePods |-> TRUE]
    /\ at \in {f \in [HomePods -> Addresses] : IsInjective(f)}
    /\ cached = NothingSeen /\ listed = NothingSeen
    /\ pc = "idle" /\ began = 0
    /\ targets = NoTargets /\ passive = NothingSeen
    /\ multicast = NotResolved /\ unicast = NotAsked /\ faulty = FALSE
    /\ lastSeen = NothingSeen /\ snapshot = None
    /\ sinceUp = [h \in HomePods |-> 0]
    /\ gone = [h \in HomePods |-> [a \in Addresses |-> IF a = at[h] THEN 0 ELSE Horizon]]
    /\ excused = Never

-----------------------------------------------------------------------------
(* The HomePods, the network and zeroconf.                                 *)

Older(age) == IF age = None THEN None ELSE IF age < Horizon THEN age + 1 ELSE Horizon
AllOlder(ages) == [x \in DOMAIN ages |-> Older(ages[x])]

\* Time passes; a poll in progress has its timeouts.
Tick ==
    /\ pc = "idle" \/ began < PollTime
    /\ cached' = [k \in Keys |-> IF Older(cached[k]) \in 0 .. Ttl - 1
                                 THEN Older(cached[k]) ELSE None]
    /\ listed' = AllOlder(listed) /\ passive' = AllOlder(passive)
    /\ began' = IF pc = "idle" THEN 0 ELSE Older(began)
    /\ lastSeen' = AllOlder(lastSeen)
    /\ sinceUp' = [h \in HomePods |-> IF alive[h] THEN 0 ELSE Older(sinceUp[h])]
    /\ gone' = [h \in HomePods |->
                   [a \in Addresses |-> IF a = at[h] THEN 0 ELSE Older(gone[h][a])]]
    /\ UNCHANGED <<homepods, pc, targets, multicast, unicast, faulty, snapshot, excused>>

\* The AirPlay service of h stops, or starts.
Stop(h) ==
    /\ alive[h]
    /\ alive' = [alive EXCEPT ![h] = FALSE]
    /\ sinceUp' = [sinceUp EXCEPT ![h] = 0]
    /\ excused' = [excused EXCEPT ![h] = pc # "idle"]
    /\ UNCHANGED <<at, zeroconf, pc, began, queries, lastSeen, snapshot, gone>>

Start(h) ==
    /\ ~alive[h]
    /\ alive' = [alive EXCEPT ![h] = TRUE]
    /\ sinceUp' = [sinceUp EXCEPT ![h] = 0]
    /\ UNCHANGED <<at, zeroconf, pc, began, queries, lastSeen, snapshot, gone, excused>>

\* It gets another address; its old one goes to any device.
Move(h) ==
    /\ \E a \in Addresses \ {at[h]} :
          /\ \A g \in HomePods : at[g] # a
          /\ at' = [at EXCEPT ![h] = a]
          /\ gone' = [gone EXCEPT ![h][a] = 0]
    /\ UNCHANGED <<alive, zeroconf, pc, began, queries, lastSeen, snapshot, sinceUp, excused>>

\* zeroconf's thread: a service is announced, and put in the cache.
Announce(k) ==
    /\ alive[k[1]]
    /\ listed' = [listed EXCEPT ![k] = 0]
    /\ cached' = [cached EXCEPT ![k] = 0]
    /\ UNCHANGED <<homepods, pc, began, queries, lastSeen, snapshot, history>>

\* A goodbye, or the end of the announcement's own life.
Unlist(k) ==
    /\ listed[k] # None
    /\ listed' = [listed EXCEPT ![k] = None]
    /\ UNCHANGED <<homepods, cached, pc, began, queries, lastSeen, snapshot, history>>

-----------------------------------------------------------------------------
(* The poll.                                                               *)

\* The poll is over; nothing of it is kept but lastSeen and the snapshot.
EndPoll ==
    /\ pc' = "idle" /\ began' = 0
    /\ targets' = NoTargets /\ passive' = NothingSeen
    /\ multicast' = NotResolved /\ unicast' = NotAsked /\ faulty' = FALSE
    /\ excused' = Never

\* _fresh_addresses: what AddressInventory.latest may return.  A sighting of the
\* neighbour table or mDNS is of an address that h had in the window, as
\* LanDiscovery shows; the router may list any address with the time of its
\* feed, and its word counts when no other source has a fresh sighting.
FreshAddresses(h) ==
    {None} \cup [addr: {a \in Addresses : gone[h][a] <= MaxAge}, source: {"seen"}]
           \cup [addr: Addresses, source: {"router"}]

\* now is taken and the inventory read.
StartPoll ==
    /\ pc = "idle"
    /\ pc' = "loaded" /\ began' = 0
    /\ targets' \in {f \in [HomePods -> Sighting \cup {None}] :
                        \A h \in HomePods : f[h] \in FreshAddresses(h)}
    /\ excused' = [h \in HomePods |-> ~alive[h]]
    /\ UNCHANGED <<homepods, zeroconf, passive, multicast, unicast, faulty,
                   lastSeen, snapshot, sinceUp, gone>>

\* The inventory cannot be read.
LoadFails ==
    /\ pc = "idle"
    /\ snapshot' = None
    /\ UNCHANGED <<homepods, zeroconf, pc, began, queries, lastSeen, history>>

\* An _airplay instance can be asked for by name, a _raop one only once it has
\* been announced.
Resolvable(k) == k[2] = "airplay" \/ listed[k] # None

\* The announcements are copied and the queries handed to the workers.
Discover ==
    /\ pc = "loaded"
    /\ pc' = "asking"
    /\ passive' = listed
    /\ multicast' = [k \in Keys |-> IF Resolvable(k) THEN "pending" ELSE "no"]
    /\ unicast' = [h \in HomePods |-> IF targets[h] # None THEN "pending" ELSE "unknown"]
    /\ UNCHANGED <<homepods, zeroconf, began, targets, faulty, lastSeen,
                   snapshot, history>>

\* ZeroconfResolver.resolve: from the cache, by an answer, or not in time.
Resolve(k) ==
    /\ multicast[k] = "pending"
    /\ \/ /\ cached[k] # None
          /\ multicast' = [multicast EXCEPT ![k] = "yes"]
          /\ UNCHANGED <<cached, faulty>>
       \/ /\ cached[k] = None /\ alive[k[1]]
          /\ multicast' = [multicast EXCEPT ![k] = "yes"]
          /\ cached' = [cached EXCEPT ![k] = 0]
          /\ UNCHANGED faulty
       \/ /\ cached[k] = None
          /\ multicast' = [multicast EXCEPT ![k] = "no"]
          /\ UNCHANGED <<cached, faulty>>
       \/ /\ multicast' = [multicast EXCEPT ![k] = "no"]
          /\ faulty' = TRUE
          /\ UNCHANGED cached
    /\ UNCHANGED <<homepods, listed, pc, began, targets, passive, unicast,
                   lastSeen, snapshot, history>>

\* answer_from_packet: of a reply from the device g only the records for h count.
FromPacket(g, h) == IF g = h THEN "answered" ELSE "silent"

\* Two mistakes: a query that could not be made counts as one not answered; it
\* is handed on as it is.
FaultIsSilence == "silent"
FaultIsNothing == None

\* An error of this side's socket says nothing about the device.
NotMade == "unknown"

\* ZeroconfResolver.resolve_unicast: the device at the address answers, h or,
\* when h is not there, another; nothing answers; the query could not be made.
ResolveUnicast(h) ==
    /\ unicast[h] = "pending"
    /\ \/ /\ alive[h] /\ at[h] = targets[h].addr
          /\ unicast' = [unicast EXCEPT ![h] = FromPacket(h, h)]
          /\ UNCHANGED <<faulty, excused>>
       \/ /\ at[h] # targets[h].addr
          /\ unicast' = [unicast EXCEPT ![h] = FromPacket(None, h)]
          /\ UNCHANGED <<faulty, excused>>
       \/ /\ unicast' = [unicast EXCEPT ![h] = "silent"]
          /\ excused' = [excused EXCEPT ![h] = @ \/ at[h] = targets[h].addr]
          /\ UNCHANGED faulty
       \/ /\ unicast' = [unicast EXCEPT ![h] = NotMade]
          /\ UNCHANGED <<faulty, excused>>
       \/ /\ unicast' = [unicast EXCEPT ![h] = "unknown"]
          /\ faulty' = TRUE
          /\ UNCHANGED excused
    /\ UNCHANGED <<homepods, zeroconf, pc, began, targets, passive, multicast,
                   lastSeen, snapshot, sinceUp, gone>>

Done ==
    /\ pc = "asking"
    /\ \A k \in Keys : multicast[k] # "pending"
    /\ \A h \in HomePods : unicast[h] # "pending"

\* Only the _airplay service is asked for by unicast.
UnicastOf(k) == IF k[2] = "airplay" THEN unicast[k[1]] ELSE "unknown"

\* The later of two moments.
Later(a, b) == IF a = None THEN b ELSE IF b = None \/ a <= b THEN a ELSE b

\* Two mistakes: the announcement replaces what was seen before; a service
\* that is listed counts as seen now.
AnnouncedWins(k) ==
    IF multicast[k] = "yes" \/ UnicastOf(k) = "answered" THEN began
    ELSE IF passive[k] # None THEN passive[k] ELSE lastSeen[k]
ListedIsSeen(k) ==
    IF multicast[k] = "yes" \/ UnicastOf(k) = "answered" \/ passive[k] # None THEN began
    ELSE lastSeen[k]

\* When the service was last seen, with this poll.
Seen(k) ==
    IF multicast[k] = "yes" \/ UnicastOf(k) = "answered" THEN began
    ELSE Later(passive[k], lastSeen[k])

\* All queries are back: the observations are put together and published.
Publish ==
    /\ Done /\ ~faulty
    /\ lastSeen' = [k \in Keys |-> Seen(k)]
    /\ snapshot' = [k \in Keys |-> [resolved |-> multicast[k] = "yes",
                                    unicast |-> UnicastOf(k)]]
    /\ EndPoll
    /\ UNCHANGED <<homepods, zeroconf, sinceUp, gone>>

\* A mistake: a failed poll leaves the last snapshot.
FailKeepsSnapshot ==
    /\ Done /\ faulty
    /\ EndPoll
    /\ UNCHANGED <<homepods, zeroconf, lastSeen, snapshot, sinceUp, gone>>

\* A query raised: the poll fails, once all of them are back.
PollFails ==
    /\ Done /\ faulty
    /\ snapshot' = None
    /\ EndPoll
    /\ UNCHANGED <<homepods, zeroconf, lastSeen, sinceUp, gone>>

\* The exporter restarts, and zeroconf with it.
Restart ==
    /\ cached' = NothingSeen /\ listed' = NothingSeen
    /\ lastSeen' = NothingSeen /\ snapshot' = None
    /\ EndPoll
    /\ UNCHANGED <<homepods, sinceUp, gone>>

Poll ==
    \/ StartPoll \/ LoadFails \/ Discover
    \/ \E k \in Keys : Resolve(k)
    \/ \E h \in HomePods : ResolveUnicast(h)
    \/ Publish \/ PollFails

Environment ==
    \/ \E h \in HomePods : Stop(h) \/ Start(h) \/ Move(h)
    \/ \E k \in Keys : Announce(k) \/ Unlist(k)

Next == Tick \/ Poll \/ Environment \/ Restart

Spec == Init /\ [][Next]_vars

\* The scrape loop polls on, every query ends, and time passes.
FairSpec == Spec /\ WF_vars(Tick) /\ WF_vars(Poll)

-----------------------------------------------------------------------------
(* Properties.                                                             *)

\* The last-seen time of a service never goes back, through failed polls, late
\* announcements and answers that cross them (main.py:89-90).
LastSeenNeverGoesBack ==
    [][\A k \in Keys :
          (lastSeen[k] # None /\ ~Tick /\ ~Restart) =>
             lastSeen'[k] # None /\ lastSeen'[k] <= lastSeen[k]]_vars

\* A service was up no longer before its last-seen time than the cache keeps
\* its records: an exporter that took what is listed for what was seen would
\* show a dead HomePod as seen for the 75 minutes of an announcement's life.
LastSeenHonest ==
    \A k \in Keys :
        (lastSeen[k] # None /\ lastSeen[k] + Ttl < Horizon) =>
            sinceUp[k[1]] <= lastSeen[k] + Ttl

\* h had another address no longer ago than the age.
Moved(h, age) == \E a \in Addresses \ {at[h]} : gone[h][a] <= age

\* A HomePod published as silent to unicast was down at some moment of the
\* poll, missed the packet, has left an address since the oldest moment that
\* counts as fresh, or the router gave an address that is not its own: no fault
\* of this side is blamed on it, and no sighting of the other sources.
SilentForAReason ==
    [][\A h \in HomePods :
          (Publish /\ snapshot'[<<h, "airplay">>].unicast = "silent") =>
             \/ excused[h]
             \/ Moved(h, MaxAge + began)
             \/ targets[h].source = "router" /\ targets[h].addr # at[h]]_vars

Claims(k) ==
    snapshot # None /\ (snapshot[k].resolved \/ snapshot[k].unicast = "answered")

\* A HomePod whose service stays down is not reported as there for ever: the
\* cache runs out and no old snapshot stays (resolver.py:6-9).
GoneIsReported ==
    \A k \in Keys : <>[](~alive[k[1]]) => <>[](~Claims(k))
=============================================================================
