-------------------------- MODULE MCAmplifiExporter --------------------------
(***************************************************************************)
(* The AmpliFi exporter, for TLC: its byte totals and its poll.  The two   *)
(* meet in AmplifiCollector.publish alone, which is Publish of             *)
(* ClientByteTotals and a part of GetFeed of AmplifiPoll, and neither      *)
(* looks at the other's state, so a behaviour here is one of either.       *)
(***************************************************************************)
EXTENDS AmplifiPoll

CONSTANTS Clients, NumAps, Wrap, ForgetAfter, MaxMoved, MaxIdle

VARIABLES cur, listed, cnt, idle, lastRaw, total, absent, exported, moved, readAt, since

(***************************************************************************)
(* The networks of an AmpliFi router: two mesh points in every place, a    *)
(* HomePod that roams, an untracked client, a wired device, and damage to  *)
(* the feed.                                                               *)
(***************************************************************************)
Association(mac, ap, seconds, address, backhaul) ==
    [mac |-> mac, ap |-> ap, idle |-> seconds, address |-> address, backhaul |-> backhaul]

\* The HomePod is on an Ethernet port as well in two of the places: each time
\* the file gets two new addresses of it, and cannot keep them all.
Nobody == <<>>
Once == <<Association("m1", "r", 0, None, TRUE), Association("h", "m1", 1, 1, FALSE)>>
Twice == <<Association("h", "m1", 2, 1, FALSE), Association("c", "r", 0, None, FALSE),
           Association("h", "r", 0, 3, FALSE)>>

Star == [m1 |-> "r", m2 |-> "r"]
Chain == [m1 |-> "r", m2 |-> "m1"]
OneLost == [m1 |-> "r", m2 |-> "lost"]
BothLost == [m1 |-> "lost", m2 |-> "lost"]

Network(mesh, clients, fault) ==
    [mesh |-> mesh, clients |-> clients, fault |-> fault, services |-> [h |-> {"_airplay"}],
     address |-> [r |-> 5, m1 |-> 6, m2 |-> 7],
     wired |-> IF clients = Nobody THEN [r |-> {Damaged}] ELSE [r |-> {"w", "x", "h"}],
     directory |-> [w |-> 8, x |-> None, c |-> Damaged,
                    h |-> IF clients = Once THEN 2 ELSE 4],
     wan |-> IF clients = Nobody THEN None ELSE 1]

MCNetworks ==
    {Network(Star, clients, None) : clients \in {Nobody, Twice}}
        \cup {Network(Chain, clients, None) : clients \in {Once, Twice}}
        \cup {Network(OneLost, Once, None), Network(BothLost, Twice, None)}
        \cup {Network(Star, Nobody, "wan")}

HomePods == [h |-> "homepod"]

Totals == INSTANCE ClientByteTotals WITH published <- exported

totalsVars ==
    <<cur, listed, cnt, idle, lastRaw, total, absent, exported, moved, readAt, since>>

AmplifiInit == Init /\ Totals!Init

AmplifiNext ==
    \/ Init /\ Totals!Next /\ UNCHANGED vars
    \/ Totals!Init /\ Next /\ UNCHANGED totalsVars

\* Publish is also what FairSpec of ClientByteTotals is fair to.
AmplifiSpec ==
    /\ AmplifiInit /\ [][AmplifiNext]_<<vars, totalsVars>>
    /\ WF_<<vars, totalsVars>>(Init /\ Totals!Publish /\ UNCHANGED vars)
    /\ WF_<<vars, totalsVars>>(Totals!Init /\ Poll /\ UNCHANGED totalsVars)

\* A client that stays away is forgotten (common/counters.py).  The properties
\* of the poll are AmplifiPoll's.
GoneIsForgotten == Totals!GoneIsForgotten
=============================================================================
