----------------------------- MODULE AmplifiPoll -----------------------------
(***************************************************************************)
(* A poll of the AmpliFi exporter: the pages of the router's web UI and    *)
(* the login they may ask for (amplifi/client.py), the feed               *)
(* (amplifi/parser.py), the snapshot and its series (amplifi/collector.py) *)
(* and the sightings for the inventory (amplifi/sightings.py), in the      *)
(* order of AmplifiScraper (amplifi/main.py).  ClientByteTotals has the    *)
(* byte counters, ExporterProcess the thread this runs in.                 *)
(*                                                                         *)
(* The router is the environment: while it is not calm it may drop the     *)
(* session at any step, fail any request, refuse the password, change a    *)
(* page, and send a feed that is damaged.  What it knows of its network is *)
(* a flat record; the feed nests the mesh points under their uplinks.      *)
(* Addresses are numbers, in the order the code sorts them.                *)
(***************************************************************************)
EXTENDS Integers, Sequences, Functions

CONSTANTS
    Networks,  \* what the router may know of its network
    Levels,    \* the levels of mesh points in the longest daisy chain
    RouterMac, \* the router's MAC
    Tracked,   \* the tracked clients' kinds, by MAC
    Retention, \* seconds the inventory's file keeps an observation
    MaxAddressesPerMac, \* addresses it keeps per device
    Damaged,   \* what the parser cannot read of a lease or of a port map
    None       \* nothing

VARIABLES
    calm,       \* nothing goes wrong: the router is well, the exporter is not restarted
    session,    \* the exporter's cookie is of a session the router knows
    step,       \* what the poll does next
    stage,      \* how the last poll ended: "ok", or the stage its error is counted under
    published,  \* the published snapshot, or None
    sourceOk,   \* the last write of the inventory's source, or None
    file,       \* the observations in the source's file, by their age when it was last written
    served      \* history: the network in the last feed that was whole

vars == <<calm, session, step, stage, published, sourceOk, file, served>>

(***************************************************************************)
(* The feed.  A network is [mesh, address, clients, wired, directory,      *)
(* services, wan, fault]: mesh gives each mesh point its uplink or "lost", *)
(* address the router's and each mesh point's own, directory each lease's  *)
(* or Damaged, fault the damage to an element.                             *)
(***************************************************************************)

\* A mesh point is the router's or the router has lost it, and is then on the
\* first level, or it is one level below its uplink.
OnLevels(mesh) ==
    \E level \in [DOMAIN mesh -> 1 .. Levels] : \A m \in DOMAIN mesh :
        \/ mesh[m] \in {RouterMac, "lost"} /\ level[m] = 1
        \/ mesh[m] \in DOMAIN mesh /\ level[m] = level[mesh[m]] + 1

ASSUME NetworksAssumption ==
    /\ Levels \in Nat /\ RouterMac # "lost"
    /\ \A net \in Networks :
          /\ DOMAIN net.mesh \cap {RouterMac, "lost"} = {} /\ OnLevels(net.mesh)
          /\ net.address \in [{RouterMac} \cup DOMAIN net.mesh -> Int]
          /\ net.clients \in Seq(Range(net.clients))
          /\ \A c \in Range(net.clients) : c.idle \in Nat /\ c.address \in Int \cup {None}
          /\ Range(net.directory) \subseteq Int \cup {None, Damaged}

\* The router, the mesh points, the ports and the clients give a device three
\* addresses at most; the code keeps eight of each.
ASSUME InventoryAssumption ==
    Retention \in Nat /\ MaxAddressesPerMac \in Nat /\ MaxAddressesPerMac >= 3

NoChildren == [wifi |-> {}, offline |-> {}]

Nodes(net, uplink, under) ==
    {[mac |-> m, address |-> net.address[m], uplink |-> uplink, children |-> under[m]] :
        m \in {m \in DOMAIN net.mesh : net.mesh[m] = uplink}}

\* The router keeps those it has lost among its own.
Children(net, at, under) ==
    [wifi |-> Nodes(net, at, under),
     offline |-> IF at = RouterMac THEN Nodes(net, "lost", under) ELSE {}]

Topology(net) ==
    LET nested[d \in 0 .. Levels] ==
            [at \in {RouterMac} \cup DOMAIN net.mesh |->
                IF d = 0 THEN NoChildren ELSE Children(net, at, nested[d - 1])]
    IN  nested[Levels][RouterMac]

Feed(net) ==
    [router |-> net.address[RouterMac], mesh |-> Topology(net),
     clients |-> net.clients, wired |-> net.wired, directory |-> net.directory,
     services |-> net.services, wan |-> net.wan, fault |-> net.fault]

(***************************************************************************)
(* parse_info_async.  A mesh point under another one is found like the     *)
(* router's own, and what the router knows of a connection counts only     *)
(* while there is one.  A damaged lease or port map costs itself, damage   *)
(* anywhere else the poll.                                                 *)
(***************************************************************************)
MeshPoint(node, online) ==
    [mac |-> node.mac, address |-> node.address, online |-> online,
     uplink |-> IF online THEN node.uplink ELSE None]

\* What is directly under the router, or under a mesh point.
MeshPointsOf(children) ==
    {MeshPoint(node, TRUE) : node \in children.wifi}
        \cup {MeshPoint(node, FALSE) : node \in children.offline}

\* A mistake: only the router's own mesh points are looked for.
DirectMeshPoints(children) == MeshPointsOf(children)

\* The walk goes on under every mesh point, level by level.
ParseMeshPoints(children) ==
    LET reached[d \in 0 .. Levels] ==
            IF d = 0 THEN {children}
            ELSE UNION {{node.children : node \in c.wifi \cup c.offline} : c \in reached[d - 1]}
    IN  UNION {MeshPointsOf(c) : c \in UNION {reached[d] : d \in 0 .. Levels}}

ParseDirectory(leases) ==
    [mac \in {mac \in DOMAIN leases : leases[mac] # Damaged} |-> leases[mac]]

ParseWired(ports) == UNION {ports[ap] : ap \in {ap \in DOMAIN ports : ports[ap] # {Damaged}}}

Parses(feed) == feed.fault = None

ParseInfoAsync(feed) ==
    [router |-> feed.router, mesh |-> ParseMeshPoints(feed.mesh),
     clients |-> feed.clients, wan |-> feed.wan, services |-> feed.services,
     directory |-> ParseDirectory(feed.directory), wired |-> ParseWired(feed.wired)]

ASSUME NoneAssumption ==
    /\ None # TRUE /\ None # "ok" /\ None \notin Int
    /\ \A net \in Networks : None # net /\ None # ParseInfoAsync(Feed(net))

\* A mistake: every association is kept.
KeepAll(clients) == Range(clients)

\* Of a client's associations the one least idle, the first of two alike.
DedupeClients(clients) ==
    {clients[i] : i \in {i \in DOMAIN clients :
        \A j \in DOMAIN clients \ {i} : clients[j].mac = clients[i].mac =>
            clients[i].idle < clients[j].idle \/ (clients[i].idle = clients[j].idle /\ i < j)}}

(***************************************************************************)
(* AmplifiCollector.collect: a series is [name, labels, value].            *)
(***************************************************************************)
Series(name, labels, value) == [name |-> name, labels |-> labels, value |-> value]
Flag(holds) == IF holds THEN 1 ELSE 0

SourceFamilies == IF sourceOk = None THEN {} ELSE {Series("address_source_ok", <<>>, Flag(sourceOk))}

RouterFamilies(snapshot) ==
    IF snapshot.wan = None THEN {} ELSE {Series("wan_rx", <<>>, snapshot.wan)}

\* The uplink is a label of the info series and empty while it is not known.
MeshPointFamilies(snapshot) ==
    UNION {{Series("mesh_point", <<m.mac, m.uplink>>, 1),
            Series("mesh_point_online", <<m.mac>>, Flag(m.online))} : m \in snapshot.mesh}

ClientLabels(client) ==
    <<client.mac, IF client.mac \in DOMAIN Tracked THEN Tracked[client.mac]
                  ELSE IF client.backhaul THEN "backhaul" ELSE "other">>

ClientFamilies(snapshot) ==
    UNION {{Series("client", ClientLabels(c) \o <<c.ap>>, 1),
            Series("client_inactive", ClientLabels(c), c.idle)} :
                c \in DedupeClients(snapshot.clients)}

TrackedFamilies(snapshot) ==
    LET present == {c.mac : c \in DedupeClients(snapshot.clients)}
    IN  {Series("associated", <<mac, Tracked[mac]>>, Flag(mac \in present)) :
            mac \in DOMAIN Tracked}

AirplayFamilies(snapshot) ==
    LET services(mac) ==
            IF mac \in DOMAIN snapshot.services THEN snapshot.services[mac] ELSE {}
    IN  {Series("advertised", <<mac, "_airplay">>, Flag("_airplay" \in services(mac))) :
            mac \in {mac \in DOMAIN Tracked : Tracked[mac] = "homepod"}}

Collected ==
    SourceFamilies \cup
        (IF published = None THEN {}
         ELSE RouterFamilies(published) \cup MeshPointFamilies(published)
                \cup ClientFamilies(published) \cup TrackedFamilies(published)
                \cup AirplayFamilies(published))

(***************************************************************************)
(* router_sightings: a lease alone is a memory of the router's and no      *)
(* sighting, and neither is a link between mesh points.  All of them have  *)
(* a MAC; the hostname some also have is left out.  The store merges them  *)
(* into its file, with their ages as of that moment: DeviceAddresses.      *)
(***************************************************************************)
Inventory == INSTANCE DeviceAddresses
    WITH NumDevices <- 0, NumAddresses <- 0, Hosts <- {}, MaxAge <- 0

Sighting(mac, address) == [mac |-> mac, host |-> None, addr |-> address, last |-> 0]

RouterSightings(snapshot) ==
    {Sighting(RouterMac, snapshot.router)}
        \cup {Sighting(m.mac, m.address) : m \in {m \in snapshot.mesh : m.online}}
        \cup {Sighting(c.mac, c.address) :
                c \in {c \in DedupeClients(snapshot.clients) : ~c.backhaul /\ c.address # None}}
        \cup {Sighting(mac, snapshot.directory[mac]) :
                mac \in {mac \in snapshot.wired \cap DOMAIN snapshot.directory :
                            snapshot.directory[mac] # None}}

\* What is on file, some time after it was written.
Aged(doc, elapsed) ==
    {[mac |-> o.mac, host |-> o.host, addr |-> o.addr, last |-> o.last - elapsed] : o \in doc}

\* What SourceStore.record writes.  A file that is lost or damaged meanwhile is
\* one of which everything has outlived its retention.
Recorded(elapsed) ==
    Inventory!Recorded(Aged(file, elapsed), RouterSightings(published), 0)

(***************************************************************************)
(* The pages, as far as the client looks at them.                          *)
(***************************************************************************)
Page(code, body) == [code |-> code, body |-> body]

\* What the router shows instead of a page that needs a session.
LoginWanted == {Page(302, "login.php"), Page(200, "refresh"), Page(200, "form")}

\* The answers to GET /info.php.
InfoPages ==
    (IF session THEN {Page(200, "token")} ELSE LoginWanted)
        \cup IF calm THEN {} ELSE {Page(200, "changed")}

\* A mistake: the tiny page that only refreshes is not known.
AsksByRedirectOrForm(page) == page.code = 302 \/ page.body = "form"

NeedsLogin(page) == page.code = 302 \/ page.body \in {"refresh", "form"}

(***************************************************************************)
(* A poll.  Every request may fail while the router is not calm.           *)
(***************************************************************************)
Init ==
    /\ calm = FALSE /\ session = FALSE /\ step = "idle" /\ stage = None
    /\ published = None /\ sourceOk = None /\ file = {} /\ served = None

\* A failed step counts its error, drops the snapshot and ends the poll.
Fail(why) ==
    /\ step' = "idle" /\ stage' = why
    /\ published' = None
    /\ UNCHANGED <<calm, sourceOk, file, served>>

RequestFails ==
    /\ step \notin {"idle", "record"} /\ ~calm
    /\ Fail("fetch")
    /\ session' = session

StartPoll ==
    /\ step = "idle"
    /\ step' = "info"
    /\ UNCHANGED <<calm, session, stage, published, sourceOk, file, served>>

GoesOn(next) ==
    step' = next /\ UNCHANGED <<calm, stage, published, sourceOk, file, served>>

\* GET /info.php.  A page that asks for a login leads to one, but only once.
GetInfo ==
    /\ step \in {"info", "again"}
    /\ \E page \in InfoPages :
          \/ ~NeedsLogin(page) /\ page.body = "token" /\ GoesOn("feed")
          \/ ~NeedsLogin(page) /\ page.body # "token" /\ Fail("login")
          \/ NeedsLogin(page) /\ step = "info" /\ GoesOn("login")
          \/ NeedsLogin(page) /\ step = "again" /\ Fail("login")
    /\ UNCHANGED session

\* GET /login.php, for the token in its form.
GetLogin ==
    /\ step = "login"
    /\ GoesOn("password") \/ (~calm /\ Fail("login"))
    /\ UNCHANGED session

\* POST /login.php: the form once more means that the password was refused; a
\* login the router accepted may still be answered by something else, or not
\* at all.
PostPassword ==
    /\ step = "password"
    /\ \/ session' = TRUE /\ GoesOn("again")
       \/ ~calm /\ UNCHANGED session /\ (Fail("login") \/ GoesOn("again"))
       \/ ~calm /\ session' = TRUE /\ Fail("fetch")

\* POST /info-async.php, parse_info_async and publish.  Without a session the
\* answer is no feed.
GetFeed ==
    /\ step = "feed"
    /\ \/ \E net \in Networks :
             /\ session /\ (calm => net.fault = None)
             /\ \/ /\ Parses(Feed(net))
                   /\ published' = ParseInfoAsync(Feed(net)) /\ served' = net
                   /\ step' = "record"
                   /\ UNCHANGED <<calm, stage, sourceOk, file>>
                \/ ~Parses(Feed(net)) /\ Fail("parse")
       \/ ~session /\ Fail("parse")
    /\ UNCHANGED session

\* A mistake: the write is taken to have succeeded whatever came of it.
RecordsBlindly ==
    /\ step = "record"
    /\ \E elapsed \in 1 .. Retention + 1 : file' \in {Recorded(elapsed), file}
    /\ sourceOk' = TRUE
    /\ step' = "idle" /\ stage' = "ok"
    /\ UNCHANGED <<calm, session, published, served>>

\* A mistake: a write that fails fails the poll, under a stage of its own.
WriteFailsPoll ==
    /\ step = "record"
    /\ \/ /\ \E elapsed \in 1 .. Retention + 1 : file' = Recorded(elapsed)
          /\ sourceOk' = TRUE
          /\ step' = "idle" /\ stage' = "ok"
          /\ UNCHANGED <<calm, published, served>>
       \/ Fail("write")
    /\ session' = session

\* The sightings go to the inventory; that they cannot be written is shown by
\* the source's own metric and does not fail the poll.  The file may be in
\* place when the write fails: its directory is synced last.
RecordSightings ==
    /\ step = "record"
    /\ \E elapsed \in 1 .. Retention + 1 :
          \/ file' = Recorded(elapsed) /\ sourceOk' = TRUE
          \/ file' \in {file, Recorded(elapsed)} /\ sourceOk' = FALSE
    /\ step' = "idle" /\ stage' = "ok"
    /\ UNCHANGED <<calm, session, published, served>>

\* A restart loses the cookie and everything but the file.
Restart ==
    /\ session' = FALSE /\ step' = "idle" /\ stage' = None
    /\ published' = None /\ sourceOk' = None /\ served' = None
    /\ UNCHANGED <<calm, file>>

\* The router ends a session, is rebooted, or changes its ways.
SessionEnds ==
    /\ session /\ ~calm
    /\ session' = FALSE
    /\ UNCHANGED <<calm, step, stage, published, sourceOk, file, served>>

Changes ==
    /\ calm' = ~calm
    /\ UNCHANGED <<session, step, stage, published, sourceOk, file, served>>

Poll ==
    RequestFails \/ StartPoll \/ GetInfo \/ GetLogin \/ PostPassword \/ GetFeed \/ RecordSightings

Next == Poll \/ (~calm /\ Restart) \/ SessionEnds \/ Changes

Spec == Init /\ [][Next]_vars

\* The scrape loop goes on for ever, and every request ends.
FairSpec == Spec /\ WF_vars(Poll)

(***************************************************************************)
(* Properties.                                                             *)
(***************************************************************************)

\* The state is well formed.
TypeOK ==
    /\ step \in {"idle", "info", "login", "password", "again", "feed", "record"}
    /\ stage \in {None, "ok", "login", "fetch", "parse"}
    /\ calm \in BOOLEAN /\ session \in BOOLEAN
    /\ sourceOk \in BOOLEAN \cup {None}
    /\ served \in Networks \cup {None}
    /\ published # None => served # None

\* What is served is the network of the last poll as the router knew it, or
\* nothing once a poll has failed: every mesh point is up or lost as it is, the
\* daisy-chained ones too, and a tracked client is there if it is on any
\* access point, damaged leases and port maps or not (parser.py:33,
\* collector.py:5-7).
ServesWhatTheRouterKnew ==
    /\ step = "idle" => (published # None <=> stage = "ok")
    /\ published # None =>
          /\ \A m \in DOMAIN served.mesh :
                Series("mesh_point_online", <<m>>, Flag(served.mesh[m] # "lost")) \in Collected
          /\ \A mac \in DOMAIN Tracked :
                LET there == \E c \in Range(served.clients) : c.mac = mac
                IN  Series("associated", <<mac, Tracked[mac]>>, Flag(there)) \in Collected

\* No answer has two series of one name and the same labels, for which
\* Prometheus would refuse all of it, although the router lists a client under
\* every access point it has been on.
NoSeriesTwice ==
    \A s, t \in Collected : s.name = t.name /\ s.labels = t.labels => s = t

\* amplifi_address_source_ok 1 says that what the inventory's file shows as
\* seen when it was last written is what the router knew in the last poll that
\* succeeded: the router, the mesh points it has not lost, what is on a port
\* under the address of its lease, and each client where it was last active
\* (sightings.py:3-9).  Whatever else the file has kept, of earlier polls, is
\* shown as older (device_addresses.py:225-228), and nothing is pushed out by it.
SourceOkIsTrue ==
    (sourceOk = TRUE /\ step # "record") =>
        /\ \A s \in file : s.last = 0 =>
              \/ s = Sighting(RouterMac, served.address[RouterMac])
              \/ \E m \in DOMAIN served.mesh :
                    served.mesh[m] # "lost" /\ s = Sighting(m, served.address[m])
              \/ /\ \E ap \in DOMAIN served.wired :
                       served.wired[ap] # {Damaged} /\ s.mac \in served.wired[ap]
                 /\ s.mac \in DOMAIN served.directory /\ s.addr = served.directory[s.mac]
                 /\ s.addr \notin {None, Damaged}
              \/ \E c \in Range(served.clients) :
                    /\ s = Sighting(c.mac, c.address) /\ ~c.backhaul /\ c.address # None
                    /\ \A d \in Range(served.clients) : d.mac = c.mac => c.idle <= d.idle
        /\ Sighting(RouterMac, served.address[RouterMac]) \in file
        /\ \A m \in DOMAIN served.mesh :
              served.mesh[m] # "lost" => Sighting(m, served.address[m]) \in file
        /\ \A c \in Range(served.clients) :
              /\ ~c.backhaul /\ c.address # None
              /\ \A d \in Range(served.clients) : d.mac = c.mac /\ d # c => c.idle < d.idle
              => Sighting(c.mac, c.address) \in file

\* Once the router is well the exporter gets a session and serves its metrics
\* again, however the session was lost and in whatever way the router asks for
\* the login.
PollsRecover == <>[]calm => <>[](published # None)
=============================================================================
