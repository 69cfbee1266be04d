# Verification of the monitoring exporters and the offsite backups

This directory holds TLA+ models of the program code of justdavis-ansible, TLC
configurations that model-check them, and TLAPS proofs about them. The
repository is mostly Ansible configuration; its one program of size is the
Python package `justdavis_monitoring_exporters` in
`src/roles/monitoring/files/exporters`, and that is what most of the modules are about;
one more is about the backup services and script of `src/roles/offsite_backups`. Paths below are relative to
`src/roles/monitoring/files/exporters/src/justdavis_monitoring_exporters/` unless they
start with `src/`.

## The system

Four exporters run as separate processes (containers). Each polls one thing in a
scrape thread, keeps the result in a snapshot and serves it to Prometheus from
an HTTP thread.

| Component | State it keeps | Operations | Talks to |
| --- | --- | --- | --- |
| `common/server.py`, `common/loop.py`, `common/snapshot.py`: the process | stop event, scrape status, snapshot | start, poll, back off, collect, signal, join, clean up | every exporter is built on it |
| `common/counters.py`, `amplifi/collector.py`: client byte totals | last reading per association, total and absent polls per series | observe, end_poll, forget, publish, clear | fed by every AmpliFi poll |
| `amplifi/*`: AmpliFi exporter | router session, snapshot | log in, fetch, parse, publish, record sightings | the router; merges into `router.json` |
| `gateway/*`: gateway exporter | admin session, time of the last login attempt | fetch, log in (throttled), parse, publish | the cable gateway, whose single admin session it shares with people |
| `airplay/*`: AirPlay exporter | last-seen time per service, collected packets | resolve by multicast and unicast, publish | zeroconf's thread; reads the inventory |
| `common/device_addresses.py`: device address inventory | one JSON file per source: `arp`, `mdns`, `router` | record, trim, read, attribute, latest | the files are all the exporters share |
| `lan_discovery/*`: LAN discovery exporter | snapshot, `target_files_ok`, mDNS cache | record mdns and arp, load, publish, write the target files, nudge | kernel neighbour table, zeroconf; writes the files ping_exporter and Prometheus read |
| `common/files.py` | none | replace a file atomically | used by the inventory and the targets |
| `common/settings.py`, `http.py`, `labels.py`, `jsonutil.py` | none | parse, format, request | everything |
| `src/roles/monitoring/templates/alerts.yml.j2`, `recording.yml.j2` | pending and firing rules | evaluate | the exported metrics |
| `src/roles/offsite_backups` | metrics file, repository lock | backup, check, prune | systemd timers, restic; an alert watches the metrics file |
| the Ansible roles, one-off scripts | none of their own | | |

What is hard: four threads of control per process without a common lock; polls
that fail at any step and must leave either the old state or none; counters that
restart, saturate and are listed twice; three sources that hear of an address
change at different times; files of several producers read while any of them may be missing or
stale; a throttle and a backoff that interfere; a login that throws out a
person; readers of what another program sends in pieces; a backup that is killed, locked
out or not recorded. PROJECT.json lists each hazard at its line.

## Modules

| Module | Models | Run by |
| --- | --- | --- |
| `ClientByteTotals` | `common/counters.py`, `dedupe_clients`, `publish`, `clear`, failing and raising polls, restarts; the router is the environment | `MCClientByteTotals` |
| `ClientByteTotals_proofs` | proofs | |
| `ExporterProcess` | main thread, scrape thread, signal handler, HTTP thread | `MCExporterProcess` |
| `ExporterProcess_proofs` | proofs | |
| `PublishedView` | what an exporter promises Prometheus, without threads: the abstract specification `ExporterProcess` implements | through `ExporterProcess` |
| `AmplifiPoll` | the AmpliFi exporter's poll: requests and login, the feed, the snapshot and its series, the sightings; the router is the environment | `MCAmplifiExporter`, together with `ClientByteTotals` |
| `AmplifiPoll_proofs` | proofs | |
| `DeviceAddresses` | the inventory as operators: what `record` keeps, whom an observation counts for, `latest` | through `LanDiscovery` and `AmplifiPoll` |
| `LanDiscovery` | extends it with the two producers, the poll of the LAN discovery exporter, the target files and a moving network | `MCLanDiscovery` |
| `LanDiscovery_proofs` | proofs | |
| `NeighbourDump` | `lan_discovery/neigh.py`: the netlink dump, what counts as a sighting and at what time, nudging; the kernel's table and the devices are the environment | through `Readers` |
| `GatewaySession` | the gateway exporter's admin session: requests on a pinned connection, login and throttle, the outcome of each poll and the wait after it; the gateway and its people are the environment | `MCGatewaySession` |
| `GatewaySession_proofs` | proofs | |
| `GatewayPage` | `gateway/parser.py`: a status page fed element by element, and what is read from it; the gateway's firmware is the environment | through `Readers` |
| `AirplayPoll` | the AirPlay exporter: a poll's multicast and unicast queries, the last-seen times and the snapshot, against zeroconf's listener and cache; the HomePods and the inventory are the environment | `MCAirplayPoll` |
| `AirplayPoll_proofs` | proofs | |
| `PlaybackRecord` | `airplay/state.py`, `answer_from_packet` and the playback gauges: a reply, the TXT record in it and what it means; the HomePod is the environment | through `Readers` |
| `Readers` | the three readers `NeighbourDump`, `GatewayPage` and `PlaybackRecord` side by side | `MCReaders` |
| `Readers_proofs` | proofs of all three | |
| `OffsiteBackups` | the three backup services, their lock and time limits, the timer, the script with its exit trap and metrics file, the alert; systemd, flock, restic and the host are the environment | `MCOffsiteBackups` |
| `OffsiteBackups_proofs` | proofs | |

The operators named `A mistake` in a comment are not part of a model: each is a
mutated form of the definition that follows it, and a property counts as
meaningful only if putting the mistake in breaks it.

### ClientByteTotals

State: `lastRaw`, `total`, `absent` are `_last_raw`, `_total`, `_absent_polls`;
`published` is the snapshot's totals. A member of `Clients` is one exported
series (MAC and direction). `Publish` is a poll that succeeds: `dedupe_clients`
(`Deduped`), `observe` for every client (`ObserveAll`), `end_poll` (`Forgotten`)
and the new snapshot in one step, because the publish lock makes it one.
`PublishRaises` is a poll in which `observe` raises for one client after having
counted any set of others. `PollFails` only clears. The router may be in any
state its API shows: entries under several access points, counters that restart
on every association and wrap at `Wrap`, saturated readings for any set of
clients (`stuck`). History variables say what really moved (`moved`), when it
was last read (`readAt`) and what became of the association since (`since`).

Two directions of one MAC are independent series here. In the code all `rx` are
observed before all `tx`; a raising poll may thus have counted any subset, which
`seen` ranges over (a superset of what the order of the dictionary allows).

Bounds: `Wrap` 3 (a byte counter of two bits would do: wrapping, restarting and the
saturated value `Wrap - 1` all happen within `MaxMoved` 4 bytes), two access
points (one stale entry and one live one), `ForgetAfter` 2. Two clients, so that
one can raise while the other was counted, are in `MCAmplifiExporter`.

Fairness, only for `GoneIsForgotten`: polls go on and sometimes succeed
(`WF(Publish)`), which is what the scrape loop provides as long as the router
can be reached. Nothing is assumed of the router or the clients.

### ExporterProcess

`main` walks through `run_until_stopped`; `stop.wait(1)` is four steps, because
`threading.Event` guards its flag with a plain lock that `wait` holds on the way
in and out, and a Python signal handler runs in the main thread between any two
of its instructions. `scraper` walks through `run_scrape_loop`. `snapshot` and
`status` carry the number of the poll they come from, so that a response can
tell which poll each half is of. A poll that fails clears the snapshot (`Fail`); the LAN discovery exporter's
may also fail after it has published, when a target file cannot be written, and then the
snapshot stays (`WriteFails`, only in an exporter that `writes`; `lan_discovery/main.py:210-221`). Between reading the inventory and
publishing, that exporter computes from what has been read and checked (`lan_discovery/main.py:197-209`); the model
has no failure there. `CollectStatus` and `CollectSnapshot` are the
two reads of every `collect()`. An exporter that is not configured has no scrape thread.

`scraper = "dead"` covers both a loop that returned and one that died of
something `except Exception` does not catch (`Crash`); the history variable `crashed` tells
them apart. Bounds: 3 polls and 2 signals; a response spans at most two polls
and the second signal finds every state the first can leave. Fairness: the
operating system runs both threads, waits time out and polls end (every request
has a timeout): `WF` of the main thread's step and of the scrape thread's step.
Signals and scrapes need not come.

`KeepsPublishedView` says that this process implements `PublishedView`: polls one after the
other, metrics that are those of the last poll or none, a success reported only when
they are shown, a failure only when none are or when the exporter is one that goes on after it has
shown them (`goesOn`), and answers that never report on a later poll than the
one their metrics are from. So `lan_discovery_up 0` may come with device metrics, as the run `lan_frozen` has it too,
but they are those of the poll that failed, never of an earlier one. The mapping is by name: `poll`,
`snapshot`, `status`, `response`, `writes`. It takes the place of two invariants, `UpMatchesSnapshot` and
`ResponseNeverStale`, which follow from it and are still proved.

### AmplifiPoll

A poll of the AmpliFi exporter as `AmplifiClient` and `AmplifiScraper` make it: `GetInfo`
(`/info.php`, before and after a login), `GetLogin`, `PostPassword`, `GetFeed` (fetch, parse and publish)
and `RecordSightings`; each may fail with the stage its error is counted under (`Fail`). `calm` is the
router being well: while it is not, sessions end at any step, requests fail, pages
change and feeds are damaged; it comes and goes.

The router's network is a flat record, the feed (`Feed`) nests the mesh points under their
uplinks as the router does, at most `Levels` deep, and `ParseInfoAsync` takes it apart again, so that
`ServesWhatTheRouterKnew` compares two different representations. `Collected` are the series of
one `collect()`, with the labels that make them distinct. One metric stands for
those of a family, except where they differ in when they are left out.

`file` is `router.json`, its observations by their age when it was last written. `RecordSightings` merges
the poll's sightings into it with `Recorded` of `DeviceAddresses`, the operator that models `SourceStore.record`
for `LanDiscovery` too: an older address of a device stays until it is past `Retention` or pushed out by
`MaxAddressesPerMac` newer ones. A write may fail before the file is replaced or after
(`write_if_changed` syncs the directory last); either way the metric says 0. `SourceOkIsTrue` is about what
the file dates as of the last write, and about that being all there. Any number of seconds may
pass between two writes, and with more of them than `Retention` the file is as good as
new, which is also what a lost or damaged file is. Left out: hostnames (every sighting of the router has
a MAC, which is what identifies it), addresses that are not IPv4, which the store skips, and a
clock that is set back.

`MCAmplifiExporter` checks it in one run with `ClientByteTotals`: the two meet in `publish()` only
and do not look at each other's state, so every behaviour is one of either. Bounds: two `Levels`, seven networks: two mesh points side by side, chained, one lost and both lost, each
with some of a HomePod that roams, is listed twice and has an Ethernet port too, an untracked client,
wired devices with a lease and with a lease that has no address, damaged leases and port maps, and a
damaged feed; `Retention` 1 and `MaxAddressesPerMac` 3, so that between the two places of the HomePod an address
is pushed out and others expire; two clients on one access point for
the totals.

Fairness, for `PollsRecover` and `GoneIsForgotten`: `WF` of the poll's steps, as every request
has a timeout and the scrape loop goes on, and of `Publish` of `ClientByteTotals`.

### NeighbourDump, GatewayPage and PlaybackRecord

`NeighbourDump` is `read_neighbours` against a kernel that fills one buffer after the other while its
table changes: in any partition into buffers, with the end of the dump in the last one or
alone, refused, or never completed (`TimesOut`). The kernel's part follows the comment at the head of
`neigh.py`: an answer confirms an entry, an announcement makes it STALE, and probing, giving up and
ageing update it without the device having said anything. `Age` is what the code makes of the two
times of an entry. `SightingHonest` is what `LanDiscovery` assumes of `NeighbourSightings`: the device was heard
at the address at most `Reachable` before the time given; here it is shown, and proved, of the dump.
`Receive` is one buffer: the error scan, the parser and the scan for the end. The bytes of
a message are not modelled.

`GatewayPage` feeds the elements of a page (a tag that opens, a text, a tag that closes) to the parser of
`gateway/parser.py` one by one. `Rendered` is the page as the firmware writes it, line by line (row
labels closed with the wrong tag, an upstream table that is empty but for its indexes, the last
channel's counts in the first column), `Fed` is the parser's state after an element, `ParsePage` what
becomes of it. `Cut` ends a page before any element or within one, also in a text. Of the five fields of
the page one stands for all, and of the rows of numbers `Power Level` for those a channel may lack.
`OwnCountsOnly` names where the parser cannot tell that the first column repeats the last: if the
counts are all zero, and if a placeholder is among them, for `_first_column_repeats_last`
asks for three numbers. The first channel is then shown with the last one's counts.

`PlaybackRecord` is one HomePod's reply to a unicast query, the TXT record in it, its fields, and the
gauges made of them. `Record` is the record for what the HomePod is doing, in the form seen or with one
field changed by an update, in one order or the other, whole or cut within any field: a number that is cut
is another number, an id that is cut another id. A reply also carries a record of another name, and
another device may answer. `NeverGuessed` relates what is exported to what the HomePod was doing when it
sent the reply.

`Readers` puts the three side by side. They belong to different processes, so a behaviour of
`MCReaders` is one of a single reader. Bounds: two addresses, of which one is on the LAN, one device and one change during a
dump; pages of one and two channels with every combination of lock status, counts, table order and
quirk, and faulty pages: a lost cell in each row, a repeated or missing index, a lock status, a power
level or a count worded in another way, a placeholder among repeated counts; a HomePod alone, leading a joined group, or following.

### OffsiteBackups

`unit` is where each of the three services is: waiting for the lock in flock, running, and for the
backup, whose script is modelled, recording its success or in its exit trap. `file` is
the metrics file with the age of the last success in place of its timestamp, `snapshot` the age of the
files in the newest snapshot. `Tick` is an hour, or whatever the unit of the configuration is; what
the script does after restic takes no time. `TimerElapses` is the backup's timer with `Persistent`
and `RandomizedDelaySec`, `TimerIsServed` an elapse that finds the service running already; the
weekly and the monthly timer are arbitrary starts. `Terminate` is SIGTERM, at the time limit or at
any time: bash leaves through the exit trap, but with the status of the last command that
ended, and until restic has ended that is `set +e`'s 0, so the trap does nothing.
`PowerOff` runs no trap at all.

`OldSnapshotsAreNoticed` and `AlertHasCause` bound the alert from both sides. The first allows
`MaxAge` and one run, since a success is dated at its end and its files at its start. The
second says how much an uneventful schedule may use up: a run that waits and works for no longer than
`MaxAge - Day - Jitter` never raises it. `alerts.yml.j2:51` has it that "36 hours tolerates one missed
or overlong run before alerting": an overlong run it tolerates up to that slack of 11.5 hours; a run
that was missed leaves 48 hours to the next success, and the alert fires.

Bounds: the deployed times in units of eight hours, rounded up (a day is 3, the lock
wait and the jitter 1, the backup's limit 5, the others' 2, the alert's threshold 5); `Horizon` 11
is past the threshold and one run. The proofs are for any times. `StaleAlert` is the condition on
the metrics; that no alert fires while the host that exports them is off is left out.

### DeviceAddresses and LanDiscovery

A file is a set of observations `[mac, host, addr, last]`. `Recorded` is
`SourceStore.record`: merge under (identity, address), drop what is past
retention, keep the `MaxAddressesPerMac` newest per device. `Owns` is the
attribution of hostnames in `AddressInventory.__init__`, `Latest` is `latest()`.
`first_seen`, names, roles and extra fields are left out, none chooses an address.

`LanDiscovery` has a clock, devices that move between addresses, and each
source's honest but late knowledge: the router lists any address a device has
had; a neighbour entry carries the last second the device answered (up to `Reachable`
seconds flattering when STALE, as `lan_discovery/neigh.py:17-18` explains); an
mDNS record carries its arrival. The poll is cut where other processes and the clock can get in
between: `StartPoll` (time taken, mdns recorded), `RecordNeighbours`, `Load`
(inventory read, snapshot published), `WritePing`, `WriteAirplay`; the failures
are `RecordOrFail`, `LoadFails` and `WriteFails`. `LoseFile` is a source file that
is missing or damaged, which `read_source` reads as empty.

Assumed of the environment: an address has one device at a time, sources never
report a time later than the truth (except `Reachable`), hostnames differ, the
wall clock does not go back. `NeighbourSightings` has one entry per address; that its times
are true up to `Reachable` is shown in `NeighbourDump`.

Bounds: the passing run has one device and two addresses with a cap of one, so
the cap bites with the second address; `Retention` 1 and `MaxAge` 0 within
`MaxTime` 2 let an observation be fresh, then stale, then expired. `Fragile`
limits which files may be lost: what another source answers then has to be true, but no property demands
that one answers.

### GatewaySession

State: `sinceLogin` is the age of `_last_login_attempt`, `failures` the
`consecutive_failures` of the scrape status as far as the backoff looks at them (it stops at
`MaxExponent`), `delay` the wait the loop is in, `conn` whether the
requests session has an open connection, `published` whether there is a
snapshot. `pc` is where the poll is: `FetchStatus` (the first look at the status page),
`Throttle`, `LoggedIn`, `Rejected`, `NoLoginAnswer` (the ways `_login` ends),
`FetchAgain`, `Parse`. Every failing way contains `Fail`: `GatewayScraper`
clears the snapshot and closes the connection and the loop chooses the next
wait (`Backoff`, `Jittered`). Time is kept as ages, cut off at `Horizon`, and passes in waits
and in requests; computing takes none.

The environment is the gateway (one session, a certificate, credentials), the
people who log in, requests that fail or go unanswered, also after the gateway acted on
them, and restarts. A person, a changed password or a changed certificate can come between any
two steps. `calm` ends all of that for good; it exists for
`RecoversWhenCalm` only. `RequestTime` bounds one request. The timeouts of
`requests` bound each read, not the whole request, so a gateway that trickles its
answer can exceed any `RequestTime`: `GapIsBounded` holds as far as requests end
within it.

Fairness: `WF(Exporter)`, waits end and requests return. Nothing is assumed of
the environment; `calm` never has to come.

Bounds: interval 3, cap 10, window 10, exponent 3, so that the backoff passes 6
before the cap, a capped wait is shorter, equal or longer than the window by its
jitter, and failures reach the exponent's bound. `Horizon` 25 is past the bound of
`GapIsBounded` (24), so an age that breaks it is still told apart.

### AirplayPoll

State: `listed` is `_Listener._seen`, `cached` the records zeroconf answers from,
`targets`, `passive`, `multicast` and `unicast` the local variables of a poll
(`addresses` with the source each is from, `passive`, `resolved`, `unicast` in `poll()`), `lastSeen` is `_last_seen`,
`snapshot` the published observations, `faulty` a query that raised. The poll is cut
where zeroconf's thread and the world can get in between: `StartPoll` (`now`
taken, inventory read), `Discover` (announcements copied, queries handed to the
workers), one `Resolve` or `ResolveUnicast` per query in any order, `Publish` or
`PollFails` when all are back. `began` is the age of `now`. `unicast` is
`"unknown"` where the code has None: no fresh address, or a query that could not be made.

The environment: the AirPlay service of a HomePod stops and starts (`alive`), its
address changes (`at`), announcements and
goodbyes come or do not come. `FreshAddresses` is what `latest()` may give a poll. An address from
the neighbour table or from mDNS was the HomePod's within `MaxAge`, which is what
`TargetsWereHeld` of `LanDiscovery` shows (`MaxAge` here is the freshness window and `Reachable`
together); another device may have the address by then. That property exempts
the router, and so does the model: the router may give any address as fresh, also one given up long ago
or one the HomePod never had. A live HomePod is then asked at a wrong address and
published as silent, and `SilentForAReason` names this as one of the reasons. Two HomePods have no address in common,
packets get lost, the wall clock does not go back. `PollTime` bounds a poll, which the
timeouts of its queries do. `sinceUp`, `gone` (when the HomePod last had each address) and `excused` are
history.

Bounds: one HomePod with its `_airplay` service and two addresses, `Ttl` 1, `MaxAge` 0,
`PollTime` 1 and `Horizon` 2: a record can be cached, just expired and long
gone, an address fresh and stale, and the HomePod can change in every state of a poll. The
`_raop` service, which can be asked for only once it has been announced
(`Resolvable`), and further HomePods are beyond a short run; the theorems hold for any
set of services and HomePods.

Fairness, for `GoneIsReported` only: `WF(Tick)`, time passes, and `WF(Poll)`, the
loop polls on and every query ends with its timeout. Polls may fail every time.

## Runs

Passing:

* `totals`: the totals never claim a byte that did not move, none is counted twice, an
  unbroken association loses none, an exported total never goes back.
* `amplifi`: what is served is what the router knew, no series is there twice, the
  inventory's metric is true, the absent are forgotten, and a router that is well
  is served again.
* `process`: the process implements `PublishedView`, cleanup waits for the
  thread, a stop ends the process, and a crash ends it with an error.
* `lan`: targets were held by their device within the window unless only
  the router says so, the newest sighting survives, the neighbour table decides,
  `lan_discovery_up` 1 means both files follow the snapshot.
* `gateway`: people are thrown out at most once in the window, the throttle and the backoff
  together put a login off by a bounded time, every poll checks the certificate, the exporter
  recovers.
* `airplay`: a last-seen time never goes back and is true up to the life of a cached
  record, a HomePod is published as silent only if it was down, has moved, missed
  the packet or was asked at a wrong address of the router's, and one that is gone is not reported as there for ever.
* `readers`: a read of the neighbour table ends with all of a dump that was ended, or
  fails, and its sightings are true; a status of the gateway is what the whole page
  says, no channel gets another's counts, and a whole page always gives a status; a
  HomePod is shown as what its own record says it does, or as unknown.
* `backups`: no old snapshot goes unnoticed, and the alert has a cause.

Violations, each a disagreement between the code and what it says of itself:

* `process_signal`: the signal handler calls `stop.set()`, which needs a lock the
  interrupted main thread may hold: the process then ignores the signal, and
  every later one, until it is killed (`common/server.py:65`). The window is a
  few instructions a second.
* `backups_killed`: a backup that is terminated while restic runs, as by its own
  time limit, leaves the metrics as they were, a success perhaps, although "any unexpected exit
  records a failure" (`src/roles/offsite_backups/templates/offsite-backups.sh.j2:45`). The mail of
  `OnFailure` goes out, and the alert notices in the end; the last-run metrics are wrong.
* `lan_frozen`: after a failing write the address is still reported fresh while
  the probes follow the frozen file, so the HomePod rules need not go quiet
  (`src/roles/monitoring/templates/alerts.yml.j2:83-86` and `208-213`).
* `gateway_gap`: "The cost is a gap after any failed login: the window plus one
  poll interval, about six minutes with the deployed settings"
  (`gateway/client.py:15-17`). With two failed polls behind it the loop
  waits up to the cap of 300 seconds and a tenth, and a wait that ends just inside the
  window is followed by another: the gap comes to ten minutes. The run has the
  deployed settings in units of six seconds and allows a tenth on both terms.

## Proofs

All proofs are for arbitrary values of the constants under the named
assumptions of the modules (`ClientByteTotalsAssumption`,
`DeviceAddressesAssumption`, `LanDiscoveryAssumption`, `NoneAssumption`, `NetworksAssumption`, `InventoryAssumption`,
`ExporterProcessAssumption`, `GatewaySessionAssumption`, `AirplayPollAssumption`,
`NeighbourDumpAssumption`, `PageAssumption`, `RecordAssumption`, `OffsiteBackupsAssumption`); no bound of a configuration enters them except as
the name of a constant.

* `ClientByteTotals_proofs`: `TypeOK`, `NeverOverCounts`, `AddsOnlyWhatMoved`,
  `AddsAllWhenUnbroken`, `TotalNeverGoesBack`. The invariant relates each last reading to the history: what was read is not more
  than what moved, a last reading is what the counter showed then, and an
  unbroken association's counter has grown by exactly what moved since. Without
  it `raw - last` says nothing about bytes. `Counted` bounds a total by the sum of what was read
  through each access point, which is what `NeverOverCounts` needs to be inductive: a poll
  adds to one addend of the sum what it adds to the total. The sum is a recursive function;
  `PartialExists` shows that its recursion has a solution, by an induction that rests on the least
  element of a set of numbers (`LeastOf`, `Induction`). `PublishedIsTotal` ties the
  exported series to the totals.
* `ExporterProcess_proofs`: `TypeOK`, `UpMatchesSnapshot`, `ResponseNeverStale`,
  `CleanupAfterLoop`. The invariant places the snapshot relative to the status
  at each point of the loop, and the status the HTTP thread has already read no
  later than the one it would read now. `KeepsPublishedView` is the refinement: from the
  invariant every step of a thread is one step of `PublishedView` or none (`StepKeepsView`).
* `LanDiscovery_proofs`: `TypeOK`, `TargetsWereHeld`, `NewestSurvives`,
  `ArpDecides`, `FilesFollowSnapshot`. `Claims` says what an observation of each source
  entails about the network and is kept by merging (`ArpClaimsKept`,
  `MdnsClaimsKept`, `RouterClaimsKept`); it is what makes a hostname lead to the
  right device (`LatestHeld`). `FilesBounded` (unique keys, nothing newer than the newest
  sighting) is what `NewestSurvives` needs to survive the cap
  (`RecordedNewest`: the newest observation with the least address is preceded by none).
  `ArpOnFile` is the same of `arp.json` by the time of the poll, which the clock leaves
  behind while the poll goes on; `LatestOfArp` is what `latest()` makes of it.
* `GatewaySession_proofs`: `TypeOK`, `PersonThrownOutRarely`, `GapIsBounded`,
  `PinCheckedEveryPoll`. `OutAfterLogin` says that the last attempt is no older than the last time
  it took a session, which turns the throttle of attempts into a bound for people; `Gap`
  bounds the age of a failed attempt at each step of the polls after it; `Pins` ties an
  open connection to a poll that began with the pinned certificate.
* `AirplayPoll_proofs`: `TypeOK`, `LastSeenHonest`, `LastSeenNeverGoesBack`,
  `SilentForAReason`. `KeyOK` says of everything that is known of a service (cached,
  listed, copied, answered, last seen) that the HomePod was up when it was
  learnt, and that no last-seen time is later than the `now` of the poll; `PodOK`
  that a target which is not the HomePod's address, and is not from the router (`Misled`), was given up within
  the freshness window before the poll, and that a silence has one of its reasons (`HasReason`). `SeenTrue` draws from them what `Publish` adds.
* `AmplifiPoll_proofs`: `TypeOK`, `ServesWhatTheRouterKnew`, `NoSeriesTwice`, `SourceOkIsTrue`. The
  invariant is small: what is published is what a feed of the network the router had then says
  (`PublishedIsServed`), and a source that is said to be written has that poll's sightings
  (`FileIsServed`) and nothing else of that age; `RecordedIsFresh` draws it from what merging and
  trimming do, with `ThreeOfEach`: a poll has at most three sightings of a device, so the cap, which
  drops the oldest first, never drops one of them. The work is in what the feed's parser returns: `MeshFound` shows level by level that the
  walk down the nested feed finds every mesh point once and under its own uplink; `KeptOnce` and `EachIsKept`
  that of a client that is listed several times one entry is kept. Nesting and walking are
  recursive functions over levels, and `NestingExists` and `WalkExists` show that they have a solution.
* `Readers_proofs`, in three parts:
  * `NeighbourDump`: `TypeOK`, `SightingHonest`, `WholeDumpOrFailure`. `EntryHonest` says what each
    state of an entry entails about when its device was heard, `NeighbourHonest` the same of
    a neighbour on its way to the poll, by ages that stay true while the clock goes on;
    `DumpOK` that what the kernel has sent is what was received and what waits in the buffer.
  * `PlaybackRecord`: `TypeOK`, `NeverGuessed`. `AnswerIsSaid` says that an answer that is
    not refused is what the HomePod's own record says, `ObservationIsShown` that this is all the
    gauges show: a field that is parsed at all is one the HomePod wrote, whole and in a known form.
  * `GatewayPage`: `TypeOK`, `WholeOrNothing`, `OwnCountsOnly`, `WholePageParses`. `At` gives what
    the parser holds before each element of each line of any page (`TablesFed`: the tables so far),
    and `FedIsAt` that feeding the element leads to what it holds before the next one. After a cut the
    parser has a part of the page's tables (`PartOf`, `CutIsPart`). `PageIsRead` is the converse of
    feeding: what gives a status has all the tables and no lost cell. `DroppedIs` and `CountsRead` say what the
    quirk costs, `WholeIsRead` and `EndParses` that a whole page is accepted. `PageInv` is the
    inductive invariant made of them.
  The three readers share no variable, so each theorem has the reader's own specification as its hypothesis,
  and `ReadersAreTyped` has all of them.
* `OffsiteBackups_proofs`: `TypeOK`, `OldSnapshotsAreNoticed`, `AlertHasCause`. `Data` bounds the age of the
  snapshot by that of the last success and one run, whoever recorded it; `Timely` bounds the age of
  the last success by where the timer is (before it, due, in the run), and `Causes` says that
  what is not excused went by the timer. `Runs` (no service without a host, no reading
  without the lock) is what they need to survive power losses and new runs.

Model-checked only: the liveness properties, `GoneIsForgotten`, `StopEndsProcess`, `CrashEndsProcess`,
`RecoversWhenCalm`, `GoneIsReported` and `PollsRecover`, which are out of the prover's reach as is
everything under fairness. Every other property of a passing run, invariants and action properties alike, is
stated by a theorem.

## Not modelled

* The rendering of the gateway's metrics, one gauge per field; the settings and JSON helpers;
  `common/problem_log.py` and when the AirPlay exporter logs an unreadable record (planned).
* The bytes of netlink messages; TLS and HTTP below a request.
* The pending and firing states of the alert rules, except `OffsiteBackupStale`.
* The Ansible roles: they are declarative and have no states to explore. The scripts of
  `src/roles/monitoring/scripts`: run by hand, once, from beginning to end.

Known of the code and not expressed by a property:

* Two devices with the same fresh address: the one with the lower MAC is probed, both are
  exported as fresh (`lan_discovery/targets.py:94`).
* A stop that comes between the timeout of the wait and `is_alive()` makes the main thread raise
  "scrape thread exited unexpectedly" on an orderly stop (`common/server.py:76-78`): only the exit code is wrong.
* An association is known by its access point only: the first reading of a new one on the same access
  point may lose bytes (`common/counters.py:19-21`), never gain any.
* A crash between `mkstemp` and `replace` leaves a temporary file behind (`common/files.py:25`).
* A restart forgets the last login attempt, so an exporter that restarts in a loop is not throttled
  (`gateway/client.py:63`).
* `lan_discovery_target_files_ok` stays 1 when a later poll fails before the files
  (`lan_discovery/main.py:222`); `lan_discovery_up` is 0 then.
* A mesh point the router lists twice would give a series twice: `amplifi/parser.py:96` has no
  guard of the kind `gateway/parser.py:246` has for channels. The model's router lists each once.
* Counts the firmware repeats in the first column are shown as the first channel's when a placeholder is
  among them, or when they are zero (`gateway/parser.py:233`).
* The wall clock set back, and a hostname that two devices share: the model has neither.

## Plan

1. `common/problem_log.py` and the exporters that log through it; service records and static targets in `LanDiscovery`.
2. The alert rules as a monitor over `LanDiscovery` and `ExporterProcess`.
3. An abstract inventory that promises "an answer was true within the
   window or comes from the router", implemented by `LanDiscovery` and then used by
   `AirplayPoll` in place of its assumption.
4. A clock that steps back and shared hostnames in `LanDiscovery`, and that another
   source answers when a file is lost.
5. `AtomicFile`: `write_if_changed` step by step with crashes and two writers.
