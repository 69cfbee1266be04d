-------------------------- MODULE AirplayPoll_proofs --------------------------
(***************************************************************************)
(* Proofs about AirplayPoll, for any HomePods, services, addresses, times  *)
(* to live, freshness windows and lengths of a poll.                       *)
(***************************************************************************)
EXTENDS AirplayPoll, TLAPS

USE AirplayPollAssumption

\* Ages grow by one, up to the horizon, and keep their order.
LEMMA OlderAge ==
    ASSUME NEW age \in Ages
    PROVE  /\ Older(age) \in Ages /\ Older(age) # None
           /\ Older(age) = IF age < Horizon THEN age + 1 ELSE Horizon
BY DEF Older, Ages

LEMMA OlderNone == Older(None) = None
BY DEF Older

LEMMA OlderType ==
    ASSUME NEW age \in Ages \cup {None}
    PROVE  /\ Older(age) \in Ages \cup {None}
           /\ Older(age) = None <=> age = None
BY OlderAge, OlderNone DEF Ages

-----------------------------------------------------------------------------
\* Between polls nothing is asked, and a poll has its timeouts.
IdleOK ==
    /\ pc # "asking" => /\ unicast = NotAsked /\ multicast = NotResolved
                        /\ passive = NothingSeen
    /\ pc = "idle" => began = 0
    /\ began <= PollTime

\* Another source than the router gave an address of h that is not its own.
Misled(h) == targets[h] # None /\ targets[h].source = "seen" /\ targets[h].addr # at[h]

\* Why h may be silent.
HasReason(h) ==
    \/ excused[h]
    \/ Moved(h, MaxAge + began)
    \/ targets[h].source = "router" /\ targets[h].addr # at[h]

\* What is known of a HomePod: when it was up, where it is, and why it was silent.
PodOK(h) ==
    /\ alive[h] => sinceUp[h] = 0
    /\ gone[h][at[h]] = 0
    /\ pc # "idle" =>
          /\ ~alive[h] => excused[h]
          /\ Misled(h) => Moved(h, MaxAge + began)
    /\ unicast[h] = "pending" => targets[h] # None
    /\ unicast[h] = "answered" => sinceUp[h] <= began
    /\ unicast[h] = "silent" => HasReason(h)

\* What is known of a service was true when it was learnt.
KeyOK(k) ==
    /\ cached[k] # None => cached[k] < Ttl /\ sinceUp[k[1]] <= cached[k]
    /\ listed[k] # None => sinceUp[k[1]] <= listed[k]
    /\ passive[k] # None => sinceUp[k[1]] <= passive[k]
    /\ multicast[k] = "yes" => sinceUp[k[1]] <= began + Ttl
    /\ (lastSeen[k] # None /\ lastSeen[k] + Ttl < Horizon) =>
          sinceUp[k[1]] <= lastSeen[k] + Ttl
    /\ (pc # "idle" /\ lastSeen[k] # None) => began <= lastSeen[k]

IInv ==
    /\ TypeOK
    /\ IdleOK
    /\ \A h \in HomePods : PodOK(h)
    /\ \A k \in Keys : KeyOK(k)

LEMMA InitIInv == ASSUME Init PROVE IInv
<1>1. TypeOK
  <2>1. 0 \in Ages /\ Horizon \in Ages
    BY DEF Ages
  <2>2. QED
    BY <2>1 DEF Init, TypeOK, NothingSeen, NoTargets, NotAsked, NotResolved, Never,
                Heard, Observation
<1>2. IdleOK
  BY DEF Init, IdleOK
<1>3. ASSUME NEW h \in HomePods PROVE PodOK(h)
  <2>1. at[h] \in Addresses
    BY DEF Init
  <2>2. gone[h][at[h]] = 0
    BY <2>1 DEF Init
  <2>3. alive[h] => sinceUp[h] = 0
    BY DEF Init
  <2>4. QED
    BY <2>2, <2>3 DEF Init, PodOK, NotAsked
<1>4. ASSUME NEW k \in Keys PROVE KeyOK(k)
  BY DEF Init, KeyOK, NothingSeen, NotResolved
<1>5. QED
  BY <1>1, <1>2, <1>3, <1>4 DEF IInv

\* Ages of what was left grow by at most one; a HomePod has its address now.
LEMMA GoneTick ==
    ASSUME TypeOK, Tick
    PROVE  /\ gone' \in [HomePods -> [Addresses -> Ages]]
           /\ \A h \in HomePods :
                 /\ gone'[h][at'[h]] = 0
                 /\ \A age \in Int :
                       Moved(h, age) => \E a \in Addresses \ {at'[h]} : gone'[h][a] <= age + 1
<1>1. /\ gone \in [HomePods -> [Addresses -> Ages]] /\ at \in [HomePods -> Addresses]
      /\ 0 \in Ages
  BY DEF TypeOK, Ages
<1>2. /\ at' = at
      /\ gone' = [h \in HomePods |->
                    [a \in Addresses |-> IF a = at[h] THEN 0 ELSE Older(gone[h][a])]]
  BY DEF Tick, homepods
<1>3. gone' \in [HomePods -> [Addresses -> Ages]]
  BY <1>1, <1>2, OlderAge
<1>4. ASSUME NEW h \in HomePods PROVE gone'[h][at'[h]] = 0
  BY <1>1, <1>2
<1>5. ASSUME NEW h \in HomePods, NEW age \in Int, Moved(h, age)
      PROVE  \E a \in Addresses \ {at'[h]} : gone'[h][a] <= age + 1
  <2>1. PICK a \in Addresses \ {at[h]} : gone[h][a] <= age
    BY <1>5 DEF Moved
  <2>2. gone[h][a] \in Ages /\ gone'[h][a] = Older(gone[h][a])
    BY <1>1, <1>2, <2>1
  <2>3. gone'[h][a] <= age + 1
    BY <2>1, <2>2, OlderAge DEF Ages
  <2>4. QED
    BY <1>2, <2>1, <2>3
<1>6. QED
  BY <1>3, <1>4, <1>5

LEMMA TickStep == ASSUME IInv, Tick PROVE IInv'
<1>1. TypeOK /\ IdleOK
  BY DEF IInv
<1>2. /\ began' \in Ages /\ began' <= PollTime /\ began <= began'
      /\ pc # "idle" => began' = began + 1
  <2>1. CASE pc = "idle"
    <3>1. began = 0 /\ began' = 0
      BY <1>1, <2>1 DEF Tick, IdleOK
    <3>2. QED
      BY <2>1, <3>1 DEF Ages
  <2>2. CASE pc # "idle"
    <3>1. began \in Ages /\ began < PollTime /\ began' = Older(began)
      BY <1>1, <2>2 DEF Tick, TypeOK
    <3>2. began \in Nat /\ began < Horizon /\ began # None
      BY <3>1 DEF Ages
    <3>3. began' = began + 1
      BY <3>1, <3>2, OlderAge
    <3>4. QED
      BY <2>2, <3>1, <3>2, <3>3 DEF Ages
  <2>3. QED
    BY <2>1, <2>2
<1>3. TypeOK'
  <2>1. gone' \in [HomePods -> [Addresses -> Ages]]
    BY <1>1, GoneTick DEF Tick
  <2>2. cached' \in [Keys -> Ages \cup {None}]
    BY <1>1, OlderType DEF Tick, TypeOK
  <2>3. /\ listed' \in [Keys -> Ages \cup {None}]
        /\ passive' \in [Keys -> Ages \cup {None}]
        /\ lastSeen' \in [Keys -> Ages \cup {None}]
    BY <1>1, OlderType DEF Tick, TypeOK, AllOlder
  <2>4. sinceUp' \in [HomePods -> Ages]
    <3>1. 0 \in Ages
      BY DEF Ages
    <3>2. QED
      BY <1>1, <3>1, OlderAge DEF Tick, TypeOK
  <2>5. QED
    BY <1>1, <1>2, <2>1, <2>2, <2>3, <2>4 DEF Tick, TypeOK, homepods
<1>4. IdleOK'
  <2>1. ASSUME pc # "asking" PROVE passive' = NothingSeen
    <3>1. passive = NothingSeen
      BY <1>1, <2>1 DEF IdleOK
    <3>2. QED
      BY <3>1, OlderNone DEF Tick, AllOlder, NothingSeen
  <2>2. QED
    BY <1>1, <1>2, <2>1 DEF IdleOK, Tick
<1>5. ASSUME NEW h \in HomePods PROVE PodOK(h)'
  <2>1. PodOK(h)
    BY DEF IInv
  <2>2. sinceUp[h] \in Ages /\ began \in Ages /\ sinceUp'[h] \in Nat
    BY <1>1, <1>3 DEF TypeOK, Ages
  <2>3. /\ sinceUp'[h] = IF alive[h] THEN 0 ELSE Older(sinceUp[h])
        /\ UNCHANGED <<alive, at, pc, targets, unicast, excused>>
    BY <1>1 DEF Tick, homepods
  <2>4. sinceUp'[h] <= sinceUp[h] + 1
    BY <2>2, <2>3, OlderAge DEF Ages
  <2>5. /\ gone'[h][at'[h]] = 0
        /\ Moved(h, MaxAge + began) =>
              \E a \in Addresses \ {at'[h]} : gone'[h][a] <= MaxAge + began + 1
    <3>1. MaxAge + began \in Int
      BY <2>2 DEF Ages
    <3>2. QED
      BY <1>1, <3>1, GoneTick
  <2>6. unicast[h] # "unknown" => pc = "asking"
    BY <1>1 DEF IdleOK, NotAsked
  <2>7. pc # "idle" => began' = began + 1 /\ MaxAge + began' = MaxAge + began + 1
    BY <1>2, <2>2 DEF Ages
  <2>8. pc # "idle" => (Moved(h, MaxAge + began) => Moved(h, MaxAge + began)')
    BY <2>5, <2>7 DEF Moved
  <2>9. alive'[h] => sinceUp'[h] = 0
    BY <2>3
  <2>10. pc' # "idle" => (~alive'[h] => excused'[h]) /\ (Misled(h)' => Moved(h, MaxAge + began)')
    BY <2>1, <2>3, <2>8 DEF PodOK, Misled
  <2>11. unicast'[h] = "pending" => targets'[h] # None
    BY <2>1, <2>3 DEF PodOK
  <2>12. unicast'[h] = "answered" => sinceUp'[h] <= began'
    BY <2>1, <2>2, <2>3, <2>4, <2>6, <2>7 DEF PodOK, Ages
  <2>13. unicast'[h] = "silent" => HasReason(h)'
    BY <2>1, <2>3, <2>6, <2>8 DEF PodOK, HasReason
  <2>14. QED
    BY <2>5, <2>9, <2>10, <2>11, <2>12, <2>13 DEF PodOK
<1>6. ASSUME NEW k \in Keys PROVE KeyOK(k)'
  <2>1. KeyOK(k) /\ k[1] \in HomePods
    BY DEF IInv, Keys
  <2>2. /\ sinceUp[k[1]] \in Ages /\ began \in Ages /\ sinceUp'[k[1]] \in Ages
        /\ cached[k] \in Ages \cup {None} /\ listed[k] \in Ages \cup {None}
        /\ passive[k] \in Ages \cup {None} /\ lastSeen[k] \in Ages \cup {None}
    BY <1>1, <1>3, <2>1 DEF TypeOK
  <2>3. /\ listed'[k] = Older(listed[k]) /\ passive'[k] = Older(passive[k])
        /\ lastSeen'[k] = Older(lastSeen[k])
        /\ cached'[k] = IF Older(cached[k]) \in 0 .. Ttl - 1 THEN Older(cached[k]) ELSE None
        /\ multicast' = multicast /\ pc' = pc
        /\ sinceUp'[k[1]] \in {0, Older(sinceUp[k[1]])}
    BY <1>1, <2>1 DEF Tick, TypeOK, AllOlder
  <2>4. sinceUp'[k[1]] <= IF sinceUp[k[1]] < Horizon THEN sinceUp[k[1]] + 1 ELSE Horizon
    BY <2>2, <2>3, OlderAge DEF Ages
  <2>5. cached'[k] # None => cached'[k] < Ttl /\ sinceUp'[k[1]] <= cached'[k]
    BY <2>1, <2>2, <2>3, <2>4, OlderAge, OlderNone DEF KeyOK, Ages
  <2>6. listed'[k] # None => sinceUp'[k[1]] <= listed'[k]
    BY <2>1, <2>2, <2>3, <2>4, OlderAge, OlderNone DEF KeyOK, Ages
  <2>7. passive'[k] # None => sinceUp'[k[1]] <= passive'[k]
    BY <2>1, <2>2, <2>3, <2>4, OlderAge, OlderNone DEF KeyOK, Ages
  <2>8. multicast'[k] = "yes" => sinceUp'[k[1]] <= began' + Ttl
    <3>1. multicast[k] = "yes" => began' = began + 1
      BY <1>1, <1>2 DEF IdleOK, NotResolved
    <3>2. QED
      BY <2>1, <2>2, <2>3, <2>4, <3>1 DEF KeyOK, Ages
  <2>9. (lastSeen'[k] # None /\ lastSeen'[k] + Ttl < Horizon) =>
           sinceUp'[k[1]] <= lastSeen'[k] + Ttl
    BY <2>1, <2>2, <2>3, <2>4, OlderAge, OlderNone DEF KeyOK, Ages
  <2>10. (pc' # "idle" /\ lastSeen'[k] # None) => began' <= lastSeen'[k]
    <3>1. began' \in Ages /\ (pc # "idle" => began' = began + 1)
      BY <1>2
    <3>2. QED
      BY <2>1, <2>2, <2>3, <3>1, OlderAge, OlderNone DEF KeyOK, Ages
  <2>11. QED
    BY <2>5, <2>6, <2>7, <2>8, <2>9, <2>10 DEF KeyOK
<1>7. QED
  BY <1>3, <1>4, <1>5, <1>6 DEF IInv

\* What leaves a HomePod, the poll's queries about it and its histories alone
\* keeps PodOK; likewise for a service.
PodVars == <<alive, at, pc, began, targets, unicast, sinceUp, gone, excused>>
KeyVars == <<cached, listed, passive, multicast, lastSeen, pc, began, sinceUp>>

LEMMA PodsUnchanged ==
    ASSUME IInv, UNCHANGED PodVars
    PROVE  \A h \in HomePods : PodOK(h)'
BY DEF IInv, PodOK, PodVars, Misled, HasReason, Moved

LEMMA KeysUnchanged ==
    ASSUME IInv, UNCHANGED KeyVars
    PROVE  \A k \in Keys : KeyOK(k)'
BY DEF IInv, KeyOK, KeyVars

LEMMA KeyPod == ASSUME NEW k \in Keys PROVE k[1] \in HomePods
BY DEF Keys

\* A HomePod that was alive just now was up just now.
LEMMA UpNow == ASSUME IInv, NEW h \in HomePods, alive[h] PROVE sinceUp[h] = 0
BY DEF IInv, PodOK

LEMMA StopStep == ASSUME IInv, NEW g \in HomePods, Stop(g) PROVE IInv'
<1>1. TypeOK /\ 0 \in Ages
  BY DEF IInv, Ages
<1>2. /\ alive' = [alive EXCEPT ![g] = FALSE]
      /\ sinceUp' = [sinceUp EXCEPT ![g] = 0]
      /\ excused' = [excused EXCEPT ![g] = pc # "idle"]
      /\ UNCHANGED <<at, zeroconf, pc, began, queries, lastSeen, snapshot, gone>>
  BY DEF Stop
<1>3. TypeOK'
  BY <1>1, <1>2 DEF TypeOK, zeroconf, queries
<1>4. IdleOK'
  BY <1>2 DEF IInv, IdleOK, queries
<1>5. ASSUME NEW h \in HomePods PROVE PodOK(h)'
  <2>1. PodOK(h)
    BY DEF IInv
  <2>2. CASE h = g
    <3>1. sinceUp'[h] = 0 /\ ~alive'[h] /\ excused'[h] = (pc # "idle")
      BY <1>1, <1>2, <2>2 DEF TypeOK
    <3>2. began \in Nat
      BY <1>1 DEF TypeOK, Ages
    <3>3. unicast[h] # "unknown" => pc = "asking"
      BY DEF IInv, IdleOK, NotAsked
    <3>4. pc # "idle" => excused'[h]
      BY <3>1
    <3>5. unicast'[h] = unicast[h] /\ pc' = pc /\ began' = began
      BY <1>2 DEF queries
    <3>6. unicast'[h] = "silent" => excused'[h]
      BY <3>3, <3>4, <3>5
    <3>7. 0 <= began'
      BY <3>2, <3>5
    <3>8. alive'[h] => sinceUp'[h] = 0
      BY <3>1
    <3>9. gone'[h][at'[h]] = 0
      BY <1>2, <2>1 DEF PodOK
    <3>10. pc' # "idle" =>
              /\ ~alive'[h] => excused'[h]
              /\ Misled(h)' => Moved(h, MaxAge + began)'
      BY <1>2, <2>1, <3>4 DEF PodOK, Misled, Moved, queries
    <3>11. unicast'[h] = "pending" => targets'[h] # None
      BY <1>2, <2>1 DEF PodOK, queries
    <3>12. unicast'[h] = "answered" => sinceUp'[h] <= began'
      BY <3>1, <3>7
    <3>13. QED
      BY <3>6, <3>8, <3>9, <3>10, <3>11, <3>12 DEF PodOK, HasReason
  <2>3. CASE h # g
    <3>1. UNCHANGED <<alive[h], sinceUp[h], excused[h]>>
      BY <1>1, <1>2, <2>3 DEF TypeOK
    <3>2. QED
      BY <1>2, <2>1, <3>1 DEF PodOK, Misled, HasReason, Moved, queries
  <2>4. QED
    BY <2>2, <2>3
<1>6. ASSUME NEW k \in Keys PROVE KeyOK(k)'
  <2>1. KeyOK(k) /\ k[1] \in HomePods
    BY KeyPod DEF IInv
  <2>2. sinceUp'[k[1]] = sinceUp[k[1]]
    BY <1>1, <1>2, <2>1, UpNow DEF TypeOK, Stop
  <2>3. QED
    BY <1>2, <2>1, <2>2 DEF KeyOK, zeroconf, queries
<1>7. QED
  BY <1>3, <1>4, <1>5, <1>6 DEF IInv

LEMMA StartStep == ASSUME IInv, NEW g \in HomePods, Start(g) PROVE IInv'
<1>1. TypeOK /\ 0 \in Ages
  BY DEF IInv, Ages
<1>2. /\ alive' = [alive EXCEPT ![g] = TRUE]
      /\ sinceUp' = [sinceUp EXCEPT ![g] = 0]
      /\ UNCHANGED <<at, zeroconf, pc, began, queries, lastSeen, snapshot,
                     gone, excused>>
  BY DEF Start
<1>3. TypeOK'
  BY <1>1, <1>2 DEF TypeOK, zeroconf, queries
<1>4. IdleOK'
  BY <1>2 DEF IInv, IdleOK, queries
<1>5. \A h \in HomePods : sinceUp'[h] \in {0, sinceUp[h]} /\ sinceUp[h] \in Nat
  BY <1>1, <1>2 DEF TypeOK, Ages
<1>6. ASSUME NEW h \in HomePods PROVE PodOK(h)'
  <2>1. PodOK(h)
    BY DEF IInv
  <2>2. began \in Nat
    BY <1>1 DEF TypeOK, Ages
  <2>3. alive'[h] => sinceUp'[h] = 0
    BY <1>1, <1>2, <2>1 DEF TypeOK, PodOK
  <2>4. ~alive'[h] => ~alive[h]
    BY <1>1, <1>2 DEF TypeOK
  <2>5. QED
    BY <1>2, <1>5, <2>1, <2>2, <2>3, <2>4 DEF PodOK, Misled, HasReason, Moved, queries
<1>7. ASSUME NEW k \in Keys PROVE KeyOK(k)'
  <2>1. KeyOK(k) /\ k[1] \in HomePods
    BY KeyPod DEF IInv
  <2>2. /\ cached[k] \in Ages \cup {None} /\ listed[k] \in Ages \cup {None}
        /\ passive[k] \in Ages \cup {None} /\ lastSeen[k] \in Ages \cup {None}
        /\ began \in Ages
    BY <1>1 DEF TypeOK
  <2>3. sinceUp'[k[1]] \in {0, sinceUp[k[1]]}
    BY <1>5, <2>1
  <2>4. QED
    BY <1>2, <2>1, <2>2, <2>3 DEF KeyOK, zeroconf, queries, Ages
<1>8. QED
  BY <1>3, <1>4, <1>6, <1>7 DEF IInv

LEMMA MoveStep == ASSUME IInv, NEW g \in HomePods, Move(g) PROVE IInv'
<1>1. TypeOK /\ 0 \in Ages
  BY DEF IInv, Ages
<1>2. PICK a \in Addresses \ {at[g]} :
         at' = [at EXCEPT ![g] = a] /\ gone' = [gone EXCEPT ![g][a] = 0]
  BY DEF Move
<1>3. UNCHANGED <<alive, zeroconf, pc, began, queries, lastSeen, snapshot, sinceUp, excused>>
  BY DEF Move
<1>4. TypeOK'
  <2>1. gone' \in [HomePods -> [Addresses -> Ages]]
    BY <1>1, <1>2 DEF TypeOK
  <2>2. at' \in [HomePods -> Addresses]
    BY <1>1, <1>2 DEF TypeOK
  <2>3. QED
    BY <1>1, <1>3, <2>1, <2>2 DEF TypeOK, zeroconf, queries
<1>5. IdleOK'
  BY <1>3 DEF IInv, IdleOK, queries
<1>6. ASSUME NEW h \in HomePods PROVE PodOK(h)'
  <2>1. PodOK(h)
    BY DEF IInv
  <2>2. CASE h = g
    <3>1. at'[h] = a /\ gone'[h] = [gone[h] EXCEPT ![a] = 0] /\ at[h] \in Addresses \ {a}
      BY <1>1, <1>2, <2>2 DEF TypeOK
    <3>2. gone'[h][a] = 0 /\ gone'[h][at[h]] = gone[h][at[h]]
      BY <1>1, <2>2, <3>1 DEF TypeOK
    <3>3. 0 <= MaxAge + began
      BY <1>1 DEF TypeOK, Ages
    <3>4. Moved(h, MaxAge + began)'
      BY <1>3, <2>1, <3>1, <3>2, <3>3 DEF Moved, PodOK
    <3>5. QED
      BY <1>3, <2>1, <3>1, <3>2, <3>4 DEF PodOK, HasReason, queries
  <2>3. CASE h # g
    <3>1. at'[h] = at[h] /\ gone'[h] = gone[h]
      BY <1>1, <1>2, <2>3 DEF TypeOK
    <3>2. QED
      BY <1>3, <2>1, <3>1 DEF PodOK, Misled, HasReason, Moved, queries
  <2>4. QED
    BY <2>2, <2>3
<1>7. \A k \in Keys : KeyOK(k)'
  BY <1>3, KeysUnchanged DEF KeyVars, zeroconf, queries
<1>8. QED
  BY <1>4, <1>5, <1>6, <1>7 DEF IInv

LEMMA AnnounceStep == ASSUME IInv, NEW j \in Keys, Announce(j) PROVE IInv'
<1>1. TypeOK /\ 0 \in Ages /\ j[1] \in HomePods
  BY KeyPod DEF IInv, Ages
<1>2. /\ listed' = [listed EXCEPT ![j] = 0]
      /\ cached' = [cached EXCEPT ![j] = 0]
      /\ UNCHANGED <<homepods, pc, began, queries, lastSeen, snapshot, history>>
  BY DEF Announce
<1>3. TypeOK'
  BY <1>1, <1>2 DEF TypeOK, homepods, queries, history
<1>4. IdleOK'
  BY <1>2 DEF IInv, IdleOK, queries
<1>5. \A h \in HomePods : PodOK(h)'
  BY <1>2, PodsUnchanged DEF PodVars, homepods, queries, history
<1>6. ASSUME NEW k \in Keys PROVE KeyOK(k)'
  <2>1. KeyOK(k)
    BY DEF IInv
  <2>2. CASE k = j
    <3>1. listed'[k] = 0 /\ cached'[k] = 0
      BY <1>1, <1>2, <2>2 DEF TypeOK
    <3>2. sinceUp[k[1]] = 0
      BY <1>1, <2>2, UpNow DEF Announce
    <3>3. 0 < Ttl
      OBVIOUS
    <3>4. QED
      BY <1>2, <2>1, <3>1, <3>2, <3>3 DEF KeyOK, queries, history
  <2>3. CASE k # j
    <3>1. listed'[k] = listed[k] /\ cached'[k] = cached[k]
      BY <1>1, <1>2, <2>3 DEF TypeOK
    <3>2. QED
      BY <1>2, <2>1, <3>1 DEF KeyOK, queries, history
  <2>4. QED
    BY <2>2, <2>3
<1>7. QED
  BY <1>3, <1>4, <1>5, <1>6 DEF IInv

LEMMA UnlistStep == ASSUME IInv, NEW j \in Keys, Unlist(j) PROVE IInv'
<1>1. TypeOK
  BY DEF IInv
<1>2. /\ listed' = [listed EXCEPT ![j] = None]
      /\ UNCHANGED <<homepods, cached, pc, began, queries, lastSeen, snapshot,
                     history>>
  BY DEF Unlist
<1>3. TypeOK'
  BY <1>1, <1>2 DEF TypeOK, homepods, queries, history
<1>4. IdleOK'
  BY <1>2 DEF IInv, IdleOK, queries
<1>5. \A h \in HomePods : PodOK(h)'
  BY <1>2, PodsUnchanged DEF PodVars, homepods, queries, history
<1>6. ASSUME NEW k \in Keys PROVE KeyOK(k)'
  <2>1. KeyOK(k) /\ listed'[k] \in {listed[k], None}
    BY <1>1, <1>2 DEF IInv, TypeOK
  <2>2. QED
    BY <1>2, <2>1 DEF KeyOK, queries, history
<1>7. QED
  BY <1>3, <1>4, <1>5, <1>6 DEF IInv

LEMMA StartPollStep == ASSUME IInv, StartPoll PROVE IInv'
<1>1. TypeOK /\ 0 \in Ages
  BY DEF IInv, Ages
<1>2. /\ pc = "idle" /\ pc' = "loaded" /\ began' = 0
      /\ targets' \in [HomePods -> Sighting \cup {None}]
      /\ \A h \in HomePods : targets'[h] \in FreshAddresses(h)
      /\ excused' = [h \in HomePods |-> ~alive[h]]
      /\ UNCHANGED <<homepods, zeroconf, passive, multicast, unicast, faulty,
                     lastSeen, snapshot, sinceUp, gone>>
  BY DEF StartPoll
<1>3. TypeOK'
  BY <1>1, <1>2 DEF TypeOK, homepods, zeroconf
<1>4. IdleOK'
  BY <1>2 DEF IInv, IdleOK
<1>5. began = 0
  BY <1>2 DEF IInv, IdleOK
<1>6. ASSUME NEW h \in HomePods PROVE PodOK(h)'
  <2>1. PodOK(h)
    BY DEF IInv
  <2>2. unicast'[h] = "unknown"
    BY <1>2 DEF IInv, IdleOK, NotAsked
  <2>3. ~alive'[h] => excused'[h]
    BY <1>2 DEF homepods
  <2>4. UNCHANGED <<alive, at, sinceUp, gone>>
    BY <1>2 DEF homepods
  <2>5. ASSUME Misled(h)' PROVE Moved(h, MaxAge + began)'
    <3>1. targets'[h].addr \in Addresses /\ gone[h][targets'[h].addr] <= MaxAge
      BY <1>2, <2>5 DEF FreshAddresses, Misled
    <3>2. targets'[h].addr # at'[h]
      BY <2>5 DEF Misled
    <3>3. MaxAge + began' = MaxAge
      BY <1>2
    <3>4. QED
      BY <2>4, <3>1, <3>2, <3>3 DEF Moved
  <2>6. QED
    BY <2>1, <2>2, <2>3, <2>4, <2>5 DEF PodOK
<1>7. ASSUME NEW k \in Keys PROVE KeyOK(k)'
  <2>1. KeyOK(k)
    BY DEF IInv
  <2>2. lastSeen[k] # None => 0 <= lastSeen[k]
    BY <1>1 DEF TypeOK, Ages
  <2>3. QED
    BY <1>2, <1>5, <2>1, <2>2 DEF KeyOK, zeroconf
<1>8. QED
  BY <1>3, <1>4, <1>6, <1>7 DEF IInv

LEMMA LoadFailsStep == ASSUME IInv, LoadFails PROVE IInv'
<1>1. TypeOK'
  BY DEF IInv, LoadFails, TypeOK, homepods, zeroconf, queries, history
<1>2. IdleOK'
  BY DEF IInv, LoadFails, IdleOK, queries
<1>3. \A h \in HomePods : PodOK(h)'
  BY PodsUnchanged DEF LoadFails, PodVars, homepods, queries, history
<1>4. \A k \in Keys : KeyOK(k)'
  BY KeysUnchanged DEF LoadFails, KeyVars, zeroconf, queries, history
<1>5. QED
  BY <1>1, <1>2, <1>3, <1>4 DEF IInv

LEMMA DiscoverStep == ASSUME IInv, Discover PROVE IInv'
<1>1. TypeOK
  BY DEF IInv
<1>2. /\ pc = "loaded" /\ pc' = "asking" /\ passive' = listed
      /\ multicast' = [k \in Keys |-> IF Resolvable(k) THEN "pending" ELSE "no"]
      /\ unicast' = [h \in HomePods |-> IF targets[h] # None THEN "pending" ELSE "unknown"]
      /\ UNCHANGED <<homepods, zeroconf, began, targets, faulty, lastSeen,
                     snapshot, history>>
  BY DEF Discover
<1>3. TypeOK'
  <2>1. multicast' \in [Keys -> {"pending", "yes", "no"}]
    BY <1>2
  <2>2. unicast' \in [HomePods -> Heard \cup {"pending"}]
    BY <1>2 DEF Heard
  <2>3. QED
    BY <1>1, <1>2, <2>1, <2>2 DEF TypeOK, homepods, zeroconf, history
<1>4. IdleOK'
  BY <1>2 DEF IInv, IdleOK
<1>5. ASSUME NEW h \in HomePods PROVE PodOK(h)'
  <2>1. PodOK(h)
    BY DEF IInv
  <2>2. unicast'[h] = IF targets[h] # None THEN "pending" ELSE "unknown"
    BY <1>2
  <2>3. QED
    BY <1>2, <2>1, <2>2 DEF PodOK, Misled, Moved, homepods, history
<1>6. ASSUME NEW k \in Keys PROVE KeyOK(k)'
  <2>1. KeyOK(k)
    BY DEF IInv
  <2>2. multicast'[k] # "yes"
    BY <1>2
  <2>3. QED
    BY <1>2, <2>1, <2>2 DEF KeyOK, zeroconf, history
<1>7. QED
  BY <1>3, <1>4, <1>5, <1>6 DEF IInv

LEMMA ResolveStep == ASSUME IInv, NEW j \in Keys, Resolve(j) PROVE IInv'
<1>1. TypeOK /\ 0 \in Ages /\ j[1] \in HomePods
  BY KeyPod DEF IInv, Ages
<1>2. /\ multicast[j] = "pending"
      /\ UNCHANGED <<homepods, listed, pc, began, targets, passive, unicast,
                     lastSeen, snapshot, history>>
  BY DEF Resolve
<1>3. /\ cached' \in {cached, [cached EXCEPT ![j] = 0]}
      /\ \/ multicast' = [multicast EXCEPT ![j] = "yes"]
         \/ multicast' = [multicast EXCEPT ![j] = "no"]
      /\ faulty' \in {faulty, TRUE}
  BY DEF Resolve
<1>4. TypeOK'
  <2>1. cached' \in [Keys -> Ages \cup {None}]
    BY <1>1, <1>3 DEF TypeOK
  <2>2. multicast' \in [Keys -> {"pending", "yes", "no"}]
    BY <1>1, <1>3 DEF TypeOK
  <2>3. faulty' \in BOOLEAN
    BY <1>1, <1>3 DEF TypeOK
  <2>4. QED
    BY <1>1, <1>2, <2>1, <2>2, <2>3 DEF TypeOK, homepods, history
<1>5. pc = "asking"
  BY <1>2 DEF IInv, IdleOK, NotResolved
<1>6. IdleOK'
  BY <1>2, <1>5 DEF IInv, IdleOK
<1>7. \A h \in HomePods : PodOK(h)'
  BY <1>2, PodsUnchanged DEF PodVars, homepods, history
<1>8. ASSUME NEW k \in Keys PROVE KeyOK(k)'
  <2>1. KeyOK(k)
    BY DEF IInv
  <2>2. CASE k # j
    <3>1. cached'[k] = cached[k] /\ multicast'[k] = multicast[k]
      BY <1>1, <1>3, <2>2 DEF TypeOK
    <3>2. QED
      BY <1>2, <2>1, <3>1 DEF KeyOK, history
  <2>3. CASE k = j
    <3>1. \/ multicast'[k] = "no" /\ cached'[k] = cached[k]
          \/ multicast'[k] = "yes" /\ cached'[k] = cached[k] /\ cached[k] # None
          \/ multicast'[k] = "yes" /\ cached'[k] = 0 /\ alive[j[1]]
      BY <1>1, <2>3 DEF TypeOK, Resolve
    <3>2. sinceUp[k[1]] \in Nat /\ began \in Nat /\ (cached[k] # None => cached[k] \in Nat)
      BY <1>1, <2>3 DEF TypeOK, Ages
    <3>3. cached[k] # None => sinceUp[k[1]] <= began + Ttl
      BY <2>1, <3>2 DEF KeyOK
    <3>4. alive[j[1]] => sinceUp[k[1]] = 0
      BY <1>1, <2>3, UpNow
    <3>5. multicast'[k] = "yes" => sinceUp'[k[1]] <= began' + Ttl
      BY <1>2, <3>1, <3>2, <3>3, <3>4 DEF history
    <3>6. cached'[k] # None => cached'[k] < Ttl /\ sinceUp'[k[1]] <= cached'[k]
      BY <1>2, <2>1, <3>1, <3>4 DEF KeyOK, history
    <3>7. QED
      BY <1>2, <2>1, <3>5, <3>6 DEF KeyOK, history
  <2>4. QED
    BY <2>2, <2>3
<1>9. QED
  BY <1>4, <1>6, <1>7, <1>8 DEF IInv

LEMMA ResolveUnicastStep == ASSUME IInv, NEW g \in HomePods, ResolveUnicast(g) PROVE IInv'
<1>1. TypeOK
  BY DEF IInv
<1>2. /\ unicast[g] = "pending"
      /\ UNCHANGED <<homepods, zeroconf, pc, began, targets, passive, multicast,
                     lastSeen, snapshot, sinceUp, gone>>
  BY DEF ResolveUnicast
<1>3. /\ excused' \in [HomePods -> BOOLEAN]
      /\ \A h \in HomePods : (excused[h] \/ h # g) => (excused'[h] <=> excused[h])
      /\ faulty' \in BOOLEAN
  <2>1. CASE excused' = excused
    BY <1>1, <2>1 DEF TypeOK, ResolveUnicast
  <2>2. CASE excused' = [excused EXCEPT ![g] = @ \/ at[g] = targets[g].addr]
    <3>1. excused' \in [HomePods -> BOOLEAN]
      BY <1>1, <2>2 DEF TypeOK
    <3>2. \A h \in HomePods : (excused[h] \/ h # g) => (excused'[h] <=> excused[h])
      BY <1>1, <2>2 DEF TypeOK
    <3>3. faulty' \in BOOLEAN
      BY <1>1 DEF TypeOK, ResolveUnicast
    <3>4. QED
      BY <3>1, <3>2, <3>3
  <2>3. QED
    BY <2>1, <2>2 DEF ResolveUnicast
<1>4. \E answer \in Heard : unicast' = [unicast EXCEPT ![g] = answer]
  BY DEF ResolveUnicast, FromPacket, NotMade, Heard
<1>5. TypeOK'
  <2>1. unicast' \in [HomePods -> Heard \cup {"pending"}]
    BY <1>1, <1>4 DEF TypeOK
  <2>2. QED
    BY <1>1, <1>2, <1>3, <2>1 DEF TypeOK, homepods, zeroconf
<1>6. pc = "asking"
  BY <1>2 DEF IInv, IdleOK, NotAsked
<1>7. IdleOK'
  BY <1>2, <1>6 DEF IInv, IdleOK
<1>8. ASSUME NEW h \in HomePods PROVE PodOK(h)'
  <2>1. PodOK(h) /\ (excused[h] => excused'[h])
    BY <1>3 DEF IInv
  <2>2. UNCHANGED <<alive, at, pc, began, targets, sinceUp, gone>>
    BY <1>2 DEF homepods
  <2>3. CASE h # g
    <3>1. unicast'[h] = unicast[h]
      BY <1>1, <1>4, <2>3 DEF TypeOK
    <3>2. QED
      BY <2>1, <2>2, <3>1 DEF PodOK, Misled, HasReason, Moved
  <2>4. CASE h = g
    <3>1. targets[h] # None
      BY <1>2, <2>1, <2>4 DEF PodOK
    <3>2. \/ unicast'[h] = "answered" /\ alive[h]
          \/ unicast'[h] = "silent" /\ at[h] # targets[h].addr
          \/ unicast'[h] = "silent" /\ excused'[h]
          \/ unicast'[h] = "unknown"
      <4>1. CASE /\ alive[g] /\ at[g] = targets[g].addr
                 /\ unicast' = [unicast EXCEPT ![g] = FromPacket(g, g)]
        BY <1>1, <2>4, <4>1 DEF TypeOK, FromPacket
      <4>2. CASE /\ at[g] # targets[g].addr
                 /\ unicast' = [unicast EXCEPT ![g] = FromPacket(None, g)]
        BY <1>1, <2>4, <4>2 DEF TypeOK, FromPacket
      <4>3. CASE /\ unicast' = [unicast EXCEPT ![g] = "silent"]
                 /\ excused' = [excused EXCEPT ![g] = @ \/ at[g] = targets[g].addr]
        <5>1. unicast'[h] = "silent"
          BY <1>1, <2>4, <4>3 DEF TypeOK
        <5>2. excused'[h] <=> (excused[h] \/ at[h] = targets[h].addr)
          BY <1>1, <2>4, <4>3 DEF TypeOK
        <5>3. QED
          BY <5>1, <5>2
      <4>4. CASE unicast' = [unicast EXCEPT ![g] = "unknown"]
        BY <1>1, <2>4, <4>4 DEF TypeOK
      <4>5. QED
        BY <4>1, <4>2, <4>3, <4>4 DEF ResolveUnicast, NotMade
    <3>3. began \in Nat
      BY <1>1 DEF TypeOK, Ages
    <3>4. unicast'[h] = "answered" => sinceUp'[h] <= began'
      BY <2>2, <3>2, <3>3, UpNow
    <3>5. targets[h] \in Sighting
      BY <1>1, <3>1 DEF TypeOK
    <3>6. unicast'[h] = "silent" => HasReason(h)'
      <4>1. ASSUME at[h] # targets[h].addr, targets[h].source # "router"
            PROVE  Moved(h, MaxAge + began)'
        <5>1. Misled(h)
          BY <3>1, <3>5, <4>1 DEF Misled, Sighting
        <5>2. QED
          BY <1>6, <2>1, <2>2, <5>1 DEF PodOK, Moved
      <4>2. QED
        BY <2>2, <3>2, <4>1 DEF HasReason
    <3>7. (alive'[h] => sinceUp'[h] = 0) /\ gone'[h][at'[h]] = 0
      BY <2>1, <2>2 DEF PodOK
    <3>8. pc' # "idle" =>
            /\ ~alive'[h] => excused'[h]
            /\ Misled(h)' => Moved(h, MaxAge + began)'
      BY <2>1, <2>2 DEF PodOK, Misled, Moved
    <3>9. unicast'[h] # "pending"
      BY <3>2
    <3>10. QED
      BY <3>4, <3>6, <3>7, <3>8, <3>9 DEF PodOK
  <2>5. QED
    BY <2>3, <2>4
<1>9. \A k \in Keys : KeyOK(k)'
  BY <1>2, KeysUnchanged DEF KeyVars, zeroconf
<1>10. QED
  BY <1>5, <1>7, <1>8, <1>9 DEF IInv

-----------------------------------------------------------------------------
\* The end of a poll keeps what is known of the HomePods.
LEMMA EndPollPods ==
    ASSUME IInv, EndPoll, UNCHANGED <<homepods, sinceUp, gone>>
    PROVE  /\ \A h \in HomePods : PodOK(h)'
           /\ IdleOK'
           /\ pc' = "idle" /\ began' = 0
           /\ \A k \in Keys : passive'[k] = None /\ multicast'[k] = "no"
BY DEF IInv, EndPoll, PodOK, HasReason, IdleOK, homepods, NotAsked, NotResolved, NothingSeen,
       NoTargets

\* It leaves its own variables within their types.
LEMMA EndPollType ==
    ASSUME TypeOK, EndPoll, UNCHANGED <<homepods, sinceUp, gone>>,
           cached' \in [Keys -> Ages \cup {None}], listed' \in [Keys -> Ages \cup {None}],
           lastSeen' \in [Keys -> Ages \cup {None}],
           snapshot' \in [Keys -> Observation] \cup {None}
    PROVE  TypeOK'
<1>1. 0 \in Ages
  BY DEF Ages
<1>2. QED
  BY <1>1 DEF TypeOK, EndPoll, homepods, NotAsked, NotResolved, NothingSeen,
              NoTargets, Never, Heard

\* What a poll adds to the last-seen times is true, and not older.
LEMMA SeenTrue ==
    ASSUME IInv, pc = "asking", NEW k \in Keys
    PROVE  /\ Seen(k) \in Ages \cup {None}
           /\ (Seen(k) # None /\ Seen(k) + Ttl < Horizon) => sinceUp[k[1]] <= Seen(k) + Ttl
           /\ lastSeen[k] # None => Seen(k) # None /\ Seen(k) <= lastSeen[k]
<1>1. KeyOK(k) /\ PodOK(k[1]) /\ TypeOK
  BY KeyPod DEF IInv
<1>2. /\ began \in Ages /\ sinceUp[k[1]] \in Ages
      /\ passive[k] \in Ages \cup {None} /\ lastSeen[k] \in Ages \cup {None}
  BY <1>1, KeyPod DEF TypeOK
<1>3. began # None
  BY <1>2 DEF Ages
<1>4. CASE multicast[k] = "yes" \/ UnicastOf(k) = "answered"
  <2>1. Seen(k) = began
    BY <1>4 DEF Seen
  <2>2. UnicastOf(k) = "answered" => unicast[k[1]] = "answered"
    BY DEF UnicastOf
  <2>3. sinceUp[k[1]] <= began + Ttl
    BY <1>1, <1>2, <1>4, <2>2 DEF KeyOK, PodOK, Ages
  <2>4. lastSeen[k] # None => began <= lastSeen[k]
    BY <1>1 DEF KeyOK
  <2>5. QED
    BY <1>2, <1>3, <2>1, <2>3, <2>4
<1>5. CASE ~(multicast[k] = "yes" \/ UnicastOf(k) = "answered")
  <2>1. Seen(k) = Later(passive[k], lastSeen[k])
    BY <1>5 DEF Seen
  <2>2. passive[k] # None => sinceUp[k[1]] <= passive[k] + Ttl
    BY <1>1, <1>2 DEF KeyOK, Ages
  <2>3. QED
    BY <1>1, <1>2, <2>1, <2>2 DEF KeyOK, Later, Ages
<1>6. QED
  BY <1>4, <1>5

LEMMA PublishStep == ASSUME IInv, Publish PROVE IInv'
<1>1. TypeOK /\ pc = "asking"
  BY DEF IInv, Publish, Done
<1>2. /\ lastSeen' = [k \in Keys |-> Seen(k)] /\ EndPoll
      /\ UNCHANGED <<homepods, zeroconf, sinceUp, gone>>
  BY DEF Publish
<1>3. snapshot' \in [Keys -> Observation]
  <2>1. ASSUME NEW k \in Keys PROVE UnicastOf(k) \in Heard
    <3>1. unicast[k[1]] # "pending" /\ unicast[k[1]] \in Heard \cup {"pending"}
      BY <1>1, KeyPod DEF Publish, Done, TypeOK
    <3>2. QED
      BY <3>1 DEF UnicastOf, Heard
  <2>2. QED
    BY <2>1 DEF Publish, Observation
<1>4. TypeOK'
  <2>1. lastSeen' \in [Keys -> Ages \cup {None}]
    BY <1>1, <1>2, SeenTrue
  <2>2. QED
    BY <1>1, <1>2, <1>3, <2>1, EndPollType DEF TypeOK, zeroconf
<1>5. ASSUME NEW k \in Keys PROVE KeyOK(k)'
  <2>1. KeyOK(k)
    BY DEF IInv
  <2>2. passive'[k] = None /\ multicast'[k] = "no" /\ pc' = "idle"
    BY <1>2, EndPollPods
  <2>3. lastSeen'[k] = Seen(k)
    BY <1>2
  <2>4. (lastSeen'[k] # None /\ lastSeen'[k] + Ttl < Horizon) =>
           sinceUp'[k[1]] <= lastSeen'[k] + Ttl
    BY <1>1, <1>2, <2>3, SeenTrue
  <2>5. QED
    BY <1>2, <2>1, <2>2, <2>4 DEF KeyOK, zeroconf
<1>6. QED
  BY <1>2, <1>4, <1>5, EndPollPods DEF IInv

LEMMA PollFailsStep == ASSUME IInv, PollFails PROVE IInv'
<1>1. TypeOK
  BY DEF IInv
<1>2. /\ snapshot' = None /\ EndPoll
      /\ UNCHANGED <<homepods, zeroconf, lastSeen, sinceUp, gone>>
  BY DEF PollFails
<1>3. TypeOK'
  BY <1>1, <1>2, EndPollType DEF TypeOK, zeroconf
<1>4. ASSUME NEW k \in Keys PROVE KeyOK(k)'
  <2>1. KeyOK(k)
    BY DEF IInv
  <2>2. passive'[k] = None /\ multicast'[k] = "no" /\ pc' = "idle"
    BY <1>2, EndPollPods
  <2>3. QED
    BY <1>2, <2>1, <2>2 DEF KeyOK, zeroconf
<1>5. QED
  BY <1>2, <1>3, <1>4, EndPollPods DEF IInv

LEMMA RestartStep == ASSUME IInv, Restart PROVE IInv'
<1>1. TypeOK
  BY DEF IInv
<1>2. /\ cached' = NothingSeen /\ listed' = NothingSeen
      /\ lastSeen' = NothingSeen /\ snapshot' = None /\ EndPoll
      /\ UNCHANGED <<homepods, sinceUp, gone>>
  BY DEF Restart
<1>3. TypeOK'
  <2>1. NothingSeen \in [Keys -> Ages \cup {None}]
    BY DEF NothingSeen
  <2>2. QED
    BY <1>1, <1>2, <2>1, EndPollType
<1>4. ASSUME NEW k \in Keys PROVE KeyOK(k)'
  <2>1. passive'[k] = None /\ multicast'[k] = "no" /\ pc' = "idle"
    BY <1>2, EndPollPods
  <2>2. cached'[k] = None /\ listed'[k] = None /\ lastSeen'[k] = None
    BY <1>2 DEF NothingSeen
  <2>3. QED
    BY <2>1, <2>2 DEF KeyOK
<1>5. QED
  BY <1>2, <1>3, <1>4, EndPollPods DEF IInv

LEMMA NextIInv == ASSUME IInv, [Next]_vars PROVE IInv'
<1>1. CASE Tick
  BY <1>1, TickStep
<1>2. CASE Poll
  BY <1>2, StartPollStep, LoadFailsStep, DiscoverStep, ResolveStep, ResolveUnicastStep,
     PublishStep, PollFailsStep DEF Poll
<1>3. CASE Environment
  BY <1>3, StopStep, StartStep, MoveStep, AnnounceStep, UnlistStep DEF Environment
<1>4. CASE Restart
  BY <1>4, RestartStep
<1>5. CASE UNCHANGED vars
  <2>1. TypeOK'
    BY <1>5 DEF IInv, TypeOK, vars, homepods, zeroconf, queries, history
  <2>2. IdleOK'
    BY <1>5 DEF IInv, IdleOK, vars, queries
  <2>3. \A h \in HomePods : PodOK(h)'
    BY <1>5, PodsUnchanged DEF PodVars, vars, homepods, queries, history
  <2>4. \A k \in Keys : KeyOK(k)'
    BY <1>5, KeysUnchanged DEF KeyVars, vars, zeroconf, queries, history
  <2>5. QED
    BY <2>1, <2>2, <2>3, <2>4 DEF IInv
<1>6. QED
  BY <1>1, <1>2, <1>3, <1>4, <1>5 DEF Next

-----------------------------------------------------------------------------
\* The inductive invariant.
THEOREM Invariance == Spec => []IInv
<1>1. Init => IInv
  BY InitIInv
<1>2. IInv /\ [Next]_vars => IInv'
  BY NextIInv
<1>3. QED
  BY <1>1, <1>2, PTL DEF Spec

\* Every variable has its type: what is published of a HomePod is one of the
\* three answers, never a query still out (airplay/resolver.py:124-159).
THEOREM TypeCorrect == Spec => []TypeOK
<1>1. IInv => TypeOK
  BY DEF IInv
<1>2. QED
  BY <1>1, Invariance, PTL

\* airplay/resolver.py:146-168: whatever the services and the times to live, a
\* service was up no longer before its last-seen time than the cache keeps it.
THEOREM LastSeenHonestHolds == Spec => []LastSeenHonest
<1>1. IInv => LastSeenHonest
  BY DEF IInv, KeyOK, LastSeenHonest
<1>2. QED
  BY <1>1, Invariance, PTL

\* airplay/resolver.py:146-168 with main.py:89-90: the last-seen times never go
\* back, whatever is announced or answered while a poll is out.
THEOREM LastSeenNeverGoesBackHolds == Spec => LastSeenNeverGoesBack
<1>1. ASSUME IInv, Next, NEW k \in Keys, lastSeen[k] # None, ~Tick, ~Restart
      PROVE  lastSeen'[k] # None /\ lastSeen'[k] <= lastSeen[k]
  <2>1. lastSeen[k] \in Nat
    BY <1>1 DEF IInv, TypeOK, Ages
  <2>2. CASE Publish
    <3>1. lastSeen'[k] = Seen(k) /\ pc = "asking"
      BY <2>2 DEF Publish, Done
    <3>2. QED
      BY <1>1, <3>1, SeenTrue
  <2>3. CASE ~Publish
    <3>1. lastSeen' = lastSeen
      BY <1>1, <2>3 DEF Next, Poll, Environment, StartPoll, LoadFails, Discover, Resolve,
                        ResolveUnicast, PollFails, Stop, Start, Move, Announce, Unlist
    <3>2. QED
      BY <1>1, <2>1, <3>1
  <2>4. QED
    BY <2>2, <2>3
<1>2. IInv /\ [Next]_vars =>
         [\A k \in Keys :
             (lastSeen[k] # None /\ ~Tick /\ ~Restart) =>
                lastSeen'[k] # None /\ lastSeen'[k] <= lastSeen[k]]_vars
  BY <1>1
<1>3. QED
  BY <1>2, Invariance, PTL DEF Spec, LastSeenNeverGoesBack

\* airplay/resolver.py:227-256 with airplay/main.py:128-139: no fault of the
\* exporter's own network is published as a HomePod's silence, and an address
\* that was asked and had not lately been the HomePod's came from the router.
THEOREM SilentForAReasonHolds == Spec => SilentForAReason
<1>1. ASSUME IInv, Next, NEW h \in HomePods, Publish,
             "silent" = snapshot'[<<h, "airplay">>].unicast
      PROVE  HasReason(h)
  <2>1. <<h, "airplay">> \in Keys
    BY DEF Keys
  <2>2. snapshot'[<<h, "airplay">>].unicast = UnicastOf(<<h, "airplay">>)
    BY <1>1, <2>1 DEF Publish
  <2>3. unicast[h] = "silent"
    BY <1>1, <2>2 DEF UnicastOf
  <2>4. QED
    BY <2>3, <1>1 DEF IInv, PodOK
<1>2. IInv /\ [Next]_vars =>
         [\A h \in HomePods :
             (Publish /\ snapshot'[<<h, "airplay">>].unicast = "silent") =>
                \/ excused[h]
                \/ Moved(h, MaxAge + began)
                \/ targets[h].source = "router" /\ targets[h].addr # at[h]]_vars
  BY <1>1 DEF HasReason
<1>3. QED
  BY <1>2, Invariance, PTL DEF Spec, SilentForAReason
=============================================================================
