------------------------- MODULE AmplifiPoll_proofs -------------------------
(***************************************************************************)
(* Proofs about AmplifiPoll, for any networks, any depth of the mesh and   *)
(* any tracked clients.                                                    *)
(***************************************************************************)
EXTENDS AmplifiPoll, FiniteSetTheorems, WellFoundedInduction, TLAPS

-----------------------------------------------------------------------------
(* Numbers. *)

\* A set of numbers has a least one.
LEMMA LeastOf ==
    ASSUME NEW T \in SUBSET Nat, T # {}
    PROVE  \E m \in T : \A x \in T : m <= x
<1>1. PICK m \in T : \A x \in T : ~ (<<x, m>> \in OpToRel(<, Nat))
  BY WFMin, NatLessThanWellFounded
<1>2. \A x \in T : ~ (x < m)
  BY <1>1 DEF OpToRel
<1>3. QED
  BY <1>2

\* Induction up to the number of levels.
LEMMA LevelByLevel ==
    ASSUME NEW T, 0 \in T, \A k \in 0 .. Levels - 1 : k \in T => k + 1 \in T
    PROVE  \A k \in 0 .. Levels : k \in T
<1> SUFFICES ASSUME NEW b \in 0 .. Levels, b \notin T PROVE FALSE
  OBVIOUS
<1> DEFINE U == {k \in 0 .. Levels : k \notin T}
<1>1. U \in SUBSET Nat /\ b \in U
  BY NetworksAssumption
<1>2. PICK m \in U : \A x \in U : m <= x
  <2> HIDE DEF U
  <2>1. QED
    BY <1>1, LeastOf
<1>3. m # 0 /\ m \in 0 .. Levels /\ m \notin T
  OBVIOUS
<1>4. m - 1 \in 0 .. Levels - 1 /\ (m - 1) + 1 = m
  BY <1>3, NetworksAssumption
<1>5. m - 1 \notin U
  BY <1>2, <1>4
<1>6. QED
  BY <1>3, <1>4, <1>5, NetworksAssumption

-----------------------------------------------------------------------------
(* The mesh: what the walk through the nested feed finds. *)

Places(net) == {RouterMac} \cup DOMAIN net.mesh

\* g nests the mesh points of a network, n levels deep.
Nests(net, g, n) ==
    g = [d \in 0 .. n |-> [at \in Places(net) |->
            IF d = 0 THEN NoChildren ELSE Children(net, at, g[d - 1])]]

LEMMA NestingExists ==
    ASSUME NEW net
    PROVE  \E g : Nests(net, g, Levels)
<1> DEFINE T == {n \in 0 .. Levels : \E g : Nests(net, g, n)}
<1>1. 0 \in T
  <2>1. Nests(net, [d \in 0 .. 0 |-> [at \in Places(net) |-> NoChildren]], 0)
    BY DEF Nests
  <2>2. QED
    BY <2>1, NetworksAssumption
<1>2. ASSUME NEW n \in 0 .. Levels - 1, n \in T PROVE n + 1 \in T
  <2>1. PICK g : Nests(net, g, n)
    BY <1>2
  <2> DEFINE top == [at \in Places(net) |-> Children(net, at, g[n])]
             h == [d \in 0 .. n + 1 |-> IF d = n + 1 THEN top ELSE g[d]]
  <2>2. ASSUME NEW d \in 0 .. n + 1
        PROVE  h[d] = [at \in Places(net) |->
                          IF d = 0 THEN NoChildren ELSE Children(net, at, h[d - 1])]
    <3>1. CASE d = n + 1
      <4>1. d # 0 /\ d - 1 = n /\ n \in 0 .. n + 1 /\ n # n + 1
        BY <3>1
      <4>2. h[d] = top /\ h[d - 1] = g[n]
        BY <3>1, <4>1
      <4>3. QED
        BY <4>1, <4>2
    <3>2. CASE d # n + 1
      <4>1. d \in 0 .. n
        BY <3>2
      <4>2. h[d] = g[d]
        BY <3>2
      <4>3. d # 0 => h[d - 1] = g[d - 1]
        BY <4>1
      <4>4. g[d] = [at \in Places(net) |->
                      IF d = 0 THEN NoChildren ELSE Children(net, at, g[d - 1])]
        BY <2>1, <4>1 DEF Nests
      <4> HIDE DEF h
      <4>5. QED
        BY <4>2, <4>3, <4>4
    <3>3. QED
      BY <3>1, <3>2
  <2>3. h = [d \in 0 .. n + 1 |-> h[d]]
    OBVIOUS
  <2> HIDE DEF h
  <2>4. Nests(net, h, n + 1)
    BY <2>2, <2>3 DEF Nests
  <2>5. QED
    BY <2>4, NetworksAssumption
<1> HIDE DEF T
<1>3. Levels \in T
  BY <1>1, <1>2, LevelByLevel, NetworksAssumption
<1>4. QED
  BY <1>3 DEF T

LEMMA TopologyNests ==
    ASSUME NEW net
    PROVE  \E g : Nests(net, g, Levels) /\ Topology(net) = g[Levels][RouterMac]
<1> DEFINE nested[d \in 0 .. Levels] ==
              [at \in {RouterMac} \cup DOMAIN net.mesh |->
                  IF d = 0 THEN NoChildren ELSE Children(net, at, nested[d - 1])]
<1>1. Nests(net, nested, Levels)
  <2>1. PICK g : Nests(net, g, Levels)
    BY NestingExists
  <2>2. g = [d \in 0 .. Levels |-> [at \in {RouterMac} \cup DOMAIN net.mesh |->
                IF d = 0 THEN NoChildren ELSE Children(net, at, g[d - 1])]]
    BY <2>1 DEF Nests, Places
  <2>3. nested = [d \in 0 .. Levels |-> [at \in {RouterMac} \cup DOMAIN net.mesh |->
                IF d = 0 THEN NoChildren ELSE Children(net, at, nested[d - 1])]]
    BY <2>2
  <2> HIDE DEF nested
  <2>4. QED
    BY <2>3 DEF Nests, Places
<1>2. Topology(net) = nested[Levels][RouterMac]
  BY DEF Topology
<1>3. QED
  BY <1>1, <1>2

\* r has what the walk reaches level by level.
Under(cs) == UNION {{node.children : node \in c.wifi \cup c.offline} : c \in cs}
Reaches(children, r, n) ==
    r = [d \in 0 .. n |-> IF d = 0 THEN {children} ELSE Under(r[d - 1])]

LEMMA WalkExists ==
    ASSUME NEW children
    PROVE  \E r : Reaches(children, r, Levels)
<1> DEFINE T == {n \in 0 .. Levels : \E r : Reaches(children, r, n)}
<1>1. 0 \in T
  <2>1. Reaches(children, [d \in 0 .. 0 |-> {children}], 0)
    BY DEF Reaches
  <2>2. QED
    BY <2>1, NetworksAssumption
<1>2. ASSUME NEW n \in 0 .. Levels - 1, n \in T PROVE n + 1 \in T
  <2>1. PICK r : Reaches(children, r, n)
    BY <1>2
  <2> DEFINE h == [d \in 0 .. n + 1 |-> IF d = n + 1 THEN Under(r[n]) ELSE r[d]]
  <2>2. ASSUME NEW d \in 0 .. n + 1
        PROVE  h[d] = IF d = 0 THEN {children} ELSE Under(h[d - 1])
    <3>1. CASE d = n + 1
      <4>1. d # 0 /\ d - 1 = n /\ n \in 0 .. n + 1 /\ n # n + 1
        BY <3>1
      <4>2. h[d] = Under(r[n]) /\ h[d - 1] = r[n]
        BY <3>1, <4>1
      <4>3. QED
        BY <4>1, <4>2
    <3>2. CASE d # n + 1
      <4>1. d \in 0 .. n
        BY <3>2
      <4>2. h[d] = r[d] /\ (d # 0 => h[d - 1] = r[d - 1])
        BY <3>2, <4>1
      <4>3. r[d] = IF d = 0 THEN {children} ELSE Under(r[d - 1])
        BY <2>1, <4>1 DEF Reaches
      <4> HIDE DEF h
      <4>4. QED
        BY <4>2, <4>3
    <3>3. QED
      BY <3>1, <3>2
  <2>3. h = [d \in 0 .. n + 1 |-> h[d]]
    OBVIOUS
  <2> HIDE DEF h
  <2>4. Reaches(children, h, n + 1)
    BY <2>2, <2>3 DEF Reaches
  <2>5. QED
    BY <2>4, NetworksAssumption
<1> HIDE DEF T
<1>3. Levels \in T
  BY <1>1, <1>2, LevelByLevel, NetworksAssumption
<1>4. QED
  BY <1>3 DEF T

LEMMA ParseReaches ==
    ASSUME NEW children
    PROVE  \E r : /\ Reaches(children, r, Levels)
                  /\ ParseMeshPoints(children) =
                        UNION {MeshPointsOf(c) : c \in UNION {r[d] : d \in 0 .. Levels}}
<1> DEFINE reached[d \in 0 .. Levels] ==
              IF d = 0 THEN {children}
              ELSE UNION {{node.children : node \in c.wifi \cup c.offline} : c \in reached[d - 1]}
<1>1. Reaches(children, reached, Levels)
  <2>1. PICK r : Reaches(children, r, Levels)
    BY WalkExists
  <2>2. r = [d \in 0 .. Levels |-> IF d = 0 THEN {children}
                ELSE UNION {{node.children : node \in c.wifi \cup c.offline} : c \in r[d - 1]}]
    BY <2>1 DEF Reaches, Under
  <2>3. reached = [d \in 0 .. Levels |-> IF d = 0 THEN {children}
                ELSE UNION {{node.children : node \in c.wifi \cup c.offline} : c \in reached[d - 1]}]
    BY <2>2
  <2> HIDE DEF reached
  <2>4. QED
    BY <2>3 DEF Reaches, Under
<1>2. ParseMeshPoints(children) =
          UNION {MeshPointsOf(c) : c \in UNION {reached[d] : d \in 0 .. Levels}}
  BY DEF ParseMeshPoints
<1>3. QED
  BY <1>1, <1>2

\* What is to be said of a mesh point.
AsItIs(net, m) ==
    [mac |-> m, address |-> net.address[m], online |-> net.mesh[m] # "lost",
     uplink |-> IF net.mesh[m] # "lost" THEN net.mesh[m] ELSE None]

\* The mesh points at a place, among the router's own those it has lost.
HeldAt(net, at) ==
    {m \in DOMAIN net.mesh : net.mesh[m] = at \/ (at = RouterMac /\ net.mesh[m] = "lost")}

LEMMA PointsOfChildren ==
    ASSUME NEW net \in Networks, NEW at \in Places(net), NEW under
    PROVE  MeshPointsOf(Children(net, at, under)) = {AsItIs(net, m) : m \in HeldAt(net, at)}
<1>1. at # "lost"
  BY NetworksAssumption DEF Places
<1>2. ASSUME NEW m \in DOMAIN net.mesh, NEW uplink, net.mesh[m] = uplink, NEW kids
      PROVE  MeshPoint([mac |-> m, address |-> net.address[m], uplink |-> uplink, children |-> kids], uplink # "lost")
               = AsItIs(net, m)
  BY <1>2 DEF MeshPoint, AsItIs
<1>3. ASSUME NEW node \in Nodes(net, at, under)
      PROVE  MeshPoint(node, TRUE) \in {AsItIs(net, m) : m \in HeldAt(net, at)}
  <2>1. PICK m \in DOMAIN net.mesh :
           net.mesh[m] = at /\ node = [mac |-> m, address |-> net.address[m], uplink |-> at, children |-> under[m]]
    BY <1>3 DEF Nodes
  <2>2. MeshPoint(node, TRUE) = AsItIs(net, m)
    BY <1>1, <2>1 DEF MeshPoint, AsItIs
  <2>3. QED
    BY <2>1, <2>2 DEF HeldAt
<1>4. ASSUME at = RouterMac, NEW node \in Nodes(net, "lost", under)
      PROVE  MeshPoint(node, FALSE) \in {AsItIs(net, m) : m \in HeldAt(net, at)}
  <2>1. PICK m \in DOMAIN net.mesh :
           net.mesh[m] = "lost" /\ node = [mac |-> m, address |-> net.address[m], uplink |-> "lost", children |-> under[m]]
    BY <1>4 DEF Nodes
  <2>2. MeshPoint(node, FALSE) = AsItIs(net, m)
    BY <2>1 DEF MeshPoint, AsItIs
  <2>3. QED
    BY <1>4, <2>1, <2>2 DEF HeldAt
<1>5. ASSUME NEW m \in HeldAt(net, at)
      PROVE  AsItIs(net, m) \in MeshPointsOf(Children(net, at, under))
  <2>1. CASE net.mesh[m] = at
    <3> DEFINE node == [mac |-> m, address |-> net.address[m], uplink |-> at, children |-> under[m]]
    <3>1. node \in Children(net, at, under).wifi
      BY <1>5, <2>1 DEF HeldAt, Nodes, Children
    <3>2. MeshPoint(node, TRUE) = AsItIs(net, m)
      BY <1>1, <2>1 DEF MeshPoint, AsItIs
    <3>3. QED
      BY <3>1, <3>2 DEF MeshPointsOf
  <2>2. CASE at = RouterMac /\ net.mesh[m] = "lost"
    <3> DEFINE node == [mac |-> m, address |-> net.address[m], uplink |-> "lost", children |-> under[m]]
    <3>1. node \in Children(net, at, under).offline
      BY <1>5, <2>2 DEF HeldAt, Nodes, Children
    <3>2. MeshPoint(node, FALSE) = AsItIs(net, m)
      BY <2>2 DEF MeshPoint, AsItIs
    <3>3. QED
      BY <3>1, <3>2 DEF MeshPointsOf
  <2>3. QED
    BY <1>5, <2>1, <2>2 DEF HeldAt
<1>6. ASSUME NEW p \in MeshPointsOf(Children(net, at, under))
      PROVE  p \in {AsItIs(net, m) : m \in HeldAt(net, at)}
  <2>1. \/ \E node \in Nodes(net, at, under) : p = MeshPoint(node, TRUE)
        \/ at = RouterMac /\ \E node \in Nodes(net, "lost", under) : p = MeshPoint(node, FALSE)
    BY <1>6 DEF MeshPointsOf, Children
  <2>2. QED
    BY <1>3, <1>4, <2>1
<1>7. QED
  BY <1>5, <1>6

\* Under which children the next level finds those of a mesh point.
LEMMA ChildrenUnder ==
    ASSUME NEW net \in Networks, NEW at \in Places(net), NEW under, NEW m \in HeldAt(net, at),
           NEW cs, Children(net, at, under) \in cs
    PROVE  under[m] \in Under(cs)
<1> DEFINE c == Children(net, at, under)
           node(uplink) == [mac |-> m, address |-> net.address[m], uplink |-> uplink, children |-> under[m]]
<1>1. \E uplink : node(uplink) \in c.wifi \cup c.offline
  BY DEF HeldAt, Nodes, Children
<1>2. PICK uplink : node(uplink) \in c.wifi \cup c.offline
  BY <1>1
<1>3. node(uplink).children = under[m]
  OBVIOUS
<1>4. under[m] \in {n.children : n \in c.wifi \cup c.offline}
  BY <1>2, <1>3
<1>5. QED
  BY <1>4 DEF Under

\* All that is under the children of a place is the children of a place.
LEMMA UnderChildren ==
    ASSUME NEW net \in Networks, NEW at, NEW under,
           NEW node \in Children(net, at, under).wifi \cup Children(net, at, under).offline
    PROVE  \E m \in DOMAIN net.mesh : node.children = under[m]
BY DEF Children, Nodes

\* The walk finds every mesh point once, wherever it is, as it is.
LEMMA MeshFound ==
    ASSUME NEW net \in Networks
    PROVE  ParseMeshPoints(Feed(net).mesh) = {AsItIs(net, m) : m \in DOMAIN net.mesh}
<1>1. PICK g : Nests(net, g, Levels) /\ Topology(net) = g[Levels][RouterMac]
  BY TopologyNests
<1>2. PICK r : /\ Reaches(Topology(net), r, Levels)
               /\ ParseMeshPoints(Topology(net)) =
                     UNION {MeshPointsOf(c) : c \in UNION {r[d] : d \in 0 .. Levels}}
  BY ParseReaches
<1>3. Feed(net).mesh = Topology(net)
  BY DEF Feed
<1>4. ASSUME NEW d \in 0 .. Levels, NEW at \in Places(net)
      PROVE  g[d][at] = IF d = 0 THEN NoChildren ELSE Children(net, at, g[d - 1])
  <2>1. g = [e \in 0 .. Levels |-> [a \in Places(net) |->
              IF e = 0 THEN NoChildren ELSE Children(net, a, g[e - 1])]]
    BY <1>1 DEF Nests
  <2>2. g[d] = [a \in Places(net) |->
              IF d = 0 THEN NoChildren ELSE Children(net, a, g[d - 1])]
    BY <2>1
  <2>3. QED
    BY <2>2
<1>5. ASSUME NEW d \in 0 .. Levels
      PROVE  r[d] = IF d = 0 THEN {Topology(net)} ELSE Under(r[d - 1])
  BY <1>2 DEF Reaches
<1>6. Levels \in 0 .. Levels /\ 0 \in 0 .. Levels /\ RouterMac \in Places(net)
  BY NetworksAssumption DEF Places
<1>7. \A d \in 0 .. Levels : \A c \in r[d] :
         \E j \in 0 .. Levels, at \in Places(net) : c = g[j][at]
  <2> DEFINE T == {d \in 0 .. Levels : \A c \in r[d] :
                     \E j \in 0 .. Levels, at \in Places(net) : c = g[j][at]}
  <2>1. 0 \in T
    BY <1>1, <1>5, <1>6
  <2>2. ASSUME NEW d \in 0 .. Levels - 1, d \in T PROVE d + 1 \in T
    <3>1. d + 1 \in 0 .. Levels /\ d + 1 # 0 /\ (d + 1) - 1 = d /\ d \in 0 .. Levels
      BY NetworksAssumption
    <3>2. r[d + 1] = Under(r[d])
      BY <1>5, <3>1
    <3>3. ASSUME NEW c \in r[d + 1]
          PROVE  \E j \in 0 .. Levels, at \in Places(net) : c = g[j][at]
      <4>1. PICK b \in r[d] : c \in {node.children : node \in b.wifi \cup b.offline}
        BY <3>2, <3>3 DEF Under
      <4>2. PICK node \in b.wifi \cup b.offline : c = node.children
        BY <4>1
      <4>3. PICK j \in 0 .. Levels, at \in Places(net) : b = g[j][at]
        BY <2>2, <4>1
      <4>4. j # 0 /\ b = Children(net, at, g[j - 1])
        BY <1>4, <4>2, <4>3 DEF NoChildren
      <4>5. \E m \in DOMAIN net.mesh : c = g[j - 1][m]
        BY <4>2, <4>4, UnderChildren
      <4>6. j - 1 \in 0 .. Levels
        BY <4>4, NetworksAssumption
      <4>7. QED
        BY <4>5, <4>6 DEF Places
    <3>4. QED
      BY <3>1, <3>3
  <2> HIDE DEF T
  <2>3. \A d \in 0 .. Levels : d \in T
    BY <2>1, <2>2, LevelByLevel
  <2>4. QED
    BY <2>3 DEF T
<1>8. PICK level \in [DOMAIN net.mesh -> 1 .. Levels] : \A m \in DOMAIN net.mesh :
         \/ net.mesh[m] \in {RouterMac, "lost"} /\ level[m] = 1
         \/ net.mesh[m] \in DOMAIN net.mesh /\ level[m] = level[net.mesh[m]] + 1
  BY NetworksAssumption DEF OnLevels
<1>9. ASSUME NEW at \in Places(net), NEW k \in 0 .. Levels - 1, g[Levels - k][at] \in r[k],
             NEW m \in HeldAt(net, at)
      PROVE  /\ AsItIs(net, m) \in ParseMeshPoints(Topology(net))
             /\ g[Levels - (k + 1)][m] \in r[k + 1]
  <2>1. /\ Levels - k \in 0 .. Levels /\ Levels - k # 0 /\ k \in 0 .. Levels
        /\ (Levels - k) - 1 = Levels - (k + 1)
        /\ k + 1 \in 0 .. Levels /\ k + 1 # 0 /\ (k + 1) - 1 = k
    BY NetworksAssumption
  <2>2. g[Levels - k][at] = Children(net, at, g[Levels - (k + 1)])
    BY <1>4, <2>1
  <2>3. AsItIs(net, m) \in MeshPointsOf(g[Levels - k][at])
    BY <2>2, PointsOfChildren
  <2>4. AsItIs(net, m) \in ParseMeshPoints(Topology(net))
    BY <1>2, <1>9, <2>1, <2>3
  <2>5. g[Levels - (k + 1)][m] \in Under(r[k])
    BY <1>9, <2>2, ChildrenUnder
  <2>6. QED
    BY <1>5, <2>1, <2>4, <2>5
<1>10. \A k \in 0 .. Levels : \A m \in DOMAIN net.mesh :
          level[m] = k => /\ AsItIs(net, m) \in ParseMeshPoints(Topology(net))
                          /\ g[Levels - k][m] \in r[k]
  <2> DEFINE T == {k \in 0 .. Levels : \A m \in DOMAIN net.mesh :
                     level[m] = k => /\ AsItIs(net, m) \in ParseMeshPoints(Topology(net))
                                     /\ g[Levels - k][m] \in r[k]}
  <2>1. 0 \in T
    BY <1>6, <1>8, NetworksAssumption
  <2>2. ASSUME NEW k \in 0 .. Levels - 1, k \in T PROVE k + 1 \in T
    <3>1. ASSUME NEW m \in DOMAIN net.mesh, level[m] = k + 1
          PROVE  /\ AsItIs(net, m) \in ParseMeshPoints(Topology(net))
                 /\ g[Levels - (k + 1)][m] \in r[k + 1]
      <4>1. CASE net.mesh[m] \in {RouterMac, "lost"} /\ level[m] = 1
        <5>1. k = 0
          BY <3>1, <4>1
        <5>2. m \in HeldAt(net, RouterMac)
          BY <4>1 DEF HeldAt
        <5>3. g[Levels - 0][RouterMac] \in r[0]
          <6>1. Levels - 0 = Levels
            BY NetworksAssumption
          <6>2. QED
            BY <1>1, <1>5, <1>6, <6>1
        <5>4. QED
          BY <1>6, <1>9, <5>1, <5>2, <5>3
      <4>2. CASE net.mesh[m] \in DOMAIN net.mesh /\ level[m] = level[net.mesh[m]] + 1
        <5>1. level[net.mesh[m]] = k
          BY <1>8, <3>1, <4>2, NetworksAssumption
        <5>2. g[Levels - k][net.mesh[m]] \in r[k]
          BY <2>2, <4>2, <5>1
        <5>3. net.mesh[m] \in Places(net) /\ m \in HeldAt(net, net.mesh[m])
          BY <4>2 DEF Places, HeldAt
        <5>4. QED
          BY <1>9, <5>2, <5>3
      <4>3. QED
        BY <1>8, <4>1, <4>2
    <3>2. k + 1 \in 0 .. Levels
      BY NetworksAssumption
    <3>3. QED
      BY <3>1, <3>2
  <2> HIDE DEF T
  <2>3. \A k \in 0 .. Levels : k \in T
    BY <2>1, <2>2, LevelByLevel
  <2>4. QED
    BY <2>3 DEF T
<1>11. ASSUME NEW m \in DOMAIN net.mesh
       PROVE  AsItIs(net, m) \in ParseMeshPoints(Topology(net))
  <2>1. level[m] \in 0 .. Levels
    BY <1>8, NetworksAssumption
  <2>2. QED
    BY <1>10, <2>1
<1>12. ASSUME NEW p \in ParseMeshPoints(Topology(net))
       PROVE  p \in {AsItIs(net, m) : m \in DOMAIN net.mesh}
  <2>1. PICK c \in UNION {r[d] : d \in 0 .. Levels} : p \in MeshPointsOf(c)
    BY <1>2, <1>12
  <2>2. PICK j \in 0 .. Levels, at \in Places(net) : c = g[j][at]
    BY <1>7, <2>1
  <2>3. c = Children(net, at, g[j - 1])
    <3>1. MeshPointsOf(NoChildren) = {}
      BY DEF NoChildren, MeshPointsOf
    <3>2. j # 0
      BY <1>4, <2>1, <2>2, <3>1
    <3>3. QED
      BY <1>4, <2>2, <3>2
  <2>4. PICK m \in HeldAt(net, at) : p = AsItIs(net, m)
    BY <2>1, <2>3, PointsOfChildren
  <2>5. QED
    BY <2>4 DEF HeldAt
<1>13. QED
  BY <1>3, <1>11, <1>12

-----------------------------------------------------------------------------
(* The clients: one association of each, the one least idle. *)

LEMMA ClientsDomain ==
    ASSUME NEW net \in Networks
    PROVE  /\ DOMAIN net.clients \in SUBSET Nat
           /\ Range(net.clients) = {net.clients[i] : i \in DOMAIN net.clients}
           /\ \A i \in DOMAIN net.clients : net.clients[i].idle \in Nat
<1>1. net.clients \in Seq(Range(net.clients))
  BY NetworksAssumption
<1>2. DOMAIN net.clients \in SUBSET Nat
  BY <1>1
<1>3. \A c \in Range(net.clients) : c.idle \in Nat
  BY NetworksAssumption
<1>4. QED
  BY <1>2, <1>3 DEF Range

\* No association that is kept is beaten by another of its client.
LEMMA KeptIsLeastIdle ==
    ASSUME NEW net \in Networks, NEW c \in DedupeClients(net.clients)
    PROVE  /\ c \in Range(net.clients)
           /\ \A d \in Range(net.clients) : d.mac = c.mac => c.idle <= d.idle
<1>1. PICK i \in DOMAIN net.clients :
         /\ c = net.clients[i]
         /\ \A j \in DOMAIN net.clients \ {i} : net.clients[j].mac = net.clients[i].mac =>
               \/ net.clients[i].idle < net.clients[j].idle
               \/ net.clients[i].idle = net.clients[j].idle /\ i < j
  BY DEF DedupeClients
<1>2. ASSUME NEW j \in DOMAIN net.clients, net.clients[j].mac = c.mac
      PROVE  c.idle <= net.clients[j].idle
  <2>1. net.clients[i].idle \in Nat /\ net.clients[j].idle \in Nat
    BY ClientsDomain
  <2>2. QED
    BY <1>1, <1>2, <2>1
<1>3. QED
  BY <1>1, <1>2, ClientsDomain

\* One association of a client is kept.
LEMMA KeptOnce ==
    ASSUME NEW net \in Networks, NEW c \in DedupeClients(net.clients),
           NEW d \in DedupeClients(net.clients), c.mac = d.mac
    PROVE  c = d
<1>1. PICK i \in DOMAIN net.clients :
         /\ c = net.clients[i]
         /\ \A j \in DOMAIN net.clients \ {i} : net.clients[j].mac = net.clients[i].mac =>
               \/ net.clients[i].idle < net.clients[j].idle
               \/ net.clients[i].idle = net.clients[j].idle /\ i < j
  BY DEF DedupeClients
<1>2. PICK k \in DOMAIN net.clients :
         /\ d = net.clients[k]
         /\ \A j \in DOMAIN net.clients \ {k} : net.clients[j].mac = net.clients[k].mac =>
               \/ net.clients[k].idle < net.clients[j].idle
               \/ net.clients[k].idle = net.clients[j].idle /\ k < j
  BY DEF DedupeClients
<1>3. /\ i \in Nat /\ k \in Nat
      /\ net.clients[i].idle \in Nat /\ net.clients[k].idle \in Nat
  BY ClientsDomain
<1>4. i = k
  BY <1>1, <1>2, <1>3
<1>5. QED
  BY <1>1, <1>2, <1>4

\* An association of every client is kept.
LEMMA EachIsKept ==
    ASSUME NEW net \in Networks, NEW c \in Range(net.clients)
    PROVE  \E d \in DedupeClients(net.clients) : d.mac = c.mac
<1> DEFINE Own == {i \in DOMAIN net.clients : net.clients[i].mac = c.mac}
           Idles == {net.clients[i].idle : i \in Own}
<1>1. Own \in SUBSET Nat /\ Own # {} /\ \A i \in Own : net.clients[i].idle \in Nat
  BY ClientsDomain
<1>2. Idles \in SUBSET Nat /\ Idles # {}
  BY <1>1
<1>3. PICK least \in Idles : \A n \in Idles : least <= n
  <2> HIDE DEF Idles
  <2>1. QED
    BY <1>2, LeastOf
<1> DEFINE Best == {i \in Own : net.clients[i].idle = least}
<1>4. Best \in SUBSET Nat /\ Best # {}
  BY <1>1, <1>3
<1>5. PICK i \in Best : \A j \in Best : i <= j
  <2> HIDE DEF Best
  <2>1. QED
    BY <1>4, LeastOf
<1>6. ASSUME NEW j \in DOMAIN net.clients \ {i}, net.clients[j].mac = net.clients[i].mac
      PROVE  \/ net.clients[i].idle < net.clients[j].idle
             \/ net.clients[i].idle = net.clients[j].idle /\ i < j
  <2>1. j \in Own /\ j \in Nat /\ i \in Nat /\ j # i
    BY <1>1, <1>6
  <2>2. least <= net.clients[j].idle /\ net.clients[i].idle = least
    BY <1>3, <2>1
  <2>3. least \in Nat /\ net.clients[j].idle \in Nat
    BY <1>1, <1>2, <2>1
  <2>4. net.clients[j].idle = least => i < j
    BY <1>5, <2>1
  <2>5. QED
    BY <2>2, <2>3, <2>4
<1>7. net.clients[i] \in DedupeClients(net.clients) /\ net.clients[i].mac = c.mac
  BY <1>6 DEF DedupeClients
<1>8. QED
  BY <1>7

-----------------------------------------------------------------------------
(* The sightings, and what the file is once they are recorded. *)

\* The mesh points, clients and wired devices of a parsed feed.
LEMMA Parsed ==
    ASSUME NEW net \in Networks, NEW snapshot, snapshot = ParseInfoAsync(Feed(net))
    PROVE  /\ snapshot.router = net.address[RouterMac]
           /\ snapshot.mesh = {AsItIs(net, m) : m \in DOMAIN net.mesh}
           /\ snapshot.clients = net.clients
           /\ snapshot.directory = ParseDirectory(net.directory)
           /\ snapshot.wired = ParseWired(net.wired)
<1>1. snapshot.mesh = ParseMeshPoints(Feed(net).mesh)
  BY DEF ParseInfoAsync
<1>2. /\ Feed(net).clients = net.clients /\ Feed(net).directory = net.directory
      /\ Feed(net).wired = net.wired /\ Feed(net).router = net.address[RouterMac]
  BY DEF Feed
<1>3. /\ snapshot.router = net.address[RouterMac]
      /\ snapshot.clients = net.clients
      /\ snapshot.directory = ParseDirectory(net.directory)
      /\ snapshot.wired = ParseWired(net.wired)
  BY <1>2 DEF ParseInfoAsync
<1>4. QED
  BY <1>1, <1>3, MeshFound

\* Each sighting made of a network is one of the four kinds.
LEMMA SightingsAreTrue ==
    ASSUME NEW net \in Networks, NEW s \in RouterSightings(ParseInfoAsync(Feed(net)))
    PROVE  \/ s = Sighting(RouterMac, net.address[RouterMac])
           \/ \E m \in DOMAIN net.mesh : net.mesh[m] # "lost" /\ s = Sighting(m, net.address[m])
           \/ /\ \E ap \in DOMAIN net.wired :
                    net.wired[ap] # {Damaged} /\ s.mac \in net.wired[ap]
              /\ s.mac \in DOMAIN net.directory /\ s.addr = net.directory[s.mac]
              /\ s.addr \notin {None, Damaged}
           \/ \E c \in Range(net.clients) :
                 /\ s = Sighting(c.mac, c.address) /\ ~c.backhaul /\ c.address # None
                 /\ \A d \in Range(net.clients) : d.mac = c.mac => c.idle <= d.idle
<1> DEFINE snapshot == ParseInfoAsync(Feed(net))
<1>1. /\ snapshot.router = net.address[RouterMac]
      /\ snapshot.mesh = {AsItIs(net, m) : m \in DOMAIN net.mesh}
      /\ snapshot.clients = net.clients
      /\ snapshot.directory = ParseDirectory(net.directory)
      /\ snapshot.wired = ParseWired(net.wired)
  BY Parsed
<1> HIDE DEF snapshot
<1>2. CASE s \in {Sighting(m.mac, m.address) : m \in {m \in snapshot.mesh : m.online}}
  <2>1. PICK p \in snapshot.mesh : p.online /\ s = Sighting(p.mac, p.address)
    BY <1>2
  <2>2. PICK m \in DOMAIN net.mesh : p = AsItIs(net, m)
    BY <1>1, <2>1
  <2>3. p.mac = m /\ net.mesh[m] # "lost" /\ p.address = net.address[m]
    BY <2>1, <2>2 DEF AsItIs
  <2>4. QED
    BY <2>1, <2>3
<1>3. CASE s \in {Sighting(c.mac, c.address) :
                    c \in {c \in DedupeClients(snapshot.clients) : ~c.backhaul /\ c.address # None}}
  BY <1>1, <1>3, KeptIsLeastIdle
<1>4. CASE s \in {Sighting(mac, snapshot.directory[mac]) :
                    mac \in {mac \in snapshot.wired \cap DOMAIN snapshot.directory :
                                snapshot.directory[mac] # None}}
  <2>1. PICK mac \in snapshot.wired \cap DOMAIN snapshot.directory :
           snapshot.directory[mac] # None /\ s = Sighting(mac, snapshot.directory[mac])
    BY <1>4
  <2>2. /\ mac \in DOMAIN net.directory /\ net.directory[mac] # Damaged
        /\ snapshot.directory[mac] = net.directory[mac]
    BY <1>1, <2>1 DEF ParseDirectory
  <2>3. \E ap \in DOMAIN net.wired : net.wired[ap] # {Damaged} /\ mac \in net.wired[ap]
    BY <1>1, <2>1 DEF ParseWired
  <2>4. s.mac = mac /\ s.addr = net.directory[mac]
    BY <2>1, <2>2 DEF Sighting
  <2>5. QED
    BY <2>1, <2>2, <2>3, <2>4
<1>5. CASE s = Sighting(RouterMac, snapshot.router)
  BY <1>1, <1>5
<1>6. QED
  BY <1>2, <1>3, <1>4, <1>5 DEF RouterSightings, snapshot

\* No mesh point that is there is left out, nor a client that has an address
\* where it was last active.
LEMMA SightingsAreAll ==
    ASSUME NEW net \in Networks
    PROVE  /\ Sighting(RouterMac, net.address[RouterMac])
                 \in RouterSightings(ParseInfoAsync(Feed(net)))
           /\ \A m \in DOMAIN net.mesh : net.mesh[m] # "lost" =>
                 Sighting(m, net.address[m]) \in RouterSightings(ParseInfoAsync(Feed(net)))
           /\ \A c \in Range(net.clients) :
                 /\ ~c.backhaul /\ c.address # None
                 /\ \A d \in Range(net.clients) : d.mac = c.mac /\ d # c => c.idle < d.idle
                 => Sighting(c.mac, c.address) \in RouterSightings(ParseInfoAsync(Feed(net)))
<1> DEFINE snapshot == ParseInfoAsync(Feed(net))
<1>1. /\ snapshot.router = net.address[RouterMac]
      /\ snapshot.mesh = {AsItIs(net, m) : m \in DOMAIN net.mesh}
      /\ snapshot.clients = net.clients
  BY Parsed
<1> HIDE DEF snapshot
<1>2. ASSUME NEW m \in DOMAIN net.mesh, net.mesh[m] # "lost"
      PROVE  Sighting(m, net.address[m]) \in RouterSightings(snapshot)
  <2>1. /\ AsItIs(net, m) \in snapshot.mesh /\ AsItIs(net, m).online
        /\ AsItIs(net, m).mac = m /\ AsItIs(net, m).address = net.address[m]
    BY <1>1, <1>2 DEF AsItIs
  <2>2. QED
    BY <2>1, Zenon DEF RouterSightings
<1>3. ASSUME NEW c \in Range(net.clients), ~c.backhaul, c.address # None,
             \A d \in Range(net.clients) : d.mac = c.mac /\ d # c => c.idle < d.idle
      PROVE  Sighting(c.mac, c.address) \in RouterSightings(snapshot)
  <2>1. PICK d \in DedupeClients(net.clients) : d.mac = c.mac
    BY EachIsKept
  <2>2. d \in Range(net.clients) /\ d.idle <= c.idle
    BY <2>1, KeptIsLeastIdle
  <2>3. c.idle \in Nat /\ d.idle \in Nat
    BY <2>2, NetworksAssumption
  <2>4. c = d
    BY <1>3, <2>1, <2>2, <2>3
  <2>5. QED
    BY <1>1, <1>3, <2>1, <2>4 DEF RouterSightings
<1>4. Sighting(RouterMac, net.address[RouterMac]) \in RouterSightings(snapshot)
  BY <1>1, Zenon DEF RouterSightings
<1>5. QED
  BY <1>2, <1>3, <1>4 DEF snapshot

\* A sighting is of the moment it is made, and its address a number.
LEMMA SightingsAreNow ==
    ASSUME NEW net \in Networks, NEW s \in RouterSightings(ParseInfoAsync(Feed(net)))
    PROVE  s = Sighting(s.mac, s.addr) /\ s.addr \in Int /\ s.last = 0 /\ s.host = None
<1>1. \A mac, address : /\ Sighting(mac, address).mac = mac
                        /\ Sighting(mac, address).addr = address
                        /\ Sighting(mac, address).last = 0
                        /\ Sighting(mac, address).host = None
  BY DEF Sighting
<1>2. \E mac, address : s = Sighting(mac, address)
  <2> DEFINE snapshot == ParseInfoAsync(Feed(net))
  <2> HIDE DEF snapshot
  <2>1. s \in RouterSightings(snapshot)
    BY DEF snapshot
  <2>2. QED
    BY <2>1, Zenon DEF RouterSightings
<1>3. s = Sighting(s.mac, s.addr) /\ s.last = 0 /\ s.host = None
  BY <1>1, <1>2
<1>4. s.addr \in Int
  <2>1. \A m \in {RouterMac} \cup DOMAIN net.mesh : net.address[m] \in Int
    BY NetworksAssumption
  <2>2. \A c \in Range(net.clients) : c.address # None => c.address \in Int
    BY NetworksAssumption
  <2>3. \A mac \in DOMAIN net.directory :
           net.directory[mac] \notin {None, Damaged} => net.directory[mac] \in Int
    BY NetworksAssumption DEF Range
  <2>4. QED
    BY <1>1, <2>1, <2>2, <2>3, SightingsAreTrue
<1>5. QED
  BY <1>3, <1>4

\* A device has three addresses at most in one poll: its own as a mesh point,
\* the one it is associated with, and the one of its lease on a port.
LEMMA ThreeOfEach ==
    ASSUME NEW net \in Networks, NEW mac
    PROVE  \E a, b, c : \A s \in RouterSightings(ParseInfoAsync(Feed(net))) :
              s.mac = mac => s \in {a, b, c}
<1> DEFINE snapshot == ParseInfoAsync(Feed(net))
           kept == DedupeClients(net.clients)
<1>1. /\ snapshot.router = net.address[RouterMac]
      /\ snapshot.mesh = {AsItIs(net, m) : m \in DOMAIN net.mesh}
      /\ snapshot.clients = net.clients
      /\ snapshot.directory = ParseDirectory(net.directory)
  BY Parsed
<1> HIDE DEF snapshot
<1>2. \A m, address : Sighting(m, address).mac = m
  BY DEF Sighting
<1>3. PICK b : \A c \in kept : c.mac = mac => Sighting(c.mac, c.address) = b
  <2>1. CASE \E c \in kept : c.mac = mac
    <3>1. PICK c \in kept : c.mac = mac
      BY <2>1
    <3>2. \A d \in kept : d.mac = mac => d = c
      BY <3>1, KeptOnce
    <3>3. \A d \in kept : d.mac = mac => Sighting(d.mac, d.address) = Sighting(c.mac, c.address)
      BY <3>2
    <3>4. QED
      BY <3>3
  <2>2. CASE ~ \E c \in kept : c.mac = mac
    BY <2>2
  <2>3. QED
    BY <2>1, <2>2
<1> DEFINE a == Sighting(mac, net.address[mac])
           c == Sighting(mac, net.directory[mac])
<1> HIDE DEF a, c, kept
<1>4. ASSUME NEW s \in RouterSightings(snapshot), s.mac = mac
      PROVE  s \in {a, b, c}
  <2>1. CASE s = Sighting(RouterMac, snapshot.router)
    BY <1>1, <1>2, <1>4, <2>1 DEF a
  <2>2. CASE s \in {Sighting(m.mac, m.address) : m \in {m \in snapshot.mesh : m.online}}
    <3>1. PICK p \in snapshot.mesh : s = Sighting(p.mac, p.address)
      BY <2>2
    <3>2. PICK m \in DOMAIN net.mesh : p = AsItIs(net, m)
      BY <1>1, <3>1
    <3>3. p.mac = m /\ p.address = net.address[m]
      BY <3>2 DEF AsItIs
    <3>4. QED
      BY <1>2, <1>4, <3>1, <3>3 DEF a
  <2>3. CASE s \in {Sighting(d.mac, d.address) :
                      d \in {d \in DedupeClients(snapshot.clients) :
                                ~d.backhaul /\ d.address # None}}
    BY <1>1, <1>2, <1>3, <1>4, <2>3 DEF kept
  <2>4. CASE s \in {Sighting(m, snapshot.directory[m]) :
                      m \in {m \in snapshot.wired \cap DOMAIN snapshot.directory :
                                snapshot.directory[m] # None}}
    <3>1. PICK m \in DOMAIN snapshot.directory : s = Sighting(m, snapshot.directory[m])
      BY <2>4
    <3>2. snapshot.directory[m] = net.directory[m]
      BY <1>1, <3>1 DEF ParseDirectory
    <3>3. QED
      BY <1>2, <1>4, <3>1, <3>2 DEF c
  <2>5. QED
    BY <2>1, <2>2, <2>3, <2>4 DEF RouterSightings
<1>5. QED
  BY <1>4 DEF snapshot

\* Of three at most, two at most are others.
LEMMA TwoOthers ==
    ASSUME NEW T, NEW o, NEW a, NEW b, NEW c,
           T \subseteq {a, b, c}, o \in {a, b, c}, o \notin T
    PROVE  Cardinality(T) \in Nat /\ Cardinality(T) < 3
<1>1. PICK d, e : T \subseteq {d, e}
  <2>1. CASE o = a
    BY <2>1
  <2>2. CASE o = b
    BY <2>2
  <2>3. CASE o = c
    BY <2>3
  <2>4. QED
    BY <2>1, <2>2, <2>3
<1>2. IsFiniteSet({d}) /\ Cardinality({d}) = 1
  BY FS_Singleton
<1>3. /\ IsFiniteSet({d} \cup {e})
      /\ Cardinality({d} \cup {e}) \in {1, 2}
  BY <1>2, FS_AddElement
<1>4. T \subseteq {d} \cup {e}
  BY <1>1
<1>5. IsFiniteSet(T) /\ Cardinality(T) <= Cardinality({d} \cup {e})
  BY <1>3, <1>4, FS_Subset
<1>6. Cardinality(T) \in Nat
  BY <1>5, FS_CardinalityType
<1>7. QED
  BY <1>3, <1>5, <1>6

\* What is on file has a MAC and was seen no later than it was written.
Kept(doc) == \A o \in doc : o.host = None /\ o.last \in Int /\ o.last <= 0

\* What a poll has just seen is what the file shows as of its writing, and the
\* file keeps all of it.
LEMMA RecordedIsFresh ==
    ASSUME NEW net \in Networks, published = ParseInfoAsync(Feed(net)), Kept(file),
           NEW elapsed \in 1 .. Retention + 1
    PROVE  /\ Kept(Recorded(elapsed))
           /\ {o \in Recorded(elapsed) : o.last = 0} = RouterSightings(published)
<1> DEFINE old == Aged(file, elapsed)
           S == RouterSightings(published)
           merged == Inventory!Merged(old, S)
<1>1. \A o \in old : o.host = None /\ o.last \in Int /\ o.last < 0
  <2> SUFFICES ASSUME NEW o \in old PROVE o.host = None /\ o.last \in Int /\ o.last < 0
    OBVIOUS
  <2>1. PICK f \in file : o = [mac |-> f.mac, host |-> f.host, addr |-> f.addr,
                               last |-> f.last - elapsed]
    BY DEF Aged
  <2>2. f.host = None /\ f.last \in Int /\ f.last <= 0
    BY DEF Kept
  <2>3. o.host = f.host /\ o.last = f.last - elapsed
    BY <2>1
  <2>4. elapsed \in Int /\ elapsed >= 1
    BY InventoryAssumption
  <2>5. QED
    BY <2>2, <2>3, <2>4
<1>2. \A s \in S : s = Sighting(s.mac, s.addr) /\ s.addr \in Int /\ s.last = 0 /\ s.host = None
  BY SightingsAreNow
<1> HIDE DEF old, S
<1>3. \A s \in S : Inventory!Refreshed(old, s) = s
  <2> SUFFICES ASSUME NEW s \in S PROVE Inventory!Refreshed(old, s) = s
    OBVIOUS
  <2> DEFINE previous == {o \in old : Inventory!SameKey(o, s)}
  <2>1. CASE previous = {}
    BY <2>1 DEF Inventory!Refreshed
  <2>2. CASE previous # {}
    <3> DEFINE p == CHOOSE o \in previous : TRUE
    <3>1. p \in old
      BY <2>2
    <3>2. ~(s.last < p.last) /\ p.host = None
      BY <1>1, <1>2, <3>1
    <3>3. Inventory!Refreshed(old, s) =
            [mac |-> s.mac, addr |-> s.addr,
             host |-> IF s.host = None THEN p.host ELSE s.host,
             last |-> IF s.last < p.last THEN p.last ELSE s.last]
      BY <2>2 DEF Inventory!Refreshed
    <3> HIDE DEF p
    <3>4. Inventory!Refreshed(old, s) =
            [mac |-> s.mac, addr |-> s.addr, host |-> None, last |-> 0]
      BY <1>2, <3>2, <3>3
    <3>5. QED
      BY <1>2, <3>4 DEF Sighting
  <2>3. QED
    BY <2>1, <2>2
<1>4. merged = {o \in old : \A s \in S : ~Inventory!SameKey(o, s)} \cup S
  BY <1>3 DEF Inventory!Merged
<1> HIDE DEF merged
<1>5. Recorded(elapsed) \subseteq merged
  BY DEF Recorded, Inventory!Recorded, Inventory!Trimmed, merged, old, S
<1>6. ASSUME NEW o \in S PROVE o \in Recorded(elapsed)
  <2> DEFINE T == {p \in merged : Inventory!Identity(p) = Inventory!Identity(o)
                                    /\ Inventory!Precedes(p, o)}
  <2>1. ASSUME NEW p \in T PROVE p \in S /\ p.mac = o.mac /\ p # o
    <3>1. Inventory!Identity(p) = p.mac /\ Inventory!Identity(o) = o.mac
      <4>1. p.host = None /\ o.host = None
        BY <1>1, <1>2, <1>4
      <4>2. QED
        BY <4>1 DEF Inventory!Identity
    <3>2. p.last > o.last \/ (p.last = o.last /\ p.addr < o.addr)
      BY DEF Inventory!Precedes
    <3>3. p \in S
      BY <1>1, <1>2, <1>4, <3>2
    <3>4. QED
      BY <1>2, <3>1, <3>2, <3>3
  <2>2. PICK a, b, c : \A s \in S : s.mac = o.mac => s \in {a, b, c}
    BY ThreeOfEach DEF S
  <2> HIDE DEF T
  <2>3. T \subseteq {a, b, c} /\ o \in {a, b, c} /\ o \notin T
    BY <2>1, <2>2
  <2>4. Inventory!Cardinality(T) < MaxAddressesPerMac
    <3>1. Inventory!Cardinality(T) = Cardinality(T)
      BY DEF Inventory!Cardinality, Cardinality
    <3>2. Cardinality(T) \in Nat /\ Cardinality(T) < 3
      BY <2>3, TwoOthers
    <3>3. QED
      BY <3>1, <3>2, InventoryAssumption
  <2>5. o \in merged /\ 0 - o.last <= Retention
    BY <1>2, <1>4, InventoryAssumption
  <2>6. Recorded(elapsed) = Inventory!Trimmed(merged, 0)
    BY DEF Recorded, Inventory!Recorded, merged, old, S
  <2>7. QED
    BY <2>4, <2>5, <2>6 DEF Inventory!Trimmed, T
<1>7. Kept(Recorded(elapsed))
  BY <1>1, <1>2, <1>4, <1>5 DEF Kept
<1>8. ASSUME NEW o \in Recorded(elapsed), o.last = 0 PROVE o \in S
  BY <1>1, <1>4, <1>5, <1>8
<1>9. QED
  BY <1>2, <1>6, <1>7, <1>8 DEF S

-----------------------------------------------------------------------------
(* The inductive invariant. *)

\* What is published is the network of the last whole feed, and it is there
\* while its sightings are written and, between polls, after a success.
PublishedIsServed ==
    /\ published # None =>
          /\ served \in Networks
          /\ published = ParseInfoAsync(Feed(served))
    /\ step = "record" => published # None
    /\ step = "idle" => (published # None <=> stage = "ok")

\* What a file that is said to be up to date shows as just seen is of that
\* network, which a failed poll leaves alone.
FileIsServed ==
    (sourceOk = TRUE /\ step # "record") =>
        /\ served \in Networks
        /\ {o \in file : o.last = 0} = RouterSightings(ParseInfoAsync(Feed(served)))

IInv == TypeOK /\ PublishedIsServed /\ Kept(file) /\ FileIsServed

LEMMA InitIInv == Init => IInv
BY NoneAssumption DEF Init, IInv, TypeOK, PublishedIsServed, Kept, FileIsServed

\* A poll that ends early drops the snapshot and leaves the file alone.
LEMMA FailIInv ==
    ASSUME IInv, NEW why \in {"login", "fetch", "parse"}, Fail(why), step # "record",
           session' \in BOOLEAN
    PROVE  IInv'
<1>1. TypeOK'
  BY DEF IInv, TypeOK, Fail
<1>2. PublishedIsServed'
  BY DEF Fail, PublishedIsServed
<1>3. Kept(file)' /\ FileIsServed'
  BY DEF IInv, FileIsServed, Fail
<1>4. QED
  BY <1>1, <1>2, <1>3 DEF IInv

LEMMA GoesOnIInv ==
    ASSUME IInv, NEW next \in {"login", "password", "again", "feed"}, GoesOn(next),
           step # "record", session' \in BOOLEAN
    PROVE  IInv'
<1>1. TypeOK'
  BY DEF IInv, TypeOK, GoesOn
<1>2. PublishedIsServed' /\ Kept(file)' /\ FileIsServed'
  BY DEF IInv, FileIsServed, PublishedIsServed, GoesOn
<1>3. QED
  BY <1>1, <1>2 DEF IInv

LEMMA GetFeedIInv == IInv /\ GetFeed => IInv'
<1> SUFFICES ASSUME IInv, GetFeed PROVE IInv'
  OBVIOUS
<1>1. session' \in BOOLEAN /\ step = "feed" /\ session' = session
  BY DEF IInv, TypeOK, GetFeed
<1>2. CASE Fail("parse")
  BY <1>1, <1>2, FailIInv
<1>3. CASE \E net \in Networks :
              /\ published' = ParseInfoAsync(Feed(net)) /\ served' = net
              /\ step' = "record" /\ UNCHANGED <<calm, stage, sourceOk, file>>
  <2>1. PICK net \in Networks :
           /\ published' = ParseInfoAsync(Feed(net)) /\ served' = net
           /\ step' = "record" /\ UNCHANGED <<calm, stage, sourceOk, file>>
    BY <1>3
  <2>2. published' # None /\ served' # None /\ served' \in Networks
    BY <2>1, NoneAssumption
  <2>3. TypeOK'
    BY <1>1, <2>1, <2>2 DEF IInv, TypeOK
  <2>4. PublishedIsServed' /\ Kept(file)' /\ FileIsServed'
    BY <2>1, <2>2 DEF IInv, PublishedIsServed, FileIsServed
  <2>5. QED
    BY <2>3, <2>4 DEF IInv
<1>4. QED
  BY <1>2, <1>3 DEF GetFeed

LEMMA RecordSightingsIInv == IInv /\ RecordSightings => IInv'
<1> SUFFICES ASSUME IInv, RecordSightings PROVE IInv'
  OBVIOUS
<1>1. /\ published # None /\ served \in Networks
      /\ published = ParseInfoAsync(Feed(served))
  BY DEF IInv, PublishedIsServed, RecordSightings
<1>2. PICK elapsed \in 1 .. Retention + 1 :
         \/ file' = Recorded(elapsed) /\ sourceOk' = TRUE
         \/ file' \in {file, Recorded(elapsed)} /\ sourceOk' = FALSE
  BY DEF RecordSightings
<1>3. step' = "idle" /\ stage' = "ok" /\ UNCHANGED <<calm, session, published, served>>
  BY DEF RecordSightings
<1>4. Kept(file) /\ Kept(Recorded(elapsed))
  BY <1>1, RecordedIsFresh DEF IInv
<1>5. {o \in Recorded(elapsed) : o.last = 0} = RouterSightings(published)
  BY <1>1, <1>4, RecordedIsFresh
<1>6. sourceOk' \in BOOLEAN /\ Kept(file')
  BY <1>2, <1>4
<1>7. TypeOK'
  BY <1>3, <1>6 DEF IInv, TypeOK
<1>8. PublishedIsServed'
  BY <1>1, <1>3 DEF PublishedIsServed
<1>9. FileIsServed'
  <2>1. CASE sourceOk' = TRUE
    <3>1. file' = Recorded(elapsed)
      BY <1>2, <2>1
    <3>2. {o \in file' : o.last = 0} = RouterSightings(ParseInfoAsync(Feed(served')))
      BY <1>1, <1>3, <1>5, <3>1
    <3>3. QED
      BY <1>1, <1>3, <3>2 DEF FileIsServed
  <2>2. CASE sourceOk' # TRUE
    BY <2>2 DEF FileIsServed
  <2>3. QED
    BY <2>1, <2>2
<1>10. QED
  BY <1>6, <1>7, <1>8, <1>9 DEF IInv

LEMMA NextIInv == IInv /\ [Next]_vars => IInv'
<1> SUFFICES ASSUME IInv, [Next]_vars PROVE IInv'
  OBVIOUS
<1>0. session \in BOOLEAN
  BY DEF IInv, TypeOK
<1>1. CASE RequestFails
  BY <1>0, <1>1, FailIInv DEF RequestFails
<1>2. CASE StartPoll
  BY <1>2 DEF StartPoll, IInv, TypeOK, PublishedIsServed, FileIsServed
<1>3. CASE GetInfo
  <2>1. session' \in BOOLEAN /\ step # "record"
    BY <1>0, <1>3 DEF GetInfo
  <2>2. \/ \E next \in {"feed", "login"} : GoesOn(next)
        \/ Fail("login")
    BY <1>3 DEF GetInfo
  <2>3. QED
    BY <2>1, <2>2, FailIInv, GoesOnIInv
<1>4. CASE GetLogin
  <2>1. session' \in BOOLEAN /\ step # "record" /\ (GoesOn("password") \/ Fail("login"))
    BY <1>0, <1>4 DEF GetLogin
  <2>2. QED
    BY <2>1, FailIInv, GoesOnIInv
<1>5. CASE PostPassword
  <2>1. /\ session' \in BOOLEAN /\ step # "record"
        /\ GoesOn("again") \/ Fail("login") \/ Fail("fetch")
    BY <1>0, <1>5 DEF PostPassword
  <2>2. QED
    BY <2>1, FailIInv, GoesOnIInv
<1>6. CASE GetFeed
  BY <1>6, GetFeedIInv
<1>7. CASE RecordSightings
  BY <1>7, RecordSightingsIInv
<1>8. CASE Restart
  BY <1>8, NoneAssumption DEF Restart, IInv, TypeOK, PublishedIsServed, FileIsServed
<1>9. CASE SessionEnds
  BY <1>9 DEF SessionEnds, IInv, TypeOK, PublishedIsServed, FileIsServed
<1>10. CASE Changes
  BY <1>10 DEF Changes, IInv, TypeOK, PublishedIsServed, FileIsServed
<1>11. CASE UNCHANGED vars
  BY <1>11 DEF vars, IInv, TypeOK, PublishedIsServed, FileIsServed
<1>12. QED
  BY <1>1, <1>2, <1>3, <1>4, <1>5, <1>6, <1>7, <1>8, <1>9, <1>10, <1>11 DEF Next, Poll

THEOREM Invariance == Spec => []IInv
BY InitIInv, NextIInv, PTL DEF Spec

\* The poll's variables keep their types (amplifi/main.py:118-152).
THEOREM TypeCorrect == Spec => []TypeOK
<1>1. IInv => TypeOK
  BY DEF IInv
<1>2. QED
  BY <1>1, Invariance, PTL

-----------------------------------------------------------------------------
(* What the invariant says of a snapshot and of the sightings made of it. *)

\* Every mesh point has its series, and it says whether the router has lost it.
LEMMA MeshPointsServed ==
    ASSUME IInv, published # None, NEW m \in DOMAIN served.mesh
    PROVE  Series("mesh_point_online", <<m>>, Flag(served.mesh[m] # "lost")) \in Collected
<1>1. served \in Networks /\ published = ParseInfoAsync(Feed(served))
  BY DEF IInv, PublishedIsServed
<1>2. PICK p \in published.mesh : p = AsItIs(served, m)
  BY <1>1, Parsed
<1>3. p.mac = m /\ Flag(p.online) = Flag(served.mesh[m] # "lost")
  BY <1>2 DEF AsItIs, Flag
<1>4. Series("mesh_point_online", <<p.mac>>, Flag(p.online)) \in MeshPointFamilies(published)
  BY DEF MeshPointFamilies
<1>5. QED
  BY <1>3, <1>4 DEF Collected

\* A tracked client is associated if the router lists it anywhere.
LEMMA TrackedServed ==
    ASSUME IInv, published # None, NEW mac \in DOMAIN Tracked
    PROVE  LET there == \E c \in Range(served.clients) : c.mac = mac
           IN  Series("associated", <<mac, Tracked[mac]>>, Flag(there)) \in Collected
<1> DEFINE there == \E c \in Range(served.clients) : c.mac = mac
           present == {c.mac : c \in DedupeClients(published.clients)}
<1>1. served \in Networks /\ published = ParseInfoAsync(Feed(served))
  BY DEF IInv, PublishedIsServed
<1>2. published.clients = served.clients
  BY <1>1, Parsed
<1>3. (mac \in present) <=> there
  BY <1>1, <1>2, EachIsKept, KeptIsLeastIdle
<1>4. Flag(there) = Flag(mac \in present)
  BY <1>3 DEF Flag
<1>5. Series("associated", <<mac, Tracked[mac]>>, Flag(mac \in present))
         \in TrackedFamilies(published)
  BY DEF TrackedFamilies
<1>6. QED
  BY <1>4, <1>5 DEF Collected

\* What is served is what the router knew when it was last asked, or nothing
\* once a poll has failed, for any mesh, any associations and any damage to
\* leases and port maps (amplifi/parser.py:96-132, amplifi/collector.py:50-101).
THEOREM ServesWhatTheRouterKnewHolds == Spec => []ServesWhatTheRouterKnew
<1>1. IInv => ServesWhatTheRouterKnew
  <2> SUFFICES ASSUME IInv PROVE ServesWhatTheRouterKnew
    OBVIOUS
  <2>1. step = "idle" => (published # None <=> stage = "ok")
    BY DEF IInv, PublishedIsServed
  <2>2. QED
    BY <2>1, MeshPointsServed, TrackedServed DEF ServesWhatTheRouterKnew
<1>2. QED
  BY <1>1, Invariance, PTL

-----------------------------------------------------------------------------
(* Series. *)

Families(snapshot) ==
    RouterFamilies(snapshot) \cup MeshPointFamilies(snapshot) \cup ClientFamilies(snapshot)
        \cup TrackedFamilies(snapshot) \cup AirplayFamilies(snapshot)

\* No family has a name of another's.
LEMMA FamilyNames ==
    ASSUME NEW snapshot
    PROVE  /\ \A s \in SourceFamilies : s.name = "address_source_ok"
           /\ \A s \in RouterFamilies(snapshot) : s.name = "wan_rx"
           /\ \A s \in MeshPointFamilies(snapshot) : s.name \in {"mesh_point", "mesh_point_online"}
           /\ \A s \in ClientFamilies(snapshot) : s.name \in {"client", "client_inactive"}
           /\ \A s \in TrackedFamilies(snapshot) : s.name = "associated"
           /\ \A s \in AirplayFamilies(snapshot) : s.name = "advertised"
<1>1. \A name, labels, value : Series(name, labels, value).name = name
  BY DEF Series
<1>2. \A s \in SourceFamilies : s.name = "address_source_ok"
  BY <1>1 DEF SourceFamilies
<1>3. \A s \in RouterFamilies(snapshot) : s.name = "wan_rx"
  BY <1>1 DEF RouterFamilies
<1>4. \A s \in MeshPointFamilies(snapshot) : s.name \in {"mesh_point", "mesh_point_online"}
  <2> SUFFICES ASSUME NEW s \in MeshPointFamilies(snapshot)
               PROVE  s.name \in {"mesh_point", "mesh_point_online"}
    OBVIOUS
  <2>1. PICK m \in snapshot.mesh : s \in {Series("mesh_point", <<m.mac, m.uplink>>, 1),
                                          Series("mesh_point_online", <<m.mac>>, Flag(m.online))}
    BY DEF MeshPointFamilies
  <2>2. QED
    BY <1>1, <2>1
<1>5. \A s \in ClientFamilies(snapshot) : s.name \in {"client", "client_inactive"}
  <2> SUFFICES ASSUME NEW s \in ClientFamilies(snapshot)
               PROVE  s.name \in {"client", "client_inactive"}
    OBVIOUS
  <2>1. PICK c \in DedupeClients(snapshot.clients) :
           s \in {Series("client", ClientLabels(c) \o <<c.ap>>, 1),
                  Series("client_inactive", ClientLabels(c), c.idle)}
    BY DEF ClientFamilies
  <2>2. QED
    BY <1>1, <2>1
<1>6. \A s \in TrackedFamilies(snapshot) : s.name = "associated"
  BY <1>1 DEF TrackedFamilies
<1>7. \A s \in AirplayFamilies(snapshot) : s.name = "advertised"
  <2> SUFFICES ASSUME NEW s \in AirplayFamilies(snapshot) PROVE s.name = "advertised"
    OBVIOUS
  <2>1. \E labels, value : s = Series("advertised", labels, value)
    BY DEF AirplayFamilies
  <2>2. QED
    BY <1>1, <2>1
<1>8. QED
  BY <1>2, <1>3, <1>4, <1>5, <1>6, <1>7

\* Two series of a family with the same labels are one.
NoTwins(family) == \A s, t \in family : s.name = t.name /\ s.labels = t.labels => s = t

LEMMA MeshPointTwins ==
    ASSUME NEW net \in Networks, NEW snapshot, snapshot = ParseInfoAsync(Feed(net))
    PROVE  NoTwins(MeshPointFamilies(snapshot))
<1> SUFFICES ASSUME NEW s \in MeshPointFamilies(snapshot), NEW t \in MeshPointFamilies(snapshot),
                    s.name = t.name, s.labels = t.labels
             PROVE  s = t
  BY DEF NoTwins
<1>1. snapshot.mesh = {AsItIs(net, m) : m \in DOMAIN net.mesh}
  BY Parsed
<1>2. \A p, q \in snapshot.mesh : p.mac = q.mac => p = q
  BY <1>1 DEF AsItIs
<1>3. PICK p \in snapshot.mesh : s \in {Series("mesh_point", <<p.mac, p.uplink>>, 1),
                                        Series("mesh_point_online", <<p.mac>>, Flag(p.online))}
  BY DEF MeshPointFamilies
<1>4. PICK q \in snapshot.mesh : t \in {Series("mesh_point", <<q.mac, q.uplink>>, 1),
                                        Series("mesh_point_online", <<q.mac>>, Flag(q.online))}
  BY DEF MeshPointFamilies
<1>5. CASE s = Series("mesh_point", <<p.mac, p.uplink>>, 1)
  <2>1. t = Series("mesh_point", <<q.mac, q.uplink>>, 1)
    BY <1>4, <1>5 DEF Series
  <2>2. QED
    BY <1>5, <2>1 DEF Series
<1>6. CASE s = Series("mesh_point_online", <<p.mac>>, Flag(p.online))
  <2>1. t = Series("mesh_point_online", <<q.mac>>, Flag(q.online))
    BY <1>4, <1>6 DEF Series
  <2>2. p.mac = q.mac
    BY <1>6, <2>1 DEF Series
  <2>3. QED
    BY <1>2, <1>6, <2>1, <2>2
<1>7. QED
  BY <1>3, <1>5, <1>6

LEMMA ClientTwins ==
    ASSUME NEW net \in Networks, NEW snapshot, snapshot = ParseInfoAsync(Feed(net))
    PROVE  NoTwins(ClientFamilies(snapshot))
<1> SUFFICES ASSUME NEW s \in ClientFamilies(snapshot), NEW t \in ClientFamilies(snapshot),
                    s.name = t.name, s.labels = t.labels
             PROVE  s = t
  BY DEF NoTwins
<1>1. snapshot.clients = net.clients
  BY Parsed
<1>2. PICK c \in DedupeClients(net.clients) :
         s \in {Series("client", ClientLabels(c) \o <<c.ap>>, 1),
                Series("client_inactive", ClientLabels(c), c.idle)}
  BY <1>1 DEF ClientFamilies
<1>3. PICK d \in DedupeClients(net.clients) :
         t \in {Series("client", ClientLabels(d) \o <<d.ap>>, 1),
                Series("client_inactive", ClientLabels(d), d.idle)}
  BY <1>1 DEF ClientFamilies
<1>4. CASE s = Series("client", ClientLabels(c) \o <<c.ap>>, 1)
  <2>1. t = Series("client", ClientLabels(d) \o <<d.ap>>, 1)
    BY <1>3, <1>4 DEF Series
  <2>2. QED
    BY <1>4, <2>1 DEF Series
<1>5. CASE s = Series("client_inactive", ClientLabels(c), c.idle)
  <2>1. t = Series("client_inactive", ClientLabels(d), d.idle)
    BY <1>3, <1>5 DEF Series
  <2>2. ClientLabels(c) = ClientLabels(d)
    BY <1>5, <2>1 DEF Series
  <2>3. c.mac = d.mac
    BY <2>2 DEF ClientLabels
  <2>4. QED
    BY <1>5, <2>1, <2>3, KeptOnce
<1>6. QED
  BY <1>2, <1>4, <1>5

LEMMA OtherTwins ==
    ASSUME NEW snapshot
    PROVE  /\ NoTwins(SourceFamilies) /\ NoTwins(RouterFamilies(snapshot))
           /\ NoTwins(TrackedFamilies(snapshot)) /\ NoTwins(AirplayFamilies(snapshot))
<1>1. NoTwins(SourceFamilies)
  BY DEF NoTwins, SourceFamilies
<1>2. NoTwins(RouterFamilies(snapshot))
  BY DEF NoTwins, RouterFamilies
<1>3. NoTwins(TrackedFamilies(snapshot))
  BY DEF NoTwins, TrackedFamilies, Series
<1>4. NoTwins(AirplayFamilies(snapshot))
  BY DEF NoTwins, AirplayFamilies, Series
<1>5. QED
  BY <1>1, <1>2, <1>3, <1>4

\* No answer to Prometheus has two series of one name and the same labels,
\* however often the router lists a client and wherever its mesh points are
\* (amplifi/collector.py:50-57, 91-101).
THEOREM NoSeriesTwiceHolds == Spec => []NoSeriesTwice
<1>1. IInv => NoSeriesTwice
  <2> SUFFICES ASSUME IInv PROVE NoTwins(Collected)
    BY DEF NoSeriesTwice, NoTwins
  <2>1. CASE published = None
    BY <2>1, OtherTwins DEF Collected, NoTwins
  <2>2. CASE published # None
    <3>1. served \in Networks /\ published = ParseInfoAsync(Feed(served))
      BY <2>2 DEF IInv, PublishedIsServed
    <3>2. NoTwins(MeshPointFamilies(published)) /\ NoTwins(ClientFamilies(published))
      BY <3>1, MeshPointTwins, ClientTwins
    <3>3. /\ NoTwins(SourceFamilies) /\ NoTwins(RouterFamilies(published))
          /\ NoTwins(TrackedFamilies(published)) /\ NoTwins(AirplayFamilies(published))
      BY OtherTwins
    <3>4. Collected = SourceFamilies \cup Families(published)
      BY <2>2 DEF Collected, Families
    <3>5. QED
      BY <3>2, <3>3, <3>4, FamilyNames DEF NoTwins, Families
  <2>3. QED
    BY <2>1, <2>2
<1>2. QED
  BY <1>1, Invariance, PTL

\* amplifi_address_source_ok 1 is only shown for a file whose sightings of its
\* last writing are true of what the router knew in the last poll that
\* succeeded and leave out no part of it, however many addresses of earlier
\* polls are on file and however many polls failed since
\* (amplifi/main.py:136-148, amplifi/sightings.py:16-69,
\* common/device_addresses.py:205-284).
THEOREM SourceOkIsTrueHolds == Spec => []SourceOkIsTrue
<1>1. IInv => SourceOkIsTrue
  <2> SUFFICES ASSUME IInv, sourceOk = TRUE, step # "record"
               PROVE  SourceOkIsTrue
    BY DEF SourceOkIsTrue
  <2>1. /\ served \in Networks
        /\ {s \in file : s.last = 0} = RouterSightings(ParseInfoAsync(Feed(served)))
    BY DEF IInv, FileIsServed
  <2>2. \A s \in file : s.last = 0 => s \in RouterSightings(ParseInfoAsync(Feed(served)))
    BY <2>1
  <2>3. RouterSightings(ParseInfoAsync(Feed(served))) \subseteq file
    BY <2>1
  <2>4. QED
    BY <2>1, <2>2, <2>3, SightingsAreTrue, SightingsAreAll DEF SourceOkIsTrue
<1>2. QED
  BY <1>1, Invariance, PTL

=============================================================================
