----------------------------- MODULE MeshProofs -----------------------------
(***************************************************************************)
(* Proofs about Mesh, Holds, Received and Verdicts, for any number of       *)
(* sites, networks and clients, any plans and any edits of them.            *)
(*                                                                          *)
(* OnePeer is about the generator alone: on one gateway the peer that lists *)
(* a prefix is a function of the prefix.  NoLoop follows from it: every     *)
(* gateway takes a source address from one peer only, so the way back from  *)
(* any gateway to the packet's origin is fixed, and a packet that came to a *)
(* gateway for the second time would have come from where it came the first *)
(* time, and so on back to an origin that takes it from nobody.             *)
(*                                                                          *)
(* That what is permitted is delivered, and nothing else, needs both files  *)
(* of every hop.  Way is the list of gateways the plan means a packet to    *)
(* pass: at most three.  Along it each gateway lists the destination on the *)
(* next one alone and the next one lists the source on it (Carries), and    *)
(* the forward chains let a new connection pass (Admits).  While everyone   *)
(* runs the plan the conversation began under, a packet never leaves its    *)
(* way, and whoever is on the way of a conversation that took place has     *)
(* tracked it, so that answers pass too (DeliveryInv).                      *)
(*                                                                          *)
(* What an error holds back is worked out from the topology and compared    *)
(* with the files: an error in somebody reaches exactly those whose files   *)
(* name them (ReachIsAbout, one lemma for each pair of kinds), so a fault   *)
(* is found for everyone it is about (FaultIsFound), and nobody is held who *)
(* has nothing to do with one (FoundIsFault).                               *)
(*                                                                          *)
(* What is said of tunnels, ports and gateways comes from handshakes,       *)
(* reports and rows of the database.  Each tells what happened since the    *)
(* last change or is as old as it (VerdictsInv), so that past the limits    *)
(* the code sets to ages what is still counted is of the present.           *)
(*                                                                          *)
(* What the controller stores, the agent takes line by line, but for a      *)
(* network with a leading zero and the names it refuses; that it takes the  *)
(* firewall, which depends on the place in the mesh alone, is assumed       *)
(* (FirewallTaken).                                                         *)
(***************************************************************************)
EXTENDS Holds, Received, Verdicts, WellFoundedInduction, TLAPS

---------------------------------------------------------------------------
(* The generator *)

\* The peer that lists a site's addresses is the next hop to the site.
LEMMA CarrierIsNextHop ==
  ASSUME NEW S \in Snapshot, NEW g \in Sites, NEW p \in Sites, ArePeered(S, g, p),
         NEW t \in {p} \union TransitDestinationsVia(S, g, p)
  PROVE  t \in Sites /\ t # g /\ NextHop(S, g, t) = p
<1>1. CASE t = p
  BY <1>1 DEF ArePeered, NextHop
<1>2. CASE t \in TransitDestinationsVia(S, g, p)
  BY <1>2 DEF TransitDestinationsVia, MeshSites
<1> QED
  BY <1>1, <1>2

\* What a site peer lists: sites and networks by next hop, clients by route.
LEMMA ListedBySite ==
  ASSUME MeshAssumption, NEW S \in Snapshot, NEW g \in Sites, NEW p \in Sites, ArePeered(S, g, p),
         NEW x \in GatewayPeerAllowedIps(S, g, p)
  PROVE  \/ x \in Sites /\ x # g /\ NextHop(S, g, x) = p
         \/ x \in Nets /\ Home[x] # g /\ NextHop(S, g, Home[x]) = p
         \/ x \in Clients /\ ClientRouteFrom(S, g, x) = p
<1>1. CASE x \in {c \in ActiveClients(S) : ClientRouteFrom(S, g, c) = p}
  BY <1>1 DEF ActiveClients
<1>2. CASE \E t \in {p} \union TransitDestinationsVia(S, g, p) : x \in {t} \union SharedNets(S, t)
  <2>1. PICK t \in {p} \union TransitDestinationsVia(S, g, p) : x \in {t} \union SharedNets(S, t)
    BY <1>2
  <2>2. t \in Sites /\ t # g /\ NextHop(S, g, t) = p
    BY CarrierIsNextHop
  <2>3. x \in SharedNets(S, t) => x \in Nets /\ Home[x] = t
    BY DEF SharedNets, Snapshot
  <2> QED
    BY <2>1, <2>2, <2>3
<1>3. \/ x \in UNION {{t} \union SharedNets(S, t) : t \in {p} \union TransitDestinationsVia(S, g, p)}
      \/ x \in {c \in ActiveClients(S) : ClientRouteFrom(S, g, c) = p}
  BY DEF GatewayPeerAllowedIps
<1>4. x \in UNION {{t} \union SharedNets(S, t) : t \in {p} \union TransitDestinationsVia(S, g, p)}
        => \E t \in {p} \union TransitDestinationsVia(S, g, p) : x \in {t} \union SharedNets(S, t)
  OBVIOUS
<1> QED
  BY <1>1, <1>2, <1>3, <1>4

LEMMA SitePeer ==
  ASSUME MeshAssumption, NEW S \in Snapshot, NEW g \in Sites, NEW p \in Peers(S, g), p \notin Clients
  PROVE  p \in Sites /\ ArePeered(S, g, p)
  BY DEF Peers, ActiveClients

\* On one gateway, two peers list no prefix in common.
THEOREM OnePeer ==
  ASSUME MeshAssumption, NEW S \in Snapshot, NEW g \in Sites,
         NEW p \in Peers(S, g), NEW q \in Peers(S, g), p # q
  PROVE  AllowedIps(S, g, p) \intersect AllowedIps(S, g, q) = {}
<1> SUFFICES ASSUME NEW x \in AllowedIps(S, g, p), x \in AllowedIps(S, g, q) PROVE FALSE
  OBVIOUS
<1> USE MeshAssumption
\* A client that is a peer is routed to itself.
<1>1. ASSUME NEW c \in Clients, c \in Peers(S, g) PROVE ClientRouteFrom(S, g, c) = c
  BY <1>1 DEF Peers, ClientRouteFrom
<1>2. ASSUME NEW c \in Clients, NEW s \in Sites, c \in Peers(S, g), s \in Peers(S, g)
      PROVE  c \notin AllowedIps(S, g, s)
  <2>1. ArePeered(S, g, s)
    BY <1>2, SitePeer
  <2>2. ClientRouteFrom(S, g, c) # s
    BY <1>2, <1>1
  <2> QED
    BY <2>1, <2>2, ListedBySite DEF AllowedIps
<1>3. CASE p \in Clients /\ q \in Clients
  BY <1>3 DEF AllowedIps
<1>4. CASE p \in Clients /\ q \notin Clients
  BY <1>4, <1>2, SitePeer DEF AllowedIps
<1>5. CASE p \notin Clients /\ q \in Clients
  BY <1>5, <1>2, SitePeer DEF AllowedIps
<1>6. CASE p \notin Clients /\ q \notin Clients
  <2>1. p \in Sites /\ ArePeered(S, g, p) /\ q \in Sites /\ ArePeered(S, g, q)
    BY <1>6, SitePeer
  <2>2. x \in GatewayPeerAllowedIps(S, g, p) /\ x \in GatewayPeerAllowedIps(S, g, q)
    BY <1>6 DEF AllowedIps
  <2> DEFINE On(r) == \/ x \in Sites /\ x # g /\ NextHop(S, g, x) = r
                      \/ x \in Nets /\ Home[x] # g /\ NextHop(S, g, Home[x]) = r
                      \/ x \in Clients /\ ClientRouteFrom(S, g, x) = r
  <2>3. On(p)
    BY <2>1, <2>2, ListedBySite
  <2>4. On(q)
    BY <2>1, <2>2, ListedBySite
  <2> QED
    BY <2>3, <2>4
<1> QED
  BY <1>3, <1>4, <1>5, <1>6

---------------------------------------------------------------------------
(* What runs *)

\* Every version holds what is generated from its plan.
Bundled == plans \in Seq({Generate(S) : S \in Snapshot})

RunsConfigured ==
    \A x \in Sites \union Clients : run[x] # 0 => Configured(plans[run[x]].snapshot, x)

\* Every gateway a packet passed took it from the one before, and the first
\* from its origin.
Trail ==
    pkt # None /\ pkt.steady =>
        /\ IF Src(pkt.dir) \in Nets THEN pkt.path[1] = Home[Src(pkt.dir)]
           ELSE Takes(pkt.path[1], Src(pkt.dir), Src(pkt.dir))
        /\ \A i \in 1..(Len(pkt.path) - 1) : Takes(pkt.path[i + 1], pkt.path[i], Src(pkt.dir))

IInv == TypeOK /\ Bundled /\ RunsConfigured /\ Trail /\ NoLoop

\* The configuration of a gateway lists what the generator gives it.
LEMMA GatewayConf ==
  ASSUME MeshAssumption, TypeOK, Bundled, RunsConfigured, NEW g \in Sites, run[g] # 0
  PROVE  \E S \in Snapshot : Conf(g).allowed = [p \in Peers(S, g) |-> AllowedIps(S, g, p)]
<1>1. run[g] \in 1..Len(plans)
  BY DEF TypeOK
<1>2. PICK S \in Snapshot : plans[run[g]] = Generate(S)
  BY <1>1 DEF Bundled
<1>3. Configured(S, g)
  BY <1>2 DEF RunsConfigured, Generate
<1>4. Conf(g) = Files(S, g)
  BY <1>2, <1>3 DEF Conf, Generate
<1> QED
  BY <1>4 DEF Files

LEMMA RunningOnePeer ==
  ASSUME MeshAssumption, TypeOK, Bundled, RunsConfigured
  PROVE  OnePeerPerPrefix
<1> SUFFICES ASSUME NEW g \in Sites, run[g] # 0,
                    NEW p \in DOMAIN Conf(g).allowed, NEW q \in DOMAIN Conf(g).allowed, p # q
             PROVE  Conf(g).allowed[p] \intersect Conf(g).allowed[q] = {}
  BY DEF OnePeerPerPrefix
<1>1. PICK S \in Snapshot : Conf(g).allowed = [r \in Peers(S, g) |-> AllowedIps(S, g, r)]
  BY GatewayConf
<1> QED
  BY <1>1, OnePeer

\* A gateway takes a source address from one peer, and its own network's from none.
LEMMA TakesFromOne ==
  ASSUME MeshAssumption, TypeOK, Bundled, RunsConfigured,
         NEW g \in Sites, NEW x, NEW y, NEW s, Takes(g, x, s), Takes(g, y, s)
  PROVE  x = y
  BY RunningOnePeer DEF Takes, Up, OnePeerPerPrefix

LEMMA OwnFromNone ==
  ASSUME MeshAssumption, TypeOK, Bundled, RunsConfigured,
         NEW n \in Nets, NEW p \in Sites
  PROVE  ~Takes(Home[n], p, n)
<1> SUFFICES ASSUME Takes(Home[n], p, n) PROVE FALSE
  OBVIOUS
<1> DEFINE g == Home[n]
<1>1. g \in Sites /\ run[g] # 0
  BY DEF MeshAssumption, Takes, Up
<1>2. PICK S \in Snapshot : Conf(g).allowed = [r \in Peers(S, g) |-> AllowedIps(S, g, r)]
  BY <1>1, GatewayConf
<1>3. p \in Peers(S, g) /\ n \in AllowedIps(S, g, p)
  BY <1>2 DEF Takes
<1>4. ArePeered(S, g, p) /\ n \in GatewayPeerAllowedIps(S, g, p)
  BY <1>1, <1>3, SitePeer DEF AllowedIps, MeshAssumption
<1>5. \/ n \in Sites \/ Home[n] # g \/ n \in Clients
  BY <1>1, <1>4, ListedBySite
<1> QED
  BY <1>5 DEF MeshAssumption

---------------------------------------------------------------------------
(* The invariant *)

LEMMA InitIInv == Init => IInv
<1> SUFFICES ASSUME Init PROVE IInv
  OBVIOUS
<1> USE MeshAssumption
<1>1. PICK S \in FirstPlans :
        /\ plans = <<Generate(S)>>
        /\ run = [x \in Sites \union Clients |-> IF Configured(S, x) THEN 1 ELSE 0]
  BY DEF Init
<1>2. S \in Snapshot /\ Len(plans) = 1 /\ plans[1] = Generate(S)
  BY <1>1 DEF MeshAssumption
<1>3. TypeOK
  <2>1. plans # <<>> /\ \A v \in 1..Len(plans) : plans[v].snapshot \in Snapshot
    <3>1. Generate(S).snapshot = S
      BY DEF Generate
    <3> QED
      BY <1>1, <1>2, <3>1
  <2>2. run \in [Sites \union Clients -> 0..Len(plans)]
    BY <1>1, <1>2
  <2>3. tracked \in [Sites -> SUBSET Directions]
    BY DEF Init
  <2>4. down = None /\ conv = None /\ pkt = None /\ last = None
    BY DEF Init
  <2> QED
    BY <2>1, <2>2, <2>3, <2>4 DEF TypeOK
<1>4. Bundled
  BY <1>1, <1>2 DEF Bundled
<1>5. RunsConfigured
  BY <1>1, <1>2 DEF RunsConfigured, Generate
<1>6. Trail /\ NoLoop
  BY DEF Trail, NoLoop, Init
<1> QED
  BY <1>3, <1>4, <1>5, <1>6 DEF IInv

\* An edit leaves what runs alone.
LEMMA EditIInv ==
  ASSUME IInv, NEW S \in EditPlans, Edit(S)
  PROVE  IInv'
<1> USE MeshAssumption DEF IInv
<1>1. S \in Snapshot /\ plans' = Append(plans, Generate(S)) /\ plans \in Seq({Generate(P) : P \in Snapshot})
  BY DEF MeshAssumption, Edit, Bundled
<1>2. /\ Len(plans) \in Nat /\ Len(plans') = Len(plans) + 1
      /\ \A v \in 1..Len(plans) : plans'[v] = plans[v]
      /\ plans'[Len(plans) + 1] = Generate(S)
  BY <1>1
<1>3. \A x \in Sites \union Clients : run[x] # 0 => plans'[run[x]] = plans[run[x]]
  BY <1>2 DEF TypeOK
<1>4. Bundled'
  BY <1>1 DEF Bundled
<1>5. TypeOK'
  <2>1. plans' # <<>> /\ \A v \in 1..Len(plans') : plans'[v].snapshot \in Snapshot
    BY <1>1, <1>2 DEF TypeOK, Generate
  <2>2. run' \in [Sites \union Clients -> 0..Len(plans')]
    BY <1>2 DEF TypeOK, Edit
  <2>3. conv' \in [src : Ends, dst : Ends, met : BOOLEAN, version : 0..Len(plans')] \union {None}
    BY <1>2 DEF TypeOK, Edit
  <2> QED
    BY <2>1, <2>2, <2>3 DEF TypeOK, Edit, At
<1>6. RunsConfigured'
  BY <1>3 DEF RunsConfigured, Edit
<1>7. Trail'
  <2>1. run' = run /\ down' = down /\ conv' = conv /\ pkt' = pkt
    BY DEF Edit
  <2>2. CASE pkt # None /\ pkt.steady
    <3>1. \A i \in 1..Len(pkt.path) : pkt.path[i] \in Sites
      BY <2>2 DEF TypeOK
    <3>2. 1 \in 1..Len(pkt.path) /\ \A i \in 1..(Len(pkt.path) - 1) : i + 1 \in 1..Len(pkt.path)
      BY <2>2 DEF TypeOK
    <3> QED
      BY <1>3, <2>1, <2>2, <3>1, <3>2 DEF Trail, Src, Takes, Up, Conf
  <2> QED
    BY <2>1, <2>2 DEF Trail
<1>8. NoLoop'
  BY DEF NoLoop, Edit
<1> QED
  BY <1>4, <1>5, <1>6, <1>7, <1>8

\* Applying a configuration ends the steadiness of the packet on its way.
LEMMA ApplyIInv ==
  ASSUME IInv, NEW x \in Sites \union Clients, Apply(x)
  PROVE  IInv'
<1> USE MeshAssumption DEF IInv
<1>1. plans # <<>> /\ Len(plans) \in Nat \ {0} /\ plans' = plans
  BY DEF TypeOK, Bundled, Apply
<1>2. /\ run' \in [Sites \union Clients -> 0..Len(plans)]
      /\ run'[x] = Len(plans)
      /\ \A y \in Sites \union Clients : y # x => run'[y] = run[y]
  BY <1>1 DEF TypeOK, Apply
<1>3. pkt' # None => /\ pkt # None /\ pkt' = [pkt EXCEPT !.steady = FALSE] /\ pkt'.path = pkt.path
                     /\ pkt' \in [dir : Directions, path : Seq(Sites), new : BOOLEAN, steady : BOOLEAN]
                     /\ ~pkt'.steady
  BY DEF Apply, TypeOK
<1>4. TypeOK'
  BY <1>1, <1>2, <1>3 DEF TypeOK, Apply, At
<1>5. RunsConfigured'
  BY <1>1, <1>2 DEF RunsConfigured, Apply, Current
<1>6. Bundled' /\ Trail' /\ NoLoop'
  BY <1>1, <1>3 DEF Bundled, Trail, NoLoop
<1> QED
  BY <1>4, <1>5, <1>6

LEMMA SendIInv ==
  ASSUME IInv, NEW d \in Directions, Send(d)
  PROVE  IInv'
<1> USE MeshAssumption DEF IInv
<1>1. UNCHANGED <<plans, run, down, conv, tracked>>
  BY DEF Send
<1>2. (Bundled /\ RunsConfigured)'
  BY <1>1 DEF Bundled, RunsConfigured
<1> DEFINE new == d = "request" /\ \A g \in Sites : "reply" \notin tracked[g]
<1>3. CASE Lose(d, new)
  BY <1>1, <1>2, <1>3 DEF Lose, TypeOK, Trail, NoLoop
<1>4. ASSUME NEW g \in Sites, Enters(d, g), UNCHANGED last,
             pkt' = [dir |-> d, path |-> <<g>>, new |-> new, steady |-> TRUE]
      PROVE  IInv'
  <2>1. conv # None /\ pkt'.dir = d /\ pkt'.path = <<g>> /\ Len(pkt'.path) = 1 /\ pkt'.path[1] = g
    BY <1>4 DEF Send
  <2>2. pkt' \in [dir : Directions, path : Seq(Sites), new : BOOLEAN, steady : BOOLEAN]
    BY <1>4
  <2>3. TypeOK'
    BY <1>1, <1>4, <2>1, <2>2 DEF TypeOK, At
  <2>4. Trail'
    <3>1. /\ IF Src(d) \in Nets THEN g = Home[Src(d)] ELSE Takes(g, Src(d), Src(d))
          /\ \A i \in 1..(Len(pkt'.path) - 1) : FALSE
      BY <1>4, <2>1 DEF Enters
    <3> QED
      BY <1>1, <2>1, <3>1 DEF Trail, Takes, Up, Conf, Src
  <2>5. NoLoop'
    BY <2>1 DEF NoLoop
  <2> QED
    BY <1>2, <2>3, <2>4, <2>5
<1> QED
  BY <1>3, <1>4 DEF Send

\* A packet is relayed to a gateway that it has not passed.
LEMMA RelayIInv ==
  ASSUME IInv, NEW q \in Sites, Relay(q)
  PROVE  IInv'
<1> USE MeshAssumption DEF IInv
<1>1. UNCHANGED <<plans, run, down, conv, last>>
  BY DEF Relay
<1>2. (Bundled /\ RunsConfigured)'
  BY <1>1 DEF Bundled, RunsConfigured
<1> DEFINE n == Len(pkt.path)
           s == Src(pkt.dir)
<1>3. /\ pkt \in [dir : Directions, path : Seq(Sites), new : BOOLEAN, steady : BOOLEAN]
      /\ conv \in [src : Ends, dst : Ends, met : BOOLEAN, version : 0..Len(plans)]
      /\ n \in Nat \ {0} /\ At = pkt.path[n] /\ At \in Sites
      /\ pkt # None
  BY DEF Relay, TypeOK, At
<1>4. /\ pkt' \in [dir : Directions, path : Seq(Sites), new : BOOLEAN, steady : BOOLEAN]
      /\ pkt'.dir = pkt.dir /\ pkt'.steady = pkt.steady /\ pkt'.path = Append(pkt.path, q)
      /\ Len(pkt'.path) = n + 1 /\ pkt'.path[n + 1] = q
      /\ \A i \in 1..n : pkt'.path[i] = pkt.path[i]
  <2>1. pkt' = [pkt EXCEPT !.path = Append(pkt.path, q)]
    BY DEF Relay
  <2>2. Append(pkt.path, q) \in Seq(Sites) /\ Len(Append(pkt.path, q)) = n + 1
    BY <1>3
  <2>3. \A i \in 1..n : Append(pkt.path, q)[i] = pkt.path[i]
    BY <1>3
  <2>4. Append(pkt.path, q)[n + 1] = q
    BY <1>3
  <2>5. /\ pkt' \in [dir : Directions, path : Seq(Sites), new : BOOLEAN, steady : BOOLEAN]
        /\ pkt'.dir = pkt.dir /\ pkt'.steady = pkt.steady /\ pkt'.path = Append(pkt.path, q)
    BY <1>3, <2>1, <2>2
  <2> QED
    BY <2>1, <2>2, <2>3, <2>4, <2>5
<1>5. Takes(q, pkt.path[n], s)
  BY <1>3 DEF Relay, MovesTo
<1>6. TypeOK'
  <2>1. tracked' \in [Sites -> SUBSET Directions]
    BY <1>3 DEF Relay, Track, TypeOK
  <2>2. pkt'.path # <<>> /\ At' \in Sites
    BY <1>3, <1>4 DEF At
  <2> QED
    BY <1>1, <1>3, <1>4, <2>1, <2>2 DEF TypeOK
<1>7. SUFFICES ASSUME pkt.steady PROVE Trail' /\ NoLoop'
  BY <1>2, <1>4, <1>6 DEF Trail, NoLoop
<1>8. /\ IF s \in Nets THEN pkt.path[1] = Home[s] ELSE Takes(pkt.path[1], s, s)
      /\ \A i \in 1..(n - 1) : Takes(pkt.path[i + 1], pkt.path[i], s)
      /\ \A i, j \in 1..n : pkt.path[i] = pkt.path[j] => i = j
  BY <1>3, <1>7 DEF Trail, NoLoop, Takes
<1>9. s \in Nets \/ s \in Clients
  BY <1>3 DEF Src, Ends
<1>10. ASSUME NEW j \in 1..n, pkt.path[j] = q PROVE FALSE
  <2>1. CASE j = 1 /\ s \in Nets
    BY <1>3, <1>5, <1>8, <1>10, <2>1, OwnFromNone
  <2>2. CASE j = 1 /\ s \notin Nets
    <3>1. Takes(q, s, s)
      BY <1>8, <1>10, <2>2
    <3>2. s = pkt.path[n]
      BY <1>5, <3>1, TakesFromOne
    <3> QED
      BY <1>3, <1>9, <2>2, <3>2 DEF MeshAssumption
  <2>3. CASE j # 1
    <3>1. j - 1 \in 1..(n - 1) /\ j - 1 \in 1..n /\ (j - 1) + 1 = j /\ n \in 1..n
      BY <1>3, <2>3
    <3>2. Takes(q, pkt.path[j - 1], s)
      BY <1>8, <1>10, <3>1
    <3>3. pkt.path[j - 1] = pkt.path[n]
      BY <1>5, <3>2, TakesFromOne
    <3>4. j - 1 = n
      BY <1>8, <3>1, <3>3
    <3> QED
      BY <1>3, <3>4
  <2> QED
    BY <2>1, <2>2, <2>3
<1>11. NoLoop'
  <2> SUFFICES ASSUME NEW i \in 1..(n + 1), NEW j \in 1..(n + 1), pkt'.path[i] = pkt'.path[j]
               PROVE  i = j
    BY <1>4 DEF NoLoop
  <2>1. i \in 1..n \/ i = n + 1
    BY <1>3
  <2>2. j \in 1..n \/ j = n + 1
    BY <1>3
  <2> QED
    BY <1>4, <1>8, <1>10, <2>1, <2>2
<1>12. Trail'
  <2>1. \A i \in 1..n : Takes(pkt'.path[i + 1], pkt'.path[i], s)
    <3> SUFFICES ASSUME NEW i \in 1..n PROVE Takes(pkt'.path[i + 1], pkt'.path[i], s)
      OBVIOUS
    <3>1. CASE i = n
      BY <1>4, <1>5, <3>1
    <3>2. CASE i # n
      BY <1>3, <1>4, <1>8, <3>2
    <3> QED
      BY <3>1, <3>2
  <2>2. IF s \in Nets THEN pkt'.path[1] = Home[s] ELSE Takes(pkt'.path[1], s, s)
    BY <1>3, <1>4, <1>8
  <2>3. pkt'.dir = pkt.dir /\ Len(pkt'.path) - 1 = n
    BY <1>3, <1>4
  <2> QED
    BY <1>1, <2>1, <2>2, <2>3 DEF Trail, Src, Takes, Up, Conf
<1> QED
  BY <1>11, <1>12

\* A packet that is gone leaves nothing to show.
LEMMA GoneIInv ==
  ASSUME IInv, Deliver \/ Drop \/ DropInvalid
  PROVE  IInv'
<1> USE MeshAssumption DEF IInv
<1>1. pkt' = None /\ UNCHANGED <<plans, run, down>>
  BY DEF Deliver, Drop, DropInvalid, Lose
<1>2. conv # None /\ pkt # None /\ At \in Sites
  BY DEF TypeOK, Deliver, Drop, DropInvalid
<1>3. conv' \in [src : Ends, dst : Ends, met : BOOLEAN, version : 0..Len(plans)]
  <2>1. conv' = conv \/ conv' = [conv EXCEPT !.met = TRUE]
    BY DEF Deliver, Drop, DropInvalid
  <2>2. conv \in [src : Ends, dst : Ends, met : BOOLEAN, version : 0..Len(plans)]
    BY <1>2 DEF TypeOK
  <2>3. [conv EXCEPT !.met = TRUE] \in [src : Ends, dst : Ends, met : BOOLEAN, version : 0..Len(plans)]
    BY <2>2
  <2> QED
    BY <2>1, <2>2, <2>3
<1>4. tracked' \in [Sites -> SUBSET Directions]
  <2>1. tracked' = tracked \/ tracked' = [tracked EXCEPT ![At] = tracked[At] \union {pkt.dir}]
    BY DEF Deliver, Drop, DropInvalid, Track
  <2>2. tracked[At] \union {pkt.dir} \in SUBSET Directions /\ tracked \in [Sites -> SUBSET Directions]
    BY <1>2 DEF TypeOK
  <2> QED
    BY <1>2, <2>1, <2>2
<1>5. last' \in [dir : Directions, fate : {"delivered", "lost"}, new : BOOLEAN]
  BY <1>2 DEF TypeOK, Deliver, Drop, DropInvalid, Lose
<1>6. TypeOK'
  BY <1>1, <1>3, <1>4, <1>5 DEF TypeOK
<1> QED
  BY <1>1, <1>6 DEF Bundled, RunsConfigured, Trail, NoLoop

LEMMA NextIInv == IInv /\ [Next]_vars => IInv'
<1> SUFFICES ASSUME IInv, [Next]_vars PROVE IInv'
  OBVIOUS
<1>1. ASSUME NEW g \in Sites, Stop(g) PROVE IInv'
  <2>1. pkt = None
    BY <1>1 DEF IInv, TypeOK, Stop
  <2> QED
    BY <1>1, <2>1 DEF IInv, TypeOK, Bundled, RunsConfigured, Trail, NoLoop, Stop
<1>2. ASSUME NEW src \in Ends, NEW dst \in Ends, Begin(src, dst) PROVE IInv'
  <2>1. pkt = None /\ Len(plans) \in Nat
    BY <1>2 DEF IInv, TypeOK, Bundled, Begin
  <2>2. conv' \in [src : Ends, dst : Ends, met : BOOLEAN, version : 0..Len(plans)]
    BY <1>2, <2>1 DEF Begin
  <2> QED
    BY <1>2, <2>1, <2>2 DEF IInv, TypeOK, Bundled, RunsConfigured, Trail, NoLoop, Begin
<1>3. CASE UNCHANGED vars
  BY <1>3 DEF IInv, TypeOK, Bundled, RunsConfigured, Trail, NoLoop, vars, At, Src, Takes, Up, Conf
<1> QED
  BY <1>1, <1>2, <1>3, EditIInv, ApplyIInv, SendIInv, RelayIInv, GoneIInv DEF Next

---------------------------------------------------------------------------
(* The theorems that hold while versions are mixed *)

LEMMA Inductive == Spec => []IInv
  BY InitIInv, NextIInv, PTL DEF Spec

\* Every variable keeps to its type, and a packet on its way is always at a
\* gateway of some conversation (Mesh, all actions).
THEOREM TypeCorrect == Spec => []TypeOK
<1>1. IInv => TypeOK
  BY DEF IInv
<1> QED
  BY <1>1, Inductive, PTL

\* Whatever versions of whatever plans the gateways run, on none of them is a
\* prefix listed by two peers (src/core/topology.ts, generate/wireguard.ts).
THEOREM OnePeerAlways == Spec => []OnePeerPerPrefix
<1>1. IInv => OnePeerPerPrefix
  BY MeshAssumption, RunningOnePeer DEF IInv
<1> QED
  BY <1>1, Inductive, PTL

\* Gateways that run different versions of the plan, or one that is half
\* rolled out, never pass a packet around: it enters no gateway twice.
THEOREM NoLoopAlways == Spec => []NoLoop
<1>1. IInv => NoLoop
  BY DEF IInv
<1> QED
  BY <1>1, Inductive, PTL

---------------------------------------------------------------------------
(* The way the plan has for a packet *)

Lists(S, g, p, x) == p \in Peers(S, g) /\ x \in AllowedIps(S, g, p)
ClientLists(S, c, e, x) == e \in ClientEntrySites(S, c) /\ x \in ClientAllowedIps(S, c, e)

\* The gateways it passes from one end to the other.
Way(S, a, b) ==
    LET s == Home[a]
        t == Home[b]
    IN  IF a \in Nets /\ b \in Nets
        THEN IF ArePeered(S, s, t) THEN <<s, t>> ELSE <<s, FirstHub(S), t>>
        ELSE IF a \in Nets
        THEN IF IsReachable(S, s) THEN <<s>> ELSE <<s, ClientRelaySite(S, b)>>
        ELSE IF IsReachable(S, t) THEN <<t>> ELSE <<ClientRelaySite(S, a), t>>

OnWay(S, a, b) == {Way(S, a, b)[i] : i \in 1..Len(Way(S, a, b))}

\* The configurations along w send a packet from a to b from each gateway to
\* the next, which takes it, and nowhere else.
Carries(S, w, a, b) ==
    /\ Len(w) \in 1..3 /\ \A i \in 1..Len(w) : w[i] \in MeshSites(S)
    /\ \A g \in Sites : (IF a \in Nets THEN g = Home[a]
                         ELSE ClientLists(S, a, g, b) /\ Lists(S, g, a, a))
                         <=> g = w[1]
    /\ \A i \in 1..(Len(w) - 1) :
         /\ b \in Nets => Home[b] # w[i]
         /\ \A p : Lists(S, w[i], p, b) <=> p = w[i + 1]
         /\ Lists(S, w[i + 1], w[i], a)
    /\ IF b \in Nets THEN Home[b] = w[Len(w)]
       ELSE Lists(S, w[Len(w)], b, b) /\ ClientLists(S, b, w[Len(w)], a)

\* And the forward chains along w let it pass though it belongs to no connection.
Admits(S, w, a, b) ==
    \A i \in 1..Len(w) :
        Accepts(S, w[i], IF i = 1 /\ a \in Nets THEN "lan" ELSE "wg",
                IF b \in Nets /\ Home[b] = w[i] THEN "lan" ELSE "wg", a, b)

LEMMA LeastNumber ==
  ASSUME NEW T \in SUBSET Nat, T # {}
  PROVE  \E n \in T : \A m \in T : n <= m
<1>1. \E n \in T : \A m \in T : <<m, n>> \notin OpToRel(<, Nat)
  BY NatLessThanWellFounded, WFMin
<1>2. PICK n \in T : \A m \in T : <<m, n>> \notin OpToRel(<, Nat)
  BY <1>1
<1>3. \A m \in T : ~(m < n)
  BY <1>2 DEF OpToRel
<1> QED
  BY <1>3

\* Where there are hubs, there is a first one.
LEMMA FirstOfHubs ==
  ASSUME NEW S \in Snapshot, Hubs(S) # {}
  PROVE  FirstHub(S) \in Hubs(S)
<1> DEFINE T == {S.priority[h] : h \in Hubs(S)}
<1>1. T \in SUBSET Nat /\ T # {}
  BY DEF Snapshot, Hubs
<1>2. PICK n \in T : \A m \in T : n <= m
  BY <1>1, LeastNumber
<1>3. \E h \in Hubs(S) : \A k \in Hubs(S) : S.priority[h] <= S.priority[k]
  BY <1>2
<1> QED
  BY <1>3 DEF FirstHub

LEMMA HubFacts ==
  ASSUME MeshAssumption, NEW S \in Snapshot
  PROVE  /\ Hubs(S) \subseteq MeshSites(S) /\ MeshSites(S) \subseteq Sites
         /\ None \notin Sites
         /\ FirstHub(S) # None => Hubs(S) # {}
         /\ Hubs(S) # {} => FirstHub(S) \in Hubs(S) /\
              \A c \in Clients : ClientRelaySite(S, c) \in Hubs(S)
         /\ \A c \in Clients : ClientRelaySite(S, c) # None => Hubs(S) # {}
         /\ \A s \in Sites : IsReachable(S, s) <=> s \in Hubs(S)
         /\ \A h \in Hubs(S) : \A s \in MeshSites(S) : s # h => ArePeered(S, s, h) /\
              ArePeered(S, h, s)
<1>1. Hubs(S) \subseteq MeshSites(S) /\ MeshSites(S) \subseteq Sites
  BY DEF Hubs, MeshSites, IsReachable
<1>2. None \notin Sites
  BY DEF MeshAssumption
<1>3. Hubs(S) # {} => FirstHub(S) \in Hubs(S) /\
        \A c \in Clients : ClientRelaySite(S, c) \in Hubs(S)
  BY FirstOfHubs DEF ClientRelaySite
<1>4. FirstHub(S) # None => Hubs(S) # {}
  BY DEF FirstHub
<1>5. \A c \in Clients : ClientRelaySite(S, c) # None => Hubs(S) # {}
  BY <1>4 DEF ClientRelaySite
<1>6. \A s \in Sites : IsReachable(S, s) <=> s \in Hubs(S)
  BY DEF Hubs
<1>7. \A h \in Hubs(S) : \A s \in MeshSites(S) : s # h => ArePeered(S, s, h) /\ ArePeered(S, h, s)
  BY <1>1 DEF ArePeered
<1> QED
  BY <1>1, <1>2, <1>3, <1>4, <1>5, <1>6, <1>7

\* A shared network elsewhere is listed on the next hop to its site, and on it only.
LEMMA NetListed ==
  ASSUME MeshAssumption, NEW S \in Snapshot, NEW g \in MeshSites(S), NEW n \in S.shared, NEW p,
         Home[n] \in MeshSites(S), Home[n] # g, Hubs(S) # {}
  PROVE  Lists(S, g, p, n) <=> p = NextHop(S, g, Home[n])
<1> DEFINE t == Home[n]
           q == NextHop(S, g, t)
<1>1. n \in Nets /\ t \in Sites /\ g \in Sites /\ n \in SharedNets(S, t)
  BY DEF Snapshot, MeshAssumption, MeshSites, SharedNets
<1>2. ArePeered(S, g, q) /\ q \in Sites
  <2>1. CASE ArePeered(S, g, t)
    BY <1>1, <2>1 DEF NextHop
  <2>2. CASE ~ArePeered(S, g, t)
    <3>1. q = FirstHub(S) /\ q \in Hubs(S)
      BY <2>2, HubFacts DEF NextHop
    <3>2. g \notin Hubs(S)
      BY <1>1, <2>2, HubFacts
    <3> QED
      BY <1>1, <3>1, <3>2, HubFacts
  <2> QED
    BY <2>1, <2>2
<1>3. q \in Peers(S, g) /\ q \notin Clients
  BY <1>2 DEF Peers, MeshAssumption
<1>4. n \in AllowedIps(S, g, q)
  <2>1. t \in {q} \union TransitDestinationsVia(S, g, q)
    BY DEF TransitDestinationsVia
  <2> QED
    BY <1>1, <1>3, <2>1 DEF AllowedIps, GatewayPeerAllowedIps
<1>5. Lists(S, g, q, n)
  BY <1>3, <1>4 DEF Lists
<1>6. Lists(S, g, p, n) => p = q
  BY <1>1, <1>5, OnePeer DEF Lists
<1> QED
  BY <1>5, <1>6

\* And a client's address on its route.
LEMMA ClientListed ==
  ASSUME MeshAssumption, NEW S \in Snapshot, NEW g \in MeshSites(S),
           NEW c \in ActiveClients(S), NEW p,
         ClientRouteFrom(S, g, c) # None
  PROVE  Lists(S, g, p, c) <=> p = ClientRouteFrom(S, g, c)
<1> DEFINE q == ClientRouteFrom(S, g, c)
<1>1. c \in Clients /\ g \in Sites /\ c \notin Sites
  BY DEF ActiveClients, MeshSites, MeshAssumption
<1>2. Lists(S, g, q, c)
  <2>1. CASE g \in ClientEntrySites(S, c)
    <3>1. q = c
      BY <2>1 DEF ClientRouteFrom
    <3> QED
      BY <1>1, <2>1, <3>1 DEF Lists, Peers, AllowedIps
  <2>2. CASE g \notin ClientEntrySites(S, c)
    <3>1. q = ClientRelaySite(S, c) /\ g \notin Hubs(S)
      BY <1>1, <2>2 DEF ClientRouteFrom, Hubs
    <3>2. q \in Hubs(S)
      BY <1>1, <3>1, HubFacts
    <3>3. ArePeered(S, g, q) /\ q \in Sites /\ q \notin Clients
      BY <3>1, <3>2, HubFacts DEF MeshAssumption
    <3> QED
      BY <1>1, <3>3 DEF Lists, Peers, AllowedIps, GatewayPeerAllowedIps
  <2> QED
    BY <2>1, <2>2
<1>3. Lists(S, g, p, c) => p = q
  BY <1>1, <1>2, OnePeer DEF Lists
<1> QED
  BY <1>2, <1>3

\* What a client's file lists: a network on the site it is in if that can be
\* dialled, otherwise on the client's relay.
LEMMA ClientFile ==
  ASSUME MeshAssumption, NEW S \in Snapshot, NEW c \in Clients, NEW n, ClientPath(S, c, n),
         NEW e \in Sites
  PROVE  ClientLists(S, c, e, n)
           <=> e = IF IsReachable(S, Home[n]) THEN Home[n] ELSE ClientRelaySite(S, c)
<1> DEFINE t == Home[n]
<1>1. n \in Nets /\ t \in MeshSites(S) /\ Hubs(S) # {} /\ ClientAllows(S, c, t) /\
        n \in SharedNets(S, t)
      /\ t \in Sites
  BY DEF ClientPath, Snapshot, SharedNets, MeshSites
<1>2. ClientRelaySite(S, c) \in Hubs(S)
  BY <1>1, HubFacts
<1>3. t \in ClientCarriedByEntry(S, c, e)
        <=> e = IF IsReachable(S, t) THEN t ELSE ClientRelaySite(S, c)
  BY <1>1, <1>2, HubFacts DEF ClientCarriedByEntry
<1>4. n \in ClientAllowedIps(S, c, e) <=> t \in ClientCarriedByEntry(S, c, e)
  <2>1. ASSUME NEW s \in ClientCarriedByEntry(S, c, e), n \in {s} \union SharedNets(S, s)
        PROVE  s = t
    <3>1. s \in Sites
      BY DEF ClientCarriedByEntry, MeshSites
    <3> QED
      BY <1>1, <2>1, <3>1 DEF SharedNets, MeshAssumption
  <2> QED
    BY <1>1, <2>1 DEF ClientAllowedIps
<1>5. t \in ClientCarriedByEntry(S, c, e) => e \in ClientEntrySites(S, c)
  BY DEF ClientEntrySites, ClientCarriedByEntry
<1> QED
  BY <1>3, <1>4, <1>5 DEF ClientLists

\* On the way to and from it, the client is routed to itself where it enters and
\* to its relay where it does not.
LEMMA ClientRoutes ==
  ASSUME MeshAssumption, NEW S \in Snapshot, NEW c \in Clients, NEW n, ClientPath(S, c, n),
         NEW e, e = IF IsReachable(S, Home[n]) THEN Home[n] ELSE ClientRelaySite(S, c)
  PROVE  /\ c \in ActiveClients(S) /\ e \in Hubs(S) /\ e \in ClientEntrySites(S, c)
         /\ ClientRouteFrom(S, e, c) = c
         /\ Home[n] # e => ClientRouteFrom(S, Home[n], c) = e /\ e = ClientRelaySite(S, c)
                           /\ Home[n] \in ClientTransitViaHub(S, e, c) /\ Home[n] \notin Hubs(S)
<1> DEFINE t == Home[n]
<1>1. n \in Nets /\ t \in MeshSites(S) /\ Hubs(S) # {} /\ ClientAllows(S, c, t) /\ t \in Sites
      /\ c \in ActiveClients(S)
  BY DEF ClientPath, Snapshot, MeshSites, ActiveClients
<1>2. ClientRelaySite(S, c) \in Hubs(S) /\ (IsReachable(S, t) <=> t \in Hubs(S))
  BY <1>1, HubFacts
<1>3. e \in Hubs(S) /\ e \in Sites
  BY <1>1, <1>2, HubFacts
<1>4. t \in ClientCarriedByEntry(S, c, e)
  BY <1>1, <1>2, <1>3 DEF ClientCarriedByEntry
<1>5. e \in ClientEntrySites(S, c) /\ ClientRouteFrom(S, e, c) = c
  BY <1>3, <1>4 DEF ClientEntrySites, ClientRouteFrom
<1>6. ASSUME t # e PROVE /\ ClientRouteFrom(S, t, c) = e /\ e = ClientRelaySite(S, c)
                         /\ t \in ClientTransitViaHub(S, e, c) /\ t \notin Hubs(S)
  <2>1. ~IsReachable(S, t) /\ e = ClientRelaySite(S, c) /\ t \notin Hubs(S)
    BY <1>2, <1>6
  <2>2. t \notin ClientEntrySites(S, c)
    BY <2>1 DEF ClientEntrySites
  <2> QED
    BY <1>1, <1>4, <1>6, <2>1, <2>2 DEF ClientRouteFrom, ClientTransitViaHub
<1> QED
  BY <1>1, <1>3, <1>5, <1>6

LEMMA ClientGatewayFile ==
  ASSUME MeshAssumption, NEW S \in Snapshot, NEW c \in ActiveClients(S),
           NEW e \in ClientEntrySites(S, c)
  PROVE  Lists(S, e, c, c)
  BY DEF Lists, Peers, AllowedIps, ActiveClients

LEMMA Short ==
  ASSUME NEW x, NEW y, NEW z
  PROVE  /\ Len(<<x>>) = 1 /\ <<x>>[1] = x
         /\ Len(<<x, y>>) = 2 /\ <<x, y>>[1] = x /\ <<x, y>>[2] = y
         /\ Len(<<x, y, z>>) = 3 /\ <<x, y, z>>[1] = x /\ <<x, y, z>>[2] = y /\ <<x, y, z>>[3] = z
  OBVIOUS

Connected(S, a, b) == Permitted(S, a, b) \/ Permitted(S, b, a)

\* What is permitted, the other way round, is a path between two networks, or
\* one between a client and a network.
LEMMA ThreeKinds ==
  ASSUME MeshAssumption, NEW S \in Snapshot, NEW a \in Ends, NEW b \in Ends, Connected(S, a, b)
  PROVE  \/ a \in Nets /\ b \in Nets /\ {a, b} \subseteq S.shared /\ HasPath(S, Home[a], Home[b])
         \/ a \in Clients /\ b \in Nets /\ ClientPath(S, a, b)
         \/ a \in Nets /\ b \in Clients /\ ClientPath(S, b, a)
<1>1. a \in Nets \/ a \in Clients
  BY DEF Ends
<1>2. b \in Nets \/ b \in Clients
  BY DEF Ends
<1>3. Nets \intersect Clients = {}
  BY DEF MeshAssumption
<1>4. ASSUME NEW c, NEW n, ClientPath(S, c, n) PROVE n \in Nets
  BY <1>4 DEF ClientPath, Snapshot
<1>5. HasPath(S, Home[b], Home[a]) => HasPath(S, Home[a], Home[b])
  BY DEF HasPath
<1> QED
  BY <1>1, <1>2, <1>3, <1>4, <1>5 DEF Connected, Permitted

LEMMA WayCarriesNets ==
  ASSUME MeshAssumption, NEW S \in Snapshot, NEW a \in Nets, NEW b \in Nets,
         {a, b} \subseteq S.shared, HasPath(S, Home[a], Home[b])
  PROVE  Carries(S, Way(S, a, b), a, b)
<1> DEFINE s == Home[a]
           t == Home[b]
           h == FirstHub(S)
           w == Way(S, a, b)
<1>1. s \in MeshSites(S) /\ t \in MeshSites(S) /\ s # t /\ Hubs(S) # {} /\ s \in Sites /\
        t \in Sites
  BY DEF HasPath, MeshSites
<1>2. h \in Hubs(S) /\ h \in MeshSites(S) /\ h \in Sites
  BY <1>1, HubFacts
<1>3. ArePeered(S, s, t) <=> ArePeered(S, t, s)
  BY DEF ArePeered
<1>4. CASE ArePeered(S, s, t)
  <2>1. w = <<s, t>>
    BY <1>4 DEF Way
  <2>2. NextHop(S, s, t) = t /\ NextHop(S, t, s) = s
    BY <1>3, <1>4 DEF NextHop
  <2>3. \A p : Lists(S, s, p, b) <=> p = t
    BY <1>1, <2>2, NetListed
  <2>4. Lists(S, t, s, a)
    BY <1>1, <2>2, NetListed
  <2>5. Len(w) = 2 /\ w[1] = s /\ w[2] = t
    BY <2>1, Short
  <2> HIDE DEF w, s, t
  <2>6. \A i \in 1..Len(w) : i = 1 \/ i = 2
    BY <2>5
  <2>7. \A i \in 1..(Len(w) - 1) : i = 1 /\ i + 1 = 2
    BY <2>5
  <2>8. /\ Len(w) \in 1..3 /\ \A i \in 1..Len(w) : w[i] \in MeshSites(S)
        /\ \A i \in 1..(Len(w) - 1) : t # w[i] /\ (\A p : Lists(S, w[i], p, b) <=> p = w[i + 1])
                                      /\ Lists(S, w[i + 1], w[i], a)
    BY <1>1, <2>3, <2>4, <2>5, <2>6, <2>7
  <2> QED
    BY <2>5, <2>8 DEF Carries, w, s, t
<1>5. CASE ~ArePeered(S, s, t)
  <2>1. w = <<s, h, t>>
    BY <1>5 DEF Way
  <2>2. s # h /\ t # h
    BY <1>1, <1>2, <1>3, <1>5, HubFacts
  <2>3. ArePeered(S, s, h) /\ ArePeered(S, h, s) /\ ArePeered(S, h, t) /\ ArePeered(S, t, h)
    BY <1>1, <1>2, <2>2, HubFacts
  <2>4. NextHop(S, s, t) = h /\ NextHop(S, h, t) = t /\ NextHop(S, h, s) = s /\
          NextHop(S, t, s) = h
    BY <1>3, <1>5, <2>3 DEF NextHop
  <2>5. (\A p : Lists(S, s, p, b) <=> p = h) /\ (\A p : Lists(S, h, p, b) <=> p = t)
    BY <1>1, <1>2, <2>2, <2>4, NetListed
  <2>6. Lists(S, h, s, a) /\ Lists(S, t, h, a)
    BY <1>1, <1>2, <2>2, <2>4, NetListed
  <2>7. Len(w) = 3 /\ w[1] = s /\ w[2] = h /\ w[3] = t
    BY <2>1, Short
  <2> HIDE DEF w, s, t, h
  <2>8. \A i \in 1..Len(w) : i = 1 \/ i = 2 \/ i = 3
    BY <2>7
  <2>9. \A i \in 1..(Len(w) - 1) : (i = 1 /\ i + 1 = 2) \/ (i = 2 /\ i + 1 = 3)
    BY <2>7
  <2>10. /\ Len(w) \in 1..3 /\ \A i \in 1..Len(w) : w[i] \in MeshSites(S)
         /\ \A i \in 1..(Len(w) - 1) : t # w[i] /\ (\A p : Lists(S, w[i], p, b) <=> p = w[i + 1])
                                       /\ Lists(S, w[i + 1], w[i], a)
    BY <1>1, <1>2, <2>2, <2>5, <2>6, <2>7, <2>8, <2>9
  <2> QED
    BY <2>7, <2>10 DEF Carries, w, s, t
<1> QED
  BY <1>4, <1>5

LEMMA WayCarriesFromClient ==
  ASSUME MeshAssumption, NEW S \in Snapshot, NEW a \in Clients, NEW b \in Nets,
           ClientPath(S, a, b)
  PROVE  Carries(S, Way(S, a, b), a, b)
<1> DEFINE t == Home[b]
           e == IF IsReachable(S, t) THEN t ELSE ClientRelaySite(S, a)
           w == Way(S, a, b)
<1>1. t \in MeshSites(S) /\ t \in Sites /\ Hubs(S) # {} /\ b \in S.shared /\ a \notin Nets
  BY DEF ClientPath, MeshSites, MeshAssumption
<1>2. /\ a \in ActiveClients(S) /\ e \in Hubs(S) /\ e \in ClientEntrySites(S, a)
      /\ t # e => ClientRouteFrom(S, t, a) = e /\ t \notin Hubs(S)
  BY ClientRoutes
<1>3. e \in MeshSites(S) /\ e \in Sites
  BY <1>2, HubFacts
<1>4. Lists(S, e, a, a)
  BY <1>2, ClientGatewayFile
<1>5. \A g \in Sites : ClientLists(S, a, g, b) <=> g = e
  BY ClientFile
<1>6. CASE t = e
  <2>1. w = <<t>>
    <3>1. IsReachable(S, t)
      BY <1>1, <1>2, <1>6, HubFacts
    <3> QED
      BY <1>1, <3>1 DEF Way
  <2>2. Len(w) = 1 /\ w[1] = t
    BY <2>1, Short
  <2> HIDE DEF w, e, t
  <2>3. \A i \in 1..Len(w) : i = 1
    BY <2>2
  <2>4. 1..(Len(w) - 1) = {}
    BY <2>2
  <2>5. Len(w) \in 1..3 /\ \A i \in 1..Len(w) : w[i] \in MeshSites(S)
    BY <1>1, <2>2, <2>3
  <2>6. \A g \in Sites : ClientLists(S, a, g, b) /\ Lists(S, g, a, a) <=> g = w[1]
    BY <1>4, <1>5, <1>6, <2>2
  <2> QED
    BY <1>1, <2>2, <2>4, <2>5, <2>6 DEF Carries, w, t
<1>7. CASE t # e
  <2>1. w = <<e, t>> /\ e = ClientRelaySite(S, a)
    BY <1>1, <1>7 DEF Way
  <2>2. Len(w) = 2 /\ w[1] = e /\ w[2] = t
    BY <2>1, Short
  <2>3. NextHop(S, e, t) = t
    BY <1>1, <1>2, <1>7, HubFacts DEF NextHop
  <2>4. \A p : Lists(S, e, p, b) <=> p = t
    BY <1>1, <1>3, <1>7, <2>3, NetListed
  <2>5. Lists(S, t, e, a)
    <3>1. e # None
      BY <1>3 DEF MeshAssumption
    <3> QED
      BY <1>1, <1>2, <1>7, <3>1, ClientListed
  <2> HIDE DEF w, e, t
  <2>6. \A i \in 1..Len(w) : i = 1 \/ i = 2
    BY <2>2
  <2>7. \A i \in 1..(Len(w) - 1) : i = 1 /\ i + 1 = 2
    BY <2>2
  <2>8. /\ Len(w) \in 1..3 /\ \A i \in 1..Len(w) : w[i] \in MeshSites(S)
        /\ \A i \in 1..(Len(w) - 1) : t # w[i] /\ (\A p : Lists(S, w[i], p, b) <=> p = w[i + 1])
                                      /\ Lists(S, w[i + 1], w[i], a)
    BY <1>1, <1>3, <1>7, <2>2, <2>4, <2>5, <2>6, <2>7
  <2>9. \A g \in Sites : ClientLists(S, a, g, b) /\ Lists(S, g, a, a) <=> g = w[1]
    BY <1>4, <1>5, <2>2
  <2> QED
    BY <1>1, <2>2, <2>8, <2>9 DEF Carries, w, t
<1> QED
  BY <1>6, <1>7

LEMMA WayCarriesToClient ==
  ASSUME MeshAssumption, NEW S \in Snapshot, NEW a \in Nets, NEW b \in Clients,
           ClientPath(S, b, a)
  PROVE  Carries(S, Way(S, a, b), a, b)
<1> DEFINE s == Home[a]
           e == IF IsReachable(S, s) THEN s ELSE ClientRelaySite(S, b)
           w == Way(S, a, b)
<1>1. s \in MeshSites(S) /\ s \in Sites /\ Hubs(S) # {} /\ a \in S.shared /\ b \notin Nets
  BY DEF ClientPath, MeshSites, MeshAssumption
<1>2. /\ b \in ActiveClients(S) /\ e \in Hubs(S) /\ e \in ClientEntrySites(S, b)
      /\ s # e => ClientRouteFrom(S, s, b) = e /\ s \notin Hubs(S)
  BY ClientRoutes
<1>3. e \in MeshSites(S) /\ e \in Sites
  BY <1>2, HubFacts
<1>4. Lists(S, e, b, b) /\ ClientLists(S, b, e, a)
  BY <1>2, <1>3, ClientGatewayFile, ClientFile
<1>5. CASE s = e
  <2>1. w = <<s>>
    <3>1. IsReachable(S, s)
      BY <1>1, <1>2, <1>5, HubFacts
    <3> QED
      BY <1>1, <3>1 DEF Way
  <2>2. Len(w) = 1 /\ w[1] = s
    BY <2>1, Short
  <2> HIDE DEF w, e, s
  <2>3. \A i \in 1..Len(w) : i = 1
    BY <2>2
  <2>4. 1..(Len(w) - 1) = {}
    BY <2>2
  <2>5. Len(w) \in 1..3 /\ \A i \in 1..Len(w) : w[i] \in MeshSites(S)
    BY <1>1, <2>2, <2>3
  <2>6. Lists(S, w[Len(w)], b, b) /\ ClientLists(S, b, w[Len(w)], a)
    BY <1>4, <1>5, <2>2
  <2> QED
    BY <1>1, <2>2, <2>4, <2>5, <2>6 DEF Carries, w, s
<1>6. CASE s # e
  <2>1. w = <<s, e>> /\ e = ClientRelaySite(S, b)
    BY <1>1, <1>6 DEF Way
  <2>2. Len(w) = 2 /\ w[1] = s /\ w[2] = e
    BY <2>1, Short
  <2>3. NextHop(S, e, s) = s
    BY <1>1, <1>2, <1>6, HubFacts DEF NextHop
  <2>4. Lists(S, e, s, a)
    BY <1>1, <1>3, <1>6, <2>3, NetListed
  <2>5. \A p : Lists(S, s, p, b) <=> p = e
    <3>1. e # None
      BY <1>3 DEF MeshAssumption
    <3> QED
      BY <1>1, <1>2, <1>6, <3>1, ClientListed
  <2> HIDE DEF w, e, s
  <2>6. \A i \in 1..Len(w) : i = 1 \/ i = 2
    BY <2>2
  <2>7. \A i \in 1..(Len(w) - 1) : i = 1 /\ i + 1 = 2
    BY <2>2
  <2>8. /\ Len(w) \in 1..3 /\ \A i \in 1..Len(w) : w[i] \in MeshSites(S)
        /\ \A i \in 1..(Len(w) - 1) : (\A p : Lists(S, w[i], p, b) <=> p = w[i + 1])
                                      /\ Lists(S, w[i + 1], w[i], a)
    BY <1>1, <1>3, <2>2, <2>4, <2>5, <2>6, <2>7
  <2>9. Lists(S, w[Len(w)], b, b) /\ ClientLists(S, b, w[Len(w)], a)
    BY <1>4, <2>2
  <2> QED
    BY <1>1, <2>2, <2>8, <2>9 DEF Carries, w, s
<1> QED
  BY <1>5, <1>6

LEMMA WayCarries ==
  ASSUME MeshAssumption, NEW S \in Snapshot, NEW a \in Ends, NEW b \in Ends, Connected(S, a, b)
  PROVE  Carries(S, Way(S, a, b), a, b)
  BY ThreeKinds, WayCarriesNets, WayCarriesFromClient, WayCarriesToClient

\* The way back passes the same gateways.
LEMMA WayBack ==
  ASSUME MeshAssumption, NEW S \in Snapshot, NEW a \in Ends, NEW b \in Ends, Connected(S, a, b)
  PROVE  OnWay(S, b, a) = OnWay(S, a, b)
<1> DEFINE s == Home[a]
           t == Home[b]
<1>0. Nets \intersect Clients = {}
  BY DEF MeshAssumption
<1>1. ASSUME NEW x PROVE {<<x>>[i] : i \in 1..Len(<<x>>)} = {x}
  OBVIOUS
<1>2. ASSUME NEW x, NEW y PROVE {<<x, y>>[i] : i \in 1..Len(<<x, y>>)} = {x, y}
  <2>1. 1..Len(<<x, y>>) = {1, 2}
    OBVIOUS
  <2> QED
    BY <2>1
<1>3. ASSUME NEW x, NEW y, NEW z PROVE {<<x, y, z>>[i] : i \in 1..Len(<<x, y, z>>)} = {x, y, z}
  <2>1. 1..Len(<<x, y, z>>) = {1, 2, 3}
    OBVIOUS
  <2> QED
    BY <2>1
<1>4. CASE a \in Nets /\ b \in Nets
  <2>1. ArePeered(S, s, t) <=> ArePeered(S, t, s)
    BY DEF ArePeered
  <2>2. CASE ArePeered(S, s, t)
    BY <1>2, <1>4, <2>1, <2>2 DEF OnWay, Way
  <2>3. CASE ~ArePeered(S, s, t)
    <3>1. OnWay(S, a, b) = {s, FirstHub(S), t}
      BY <1>3, <1>4, <2>3 DEF OnWay, Way
    <3>2. OnWay(S, b, a) = {t, FirstHub(S), s}
      BY <1>3, <1>4, <2>1, <2>3 DEF OnWay, Way
    <3> QED
      BY <3>1, <3>2
  <2> QED
    BY <2>2, <2>3
<1>5. CASE a \in Clients /\ b \in Nets
  <2>1. CASE IsReachable(S, t)
    BY <1>0, <1>5, <2>1 DEF OnWay, Way
  <2>2. CASE ~IsReachable(S, t)
    <3>1. OnWay(S, a, b) = {ClientRelaySite(S, a), t}
      BY <1>0, <1>2, <1>5, <2>2 DEF OnWay, Way
    <3>2. OnWay(S, b, a) = {t, ClientRelaySite(S, a)}
      BY <1>0, <1>2, <1>5, <2>2 DEF OnWay, Way
    <3> QED
      BY <3>1, <3>2
  <2> QED
    BY <2>1, <2>2
<1>6. CASE a \in Nets /\ b \in Clients
  <2>1. CASE IsReachable(S, s)
    BY <1>0, <1>6, <2>1 DEF OnWay, Way
  <2>2. CASE ~IsReachable(S, s)
    <3>1. OnWay(S, a, b) = {s, ClientRelaySite(S, b)}
      BY <1>0, <1>2, <1>6, <2>2 DEF OnWay, Way
    <3>2. OnWay(S, b, a) = {ClientRelaySite(S, b), s}
      BY <1>0, <1>2, <1>6, <2>2 DEF OnWay, Way
    <3> QED
      BY <3>1, <3>2
  <2> QED
    BY <2>1, <2>2
<1> QED
  BY <1>4, <1>5, <1>6, ThreeKinds

\* The forward chains on the way let in what is permitted.
LEMMA WayAdmitsNets ==
  ASSUME MeshAssumption, NEW S \in Snapshot, NEW a \in Nets, NEW b \in Nets,
         {a, b} \subseteq S.shared, HasPath(S, Home[a], Home[b])
  PROVE  Admits(S, Way(S, a, b), a, b)
<1> DEFINE s == Home[a]
           t == Home[b]
           h == FirstHub(S)
           w == Way(S, a, b)
<1>1. /\ s \in MeshSites(S) /\ t \in MeshSites(S) /\ s # t /\ Hubs(S) # {} /\
           s \in Sites /\ t \in Sites
      /\ a \in SharedNets(S, s) /\ b \in SharedNets(S, t) /\ b \notin Clients
  BY DEF HasPath, MeshSites, SharedNets, MeshAssumption
<1>2. h \in Hubs(S) /\ h \in MeshSites(S) /\ h \in Sites /\ h # None
  BY <1>1, HubFacts
<1>3. NextHop(S, s, t) # None /\ NextHop(S, t, s) # None
  BY <1>1, <1>2, HubFacts DEF NextHop
<1>4. t \in ReachableSitesFrom(S, s) /\ s \in ReachableSitesFrom(S, t)
  BY <1>1, <1>3 DEF ReachableSitesFrom
<1>5. Accepts(S, s, "lan", "wg", a, b) /\ Accepts(S, t, "wg", "lan", a, b)
  BY <1>1, <1>4 DEF Accepts, SiteRule
<1>6. ArePeered(S, s, t) <=> ArePeered(S, t, s)
  BY DEF ArePeered
<1>7. CASE ArePeered(S, s, t)
  <2>1. w = <<s, t>>
    BY <1>7 DEF Way
  <2>2. Len(w) = 2 /\ w[1] = s /\ w[2] = t
    BY <2>1, Short
  <2> HIDE DEF w, s, t
  <2>3. \A i \in 1..Len(w) : i = 1 \/ i = 2
    BY <2>2
  <2> QED
    BY <1>1, <1>5, <2>2, <2>3 DEF Admits, w, t
<1>8. CASE ~ArePeered(S, s, t)
  <2>1. w = <<s, h, t>>
    BY <1>8 DEF Way
  <2>2. s # h /\ t # h
    BY <1>1, <1>2, <1>6, <1>8, HubFacts
  <2>3. <<s, t>> \in RelayedPairs(S, h)
    BY <1>1, <1>8 DEF RelayedPairs
  <2>4. Accepts(S, h, "wg", "wg", a, b)
    <3>1. RelayRule(S, h, "wg", "wg", a, b)
      BY <1>1, <2>3 DEF RelayRule
    <3> QED
      BY <1>1, <3>1 DEF Accepts
  <2>5. Len(w) = 3 /\ w[1] = s /\ w[2] = h /\ w[3] = t
    BY <2>1, Short
  <2> HIDE DEF w, s, t, h
  <2>6. \A i \in 1..Len(w) : i = 1 \/ i = 2 \/ i = 3
    BY <2>5
  <2> QED
    BY <1>1, <1>5, <2>2, <2>4, <2>5, <2>6 DEF Admits, w, t
<1> QED
  BY <1>7, <1>8

LEMMA WayAdmitsFromClient ==
  ASSUME MeshAssumption, NEW S \in Snapshot, NEW a \in Clients, NEW b \in Nets,
           ClientPath(S, a, b)
  PROVE  Admits(S, Way(S, a, b), a, b)
<1> DEFINE t == Home[b]
           e == IF IsReachable(S, t) THEN t ELSE ClientRelaySite(S, a)
           w == Way(S, a, b)
<1>1. /\ t \in MeshSites(S) /\ t \in Sites /\ Hubs(S) # {} /\ b \in SharedNets(S, t) /\
           ClientAllows(S, a, t)
      /\ a \notin Nets /\ b \notin Clients
  BY DEF ClientPath, MeshSites, MeshAssumption, SharedNets
<1>2. /\ a \in ActiveClients(S) /\ e \in Hubs(S) /\ ClientRouteFrom(S, e, a) = a
      /\ t # e => /\ ClientRouteFrom(S, t, a) = e /\ t \notin Hubs(S)
                  /\ t \in ClientTransitViaHub(S, e, a)
  BY ClientRoutes
<1>3. e \in Sites /\ e # None /\ a # None
  BY <1>2, HubFacts DEF MeshAssumption
<1>4. a \in ReachesHere(S, t) /\ a \in ReachesHere(S, e)
  BY <1>2, <1>3 DEF ReachesHere
<1>5. Accepts(S, t, "wg", "lan", a, b)
  BY <1>1, <1>4 DEF Accepts, ClientRule
<1>6. CASE t = e
  <2>1. w = <<t>>
    <3>1. IsReachable(S, t)
      BY <1>1, <1>2, <1>6, HubFacts
    <3> QED
      BY <1>1, <3>1 DEF Way
  <2>2. Len(w) = 1 /\ w[1] = t
    BY <2>1, Short
  <2> HIDE DEF w, e, t
  <2>3. \A i \in 1..Len(w) : i = 1
    BY <2>2
  <2> QED
    BY <1>1, <1>5, <2>2, <2>3 DEF Admits, w, t
<1>7. CASE t # e
  <2>1. w = <<e, t>> /\ e = ClientRelaySite(S, a)
    BY <1>1, <1>7 DEF Way
  <2>2. Len(w) = 2 /\ w[1] = e /\ w[2] = t
    BY <2>1, Short
  <2>3. Accepts(S, e, "wg", "wg", a, b)
    <3>1. a \in IF S.client[a].restricted THEN {a} ELSE OpenHere(S, e)
      BY <1>4 DEF OpenHere
    <3>2. OnwardRule(S, e, "wg", "wg", a, b)
      BY <1>1, <1>2, <1>4, <1>7, <3>1 DEF OnwardRule
    <3> QED
      BY <1>1, <3>2 DEF Accepts
  <2> HIDE DEF w, e, t
  <2>4. \A i \in 1..Len(w) : i = 1 \/ i = 2
    BY <2>2
  <2> QED
    BY <1>1, <1>5, <1>7, <2>2, <2>3, <2>4 DEF Admits, w, t
<1> QED
  BY <1>6, <1>7

LEMMA WayAdmitsToClient ==
  ASSUME MeshAssumption, NEW S \in Snapshot, NEW a \in Nets, NEW b \in Clients,
           ClientPath(S, b, a),
         S.client[b].inbound
  PROVE  Admits(S, Way(S, a, b), a, b)
<1> DEFINE s == Home[a]
           e == IF IsReachable(S, s) THEN s ELSE ClientRelaySite(S, b)
           w == Way(S, a, b)
<1>1. s \in MeshSites(S) /\ s \in Sites /\ Hubs(S) # {} /\ b \notin Nets
  BY DEF ClientPath, MeshSites, MeshAssumption
<1>2. /\ b \in ActiveClients(S) /\ e \in Hubs(S) /\ ClientRouteFrom(S, e, b) = b
      /\ s # e => ClientRouteFrom(S, s, b) = e
  BY ClientRoutes
<1>3. e \in Sites /\ e # None /\ b # None
  BY <1>2, HubFacts DEF MeshAssumption
<1>4. b \in InboundOk(S, s) /\ b \in InboundOk(S, e)
  BY <1>2, <1>3 DEF ReachesHere, InboundOk
<1>5. \A in \in {"lan", "wg"} : Accepts(S, s, in, "wg", a, b) /\ Accepts(S, e, in, "wg", a, b)
  BY <1>4 DEF Accepts
<1>6. w = <<s>> \/ w = <<s, e>>
  BY <1>1 DEF Way
<1>7. \A i \in 1..Len(w) : w[i] \in {s, e}
  BY <1>6
<1> HIDE DEF w, e, s
<1> QED
  BY <1>1, <1>5, <1>7 DEF Admits, w

LEMMA WayAdmits ==
  ASSUME MeshAssumption, NEW S \in Snapshot, NEW a \in Ends, NEW b \in Ends, Permitted(S, a, b)
  PROVE  Admits(S, Way(S, a, b), a, b)
<1>1. Nets \intersect Clients = {}
  BY DEF MeshAssumption
<1>2. ASSUME NEW c, NEW n, ClientPath(S, c, n) PROVE n \in Nets
  BY <1>2 DEF ClientPath, Snapshot
<1>3. \/ a \in Nets /\ b \in Nets /\ {a, b} \subseteq S.shared /\ HasPath(S, Home[a], Home[b])
      \/ a \in Clients /\ b \in Nets /\ ClientPath(S, a, b)
      \/ a \in Nets /\ b \in Clients /\ ClientPath(S, b, a) /\ S.client[b].inbound
  BY <1>1, <1>2 DEF Permitted, Ends
<1> QED
  BY <1>3, WayAdmitsNets, WayAdmitsFromClient, WayAdmitsToClient

---------------------------------------------------------------------------
(* What gets through is permitted *)

\* The chain of the last gateway lets into its networks only what is permitted.
LEMMA LetInIsPermitted ==
  ASSUME MeshAssumption, NEW S \in Snapshot, NEW g \in MeshSites(S), NEW a \in Ends,
           NEW b \in Nets,
         NEW in, Home[b] = g, Accepts(S, g, in, "lan", a, b)
  PROVE  Permitted(S, a, b)
<1>1. g \in Sites /\ b \notin Clients /\ Nets \intersect Clients = {}
  BY DEF MeshSites, MeshAssumption
<1>2. SiteRule(S, g, in, "lan", a, b) \/ ClientRule(S, g, in, "lan", a, b)
  BY <1>1 DEF Accepts, RelayRule, OnwardRule
<1>3. CASE SiteRule(S, g, in, "lan", a, b)
  <2>1. PICK p \in ReachableSitesFrom(S, g) : a \in SharedNets(S, p) /\ b \in SharedNets(S, g)
    BY <1>3 DEF SiteRule
  <2>2. p \in MeshSites(S) /\ p # g /\ NextHop(S, g, p) # None
    BY <2>1 DEF ReachableSitesFrom
  <2>3. Hubs(S) # {}
    BY <2>2 DEF NextHop, ArePeered, FirstHub
  <2>4. {a, b} \subseteq S.shared /\ Home[a] = p /\ a \in Nets
    BY <2>1 DEF SharedNets, Snapshot
  <2> QED
    BY <2>2, <2>3, <2>4 DEF Permitted, HasPath
<1>4. CASE ClientRule(S, g, in, "lan", a, b)
  <2>1. b \in SharedNets(S, g) /\ a \in ReachesHere(S, g) /\ ClientAllows(S, a, g)
    BY <1>4 DEF ClientRule
  <2>2. a \in Clients /\ S.client[a].enabled /\ b \in S.shared /\ ClientRouteFrom(S, g, a) # None
    BY <2>1 DEF SharedNets, ReachesHere, ActiveClients
  <2>3. Hubs(S) # {}
    BY <1>1, <2>2, HubFacts DEF ClientRouteFrom, ClientEntrySites
  <2> QED
    BY <1>1, <2>1, <2>2, <2>3 DEF Permitted, ClientPath
<1> QED
  BY <1>2, <1>3, <1>4

\* A client takes only what its file has a path to, and the chain of the last
\* gateway sends it only what it lets in.
LEMMA TakenHasPath ==
  ASSUME MeshAssumption, NEW S \in Snapshot, NEW c \in ActiveClients(S), NEW e, NEW a \in Ends,
         ClientLists(S, c, e, a)
  PROVE  ClientPath(S, c, a)
<1>1. e \in Hubs(S) /\ a \in ClientAllowedIps(S, c, e)
  BY DEF ClientLists, ClientEntrySites
<1>2. PICK s \in ClientCarriedByEntry(S, c, e) : a \in {s} \union SharedNets(S, s)
  BY <1>1 DEF ClientAllowedIps
<1>3. s \in MeshSites(S) /\ ClientAllows(S, c, s) /\ s \in Sites
  BY <1>2 DEF ClientCarriedByEntry, MeshSites
<1>4. a # s
  BY <1>3 DEF Ends, MeshAssumption
<1> QED
  BY <1>1, <1>2, <1>3, <1>4 DEF ClientPath, SharedNets, ActiveClients

LEMMA LetOutIsConsented ==
  ASSUME NEW S \in Snapshot, NEW g, NEW in, NEW a, NEW b \in Clients,
           Accepts(S, g, in, "wg", a, b)
  PROVE  S.client[b].enabled /\ S.client[b].inbound
  BY DEF Accepts, InboundOk, ReachesHere, ActiveClients

---------------------------------------------------------------------------
(* The report of single points of failure *)

\* The gateways between the ends on whose loss nothing gets through are those
\* the report names.
LEMMA ReportIsTrue ==
  ASSUME MeshAssumption, NEW S \in Snapshot, NEW a \in Ends, NEW b \in Ends, Permitted(S, a, b),
         NEW s \in Sites, \A n \in {a, b} \intersect Nets : Home[n] # s
  PROVE  s \in OnWay(S, a, b) <=> CutOff(S, s, a, b)
<1>0. Nets \intersect Clients = {}
  BY DEF MeshAssumption
<1>1. ASSUME NEW x, NEW y, NEW z
      PROVE  /\ {<<x>>[i] : i \in 1..Len(<<x>>)} = {x}
             /\ {<<x, y>>[i] : i \in 1..Len(<<x, y>>)} = {x, y}
             /\ {<<x, y, z>>[i] : i \in 1..Len(<<x, y, z>>)} = {x, y, z}
  <2>1. 1..Len(<<x>>) = {1} /\ 1..Len(<<x, y>>) = {1, 2} /\ 1..Len(<<x, y, z>>) = {1, 2, 3}
    OBVIOUS
  <2> QED
    BY <2>1
<1>2. CASE a \in Nets /\ b \in Nets
  <2>1. Home[a] # s /\ Home[b] # s /\ HasPath(S, Home[a], Home[b])
    BY <1>2 DEF Permitted
  <2>2. CASE ArePeered(S, Home[a], Home[b])
    <3>1. OnWay(S, a, b) = {Home[a], Home[b]}
      BY <1>1, <1>2, <2>2 DEF OnWay, Way
    <3>2. ~CutOff(S, s, a, b)
      BY <1>2, <2>2 DEF CutOff, SeveredPairs, RelayedPairs
    <3> QED
      BY <2>1, <3>1, <3>2
  <2>3. CASE ~ArePeered(S, Home[a], Home[b])
    <3>1. OnWay(S, a, b) = {Home[a], FirstHub(S), Home[b]}
      BY <1>1, <1>2, <2>3 DEF OnWay, Way
    <3>2. CutOff(S, s, a, b) <=> FirstHub(S) = s
      BY <1>2, <2>1, <2>3 DEF CutOff, SeveredPairs, RelayedPairs, HasPath
    <3> QED
      BY <2>1, <3>1, <3>2
  <2> QED
    BY <2>2, <2>3
<1>3. ASSUME NEW c \in Clients, NEW n \in Nets, ClientPath(S, c, n), Home[n] # s,
             {a, b} = {c, n}, c = IF a \in Clients THEN a ELSE b,
             n = IF a \in Clients THEN b ELSE a
      PROVE  s \in OnWay(S, a, b) <=> CutOff(S, s, a, b)
  <2> DEFINE t == Home[n]
             e == IF IsReachable(S, t) THEN t ELSE ClientRelaySite(S, c)
  <2>1. /\ c \in ActiveClients(S) /\ e \in Hubs(S) /\ e \in ClientEntrySites(S, c)
        /\ t # e => e = ClientRelaySite(S, c) /\ t \in ClientTransitViaHub(S, e, c) /\
             t \notin Hubs(S)
    BY <1>3, ClientRoutes
  <2>2. t \in Sites
    BY DEF MeshAssumption
  <2>3. OnWay(S, a, b) = {e, t}
    <3>1. CASE a \in Clients
      BY <1>0, <1>1, <1>3, <3>1 DEF OnWay, Way
    <3>2. CASE a \notin Clients
      <4>1. a = n /\ b = c
        BY <1>3, <3>2
      <4>2. a \in Nets /\ b \notin Nets
        BY <1>0, <1>3, <4>1
      <4>3. CASE IsReachable(S, t)
        BY <1>1, <4>1, <4>2, <4>3 DEF OnWay, Way
      <4>4. CASE ~IsReachable(S, t)
        <5>1. OnWay(S, a, b) = {t, ClientRelaySite(S, c)}
          BY <1>1, <4>1, <4>2, <4>4 DEF OnWay, Way
        <5> QED
          BY <4>4, <5>1
      <4> QED
        BY <4>3, <4>4
    <3> QED
      BY <3>1, <3>2
  <2>4. CutOff(S, s, a, b) <=> \/ c \in StrandedClients(S, s)
                               \/ c \in RelayDependentClients(S, s) /\ ~IsReachable(S, t)
    <3>1. ~(a \in Nets /\ b \in Nets)
      BY <1>0, <1>3
    <3> QED
      BY <1>3, <3>1 DEF CutOff
  <2>5. CASE e = s
    <3>1. t # e /\ t \in ClientTransitViaHub(S, s, c) /\ ~IsReachable(S, t)
      BY <1>3, <2>1, <2>2, <2>5, HubFacts
    <3>2. c \in StrandedClients(S, s) \/ c \in RelayDependentClients(S, s)
      BY <2>1, <3>1 DEF RelayDependentClients
    <3> QED
      BY <2>3, <2>4, <2>5, <3>1, <3>2
  <2>6. CASE e # s
    <3>1. c \notin StrandedClients(S, s)
      BY <2>1, <2>6 DEF StrandedClients
    <3>2. ASSUME c \in RelayDependentClients(S, s), ~IsReachable(S, t) PROVE FALSE
      <4>1. PICK o \in ClientTransitViaHub(S, s, c) : TRUE
        BY <3>2 DEF RelayDependentClients
      <4>2. ClientRelaySite(S, c) = s
        BY <4>1 DEF ClientTransitViaHub, ClientCarriedByEntry
      <4> QED
        BY <2>6, <3>2, <4>2
    <3> QED
      BY <1>3, <2>3, <2>4, <2>6, <3>1, <3>2
  <2> QED
    BY <2>5, <2>6
<1>4. CASE a \in Clients /\ b \in Nets
  <2>1. ClientPath(S, a, b) /\ Home[b] # s
    BY <1>0, <1>4 DEF Permitted
  <2> QED
    BY <1>3, <1>4, <2>1
<1>5. CASE a \in Nets /\ b \in Clients
  <2>1. ClientPath(S, b, a) /\ Home[a] # s /\ a \notin Clients
    BY <1>0, <1>5 DEF Permitted
  <2> QED
    BY <1>3, <1>5, <2>1
<1>6. CASE a \in Clients /\ b \in Clients
  BY <1>0, <1>6 DEF Permitted
<1> QED
  BY <1>2, <1>4, <1>5, <1>6 DEF Ends

---------------------------------------------------------------------------
(* Who runs the current plan delivers what it permits *)

\* The conversation began when everyone ran the plan that is still current.
Calm == conv # None /\ conv.version = Len(plans)

Clear == Permitted(Current, conv.src, conv.dst) /\ down \notin OnWay(Current, conv.src, conv.dst)

Before == conv = None => pkt = None /\ last = None /\ tracked = [s \in Sites |-> {}]

\* Every gateway on the way of a conversation that took place knows it.
AsPlanned ==
    Calm =>
        /\ Converged
        /\ conv.met => /\ Clear
                       /\ \A g \in OnWay(Current, conv.src, conv.dst) : "request" \in tracked[g]
        /\ ~conv.met => \A g \in Sites : "reply" \notin tracked[g]
        /\ pkt # None /\ pkt.dir = "reply" => conv.met
        /\ last # None => (last.fate = "delivered" <=> Clear)

OnItsWay ==
    Calm /\ pkt # None /\ Permitted(Current, conv.src, conv.dst) =>
        LET w == Way(Current, Src(pkt.dir), Dst(pkt.dir))
            n == Len(pkt.path)
        IN  /\ n <= Len(w)
            /\ \A j \in 1..n : pkt.path[j] = w[j] /\ w[j] # down
            /\ \A j \in 1..(n - 1) : pkt.dir \in tracked[w[j]]

NewSeesNoReply ==
    pkt # None /\ pkt.new => pkt.dir = "request" /\ \A g \in Sites : "reply" \notin tracked[g]

DeliveryInv == IInv /\ Before /\ AsPlanned /\ OnItsWay /\ NewSeesNoReply

\* Whoever runs something runs the files of the plan of its version.
LEMMA RunsFiles ==
  ASSUME MeshAssumption, IInv, NEW x \in Sites \union Clients, run[x] # 0
  PROVE  LET S == plans[run[x]].snapshot IN
         /\ S \in Snapshot
         /\ Conf(x) = Files(S, x)
         /\ x \in Sites => x \in MeshSites(S)
         /\ x \in Clients => x \in ActiveClients(S)
<1>1. run[x] \in 1..Len(plans)
  BY DEF IInv, TypeOK
<1>2. PICK P \in Snapshot : plans[run[x]] = Generate(P)
  BY <1>1 DEF IInv, Bundled
<1>3. Configured(P, x) /\ plans[run[x]].snapshot = P
  BY <1>2 DEF IInv, RunsConfigured, Generate
<1>4. Conf(x) = Files(P, x)
  BY <1>2, <1>3 DEF Conf, Generate
<1>5. Sites \intersect Clients = {}
  BY DEF MeshAssumption
<1>6. (x \in Sites => x \in MeshSites(P)) /\ (x \in Clients => x \in ActiveClients(P))
  BY <1>3, <1>5 DEF Configured, MeshSites, ActiveClients
<1> QED
  BY <1>3, <1>4, <1>6

LEMMA GatewayReads ==
  ASSUME NEW S, NEW g \in Sites, Conf(g) = Files(S, g)
  PROVE  /\ \A p, x : p \in DOMAIN Conf(g).allowed /\ x \in Conf(g).allowed[p]
                 <=> Lists(S, g, p, x)
         /\ \A in, out, a, b : <<in, out, a, b>> \in Conf(g).accept
              <=> /\ in \in {"lan", "wg"} /\ out \in {"lan", "wg"} /\ a \in Ends /\ b \in Ends
                  /\ Accepts(S, g, in, out, a, b)
<1>1. /\ Conf(g).allowed = [p \in Peers(S, g) |-> AllowedIps(S, g, p)]
      /\ Conf(g).accept = {r \in {"lan", "wg"} \X {"lan", "wg"} \X Ends \X Ends :
                             Accepts(S, g, r[1], r[2], r[3], r[4])}
  BY DEF Files
<1> QED
  BY <1>1 DEF Lists

LEMMA ClientReads ==
  ASSUME MeshAssumption, NEW S, NEW c \in Clients, Conf(c) = Files(S, c)
  PROVE  \A e, x : e \in DOMAIN Conf(c).allowed /\ x \in Conf(c).allowed[e]
              <=> ClientLists(S, c, e, x)
<1>1. Conf(c).allowed = [e \in ClientEntrySites(S, c) |-> ClientAllowedIps(S, c, e)]
  BY DEF Files, MeshAssumption
<1> QED
  BY <1>1 DEF ClientLists

LEMMA CurrentFacts ==
  ASSUME MeshAssumption, IInv
  PROVE  /\ Len(plans) \in Nat \ {0} /\ Current \in Snapshot
         /\ Converged => \A x \in Sites \union Clients : run[x] # 0 =>
              plans[run[x]].snapshot = Current
<1>1. plans # <<>> /\ Len(plans) \in Nat
  BY DEF IInv, TypeOK, Bundled
<1>2. Len(plans) \in Nat \ {0} /\ Len(plans) \in 1..Len(plans)
  BY <1>1 DEF IInv, Bundled
<1> QED
  BY <1>2 DEF IInv, TypeOK, Current, Converged

\* Once everyone runs the current plan, what each takes and lets pass is what the
\* plan has it take.
LEMMA ConvergedReads ==
  ASSUME MeshAssumption, IInv, Converged
  PROVE  LET S == Current IN
         /\ \A g \in Sites : Up(g) <=> g \in MeshSites(S) /\ g # down
         /\ \A g \in MeshSites(S) :
              /\ \A p, x : p \in DOMAIN Conf(g).allowed /\ x \in Conf(g).allowed[p]
                      <=> Lists(S, g, p, x)
              /\ \A in, out, a, b : <<in, out, a, b>> \in Conf(g).accept
                   <=> /\ in \in {"lan", "wg"} /\ out \in {"lan", "wg"}
                       /\ a \in Ends /\ b \in Ends
                       /\ Accepts(S, g, in, out, a, b)
         /\ \A g \in Sites :
                 \A p, x : Takes(g, p, x) <=> g \in MeshSites(S) /\ g # down /\ Lists(S, g, p, x)
         /\ \A c \in Clients : \A e, x :
              /\ run[c] # 0 /\ e \in DOMAIN Conf(c).allowed /\ x \in Conf(c).allowed[e]
              <=> c \in ActiveClients(S) /\ ClientLists(S, c, e, x)
<1> DEFINE S == Current
<1>0. Sites \intersect Clients = {} /\ MeshSites(S) \subseteq Sites /\ Len(plans) # 0
  BY CurrentFacts DEF MeshAssumption, MeshSites
<1>1. \A g \in Sites : run[g] # 0 <=> g \in MeshSites(S)
  BY <1>0 DEF Converged, Configured, ActiveClients
<1>2. \A c \in Clients : run[c] # 0 <=> c \in ActiveClients(S) /\ ClientEntrySites(S, c) # {}
  BY <1>0 DEF Converged, Configured
<1>3. \A x \in Sites \union Clients : run[x] # 0 => Conf(x) = Files(S, x)
  BY RunsFiles, CurrentFacts
<1>4. \A g \in Sites : Up(g) <=> g \in MeshSites(S) /\ g # down
  BY <1>1 DEF Up
<1>5. \A g \in MeshSites(S) :
              /\ \A p, x : p \in DOMAIN Conf(g).allowed /\ x \in Conf(g).allowed[p]
                      <=> Lists(S, g, p, x)
              /\ \A in, out, a, b : <<in, out, a, b>> \in Conf(g).accept
                   <=> /\ in \in {"lan", "wg"} /\ out \in {"lan", "wg"}
                       /\ a \in Ends /\ b \in Ends
                       /\ Accepts(S, g, in, out, a, b)
  <2> TAKE g \in MeshSites(S)
  <2>1. g \in Sites /\ Conf(g) = Files(S, g)
    BY <1>0, <1>1, <1>3
  <2> HIDE DEF S
  <2> QED
    BY <2>1, GatewayReads
<1>6. \A g \in Sites :
           \A p, x : Takes(g, p, x) <=> g \in MeshSites(S) /\ g # down /\ Lists(S, g, p, x)
  <2> HIDE DEF S
  <2> QED
    BY <1>4, <1>5 DEF Takes
<1>7. \A c \in Clients : \A e, x :
              /\ run[c] # 0 /\ e \in DOMAIN Conf(c).allowed /\ x \in Conf(c).allowed[e]
              <=> c \in ActiveClients(S) /\ ClientLists(S, c, e, x)
  <2> TAKE c \in Clients
  <2>1. run[c] # 0 => Conf(c) = Files(S, c)
    BY <1>3
  <2> HIDE DEF S
  <2>2. run[c] # 0 => \A e, x : e \in DOMAIN Conf(c).allowed /\ x \in Conf(c).allowed[e]
                                <=> ClientLists(S, c, e, x)
    BY <2>1, ClientReads
  <2>3. \A e, x : ClientLists(S, c, e, x) => ClientEntrySites(S, c) # {}
    BY DEF ClientLists
  <2> QED
    BY <1>2, <2>2, <2>3
<1> QED
  BY <1>4, <1>5, <1>6, <1>7

\* The ends of the conversation, whichever way it is looked at.
LEMMA EndsFacts ==
  ASSUME MeshAssumption, IInv, conv # None, NEW d \in Directions,
           Permitted(Current, conv.src, conv.dst)
  PROVE  /\ Src(d) \in Ends /\ Dst(d) \in Ends
         /\ Carries(Current, Way(Current, Src(d), Dst(d)), Src(d), Dst(d))
         /\ OnWay(Current, Src(d), Dst(d)) = OnWay(Current, conv.src, conv.dst)
<1>1. conv.src \in Ends /\ conv.dst \in Ends
  BY DEF IInv, TypeOK
<1>2. Current \in Snapshot
  BY CurrentFacts
<1>3. Connected(Current, conv.src, conv.dst) /\ Connected(Current, conv.dst, conv.src)
  BY DEF Connected
<1>4. \/ Src(d) = conv.src /\ Dst(d) = conv.dst
      \/ Src(d) = conv.dst /\ Dst(d) = conv.src
  BY DEF Src, Dst
<1> QED
  BY <1>1, <1>2, <1>3, <1>4, WayCarries, WayBack

\* A packet of a permitted conversation, while nothing changes: where it is, and
\* where it can go from there.
LEMMA Underway ==
  ASSUME MeshAssumption, DeliveryInv, Calm, pkt # None, Permitted(Current, conv.src, conv.dst)
  PROVE  LET w == Way(Current, Src(pkt.dir), Dst(pkt.dir))
             n == Len(pkt.path)
         IN  /\ Len(w) \in 1..3 /\ n \in 1..Len(w) /\ At = w[n]
             /\ \A i \in 1..Len(w) : w[i] \in OnWay(Current, conv.src, conv.dst) /\ w[i] \in Sites
             /\ OnWay(Current, conv.src, conv.dst) = {w[i] : i \in 1..Len(w)}
             /\ Passes
             /\ Arrives <=> n = Len(w)
             /\ n < Len(w) => Via = {w[n + 1]}
                              /\ (Takes(w[n + 1], At, Src(pkt.dir)) <=> w[n + 1] # down)
<1> DEFINE S == Current
           a == Src(pkt.dir)
           b == Dst(pkt.dir)
           w == Way(S, a, b)
           n == Len(pkt.path)
<1>1. /\ pkt \in [dir : Directions, path : Seq(Sites), new : BOOLEAN, steady : BOOLEAN]
      /\ pkt.dir \in Directions /\ pkt.path # <<>> /\ conv # None
  BY DEF DeliveryInv, IInv, TypeOK
<1>2. n \in Nat \ {0} /\ At = pkt.path[n] /\ n \in 1..n
  BY <1>1 DEF At
<1>3. Converged /\ IInv
  BY DEF DeliveryInv, AsPlanned
<1>4. /\ a \in Ends /\ b \in Ends /\ Carries(S, w, a, b)
      /\ OnWay(S, a, b) = OnWay(S, conv.src, conv.dst)
  BY <1>1, <1>3, EndsFacts
<1>5. /\ n <= Len(w)
      /\ \A j \in 1..n : pkt.path[j] = w[j] /\ w[j] # down
      /\ \A j \in 1..(n - 1) : pkt.dir \in tracked[w[j]]
  BY DEF DeliveryInv, OnItsWay
<1>6. OnWay(S, a, b) = {w[i] : i \in 1..Len(w)}
  BY DEF OnWay
<1>7. /\ Len(w) \in 1..3 /\ \A i \in 1..Len(w) : w[i] \in MeshSites(S)
      /\ \A i \in 1..(Len(w) - 1) : /\ b \in Nets => Home[b] # w[i]
                                    /\ \A p : Lists(S, w[i], p, b) <=> p = w[i + 1]
                                    /\ Lists(S, w[i + 1], w[i], a)
      /\ IF b \in Nets THEN Home[b] = w[Len(w)]
         ELSE Lists(S, w[Len(w)], b, b) /\ ClientLists(S, b, w[Len(w)], a)
  BY <1>4 DEF Carries
<1>8. MeshSites(S) \subseteq Sites /\ Sites \intersect Clients = {} /\
        Nets \intersect Clients = {}
  BY DEF MeshSites, MeshAssumption
<1>9. /\ \A g \in Sites : Up(g) <=> g \in MeshSites(S) /\ g # down
      /\ \A g \in MeshSites(S) :
           /\ \A p, x : p \in DOMAIN Conf(g).allowed /\ x \in Conf(g).allowed[p]
                   <=> Lists(S, g, p, x)
           /\ \A in, out, y, z : <<in, out, y, z>> \in Conf(g).accept
                <=> /\ in \in {"lan", "wg"} /\ out \in {"lan", "wg"} /\ y \in Ends /\ z \in Ends
                    /\ Accepts(S, g, in, out, y, z)
      /\ \A g \in Sites :
              \A p, x : Takes(g, p, x) <=> g \in MeshSites(S) /\ g # down /\ Lists(S, g, p, x)
      /\ \A c \in Clients : \A e, x :
           /\ run[c] # 0 /\ e \in DOMAIN Conf(c).allowed /\ x \in Conf(c).allowed[e]
           <=> c \in ActiveClients(S) /\ ClientLists(S, c, e, x)
  BY <1>3, ConvergedReads
<1> DEFINE out == IF b \in Nets /\ Home[b] = At THEN "lan" ELSE "wg"
           inn == IF n = 1 /\ a \in Nets THEN "lan" ELSE "wg"
<1>10. Out = out /\ In = inn
  BY DEF Out, In
<1>11. Via = {p \in DOMAIN Conf(At).allowed : b \in Conf(At).allowed[p]}
  BY DEF Via
<1>12. Arrives <=> \/ Out = "lan"
                   \/ /\ b \in Via \intersect Clients /\ run[b] # 0
                      /\ At \in DOMAIN Conf(b).allowed /\ a \in Conf(b).allowed[At]
  BY DEF Arrives
<1>13. Passes <=> /\ Up(At) /\ (Out = "lan" \/ Via # {})
                  /\ Opposite(pkt.dir) \in tracked[At] \/ <<In, Out, a, b>> \in Conf(At).accept
  BY DEF Passes
<1>14. At = w[n] /\ n \in 1..Len(w) /\ At \in MeshSites(S) /\ At \in Sites /\ At # down
  BY <1>2, <1>5, <1>7, <1>8
<1>15. Opposite(pkt.dir) \in tracked[At] \/ <<In, Out, a, b>> \in Conf(At).accept
  <2>1. CASE pkt.dir = "reply"
    <3>1. \A g \in OnWay(S, conv.src, conv.dst) : "request" \in tracked[g]
      BY <2>1 DEF DeliveryInv, AsPlanned
    <3> QED
      BY <1>4, <1>6, <1>14, <2>1, <3>1 DEF Opposite
  <2>2. CASE pkt.dir = "request"
    <3>1. a = conv.src /\ b = conv.dst /\ S \in Snapshot
      BY <1>3, <2>2, CurrentFacts DEF Src, Dst
    <3>2. Admits(S, w, a, b)
      BY <1>4, <3>1, WayAdmits
    <3>3. Accepts(S, At, inn, out, a, b)
      BY <1>14, <3>2 DEF Admits
    <3>4. inn \in {"lan", "wg"} /\ out \in {"lan", "wg"}
      OBVIOUS
    <3> HIDE DEF S, a, b, w, inn, out
    <3> QED
      BY <1>4, <1>9, <1>10, <1>14, <3>3, <3>4
  <2> QED
    BY <1>1, <2>1, <2>2 DEF Directions
<1> HIDE DEF S, a, b, w, n
<1>16. \A p : p \in Via <=> Lists(S, At, p, b)
  BY <1>9, <1>11, <1>14
<1>17. CASE n = Len(w)
  <2>1. CASE b \in Nets
    <3>1. Out = "lan"
      BY <1>7, <1>10, <1>14, <1>17, <2>1
    <3> QED
      BY <1>2, <1>4, <1>6, <1>7, <1>8, <1>9, <1>12,
           <1>13, <1>14, <1>15, <1>17, <3>1 DEF S, a, b, w, n
  <2>2. CASE b \notin Nets
    <3>1. b \in Clients /\ Lists(S, At, b, b) /\ ClientLists(S, b, At, a)
      BY <1>4, <1>7, <1>14, <1>17, <2>2 DEF Ends
    <3>2. b \in ActiveClients(S)
      BY <1>8, <3>1 DEF Lists, Peers
    <3>3. run[b] # 0 /\ At \in DOMAIN Conf(b).allowed /\ a \in Conf(b).allowed[At]
      BY <1>9, <3>1, <3>2
    <3>4. b \in Via
      BY <1>16, <3>1
    <3>5. Arrives /\ Passes
      BY <1>9, <1>12, <1>13, <1>14, <1>15, <3>1, <3>3, <3>4
    <3> QED
      BY <1>2, <1>4, <1>6, <1>7, <1>8, <1>14, <1>17, <3>5 DEF S, a, b, w, n
  <2> QED
    BY <2>1, <2>2
<1>18. CASE n # Len(w)
  <2>1. n \in 1..(Len(w) - 1) /\ n < Len(w)
    BY <1>7, <1>14, <1>18
  <2>2. w[n + 1] \in MeshSites(S) /\ w[n + 1] \in Sites /\ w[n + 1] \notin Clients
    BY <1>7, <1>8, <2>1
  <2>3. /\ b \in Nets => Home[b] # At
        /\ \A p : Lists(S, At, p, b) <=> p = w[n + 1]
        /\ Lists(S, w[n + 1], At, a)
    BY <1>7, <1>14, <2>1
  <2>4. Via = {w[n + 1]}
    BY <1>16, <2>3
  <2>5. Out = "wg"
    BY <1>10, <2>3
  <2>6. ~Arrives
    BY <1>12, <2>2, <2>4, <2>5
  <2>7. Passes
    BY <1>9, <1>13, <1>14, <1>15, <2>4
  <2>8. Takes(w[n + 1], At, a) <=> w[n + 1] # down
    BY <1>9, <2>2, <2>3
  <2> QED
    BY <1>2, <1>4, <1>6, <1>7, <1>8, <1>14, <1>18, <2>4, <2>6, <2>7, <2>8 DEF S, a, b, w, n
<1> QED
  BY <1>17, <1>18

\* Someone who applies a plan, or an edit of it, ends the calm.
LEMMA PlanSteps ==
  ASSUME MeshAssumption, DeliveryInv,
         \/ \E S \in EditPlans : Edit(S)
         \/ \E x \in Sites \union Clients : Apply(x)
         \/ \E g \in Sites : Stop(g)
  PROVE  (Before /\ AsPlanned /\ OnItsWay /\ NewSeesNoReply)'
<1>1. Len(plans) \in Nat \ {0} /\ plans \in Seq({Generate(S) : S \in Snapshot})
  BY CurrentFacts DEF DeliveryInv, IInv, Bundled
<1>2. ASSUME NEW S \in EditPlans, Edit(S)
      PROVE  (Before /\ AsPlanned /\ OnItsWay /\ NewSeesNoReply)'
  <2>1. plans' = Append(plans, Generate(S)) /\ UNCHANGED <<run, down, conv, tracked, pkt, last>>
    BY <1>2 DEF Edit
  <2>2. Len(plans') = Len(plans) + 1
    BY <1>1, <2>1
  <2>3. conv # None => conv.version \in 0..Len(plans)
    BY DEF DeliveryInv, IInv, TypeOK
  <2>4. ~Calm'
    BY <1>1, <2>1, <2>2, <2>3 DEF Calm
  <2> QED
    BY <2>1, <2>4 DEF DeliveryInv, Before, AsPlanned, OnItsWay, NewSeesNoReply
<1>3. ASSUME NEW x \in Sites \union Clients, Apply(x)
      PROVE  (Before /\ AsPlanned /\ OnItsWay /\ NewSeesNoReply)'
  <2>1. /\ Configured(Current, x) /\ run[x] < Len(plans) /\
             UNCHANGED <<plans, down, conv, tracked, last>>
        /\ pkt' = IF pkt = None THEN None ELSE [pkt EXCEPT !.steady = FALSE]
    BY <1>3 DEF Apply
  <2>2. ~Converged
    BY <1>1, <2>1 DEF Converged
  <2>3. ~Calm'
    BY <2>1, <2>2 DEF Calm, DeliveryInv, AsPlanned
  <2>4. pkt # None =>
        pkt \in [dir : Directions, path : Seq(Sites), new : BOOLEAN, steady : BOOLEAN]
    BY DEF DeliveryInv, IInv, TypeOK
  <2>5. pkt' # None => pkt # None /\ pkt'.new = pkt.new /\ pkt'.dir = pkt.dir
    BY <2>1, <2>4
  <2>6. NewSeesNoReply'
    BY <2>1, <2>5 DEF DeliveryInv, NewSeesNoReply
  <2>7. Before'
    BY <2>1 DEF DeliveryInv, Before
  <2> QED
    BY <2>3, <2>6, <2>7 DEF AsPlanned, OnItsWay
<1>4. ASSUME NEW g \in Sites, Stop(g) PROVE (Before /\ AsPlanned /\ OnItsWay /\ NewSeesNoReply)'
  <2>1. conv = None /\ UNCHANGED <<plans, run, conv, tracked, pkt, last>>
    BY <1>4 DEF Stop
  <2> QED
    BY <2>1 DEF DeliveryInv, Before, AsPlanned, OnItsWay, NewSeesNoReply, Calm
<1> QED
  BY <1>2, <1>3, <1>4

LEMMA BeginStep ==
  ASSUME MeshAssumption, DeliveryInv, NEW src \in Ends, NEW dst \in Ends, Begin(src, dst)
  PROVE  (Before /\ AsPlanned /\ OnItsWay /\ NewSeesNoReply)'
<1>1. /\ conv = None /\ pkt = None /\ last = None /\ tracked = [s \in Sites |-> {}]
      /\ conv' = [src |-> src, dst |-> dst, met |-> FALSE,
                  version |-> IF Converged THEN Len(plans) ELSE 0]
      /\ UNCHANGED <<plans, run, down, tracked, pkt, last>>
  BY DEF Begin, DeliveryInv, Before
<1>2. Len(plans) \in Nat \ {0}
  BY CurrentFacts DEF DeliveryInv
<1>3. ~conv'.met /\ conv'.version = IF Converged THEN Len(plans) ELSE 0
  BY <1>1
<1>4. Calm' => Converged'
  BY <1>1, <1>2, <1>3 DEF Calm, Converged, Current
<1>6. AsPlanned'
  BY <1>1, <1>3, <1>4 DEF AsPlanned
<1> QED
  BY <1>1, <1>6 DEF Before, OnItsWay, NewSeesNoReply

LEMMA SendStep ==
  ASSUME MeshAssumption, DeliveryInv, NEW d \in Directions, Send(d)
  PROVE  (Before /\ AsPlanned /\ OnItsWay /\ NewSeesNoReply)'
<1> DEFINE new == d = "request" /\ \A g \in Sites : "reply" \notin tracked[g]
           a == Src(d)
           b == Dst(d)
           S == Current
           w == Way(S, a, b)
<1>1. /\ conv # None /\ pkt = None /\ (d = "reply" => conv.met)
      /\ UNCHANGED <<plans, run, down, conv, tracked>>
  BY DEF Send
<1>2. \/ \E g \in Sites :
           /\ Enters(d, g)
           /\ pkt' = [dir |-> d, path |-> <<g>>, new |-> new, steady |-> TRUE]
           /\ UNCHANGED last
      \/ /\ \A g \in Sites : ~Enters(d, g)
         /\ last' = [dir |-> d, fate |-> "lost", new |-> new] /\ pkt' = None
  BY DEF Send, Lose
<1>3. Before'
  BY <1>1 DEF Before
<1>4. NewSeesNoReply'
  <2>1. pkt' # None => pkt'.dir = d /\ pkt'.new = new
    BY <1>2
  <2>2. new => d = "request" /\ \A g \in Sites : "reply" \notin tracked[g]
    OBVIOUS
  <2> HIDE DEF new
  <2> QED
    BY <1>1, <2>1, <2>2 DEF NewSeesNoReply
<1>5. Calm' = Calm /\ Current' = Current /\ Converged' = Converged /\ Clear' = Clear
      /\ Src(d)' = Src(d) /\ Dst(d)' = Dst(d)
  BY <1>1 DEF Calm, Current, Converged, Clear, Src, Dst
\* Who it enters at, if it is permitted: the first on its way, if that is up.
<1>6. ASSUME Calm, Permitted(S, conv.src, conv.dst)
      PROVE  /\ w[1] \in OnWay(S, conv.src, conv.dst) /\ w[1] \in Sites /\ Len(w) \in 1..3
             /\ \A g \in Sites : Enters(d, g) <=> g = w[1] /\ g # down
  <2>1. Converged /\ IInv
    BY <1>6 DEF DeliveryInv, AsPlanned
  <2>2. /\ a \in Ends /\ b \in Ends /\ Carries(S, w, a, b)
        /\ OnWay(S, a, b) = OnWay(S, conv.src, conv.dst)
    BY <1>1, <1>6, <2>1, EndsFacts
  <2>3. /\ Len(w) \in 1..3 /\ w[1] \in MeshSites(S)
        /\ \A g \in Sites : (IF a \in Nets THEN g = Home[a]
                             ELSE ClientLists(S, a, g, b) /\ Lists(S, g, a, a))
                             <=> g = w[1]
    BY <2>2 DEF Carries
  <2>4. w[1] \in OnWay(S, a, b)
    BY <2>3 DEF OnWay
  <2>5. MeshSites(S) \subseteq Sites /\ Sites \intersect Clients = {}
    BY DEF MeshSites, MeshAssumption
  <2>6. /\ \A g \in Sites : Up(g) <=> g \in MeshSites(S) /\ g # down
        /\ \A g \in Sites :
                \A p, x : Takes(g, p, x) <=> g \in MeshSites(S) /\ g # down /\ Lists(S, g, p, x)
        /\ \A c \in Clients : \A e, x :
             /\ run[c] # 0 /\ e \in DOMAIN Conf(c).allowed /\ x \in Conf(c).allowed[e]
             <=> c \in ActiveClients(S) /\ ClientLists(S, c, e, x)
    BY <2>1, ConvergedReads
  <2>7. \A g \in Sites : Enters(d, g) <=>
          IF a \in Nets THEN g = Home[a] /\ Up(g)
          ELSE run[a] # 0 /\ g \in DOMAIN Conf(a).allowed /\ b \in Conf(a).allowed[g] /\
            Takes(g, a, a)
    BY DEF Enters
  <2> HIDE DEF S, a, b, w
  <2>8. \A g \in Sites : Lists(S, g, a, a) /\ a \in Clients => a \in ActiveClients(S)
    BY <2>5 DEF Lists, Peers
  <2>9. a \notin Nets => a \in Clients
    BY <2>2 DEF Ends
  <2>10. \A g \in Sites : Enters(d, g) <=> g = w[1] /\ g # down
    BY <2>3, <2>5, <2>6, <2>7, <2>8, <2>9
  <2> QED
    BY <2>2, <2>3, <2>4, <2>5, <2>10
<1>7. OnItsWay'
  <2> SUFFICES ASSUME Calm, pkt' # None, Permitted(S, conv.src, conv.dst)
               PROVE  LET n == Len(pkt'.path)
                      IN  /\ n <= Len(w)
                          /\ \A j \in 1..n : pkt'.path[j] = w[j] /\ w[j] # down'
                          /\ \A j \in 1..(n - 1) : pkt'.dir \in tracked'[w[j]]
    <3>1. pkt' # None => pkt'.dir = d
      BY <1>2
    <3> QED
      BY <1>1, <1>5, <3>1 DEF OnItsWay, Src, Dst
  <2>1. PICK g \in Sites :
          Enters(d, g) /\ pkt' = [dir |-> d, path |-> <<g>>, new |-> new, steady |-> TRUE]
    BY <1>2
  <2>2. g = w[1] /\ g # down /\ Len(w) \in 1..3
    BY <1>6, <2>1
  <2>3. pkt'.path = <<g>> /\ Len(pkt'.path) = 1 /\ pkt'.path[1] = g
    BY <2>1
  <2> HIDE DEF w
  <2> QED
    BY <1>1, <2>2, <2>3
<1>8. AsPlanned'
  <2> SUFFICES ASSUME Calm PROVE AsPlanned'
    BY <1>5 DEF AsPlanned
  <2>1. /\ Converged
        /\ conv.met => /\ Clear
                       /\ \A g \in OnWay(Current, conv.src, conv.dst) : "request" \in tracked[g]
        /\ ~conv.met => \A g \in Sites : "reply" \notin tracked[g]
        /\ last # None => (last.fate = "delivered" <=> Clear)
    BY DEF DeliveryInv, AsPlanned
  <2>2. pkt' # None => pkt'.dir = d
    BY <1>2
  <2>3. last' # None => (last'.fate = "delivered" <=> Clear)
    <3>1. CASE last' = last
      BY <2>1, <3>1
    <3>2. CASE last' # last
      <4>1. (\A g \in Sites : ~Enters(d, g)) /\ last'.fate = "lost"
        BY <1>2, <3>2
      <4>2. ~Clear
        BY <1>6, <4>1 DEF Clear
      <4> QED
        BY <4>1, <4>2
    <3> QED
      BY <3>1, <3>2
  <2> QED
    BY <1>1, <1>5, <2>1, <2>2, <2>3 DEF AsPlanned
<1> QED
  BY <1>3, <1>4, <1>7, <1>8

\* A gateway sees a packet pass.
LEMMA Tracks ==
  ASSUME IInv, pkt # None, Track
  PROVE  /\ At \in Sites /\ pkt.dir \in Directions
         /\ \A g \in Sites : tracked'[g] = IF g = At THEN tracked[g] \union {pkt.dir}
                                           ELSE tracked[g]
  BY DEF Track, IInv, TypeOK

LEMMA RelayStep ==
  ASSUME MeshAssumption, DeliveryInv, NEW q \in Sites, Relay(q)
  PROVE  (Before /\ AsPlanned /\ OnItsWay /\ NewSeesNoReply)'
<1> DEFINE S == Current
           w == Way(S, Src(pkt.dir), Dst(pkt.dir))
           n == Len(pkt.path)
<1>1. /\ pkt # None /\ ~Arrives /\ q \in Via /\ Takes(q, At, Src(pkt.dir)) /\ Track
      /\ pkt' = [pkt EXCEPT !.path = Append(@, q)]
      /\ UNCHANGED <<plans, run, down, conv, last>>
  BY DEF Relay, MovesTo
<1>2. /\ pkt \in [dir : Directions, path : Seq(Sites), new : BOOLEAN, steady : BOOLEAN]
      /\ conv # None
  BY <1>1 DEF DeliveryInv, IInv, TypeOK
<1>3. /\ pkt'.dir = pkt.dir /\ pkt'.new = pkt.new /\ pkt'.path = Append(pkt.path, q)
      /\ n \in Nat /\ Len(pkt'.path) = n + 1 /\ pkt'.path[n + 1] = q
      /\ \A i \in 1..n : pkt'.path[i] = pkt.path[i]
  <2>1. pkt.path \in Seq(Sites) /\ pkt'.path = Append(pkt.path, q)
    BY <1>1, <1>2
  <2> QED
    BY <1>1, <1>2, <2>1
<1>4. /\ At \in Sites /\ pkt.dir \in Directions
      /\ \A g \in Sites : tracked'[g] = IF g = At THEN tracked[g] \union {pkt.dir} ELSE tracked[g]
  BY <1>1, Tracks DEF DeliveryInv
<1>5. Calm' = Calm /\ Current' = Current /\ Converged' = Converged /\ Clear' = Clear
      /\ Src(pkt.dir)' = Src(pkt'.dir) /\ Dst(pkt.dir)' = Dst(pkt'.dir)
      /\ Src(pkt'.dir) = Src(pkt.dir) /\ Dst(pkt'.dir) = Dst(pkt.dir)
  BY <1>1, <1>3 DEF Calm, Current, Converged, Clear, Src, Dst
<1>6. Before'
  BY <1>1, <1>2 DEF Before
<1>7. NewSeesNoReply'
  <2> SUFFICES ASSUME pkt'.new
               PROVE  pkt'.dir = "request" /\ \A g \in Sites : "reply" \notin tracked'[g]
    BY DEF NewSeesNoReply
  <2>1. pkt.dir = "request" /\ \A g \in Sites : "reply" \notin tracked[g]
    BY <1>1, <1>3 DEF NewSeesNoReply, DeliveryInv
  <2>2. pkt'.dir = "request"
    BY <1>3, <2>1
  <2>3. ASSUME NEW g \in Sites PROVE "reply" \notin tracked'[g]
    <3>1. tracked'[g] = tracked[g] \union {"request"} \/ tracked'[g] = tracked[g]
      BY <1>4, <2>1
    <3> QED
      BY <2>1, <3>1
  <2> QED
    BY <2>2, <2>3
<1>8. AsPlanned'
  <2> SUFFICES ASSUME Calm PROVE AsPlanned'
    BY <1>5 DEF AsPlanned
  <2>1. /\ Converged
        /\ conv.met => /\ Clear
                       /\ \A g \in OnWay(Current, conv.src, conv.dst) : "request" \in tracked[g]
        /\ ~conv.met => \A g \in Sites : "reply" \notin tracked[g]
        /\ pkt.dir = "reply" => conv.met
        /\ last # None => (last.fate = "delivered" <=> Clear)
    BY <1>1 DEF DeliveryInv, AsPlanned
  <2>2. Clear => \A g \in OnWay(Current, conv.src, conv.dst) : g \in Sites
    <3> SUFFICES ASSUME Permitted(Current, conv.src, conv.dst)
                 PROVE  \A g \in OnWay(Current, conv.src, conv.dst) : g \in Sites
      BY DEF Clear
    <3> DEFINE v == Way(Current, Src(pkt.dir), Dst(pkt.dir))
    <3>1. /\ \A i \in 1..Len(v) : v[i] \in Sites
          /\ OnWay(Current, conv.src, conv.dst) = {v[i] : i \in 1..Len(v)}
      BY <1>1, Underway
    <3> HIDE DEF v
    <3> QED
      BY <3>1
  <2>3. Clear /\ conv.met =>
          \A g \in OnWay(Current, conv.src, conv.dst) : "request" \in tracked'[g]
    BY <1>4, <2>1, <2>2
  <2>4. ~conv.met => \A g \in Sites : "reply" \notin tracked'[g]
    <3> SUFFICES ASSUME ~conv.met PROVE \A g \in Sites : "reply" \notin tracked'[g]
      OBVIOUS
    <3>1. pkt.dir = "request"
      BY <1>4, <2>1 DEF Directions
    <3> QED
      BY <1>4, <2>1, <3>1
  <2>5. OnWay(Current, conv.src, conv.dst)' = OnWay(Current, conv.src, conv.dst)
    BY <1>1, <1>5
  <2>6. conv' = conv /\ last' = last /\ pkt'.dir = pkt.dir
    BY <1>1, <1>3
  <2> QED
    BY <1>5, <2>1, <2>3, <2>4, <2>5, <2>6 DEF AsPlanned
<1>9. OnItsWay'
  <2> SUFFICES ASSUME Calm, Permitted(S, conv.src, conv.dst)
               PROVE  /\ n + 1 <= Len(w)
                      /\ \A j \in 1..(n + 1) : pkt'.path[j] = w[j] /\ w[j] # down
                      /\ \A j \in 1..n : pkt.dir \in tracked'[w[j]]
    <3>1. pkt' # None => pkt'.dir = pkt.dir /\ Len(pkt'.path) = n + 1 /\ (n + 1) - 1 = n
      BY <1>3
    <3> QED
      BY <1>1, <1>5, <3>1 DEF OnItsWay, Src, Dst
  <2>1. /\ Len(w) \in 1..3 /\ n \in 1..Len(w) /\ At = w[n]
        /\ \A i \in 1..Len(w) : w[i] \in Sites
        /\ Arrives <=> n = Len(w)
        /\ n < Len(w) => /\ Via = {w[n + 1]}
                         /\ Takes(w[n + 1], At, Src(pkt.dir)) <=> w[n + 1] # down
    BY <1>1, Underway
  <2>2. /\ \A j \in 1..n : pkt.path[j] = w[j] /\ w[j] # down
        /\ \A j \in 1..(n - 1) : pkt.dir \in tracked[w[j]]
    BY <1>1 DEF DeliveryInv, OnItsWay
  <2> HIDE DEF w, n
  <2>3. n < Len(w)
    BY <1>1, <2>1
  <2>4. q = w[n + 1] /\ q # down
    BY <1>1, <2>1, <2>3
  <2>5. \A j \in 1..(n + 1) : j = n + 1 \/ j \in 1..n
    BY <2>1
  <2>6. \A j \in 1..n : j = n \/ j \in 1..(n - 1)
    BY <2>1
  <2>7. \A j \in 1..n : w[j] \in Sites
    BY <2>1
  <2>8. n + 1 <= Len(w)
    BY <2>1, <2>3
  <2>9. \A j \in 1..(n + 1) : pkt'.path[j] = w[j] /\ w[j] # down
    BY <1>3, <2>2, <2>4, <2>5 DEF n
  <2>10. \A j \in 1..n : pkt.dir \in tracked'[w[j]]
    BY <1>4, <2>1, <2>2, <2>6, <2>7
  <2> QED
    BY <2>8, <2>9, <2>10
<1> QED
  BY <1>6, <1>7, <1>8, <1>9

\* What arrives while nothing changes was permitted, and met no gateway that is down.
LEMMA ArrivedIsClear ==
  ASSUME MeshAssumption, DeliveryInv, Calm, pkt # None, Passes, Arrives
  PROVE  /\ Clear
         /\ \A g \in OnWay(Current, conv.src, conv.dst) :
              "request" \in tracked[g] \/ (g = At /\ pkt.dir = "request")
<1> DEFINE S == Current
           a == Src(pkt.dir)
           b == Dst(pkt.dir)
<1>1. /\ Converged /\ IInv /\ conv # None /\ At \in Sites /\ pkt.dir \in Directions
      /\ conv.src \in Ends /\ conv.dst \in Ends /\ S \in Snapshot
  BY CurrentFacts DEF DeliveryInv, AsPlanned, IInv, TypeOK
<1>2. /\ conv.met => Clear /\ \A g \in OnWay(S, conv.src, conv.dst) : "request" \in tracked[g]
      /\ ~conv.met => \A g \in Sites : "reply" \notin tracked[g]
      /\ pkt.dir = "reply" => conv.met
  BY DEF DeliveryInv, AsPlanned
<1>3. CASE conv.met
  BY <1>2, <1>3
<1>4. CASE ~conv.met
  <2>1. pkt.dir = "request" /\ a = conv.src /\ b = conv.dst
    BY <1>1, <1>2, <1>4 DEF Directions, Src, Dst
  <2>2. /\ At \in MeshSites(S)
        /\ \A in, out, y, z : <<in, out, y, z>> \in Conf(At).accept
              <=> /\ in \in {"lan", "wg"} /\ out \in {"lan", "wg"} /\ y \in Ends /\ z \in Ends
                  /\ Accepts(S, At, in, out, y, z)
        /\ \A c \in Clients : \A e, x :
              /\ run[c] # 0 /\ e \in DOMAIN Conf(c).allowed /\ x \in Conf(c).allowed[e]
              <=> c \in ActiveClients(S) /\ ClientLists(S, c, e, x)
    <3>1. Up(At)
      BY DEF Passes
    <3>2. At \in MeshSites(S)
      BY <1>1, <3>1, ConvergedReads
    <3> QED
      BY <1>1, <3>2, ConvergedReads
  <2>3. Accepts(S, At, In, Out, a, b)
    <3>1. Opposite(pkt.dir) \notin tracked[At]
      BY <1>1, <1>2, <1>4, <2>1 DEF Opposite
    <3>2. <<In, Out, a, b>> \in Conf(At).accept
      BY <3>1 DEF Passes
    <3> HIDE DEF S, a, b
    <3> QED
      BY <2>2, <3>2
  <2>4. Permitted(S, conv.src, conv.dst)
    <3>1. CASE Out = "lan"
      <4>1. b \in Nets /\ Home[b] = At
        BY <3>1 DEF Out
      <4>2. Permitted(S, a, b)
        <5> HIDE DEF S, a, b
        <5>1. Accepts(S, At, In, "lan", a, b)
          BY <2>3, <3>1
        <5>2. S \in Snapshot /\ a \in Ends /\ At \in MeshSites(S)
          BY <1>1, <2>1, <2>2
        <5> QED
          BY <4>1, <5>1, <5>2, LetInIsPermitted
      <4> QED
        BY <2>1, <4>2
    <3>2. CASE Out # "lan"
      <4>1. /\ b \in Clients /\ run[b] # 0 /\ At \in DOMAIN Conf(b).allowed
            /\ a \in Conf(b).allowed[At]
        BY <3>2 DEF Arrives
      <4>2. b \in ActiveClients(S) /\ ClientLists(S, b, At, a)
        BY <2>2, <4>1
      <4>3. Out = "wg"
        BY <3>2 DEF Out
      <4> HIDE DEF S, a, b
      <4>4. S \in Snapshot /\ a \in Ends
        BY <1>1, <2>1
      <4>5. ClientPath(S, b, a)
        BY <4>2, <4>4, TakenHasPath
      <4>6. Accepts(S, At, In, "wg", a, b)
        BY <2>3, <4>3
      <4>7. S.client[b].inbound
        BY <4>1, <4>4, <4>6, LetOutIsConsented
      <4>8. a \in Nets
        BY <4>4, <4>5 DEF ClientPath, Snapshot
      <4>9. Permitted(S, a, b)
        BY <4>1, <4>5, <4>7, <4>8 DEF Permitted, MeshAssumption
      <4> QED
        BY <2>1, <4>9 DEF S, a, b
    <3> QED
      BY <3>1, <3>2
  <2> DEFINE w == Way(S, a, b)
             n == Len(pkt.path)
  <2>5. /\ Len(w) \in 1..3 /\ n \in 1..Len(w) /\ At = w[n] /\ n = Len(w)
        /\ OnWay(S, conv.src, conv.dst) = {w[i] : i \in 1..Len(w)}
    BY <2>4, Underway
  <2>6. /\ \A j \in 1..n : w[j] # down
        /\ \A j \in 1..(n - 1) : "request" \in tracked[w[j]]
    BY <2>1, <2>4 DEF DeliveryInv, OnItsWay
  <2> HIDE DEF w, n
  <2>7. \A j \in 1..n : j = n \/ j \in 1..(n - 1)
    BY <2>5
  <2> QED
    BY <2>1, <2>4, <2>5, <2>6, <2>7 DEF Clear
<1> QED
  BY <1>3, <1>4

\* What is dropped while nothing changes was not permitted, or met one that is down.
LEMMA DroppedIsNotClear ==
  ASSUME MeshAssumption, DeliveryInv, Calm, Drop \/ DropInvalid
  PROVE  ~Clear
<1> SUFFICES ASSUME Clear PROVE FALSE
  OBVIOUS
<1> DEFINE w == Way(Current, Src(pkt.dir), Dst(pkt.dir))
           n == Len(pkt.path)
<1>1. pkt # None /\ Permitted(Current, conv.src, conv.dst)
  BY DEF Clear, Drop, DropInvalid
<1>2. /\ Len(w) \in 1..3 /\ n \in 1..Len(w) /\ At = w[n]
      /\ \A i \in 1..Len(w) : w[i] \in OnWay(Current, conv.src, conv.dst) /\ w[i] \in Sites
      /\ Passes
      /\ Arrives <=> n = Len(w)
      /\ n < Len(w) => Via = {w[n + 1]} /\ (Takes(w[n + 1], At, Src(pkt.dir)) <=> w[n + 1] # down)
  BY <1>1, Underway
<1>3. CASE Drop
  <2>1. ~Arrives /\ \A q \in Sites : ~MovesTo(q)
    BY <1>2, <1>3 DEF Drop
  <2> HIDE DEF w
  <2>2. n < Len(w) /\ n + 1 \in 1..Len(w) /\ n < 3
    BY <1>2, <2>1
  <2>3. w[n + 1] \in Sites /\ w[n + 1] # down
    BY <1>2, <2>2 DEF Clear
  <2>4. n < MaxHops
    BY <2>2, <1>2 DEF MeshAssumption
  <2>5. MovesTo(w[n + 1])
    BY <1>2, <2>2, <2>3, <2>4 DEF MovesTo
  <2> QED
    BY <2>1, <2>3, <2>5
<1>4. CASE DropInvalid
  <2>1. pkt.dir = "reply" /\ tracked[At] = {}
    BY <1>4 DEF DropInvalid
  <2>2. \A g \in OnWay(Current, conv.src, conv.dst) : "request" \in tracked[g]
    BY <1>1, <2>1 DEF DeliveryInv, AsPlanned
  <2> QED
    BY <1>2, <2>1, <2>2
<1> QED
  BY <1>3, <1>4

LEMMA DeliverStep ==
  ASSUME MeshAssumption, NoneAssumption, DeliveryInv, Deliver
  PROVE  (Before /\ AsPlanned /\ OnItsWay /\ NewSeesNoReply)'
<1>1. /\ pkt # None /\ Passes /\ Arrives /\ pkt' = None /\ Track
      /\ last' = [dir |-> pkt.dir, fate |-> "delivered", new |-> pkt.new]
      /\ conv' = [conv EXCEPT !.met = TRUE] /\ UNCHANGED <<plans, run, down>>
  BY DEF Deliver
<1>2. conv # None /\ conv \in [src : Ends, dst : Ends, met : BOOLEAN, version : 0..Len(plans)]
  BY <1>1 DEF DeliveryInv, IInv, TypeOK
<1>3. /\ conv' \in [src : Ends, dst : Ends, met : BOOLEAN, version : Nat]
      /\ conv'.src = conv.src /\ conv'.dst = conv.dst /\ conv'.version = conv.version /\ conv'.met
  <2>1. conv' = [conv EXCEPT !.met = TRUE]
    BY <1>1
  <2>2. conv.src \in Ends /\ conv.dst \in Ends /\ conv.version \in 0..Len(plans) /\
          Len(plans) \in Nat
    BY <1>2, CurrentFacts DEF DeliveryInv
  <2>3. conv' = [src |-> conv.src, dst |-> conv.dst, met |-> TRUE, version |-> conv.version]
    BY <1>2, <2>1
  <2>4. conv.version \in Nat
    BY <2>2
  <2> QED
    BY <2>2, <2>3, <2>4
<1>4. conv' # None
  BY <1>3 DEF NoneAssumption
<1>5. /\ At \in Sites /\ pkt.dir \in Directions
      /\ \A g \in Sites : tracked'[g] = IF g = At THEN tracked[g] \union {pkt.dir} ELSE tracked[g]
  BY <1>1, Tracks DEF DeliveryInv
<1>6. /\ Calm' <=> Calm
      /\ Current' = Current /\ Converged' = Converged /\ Clear' = Clear
  BY <1>1, <1>2, <1>3, <1>4 DEF Calm, Current, Converged, Clear
<1>7. OnWay(Current, conv.src, conv.dst)' = OnWay(Current, conv.src, conv.dst)
  BY <1>3, <1>6
<1>8. AsPlanned'
  <2> SUFFICES ASSUME Calm PROVE AsPlanned'
    BY <1>6 DEF AsPlanned
  <2>1. /\ Clear
        /\ \A g \in OnWay(Current, conv.src, conv.dst) :
             "request" \in tracked[g] \/ (g = At /\ pkt.dir = "request")
    BY <1>1, ArrivedIsClear
  <2>2. \A g \in OnWay(Current, conv.src, conv.dst) : g \in Sites
    BY <1>1, <2>1, Underway DEF Clear
  <2>3. \A g \in OnWay(Current, conv.src, conv.dst) : "request" \in tracked'[g]
    BY <1>5, <2>1, <2>2
  <2>4. last'.fate = "delivered" /\ Converged
    BY <1>1 DEF DeliveryInv, AsPlanned
  <2> QED
    BY <1>1, <1>3, <1>6, <1>7, <2>1, <2>3, <2>4 DEF AsPlanned
<1> QED
  BY <1>1, <1>4, <1>8 DEF Before, OnItsWay, NewSeesNoReply

LEMMA DropStep ==
  ASSUME MeshAssumption, DeliveryInv, Drop \/ DropInvalid
  PROVE  (Before /\ AsPlanned /\ OnItsWay /\ NewSeesNoReply)'
<1>1. /\ pkt # None /\ pkt' = None
      /\ last' = [dir |-> pkt.dir, fate |-> "lost", new |-> pkt.new]
      /\ UNCHANGED <<plans, run, down, conv>>
      /\ Track \/ UNCHANGED tracked
  BY DEF Drop, DropInvalid, Lose
<1>2. conv # None /\ pkt.dir \in Directions
  BY <1>1 DEF DeliveryInv, IInv, TypeOK
<1>3. \A g \in Sites : tracked'[g] = tracked[g] \/ tracked'[g] = tracked[g] \union {pkt.dir}
  BY <1>1, Tracks DEF DeliveryInv
<1>4. Calm' = Calm /\ Current' = Current /\ Converged' = Converged /\ Clear' = Clear
  BY <1>1 DEF Calm, Current, Converged, Clear
<1>5. OnWay(Current, conv.src, conv.dst)' = OnWay(Current, conv.src, conv.dst)
  BY <1>1, <1>4
<1>6. AsPlanned'
  <2> SUFFICES ASSUME Calm PROVE AsPlanned'
    BY <1>4 DEF AsPlanned
  <2>1. /\ Converged
        /\ conv.met => /\ Clear
                       /\ \A g \in OnWay(Current, conv.src, conv.dst) : "request" \in tracked[g]
        /\ ~conv.met => \A g \in Sites : "reply" \notin tracked[g]
        /\ pkt.dir = "reply" => conv.met
    BY <1>1 DEF DeliveryInv, AsPlanned
  <2>2. ~Clear
    BY DroppedIsNotClear
  <2>3. ~conv.met /\ pkt.dir = "request"
    BY <1>2, <2>1, <2>2 DEF Directions
  <2>4. ASSUME NEW g \in Sites PROVE "reply" \notin tracked'[g]
    <3>1. tracked'[g] = tracked[g] \union {"request"} \/ tracked'[g] = tracked[g]
      BY <1>3, <2>3
    <3> QED
      BY <2>1, <2>3, <3>1
  <2>5. ~(last'.fate = "delivered")
    BY <1>1
  <2> QED
    BY <1>1, <1>4, <2>1, <2>2, <2>3, <2>4, <2>5 DEF AsPlanned
<1> QED
  BY <1>1, <1>2, <1>6 DEF Before, OnItsWay, NewSeesNoReply

LEMMA NextDelivery ==
  DeliveryInv /\ [Next]_vars => DeliveryInv'
<1> SUFFICES ASSUME DeliveryInv, [Next]_vars PROVE DeliveryInv'
  OBVIOUS
<1> USE MeshAssumption, NoneAssumption
<1>1. IInv'
  BY NextIInv DEF DeliveryInv
<1>2. (Before /\ AsPlanned /\ OnItsWay /\ NewSeesNoReply)'
  <2>1. CASE UNCHANGED vars
    BY <2>1 DEF vars, DeliveryInv, Before, AsPlanned, OnItsWay, NewSeesNoReply, Calm, Clear,
                Current, Converged, Src, Dst
  <2> QED
    BY <2>1, PlanSteps, BeginStep, SendStep, RelayStep, DeliverStep, DropStep DEF Next
<1> QED
  BY <1>1, <1>2 DEF DeliveryInv

LEMMA InitDelivery == Init => DeliveryInv
<1> SUFFICES ASSUME Init PROVE DeliveryInv
  OBVIOUS
<1>1. IInv
  BY InitIInv
<1> QED
  BY <1>1 DEF Init, DeliveryInv, Before, AsPlanned, OnItsWay, NewSeesNoReply, Calm

---------------------------------------------------------------------------
(* The theorems about delivery *)

LEMMA InductiveDelivery == Spec => []DeliveryInv
  BY InitDelivery, NextDelivery, PTL DEF Spec

LEMMA WayInSites ==
  ASSUME MeshAssumption, IInv, conv # None, Permitted(Current, conv.src, conv.dst)
  PROVE  OnWay(Current, conv.src, conv.dst) \subseteq Sites
<1>1. conv.src \in Ends /\ conv.dst \in Ends /\ Current \in Snapshot
  BY CurrentFacts DEF IInv, TypeOK
<1>2. Carries(Current, Way(Current, conv.src, conv.dst), conv.src, conv.dst)
  BY <1>1, WayCarries DEF Connected
<1> QED
  BY <1>2 DEF Carries, OnWay, MeshSites

\* A packet that is there before a step, and after it is gone and delivered, is
\* delivered by that step.
LEMMA OnlyDelivers ==
  ASSUME NoneAssumption, DeliveryInv, Next, pkt # None, pkt' = None, last'.fate = "delivered"
  PROVE  Deliver
<1>1. pkt \in [dir : Directions, path : Seq(Sites), new : BOOLEAN, steady : BOOLEAN]
  BY DEF DeliveryInv, IInv, TypeOK
<1>2. ASSUME NEW x \in Sites \union Clients, Apply(x) PROVE FALSE
  <2>1. pkt' = [pkt EXCEPT !.steady = FALSE]
    BY <1>2 DEF Apply
  <2>2. pkt' \in [dir : Directions, path : Seq(Sites), new : BOOLEAN, steady : BOOLEAN]
    BY <1>1, <2>1
  <2> QED
    BY <2>2 DEF NoneAssumption
<1>3. ASSUME NEW q \in Sites, Relay(q) PROVE FALSE
  <2>1. pkt' = [pkt EXCEPT !.path = Append(pkt.path, q)]
    BY <1>3 DEF Relay
  <2>2. Append(pkt.path, q) \in Seq(Sites)
    BY <1>1
  <2>3. pkt' \in [dir : Directions, path : Seq(Sites), new : BOOLEAN, steady : BOOLEAN]
    BY <1>1, <2>1, <2>2
  <2> QED
    BY <2>3 DEF NoneAssumption
<1>4. ~Drop /\ ~DropInvalid
  BY DEF Drop, DropInvalid, Lose
<1>5. /\ \A S \in EditPlans : ~Edit(S)
      /\ \A g \in Sites : ~Stop(g)
      /\ \A a, b \in Ends : ~Begin(a, b)
      /\ \A d \in Directions : ~Send(d)
  BY DEF Edit, Stop, Begin, Send
<1> QED
  BY <1>2, <1>3, <1>4, <1>5 DEF Next

\* A new connection is let in by the rules of the gateway it is at, and by the
\* file of the client it is for.
LEMMA NewDelivered ==
  ASSUME MeshAssumption, DeliveryInv, pkt # None, pkt.new, Deliver
  PROVE  IF conv.dst \in Nets
         THEN \E S \in Running(Sites) : Permitted(S, conv.src, conv.dst)
         ELSE /\ \E S \in Running({conv.dst}) : ClientPath(S, conv.dst, conv.src)
              /\ \E S \in Running(Sites) :
                   S.client[conv.dst].enabled /\ S.client[conv.dst].inbound
<1> DEFINE S == plans[run[At]].snapshot
           a == conv.src
           b == conv.dst
<1>1. /\ IInv /\ conv # None /\ At \in Sites /\ a \in Ends /\ b \in Ends
      /\ pkt.dir = "request" /\ Src(pkt.dir) = a /\ Dst(pkt.dir) = b
      /\ "reply" \notin tracked[At]
  BY DEF DeliveryInv, NewSeesNoReply, IInv, TypeOK, Src, Dst
<1>2. /\ Up(At) /\ Arrives /\ <<In, Out, a, b>> \in Conf(At).accept
  BY <1>1 DEF Deliver, Passes, Opposite
<1>3. run[At] # 0 /\ S \in Snapshot /\ Conf(At) = Files(S, At) /\ At \in MeshSites(S)
  BY <1>1, <1>2, RunsFiles DEF Up
<1>4. Accepts(S, At, In, Out, a, b)
  <2> HIDE DEF S, a, b
  <2> QED
    BY <1>1, <1>2, <1>3, GatewayReads
<1>5. S \in Running(Sites)
  BY <1>1, <1>3 DEF Running
<1> HIDE DEF S
<1>6. CASE Out = "lan"
  <2>1. b \in Nets /\ Home[b] = At
    BY <1>1, <1>6 DEF Out
  <2>2. Accepts(S, At, In, "lan", a, b)
    BY <1>4, <1>6
  <2>3. Permitted(S, a, b)
    BY <1>1, <1>3, <2>1, <2>2, LetInIsPermitted
  <2> QED
    BY <1>5, <2>1, <2>3
<1>7. CASE Out # "lan"
  <2> DEFINE T == plans[run[b]].snapshot
  <2>1. /\ b \in Clients /\ run[b] # 0 /\ At \in DOMAIN Conf(b).allowed
        /\ a \in Conf(b).allowed[At]
    BY <1>1, <1>2, <1>7 DEF Arrives
  <2>2. Out = "wg"
    BY <1>7 DEF Out
  <2>3. Accepts(S, At, In, "wg", a, b)
    BY <1>4, <2>2
  <2>4. S.client[b].enabled /\ S.client[b].inbound
    BY <1>3, <2>1, <2>3, LetOutIsConsented
  <2>5. T \in Snapshot /\ Conf(b) = Files(T, b) /\ b \in ActiveClients(T)
    BY <1>1, <2>1, RunsFiles
  <2>6. T \in Running({b})
    BY <2>1 DEF Running
  <2> HIDE DEF T
  <2>7. ClientLists(T, b, At, a)
    BY <2>1, <2>5, ClientReads
  <2>8. ClientPath(T, b, a)
    BY <1>1, <2>5, <2>7, TakenHasPath
  <2>9. b \notin Nets
    BY <2>1 DEF MeshAssumption
  <2> QED
    BY <1>5, <2>4, <2>6, <2>8, <2>9
<1> QED
  BY <1>6, <1>7

\* Once everyone runs the current plan, what it permits is delivered, over a
\* relay as well as directly, and nothing else is, for any plan and whatever
\* was run before (src/core/topology.ts, generate/wireguard.ts, nftables.ts).
THEOREM AlwaysDeliversPermitted == Spec => []DeliversPermitted
<1>1. ASSUME DeliveryInv PROVE DeliversPermitted
  <2> SUFFICES ASSUME Settled, down = None
               PROVE  last.fate = "delivered" <=> Permitted(Current, conv.src, conv.dst)
    BY DEF DeliversPermitted
  <2>1. conv # None
    BY <1>1 DEF Settled, DeliveryInv, Before
  <2>2. last.fate = "delivered" <=> Clear
    BY <1>1, <2>1 DEF Settled, Calm, DeliveryInv, AsPlanned
  <2>3. Permitted(Current, conv.src, conv.dst) => None \notin OnWay(Current, conv.src, conv.dst)
    BY <1>1, <2>1, MeshAssumption, WayInSites DEF DeliveryInv, MeshAssumption
  <2> QED
    BY <2>2, <2>3 DEF Clear
<1> QED
  BY <1>1, InductiveDelivery, PTL

\* What the report of single points of failure says is lost with a gateway is
\* what is lost when it stops, no more and no less (src/core/topology.ts).
THEOREM ReportAlwaysTrue == Spec => []SpofIsTrue
<1>1. ASSUME DeliveryInv PROVE SpofIsTrue
  <2> SUFFICES ASSUME Settled, down # None, Permitted(Current, conv.src, conv.dst),
                      \A n \in {conv.src, conv.dst} \intersect Nets : Home[n] # down
               PROVE  last.fate = "lost" <=> CutOff(Current, down, conv.src, conv.dst)
    BY DEF SpofIsTrue
  <2>1. conv # None
    BY <1>1 DEF Settled, DeliveryInv, Before
  <2>2. last.fate = "delivered" <=> Clear
    BY <1>1, <2>1 DEF Settled, Calm, DeliveryInv, AsPlanned
  <2>3. last.fate \in {"delivered", "lost"} /\ down \in Sites /\ conv.src \in Ends /\
          conv.dst \in Ends
    BY <1>1, <2>1 DEF Settled, DeliveryInv, IInv, TypeOK
  <2>4. Current \in Snapshot
    BY <1>1, MeshAssumption, CurrentFacts DEF DeliveryInv
  <2>5. down \in OnWay(Current, conv.src, conv.dst) <=> CutOff(Current, down, conv.src, conv.dst)
    BY <2>3, <2>4, MeshAssumption, ReportIsTrue
  <2> QED
    BY <2>2, <2>3, <2>5 DEF Clear
<1> QED
  BY <1>1, InductiveDelivery, PTL

\* A new connection gets through where a version that a gateway runs permits it,
\* and to a client where its own file takes it and a gateway's version lets it
\* in, however far the versions are apart (the forward chain and both ends'
\* AllowedIPs).
THEOREM NewAlwaysPermitted == Spec => NewIsPermitted
<1> DEFINE A == pkt # None /\ pkt.new /\ pkt' = None /\ last'.fate = "delivered" =>
         IF conv.dst \in Nets
         THEN \E S \in Running(Sites) : Permitted(S, conv.src, conv.dst)
         ELSE /\ \E S \in Running({conv.dst}) : ClientPath(S, conv.dst, conv.src)
              /\ \E S \in Running(Sites) :
                   S.client[conv.dst].enabled /\ S.client[conv.dst].inbound
<1>1. ASSUME DeliveryInv, [Next]_vars PROVE [A]_vars
  <2> USE MeshAssumption, NoneAssumption
  <2> SUFFICES ASSUME pkt # None, pkt.new, pkt' = None, last'.fate = "delivered", Next
               PROVE  IF conv.dst \in Nets
                      THEN \E S \in Running(Sites) : Permitted(S, conv.src, conv.dst)
                      ELSE /\ \E S \in Running({conv.dst}) : ClientPath(S, conv.dst, conv.src)
                           /\ \E S \in Running(Sites) :
                                S.client[conv.dst].enabled /\ S.client[conv.dst].inbound
    BY <1>1
  <2> HIDE DEF A
  <2>1. Deliver
    BY <1>1, OnlyDelivers
  <2> QED
    BY <1>1, <2>1, NewDelivered
<1> QED
  BY <1>1, InductiveDelivery, PTL DEF Spec, NewIsPermitted

---------------------------------------------------------------------------
(* How far an error reaches *)

\* x is among those that a finding holds.
Reaches(S, f, x) == x \in (f.sites \intersect MeshSites(S)) \union f.clients

Named(S, x) ==
    LET file == Files(S, x)
    IN  {x} \union DOMAIN file.allowed \union Listed(file)
        \union (IF x \in Sites THEN SharedNets(S, x) ELSE {})

OwnersIn(S, x) ==
    (Named(S, x) \intersect Owners) \union {Home[n] : n \in Named(S, x) \intersect Nets}

LEMMA HopBack ==
  ASSUME MeshAssumption, NEW S \in Snapshot, NEW a \in MeshSites(S), NEW b \in MeshSites(S)
  PROVE  NextHop(S, a, b) # None <=> NextHop(S, b, a) # None
<1>1. a \in Sites /\ b \in Sites /\ a # None /\ b # None
  BY DEF MeshSites, MeshAssumption
<1>2. ArePeered(S, a, b) <=> ArePeered(S, b, a)
  BY DEF ArePeered
<1> QED
  BY <1>1, <1>2 DEF NextHop

\* A site is listed wherever there is a way to it.
LEMMA SiteListed ==
  ASSUME MeshAssumption, NEW S \in Snapshot, NEW g \in MeshSites(S),
           NEW t \in MeshSites(S), t # g,
         NextHop(S, g, t) # None
  PROVE  \E p : Lists(S, g, p, t)
<1> DEFINE q == NextHop(S, g, t)
<1>1. t \in Sites /\ g \in Sites
  BY DEF MeshSites
<1>2. ArePeered(S, g, q) /\ q \in Sites
  <2>1. CASE ArePeered(S, g, t)
    BY <1>1, <2>1 DEF NextHop
  <2>2. CASE ~ArePeered(S, g, t)
    <3>1. q = FirstHub(S) /\ q \in Hubs(S)
      BY <2>2, HubFacts DEF NextHop
    <3>2. g \notin Hubs(S)
      BY <2>2, HubFacts
    <3> QED
      BY <3>1, <3>2, HubFacts
  <2> QED
    BY <2>1, <2>2
<1>3. q \in Peers(S, g) /\ q \notin Clients
  BY <1>2 DEF Peers, MeshAssumption
<1>4. t \in {q} \union TransitDestinationsVia(S, g, q)
  BY DEF TransitDestinationsVia
<1>5. t \in AllowedIps(S, g, q)
  BY <1>3, <1>4 DEF AllowedIps, GatewayPeerAllowedIps
<1> QED
  BY <1>3, <1>5 DEF Lists

\* What a gateway lists of sites: those there is a way to, and their networks.
LEMMA ListedSites ==
  ASSUME MeshAssumption, NEW S \in Snapshot, NEW g \in MeshSites(S), NEW p, NEW y,
           Lists(S, g, p, y)
  PROVE  \/ y \in MeshSites(S) /\ y # g /\ NextHop(S, g, y) # None
         \/ y \in S.shared /\ y \in Nets /\ Home[y] \in MeshSites(S) /\ Home[y] # g
            /\ NextHop(S, g, Home[y]) # None
         \/ y \in ActiveClients(S) /\ ClientRouteFrom(S, g, y) # None
<1>1. g \in Sites /\ p \in Peers(S, g) /\ y \in AllowedIps(S, g, p)
  BY DEF MeshSites, Lists
<1>2. CASE p \in Clients
  <2>1. y = p /\ p \in ActiveClients(S) /\ g \in ClientEntrySites(S, p)
    BY <1>1, <1>2 DEF AllowedIps, Peers, MeshAssumption
  <2> QED
    BY <1>2, <2>1 DEF ClientRouteFrom, MeshAssumption
<1>3. CASE p \notin Clients
  <2>1. p \in Sites /\ ArePeered(S, g, p) /\ y \in GatewayPeerAllowedIps(S, g, p) /\ p # None
    BY <1>1, <1>3, SitePeer DEF AllowedIps, MeshAssumption
  <2>2. CASE y \in {c \in ActiveClients(S) : ClientRouteFrom(S, g, c) = p}
    BY <2>1, <2>2
  <2>3. ASSUME NEW t \in {p} \union TransitDestinationsVia(S, g, p),
               y \in {t} \union SharedNets(S, t)
        PROVE  \/ y \in MeshSites(S) /\ y # g /\ NextHop(S, g, y) # None
               \/ y \in S.shared /\ y \in Nets /\ Home[y] \in MeshSites(S) /\ Home[y] # g
                  /\ NextHop(S, g, Home[y]) # None
    <3>1. t \in Sites /\ t # g /\ NextHop(S, g, t) = p
      BY <1>1, <2>1, CarrierIsNextHop
    <3>2. t \in MeshSites(S)
      BY <2>1 DEF ArePeered, TransitDestinationsVia
    <3>3. S.shared \subseteq Nets
      BY DEF Snapshot
    <3> QED
      BY <2>1, <2>3, <3>1, <3>2, <3>3 DEF SharedNets
  <2>4. \/ y \in {c \in ActiveClients(S) : ClientRouteFrom(S, g, c) = p}
        \/ \E t \in {p} \union TransitDestinationsVia(S, g, p) : y \in {t} \union SharedNets(S, t)
    BY <2>1 DEF GatewayPeerAllowedIps
  <2> QED
    BY <2>2, <2>3, <2>4
<1> QED
  BY <1>2, <1>3

\* The names in a gateway's file, and in a client's.
LEMMA GatewayNames ==
  ASSUME MeshAssumption, NEW S \in Snapshot, NEW g \in MeshSites(S)
  PROVE  \A y : y \in Named(S, g) <=> \/ y = g \/ y \in Peers(S, g) \/ y \in SharedNets(S, g)
                                      \/ \E p : Lists(S, g, p, y)
<1>1. g \in Sites
  BY DEF MeshSites
<1>2. Files(S, g).allowed = [p \in Peers(S, g) |-> AllowedIps(S, g, p)]
  BY <1>1 DEF Files
<1> QED
  BY <1>1, <1>2 DEF Named, Listed, Lists

LEMMA ClientNames ==
  ASSUME MeshAssumption, NEW S \in Snapshot, NEW c \in ActiveClients(S)
  PROVE  \A y : y \in Named(S, c) <=>
           \/ y = c \/ y \in ClientEntrySites(S, c)
           \/ \E e \in ClientEntrySites(S, c) : \E s \in ClientCarriedByEntry(S, c, e) :
                y = s \/ y \in SharedNets(S, s)
<1>1. c \in Clients /\ c \notin Sites
  BY DEF ActiveClients, MeshAssumption
<1>2. Files(S, c).allowed = [e \in ClientEntrySites(S, c) |-> ClientAllowedIps(S, c, e)]
  BY <1>1 DEF Files
<1>3. \A y : y \in Listed(Files(S, c)) <=>
         \E e \in ClientEntrySites(S, c) : y \in ClientAllowedIps(S, c, e)
  BY <1>2 DEF Listed
<1>4. \A y : y \in Named(S, c) <=>
         y = c \/ y \in ClientEntrySites(S, c) \/ y \in Listed(Files(S, c))
  BY <1>1, <1>2 DEF Named
<1>5. \A e, y : y \in ClientAllowedIps(S, c, e) <=>
                  \E s \in ClientCarriedByEntry(S, c, e) : y = s \/ y \in SharedNets(S, s)
  BY DEF ClientAllowedIps
<1> QED
  BY <1>3, <1>4, <1>5

\* An error in a site reaches the gateways whose file names the site, no others.
LEMMA SiteReachesGateways ==
  ASSUME MeshAssumption, NEW S \in Snapshot, NEW g \in MeshSites(S), NEW o \in Sites
  PROVE  Reaches(S, SiteReach(S, o), g) <=> o \in OwnersIn(S, g)
<1>1. g \in Sites /\ g \notin Clients /\ o \notin Clients /\ o \notin Nets /\ o \in Owners
  BY DEF MeshSites, MeshAssumption, Owners
<1>2. Reaches(S, SiteReach(S, o), g)
        <=> o \in MeshSites(S) /\ (g = o \/ (g # o /\ NextHop(S, o, g) # None))
  BY <1>1 DEF Reaches, SiteReach, NoScope, ReachableSitesFrom, ActiveClients
<1>3. ASSUME o \in OwnersIn(S, g) PROVE o \in MeshSites(S) /\ (g = o \/ NextHop(S, o, g) # None)
  <2>1. ASSUME NEW p, Lists(S, g, p, o)
        PROVE  o \in MeshSites(S) /\ NextHop(S, g, o) # None
    BY <1>1, <2>1, ListedSites DEF ActiveClients, Snapshot
  <2>2. CASE o \in Named(S, g)
    <3>1. CASE o \in Peers(S, g)
      <4>1. ArePeered(S, g, o)
        BY <1>1, <3>1 DEF Peers, ActiveClients
      <4> QED
        BY <1>1, <4>1, MeshAssumption DEF ArePeered, NextHop, MeshAssumption
    <3>2. CASE \E p : Lists(S, g, p, o)
      BY <2>1, <3>2, HopBack
    <3>3. o \notin SharedNets(S, g)
      BY <1>1 DEF SharedNets, Snapshot
    <3> QED
      BY <2>2, <3>1, <3>2, <3>3, GatewayNames
  <2>3. CASE \E n \in Named(S, g) \intersect Nets : Home[n] = o
    <3>1. PICK n \in Named(S, g) \intersect Nets : Home[n] = o
      BY <2>3
    <3>2. n # g /\ n \notin Peers(S, g)
      BY <1>1 DEF Peers, ActiveClients, MeshAssumption
    <3>3. CASE n \in SharedNets(S, g)
      BY <3>1, <3>3 DEF SharedNets
    <3>4. CASE \E p : Lists(S, g, p, n)
      <4>1. n \notin Sites /\ n \notin Clients
        BY DEF MeshAssumption
      <4>2. o \in MeshSites(S) /\ NextHop(S, g, o) # None
        BY <3>1, <3>4, <4>1, ListedSites DEF MeshSites, ActiveClients
      <4> QED
        BY <4>2, HopBack
    <3> QED
      BY <3>2, <3>3, <3>4, GatewayNames
  <2> QED
    BY <1>3, <2>2, <2>3 DEF OwnersIn
<1>4. ASSUME o \in MeshSites(S), g = o \/ (g # o /\ NextHop(S, o, g) # None)
      PROVE  o \in OwnersIn(S, g)
  <2>1. o \in Named(S, g)
    <3>1. CASE g = o
      BY <3>1, GatewayNames
    <3>2. CASE g # o /\ NextHop(S, o, g) # None
      <4>1. NextHop(S, g, o) # None
        BY <1>4, <3>2, HopBack
      <4> QED
        BY <1>4, <3>2, <4>1, SiteListed, GatewayNames
    <3> QED
      BY <1>4, <3>1, <3>2
  <2> QED
    BY <1>1, <2>1 DEF OwnersIn
<1> QED
  BY <1>2, <1>3, <1>4

\* One in a client reaches the gateways that carry its address.
LEMMA ClientReachesGateways ==
  ASSUME MeshAssumption, NEW S \in Snapshot, NEW g \in MeshSites(S), NEW c \in Clients
  PROVE  Reaches(S, ClientReach(S, c), g) <=> c \in OwnersIn(S, g)
<1>1. g \in Sites /\ g \notin Clients /\ c \notin Sites /\ c \notin Nets /\ c \in Owners /\ g # c
  BY DEF MeshSites, MeshAssumption, Owners
<1>2. Reaches(S, ClientReach(S, c), g) <=>
         c \in ActiveClients(S) /\ ClientRouteFrom(S, g, c) # None
  BY <1>1 DEF Reaches, ClientReach, Only, ActiveClients
<1>3. ASSUME c \in OwnersIn(S, g) PROVE c \in ActiveClients(S) /\ ClientRouteFrom(S, g, c) # None
  <2>1. \A n \in Nets : Home[n] # c
    BY <1>1 DEF MeshAssumption
  <2>2. c \in Named(S, g)
    BY <1>3, <2>1 DEF OwnersIn
  <2>3. CASE c \in Peers(S, g)
    <3>1. c \in ActiveClients(S) /\ g \in ClientEntrySites(S, c)
      BY <1>1, <2>3 DEF Peers
    <3> QED
      BY <3>1 DEF ClientRouteFrom, MeshAssumption
  <2>4. CASE \E p : Lists(S, g, p, c)
    BY <1>1, <2>4, ListedSites DEF MeshSites, MeshAssumption
  <2>5. c \notin SharedNets(S, g)
    BY <1>1 DEF SharedNets, Snapshot
  <2> QED
    BY <1>1, <2>2, <2>3, <2>4, <2>5, GatewayNames
<1>4. ASSUME c \in ActiveClients(S), ClientRouteFrom(S, g, c) # None PROVE c \in OwnersIn(S, g)
  <2>1. Lists(S, g, ClientRouteFrom(S, g, c), c)
    BY <1>4, ClientListed
  <2>2. c \in Named(S, g)
    BY <2>1, GatewayNames
  <2> QED
    BY <1>1, <2>2 DEF OwnersIn
<1> QED
  BY <1>2, <1>3, <1>4

\* One in a site reaches the clients whose file names it.
LEMMA SiteReachesClients ==
  ASSUME MeshAssumption, NEW S \in Snapshot, NEW k \in ActiveClients(S), NEW o \in Sites
  PROVE  Reaches(S, SiteReach(S, o), k) <=> o \in OwnersIn(S, k)
<1> DEFINE onWay == \E e \in ClientEntrySites(S, k) : e = o \/ o \in ClientCarriedByEntry(S, k, e)
<1>1. k \in Clients /\ k \notin Sites /\ k \notin MeshSites(S)
      /\ o \notin Nets /\ o \in Owners /\ k # o
  BY DEF MeshSites, ActiveClients, MeshAssumption, Owners
<1>2. Reaches(S, SiteReach(S, o), k) <=> o \in MeshSites(S) /\ onWay
  BY <1>1 DEF Reaches, SiteReach, NoScope
<1>3. onWay => o \in MeshSites(S)
  BY HubFacts DEF ClientEntrySites, ClientCarriedByEntry
<1>4. onWay => o \in OwnersIn(S, k)
  BY <1>1, ClientNames DEF OwnersIn
<1>5. ASSUME o \in OwnersIn(S, k) PROVE onWay
  <2>1. CASE o \in Named(S, k)
    <3>1. \A s : o \notin SharedNets(S, s)
      BY <1>1 DEF SharedNets, Snapshot
    <3> QED
      BY <1>1, <2>1, <3>1, ClientNames
  <2>2. CASE \E n \in Named(S, k) \intersect Nets : Home[n] = o
    <3>1. PICK n \in Named(S, k) \intersect Nets : Home[n] = o
      BY <2>2
    <3>2. n \notin Sites /\ n # k
      BY <1>1 DEF MeshAssumption
    <3>3. n \notin ClientEntrySites(S, k)
      BY <3>2, HubFacts DEF ClientEntrySites
    <3>4. PICK e \in ClientEntrySites(S, k) : \E s \in ClientCarriedByEntry(S, k, e) :
            n = s \/ n \in SharedNets(S, s)
      BY <3>1, <3>2, <3>3, ClientNames
    <3>5. PICK s \in ClientCarriedByEntry(S, k, e) : n = s \/ n \in SharedNets(S, s)
      BY <3>4
    <3>6. s = o
      BY <3>1, <3>2, <3>5 DEF SharedNets, ClientCarriedByEntry, MeshSites
    <3> QED
      BY <3>5, <3>6
  <2> QED
    BY <1>5, <2>1, <2>2 DEF OwnersIn
<1> QED
  BY <1>2, <1>3, <1>4, <1>5

LEMMA ClientReachesClients ==
  ASSUME MeshAssumption, NEW S \in Snapshot, NEW k \in ActiveClients(S), NEW c \in Clients
  PROVE  Reaches(S, ClientReach(S, c), k) <=> c \in OwnersIn(S, k)
<1>1. k \in Clients /\ k \notin Sites /\ k \notin MeshSites(S) /\ c \notin Nets /\ c \in Owners
      /\ c \notin Sites
  BY DEF MeshSites, ActiveClients, MeshAssumption, Owners
<1>2. Reaches(S, ClientReach(S, c), k) <=> c = k
  BY <1>1 DEF Reaches, ClientReach, Only
<1>3. k \in Named(S, k)
  BY ClientNames
<1>4. ASSUME c \in OwnersIn(S, k) PROVE c = k
  <2>1. \A n \in Nets : Home[n] # c
    BY <1>1 DEF MeshAssumption
  <2>2. c \in Named(S, k)
    BY <1>4, <2>1 DEF OwnersIn
  <2>3. c \notin ClientEntrySites(S, k)
    BY <1>1, HubFacts DEF ClientEntrySites
  <2>4. \A e : \A s \in ClientCarriedByEntry(S, k, e) : c # s /\ c \notin SharedNets(S, s)
    BY <1>1 DEF ClientCarriedByEntry, MeshSites, SharedNets, Snapshot
  <2> QED
    BY <2>2, <2>3, <2>4, ClientNames
<1> QED
  BY <1>1, <1>2, <1>3, <1>4 DEF OwnersIn

\* An error in an owner reaches exactly the files that are about the owner.
LEMMA ReachIsAbout ==
  ASSUME MeshAssumption, NEW S \in Snapshot, NEW x \in Owners, Configured(S, x), NEW o \in Owners
  PROVE  Reaches(S, Reach(S, o), x) <=> o \in OwnersIn(S, x)
<1>1. x \in MeshSites(S) \/ x \in ActiveClients(S)
  BY DEF Configured
<1>2. o \in Sites \/ (o \in Clients /\ o \notin Sites)
  BY DEF Owners
<1> QED
  BY <1>1, <1>2, SiteReachesGateways, ClientReachesGateways, SiteReachesClients,
     ClientReachesClients DEF Reach

\* The networks a file is about are shared, and their sites in the mesh.
LEMMA NamedNets ==
  ASSUME MeshAssumption, NEW S \in Snapshot, NEW x \in Owners, Configured(S, x),
         NEW n \in Named(S, x) \intersect Nets
  PROVE  n \in S.shared /\ Home[n] \in MeshSites(S) /\ Home[n] \in OwnersIn(S, x)
<1>1. n \notin Sites /\ n \notin Clients
  BY DEF MeshAssumption
<1>2. CASE x \in MeshSites(S)
  <2>1. n # x /\ n \notin Peers(S, x)
    BY <1>1, <1>2 DEF MeshSites, Peers, ActiveClients
  <2>2. CASE n \in SharedNets(S, x)
    BY <1>2, <2>2 DEF SharedNets, OwnersIn
  <2>3. CASE \E p : Lists(S, x, p, n)
    BY <1>1, <1>2, <2>3, ListedSites DEF MeshSites, ActiveClients, OwnersIn
  <2> QED
    BY <1>2, <2>1, <2>2, <2>3, GatewayNames
<1>3. CASE x \in ActiveClients(S)
  <2>1. n # x /\ n \notin ClientEntrySites(S, x)
    BY <1>1, <1>3, HubFacts DEF ActiveClients, ClientEntrySites
  <2>2. PICK e \in ClientEntrySites(S, x) : \E s \in ClientCarriedByEntry(S, x, e) :
            n = s \/ n \in SharedNets(S, s)
    BY <1>3, <2>1, ClientNames
  <2>3. PICK s \in ClientCarriedByEntry(S, x, e) : n \in SharedNets(S, s)
    BY <1>1, <2>2 DEF ClientCarriedByEntry, MeshSites
  <2> QED
    BY <2>3 DEF SharedNets, ClientCarriedByEntry, OwnersIn
<1> QED
  BY <1>2, <1>3 DEF Configured

\* Who a file is about is in the mesh, or a client.
LEMMA AboutMesh ==
  ASSUME MeshAssumption, NEW S \in Snapshot, NEW x \in Owners, Configured(S, x),
           NEW o \in OwnersIn(S, x)
  PROVE  o \in MeshSites(S) \union Clients
<1>1. o \in Owners
  <2>1. \A n \in Nets : Home[n] \in Sites
    BY DEF MeshAssumption
  <2> QED
    BY <2>1 DEF OwnersIn, Owners
<1>2. Reaches(S, Reach(S, o), x)
  BY <1>1, ReachIsAbout
<1>3. CASE o \in Sites
  BY <1>2, <1>3 DEF Reach, SiteReach, NoScope, Reaches
<1> QED
  BY <1>1, <1>3 DEF Owners

---------------------------------------------------------------------------
(* What is handed out has no error in it, and what is held back has one *)

HoldsInv ==
    /\ drawn \in [snapshot : Snapshot, data : Data]
    /\ generated = GenerateAll(drawn.snapshot, drawn.data)
    /\ handed = None \/ handed \in DOMAIN generated.bundle \ generated.held

HeldBy(S, D, x) == \E f \in ValidateAll(S, D, Generate(S).bundle) : Reaches(S, f, x)

\* Somebody who is wrong, or the same as another.
FaultyIn(D, x) ==
    \/ x \in D.bad \union D.own
    \/ \E n \in Nets : Home[n] = x /\ (n \in D.wide \/ \E m \in Nets : Overlap(D, n, m))
    \/ \E y \in Owners \ {x} : D.mark[y] = D.mark[x]
    \/ \E y \in Sites \ {x} : x \in Sites /\ D.endpoint[y] = D.endpoint[x]

LEMMA BundleFacts ==
  ASSUME NEW S
  PROVE  /\ DOMAIN Generate(S).bundle = {y \in Owners : Configured(S, y)}
         /\ \A x \in DOMAIN Generate(S).bundle : Generate(S).bundle[x] = Files(S, x)
  BY DEF Generate, Owners

LEMMA GeneratedFacts ==
  ASSUME HoldsInv
  PROVE  /\ drawn.snapshot \in Snapshot /\ drawn.data \in Data
         /\ DOMAIN generated.bundle = {y \in Owners : Configured(drawn.snapshot, y)}
         /\ \A x \in DOMAIN generated.bundle :
              /\ generated.bundle[x] = Files(drawn.snapshot, x)
              /\ x \in generated.held <=> HeldBy(drawn.snapshot, drawn.data, x)
              /\ About(x).owners = OwnersIn(drawn.snapshot, x)
              /\ About(x).nets = Named(drawn.snapshot, x) \intersect Nets
<1> DEFINE S == drawn.snapshot
           D == drawn.data
<1>1. S \in Snapshot /\ D \in Data
  BY DEF HoldsInv
<1>2. /\ generated.bundle = Generate(S).bundle
      /\ generated.held = HeldConfigs(S, ValidateAll(S, D, Generate(S).bundle))
  BY DEF HoldsInv, GenerateAll
<1>3. /\ DOMAIN generated.bundle = {y \in Owners : Configured(S, y)}
      /\ \A x \in DOMAIN generated.bundle : generated.bundle[x] = Files(S, x)
  BY <1>2, BundleFacts
<1>4. \A x : x \in generated.held <=> HeldBy(S, D, x)
  BY <1>2 DEF HeldConfigs, HeldBy, Reaches
<1>5. ASSUME NEW x \in DOMAIN generated.bundle
      PROVE  /\ About(x).owners = OwnersIn(S, x)
             /\ About(x).nets = Named(S, x) \intersect Nets
  <2>1. generated.bundle[x] = Files(S, x)
    BY <1>3
  <2> QED
    BY <2>1 DEF About, OwnersIn, Named
<1> QED
  BY <1>1, <1>3, <1>4, <1>5

\* A fault in what a file is about, or in the file, is found and holds the file.
LEMMA FaultIsFound ==
  ASSUME MeshAssumption, NEW S \in Snapshot, NEW D \in Data, NEW x \in Owners, Configured(S, x),
         \/ D.settings \/ x \in D.own
         \/ OwnersIn(S, x) \intersect D.bad # {}
         \/ Listed(Files(S, x)) \intersect D.wide # {}
         \/ \E n, m \in Named(S, x) \intersect Nets : Overlap(D, n, m)
         \/ \E o, q \in OwnersIn(S, x) : o # q /\ D.mark[o] = D.mark[q]
         \/ \E o, q \in OwnersIn(S, x) \intersect Hubs(S) : o # q /\ D.endpoint[o] = D.endpoint[q]
  PROVE  HeldBy(S, D, x)
<1> DEFINE B == Generate(S).bundle
           F == ValidateAll(S, D, B)
<1>1. x \in MeshSites(S) \/ x \in Clients
  BY DEF Configured, ActiveClients
<1>2. \A o \in OwnersIn(S, x) : o \in Owners /\ o \in MeshSites(S) \union Clients
  BY AboutMesh DEF Owners, MeshSites
<1>3. \A o \in OwnersIn(S, x) : Reaches(S, Reach(S, o), x)
  BY <1>2, ReachIsAbout
<1>4. ASSUME NEW a, NEW b, Reaches(S, a, x) \/ Reaches(S, b, x) PROVE Reaches(S, Both(a, b), x)
  BY <1>4 DEF Reaches, Both
<1>5. \A o \in OwnersIn(S, x) \intersect Sites : Reach(S, o) = SiteReach(S, o)
  BY DEF Reach
<1>6. Reaches(S, Only(x), x) /\ Reaches(S, Everything(S), x)
  BY <1>1 DEF Reaches, Only, Everything, MeshSites
<1>7. CASE D.settings
  <2>1. Everything(S) \in F
    BY <1>7 DEF ValidateAll, OwnFindings
  <2> QED
    BY <1>6, <2>1 DEF HeldBy
<1>8. CASE x \in D.own
  <2>1. Only(x) \in F
    BY <1>8 DEF ValidateAll, OwnFindings
  <2> QED
    BY <1>6, <2>1 DEF HeldBy
<1>9. CASE OwnersIn(S, x) \intersect D.bad # {}
  <2>1. PICK o \in OwnersIn(S, x) : o \in D.bad
    BY <1>9
  <2>2. Reach(S, o) \in F
    BY <2>1 DEF ValidateAll, OwnFindings
  <2> QED
    BY <1>3, <2>1, <2>2 DEF HeldBy
<1>10. CASE Listed(Files(S, x)) \intersect D.wide # {}
  <2>1. x \in DOMAIN B /\ B[x] = Files(S, x)
    BY BundleFacts
  <2>2. Only(x) \in F
    BY <1>10, <2>1 DEF ValidateAll, FileFindings
  <2> QED
    BY <1>6, <2>2 DEF HeldBy
<1>11. CASE \E n, m \in Named(S, x) \intersect Nets : Overlap(D, n, m)
  <2>1. PICK n \in Named(S, x) \intersect Nets,
          m \in Named(S, x) \intersect Nets : Overlap(D, n, m)
    BY <1>11
  <2>2. /\ n \in S.shared /\ Home[n] \in MeshSites(S) /\ Home[n] \in OwnersIn(S, x)
        /\ m \in S.shared /\ Home[m] \in MeshSites(S) /\ Home[m] \in OwnersIn(S, x)
        /\ Home[n] \in Sites
    BY NamedNets DEF MeshAssumption
  <2>3. Reaches(S, SiteReach(S, Home[n]), x)
    BY <1>3, <1>5, <2>2
  <2>4. CASE Home[n] = Home[m]
    <3>1. SiteReach(S, Home[n]) \in F
      BY <2>1, <2>4 DEF ValidateAll, OverlapFindings
    <3> QED
      BY <2>3, <3>1 DEF HeldBy
  <2>5. CASE Home[n] # Home[m]
    <3>1. <<n, m>> \in {q \in S.shared \X S.shared :
                          /\ Overlap(D, q[1], q[2]) /\ Home[q[1]] # Home[q[2]]
                          /\ {Home[q[1]], Home[q[2]]} \subseteq MeshSites(S)}
      BY <2>1, <2>2, <2>5
    <3>2. Both(SiteReach(S, Home[n]), SiteReach(S, Home[m])) \in F
      BY <3>1 DEF ValidateAll, OverlapFindings
    <3> QED
      BY <1>4, <2>3, <3>2 DEF HeldBy
  <2> QED
    BY <2>4, <2>5
<1>12. CASE \E o, q \in OwnersIn(S, x) : o # q /\ D.mark[o] = D.mark[q]
  <2>1. PICK o \in OwnersIn(S, x), q \in OwnersIn(S, x) : o # q /\ D.mark[o] = D.mark[q]
    BY <1>12
  <2>2. <<o, q>> \in {r \in (MeshSites(S) \union Clients) \X (MeshSites(S) \union Clients) :
                        r[1] # r[2] /\ D.mark[r[1]] = D.mark[r[2]]}
    BY <1>2, <2>1
  <2>3. Both(Reach(S, o), Reach(S, q)) \in F
    BY <2>2 DEF ValidateAll, TwiceFindings
  <2> QED
    BY <1>3, <1>4, <2>1, <2>3 DEF HeldBy
<1>13. CASE \E o, q \in OwnersIn(S, x) \intersect Hubs(S) : o # q /\ D.endpoint[o] = D.endpoint[q]
  <2>1. PICK o \in OwnersIn(S, x) \intersect Hubs(S), q \in OwnersIn(S, x) \intersect Hubs(S) :
          o # q /\ D.endpoint[o] = D.endpoint[q]
    BY <1>13
  <2>2. <<o, q>> \in {r \in Hubs(S) \X Hubs(S) :
                      r[1] # r[2] /\ D.endpoint[r[1]] = D.endpoint[r[2]]}
    BY <2>1
  <2>3. Both(SiteReach(S, o), SiteReach(S, q)) \in F
    BY <2>2 DEF ValidateAll, TwiceFindings
  <2>4. Reaches(S, SiteReach(S, o), x)
    BY <1>3, <1>5, <2>1 DEF Hubs
  <2> QED
    BY <1>4, <2>3, <2>4 DEF HeldBy
<1> QED
  BY <1>7, <1>8, <1>9, <1>10, <1>11, <1>12, <1>13

LEMMA ListedKinds ==
  ASSUME MeshAssumption, NEW S \in Snapshot, NEW x \in Owners, Configured(S, x),
         NEW y \in Listed(Files(S, x))
  PROVE  y \in Nets \union Owners
<1>1. \A s : SharedNets(S, s) \subseteq Nets
  BY DEF SharedNets, Snapshot
<1>2. CASE x \in MeshSites(S)
  <2>1. Files(S, x).allowed = [p \in Peers(S, x) |-> AllowedIps(S, x, p)]
    BY <1>2 DEF Files, MeshSites
  <2>2. \E p : Lists(S, x, p, y)
    BY <2>1 DEF Listed, Lists
  <2> QED
    BY <1>2, <2>2, ListedSites DEF MeshSites, ActiveClients, Owners
<1>3. CASE x \in ActiveClients(S)
  <2>1. x \notin Sites
    BY <1>3 DEF ActiveClients, MeshAssumption
  <2>2. Files(S, x).allowed = [e \in ClientEntrySites(S, x) |-> ClientAllowedIps(S, x, e)]
    BY <2>1 DEF Files
  <2>3. PICK e \in ClientEntrySites(S, x) : y \in ClientAllowedIps(S, x, e)
    BY <2>2 DEF Listed
  <2>4. PICK s \in ClientCarriedByEntry(S, x, e) : y = s \/ y \in SharedNets(S, s)
    BY <2>3 DEF ClientAllowedIps
  <2> QED
    BY <1>1, <2>4 DEF ClientCarriedByEntry, MeshSites, Owners
<1> QED
  BY <1>2, <1>3 DEF Configured

\* What is found and holds a file is a fault in somebody the file is about.
LEMMA FoundIsFault ==
  ASSUME MeshAssumption, HoldsAssumption, NEW S \in Snapshot, NEW D \in Data, NEW x \in Owners,
         Configured(S, x), HeldBy(S, D, x)
  PROVE  D.settings \/ \E o \in OwnersIn(S, x) : FaultyIn(D, o)
<1> DEFINE B == Generate(S).bundle
           G == D.settings \/ \E o \in OwnersIn(S, x) : FaultyIn(D, o)
<1>1. PICK f \in ValidateAll(S, D, B) : Reaches(S, f, x)
  BY DEF HeldBy
<1>2. \A o \in Owners : Reaches(S, Reach(S, o), x) => o \in OwnersIn(S, x)
  BY ReachIsAbout
<1>3. \A o \in Sites : Reaches(S, SiteReach(S, o), x) => o \in OwnersIn(S, x)
  BY <1>2 DEF Reach, Owners
<1>4. \A a, b : Reaches(S, Both(a, b), x) => Reaches(S, a, x) \/ Reaches(S, b, x)
  BY DEF Reaches, Both
<1>5. ~Reaches(S, NoScope, x) /\ \A y : Reaches(S, Only(y), x) => y = x
  BY DEF Reaches, NoScope, Only
<1>6. x \in OwnersIn(S, x)
  BY DEF OwnersIn, Named
<1>7. \A n \in Nets : Home[n] \in Sites
  BY DEF MeshAssumption
<1>8. D.bad \subseteq Owners /\ D.own \subseteq Owners /\ D.wide \subseteq Nets
      /\ S.shared \subseteq Nets
      /\ D.block \in [Nets -> Blocks] /\ D.mark \in [Owners -> Marks]
  BY DEF Data, Snapshot
<1>9. MeshSites(S) \subseteq Sites /\ Hubs(S) \subseteq Sites
  BY DEF MeshSites, Hubs
<1>10. ASSUME NEW n \in Nets, NEW m \in Nets, Overlap(D, n, m)
       PROVE  FaultyIn(D, Home[n]) /\ FaultyIn(D, Home[m])
  <2>1. Overlap(D, m, n)
    BY <1>10 DEF Overlap
  <2> QED
    BY <1>10, <2>1 DEF FaultyIn
<1>11. CASE f \in OverlapFindings(S, D)
  <2>1. CASE f \in {SiteReach(S, Home[n]) :
                      n \in {k \in Nets : \E m \in Nets : Home[m] = Home[k] /\ Overlap(D, k, m)}}
    <3>1. PICK n \in Nets, m \in Nets : f = SiteReach(S, Home[n]) /\ Overlap(D, n, m)
      BY <2>1
    <3> QED
      BY <1>1, <1>3, <1>7, <1>10, <3>1
  <2>2. CASE f \in {Both(SiteReach(S, Home[p[1]]), SiteReach(S, Home[p[2]])) :
                      p \in {q \in S.shared \X S.shared :
                               /\ Overlap(D, q[1], q[2]) /\ Home[q[1]] # Home[q[2]]
                               /\ {Home[q[1]], Home[q[2]]} \subseteq MeshSites(S)}}
    <3>1. PICK p \in S.shared \X S.shared :
            /\ f = Both(SiteReach(S, Home[p[1]]), SiteReach(S, Home[p[2]]))
            /\ Overlap(D, p[1], p[2])
      BY <2>2
    <3>2. p[1] \in Nets /\ p[2] \in Nets
      BY <1>8, <3>1
    <3>3. FaultyIn(D, Home[p[1]]) /\ FaultyIn(D, Home[p[2]])
      BY <1>10, <3>1, <3>2
    <3>4. Reaches(S, SiteReach(S, Home[p[1]]), x) \/ Reaches(S, SiteReach(S, Home[p[2]]), x)
      BY <1>1, <1>4, <3>1
    <3> QED
      BY <1>3, <1>7, <3>2, <3>3, <3>4
  <2> QED
    BY <1>11, <2>1, <2>2 DEF OverlapFindings
<1>12. CASE f \in TwiceFindings(S, D)
  <2> DEFINE named == MeshSites(S) \union Clients
  <2>1. CASE f \in {Both(Reach(S, p[1]), Reach(S, p[2])) :
                      p \in {q \in named \X named : q[1] # q[2] /\ D.mark[q[1]] = D.mark[q[2]]}}
    <3>1. PICK p \in named \X named :
            /\ f = Both(Reach(S, p[1]), Reach(S, p[2]))
            /\ p[1] # p[2] /\ D.mark[p[1]] = D.mark[p[2]]
      BY <2>1
    <3>2. p[1] \in Owners /\ p[2] \in Owners
      BY <1>9, <3>1 DEF Owners
    <3>3. FaultyIn(D, p[1]) /\ FaultyIn(D, p[2])
      BY <3>1, <3>2 DEF FaultyIn
    <3>4. Reaches(S, Reach(S, p[1]), x) \/ Reaches(S, Reach(S, p[2]), x)
      BY <1>1, <1>4, <3>1
    <3> QED
      BY <1>2, <3>2, <3>3, <3>4
  <2>2. CASE f \in {Both(SiteReach(S, p[1]), SiteReach(S, p[2])) :
                      p \in {q \in Hubs(S) \X Hubs(S) :
                               q[1] # q[2] /\ D.endpoint[q[1]] = D.endpoint[q[2]]}}
    <3>1. PICK p \in Hubs(S) \X Hubs(S) :
            /\ f = Both(SiteReach(S, p[1]), SiteReach(S, p[2]))
            /\ p[1] # p[2] /\ D.endpoint[p[1]] = D.endpoint[p[2]]
      BY <2>2
    <3>2. p[1] \in Sites /\ p[2] \in Sites
      BY <1>9, <3>1
    <3>3. FaultyIn(D, p[1]) /\ FaultyIn(D, p[2])
      BY <3>1, <3>2 DEF FaultyIn
    <3>4. Reaches(S, SiteReach(S, p[1]), x) \/ Reaches(S, SiteReach(S, p[2]), x)
      BY <1>1, <1>4, <3>1
    <3> QED
      BY <1>3, <3>2, <3>3, <3>4
  <2> QED
    BY <1>12, <2>1, <2>2 DEF TwiceFindings
<1>13. CASE f \in OwnFindings(S, D)
  <2>1. CASE f \in (IF D.settings THEN {Everything(S)} ELSE {})
    BY <2>1
  <2>2. CASE f \in {Reach(S, o) : o \in D.bad}
    <3>1. PICK o \in D.bad : f = Reach(S, o)
      BY <2>2
    <3> QED
      BY <1>1, <1>2, <1>8, <3>1 DEF FaultyIn
  <2>3. CASE f \in {Only(o) : o \in D.own}
    <3>1. PICK o \in D.own : f = Only(o)
      BY <2>3
    <3> QED
      BY <1>1, <1>5, <1>6, <3>1 DEF FaultyIn
  <2> QED
    BY <1>13, <2>1, <2>2, <2>3 DEF OwnFindings
<1>14. CASE f \in FileFindings(B, D)
  <2>1. PICK y \in DOMAIN B :
          /\ f = Only(y)
          /\ \/ Listed(B[y]) \intersect D.wide # {}
             \/ \E a, b \in Listed(B[y]) : a # b /\ Text(D, a) = Text(D, b)
    BY <1>14 DEF FileFindings
  <2>2. y = x /\ B[x] = Files(S, x)
    BY <1>1, <1>5, <2>1, BundleFacts
  <2>3. Listed(Files(S, x)) \subseteq Named(S, x)
    BY DEF Named
  <2>4. \A n \in Named(S, x) \intersect Nets : Home[n] \in OwnersIn(S, x)
    BY DEF OwnersIn
  <2>5. CASE Listed(B[y]) \intersect D.wide # {}
    <3>1. PICK n \in Named(S, x) \intersect Nets : n \in D.wide
      BY <1>8, <2>2, <2>3, <2>5
    <3> QED
      BY <2>4, <3>1 DEF FaultyIn
  <2>6. CASE \E a, b \in Listed(B[y]) : a # b /\ Text(D, a) = Text(D, b)
    <3>1. PICK a \in Named(S, x), b \in Named(S, x) :
            a \in Listed(B[y]) /\ b \in Listed(B[y]) /\ a # b /\ Text(D, a) = Text(D, b)
      BY <2>2, <2>3, <2>6
    <3>2. a \in Nets \union Owners /\ b \in Nets \union Owners
      BY <2>2, <3>1, ListedKinds
    <3>3. CASE a \in Nets /\ b \in Nets
      <4>1. D.block[a] = D.block[b]
        BY <3>1, <3>3 DEF Text
      <4>3. D.block[a] \in Blocks
        BY <1>8, <3>3
      <4>4. D.block[a] # {}
        BY <4>3, HoldsAssumption
      <4>5. PICK e : e \in D.block[a]
        BY <4>4
      <4>6. a # b /\ e \in D.block[a] \intersect D.block[b]
        BY <3>1, <4>1, <4>5
      <4>2. Overlap(D, a, b)
        BY <4>6 DEF Overlap
      <4> QED
        BY <1>10, <2>4, <3>1, <3>3, <4>2
    <3>4. CASE a \in Nets /\ b \notin Nets
      <4>1. D.block[a] = {D.mark[b]} /\ D.mark[b] \in Marks /\ D.block[a] \in Blocks
        BY <1>8, <3>1, <3>2, <3>4 DEF Text
      <4> QED
        BY <4>1 DEF HoldsAssumption
    <3>5. CASE a \notin Nets /\ b \in Nets
      <4>1. D.block[b] = {D.mark[a]} /\ D.mark[a] \in Marks /\ D.block[b] \in Blocks
        BY <1>8, <3>1, <3>2, <3>5 DEF Text
      <4> QED
        BY <4>1 DEF HoldsAssumption
    <3>6. CASE a \notin Nets /\ b \notin Nets
      <4>1. D.mark[a] = D.mark[b] /\ a \in Owners /\ b \in Owners
        BY <3>1, <3>2, <3>6 DEF Text
      <4>2. a \in OwnersIn(S, x) /\ FaultyIn(D, a)
        BY <3>1, <4>1 DEF OwnersIn, FaultyIn
      <4> QED
        BY <4>2
    <3> QED
      BY <3>3, <3>4, <3>5, <3>6
  <2> QED
    BY <2>1, <2>5, <2>6
<1>15. CASE f \in TopologyFindings(S)
  BY <1>1, <1>5, <1>15 DEF TopologyFindings
<1> QED
  BY <1>11, <1>12, <1>13, <1>14, <1>15 DEF ValidateAll

LEMMA StartHolds == HoldsInit => HoldsInv
  BY HoldsAssumption DEF HoldsInit, HoldsInv

LEMMA KeepHolds == HoldsInv /\ [HoldsNext]_holdsVars => HoldsInv'
<1> SUFFICES ASSUME HoldsInv, [HoldsNext]_holdsVars PROVE HoldsInv'
  OBVIOUS
<1>1. ASSUME NEW S \in EditPlans, NEW D \in DataPlans, Redraw(S, D) PROVE HoldsInv'
  <2>1. S \in Snapshot /\ D \in Data
    BY MeshAssumption, HoldsAssumption DEF MeshAssumption, HoldsAssumption
  <2> QED
    BY <1>1, <2>1 DEF Redraw, HoldsInv
<1>2. ASSUME NEW x \in Owners, HandOut(x) \/ Withhold(x) PROVE HoldsInv'
  BY <1>2 DEF HandOut, Withhold, HoldsInv
<1>3. CASE UNCHANGED holdsVars
  BY <1>3 DEF holdsVars, HoldsInv
<1> QED
  BY <1>1, <1>2, <1>3 DEF HoldsNext

\* A fault reaches as far as the files that would contain it and no further: what
\* is handed out is about nobody with a fault or a double, and whoever is held is
\* about one, for any plan and any faults in it (src/core/validate.ts, snapshot.ts).
THEOREM AlwaysHeldAsNeeded == HoldsSpec => []HeldAsFarAsNeeded
<1>1. ASSUME HoldsInv PROVE HeldAsFarAsNeeded
  <2> USE MeshAssumption
  <2> DEFINE S == drawn.snapshot
             D == drawn.data
  <2>1. /\ S \in Snapshot /\ D \in Data
        /\ \A x \in DOMAIN generated.bundle :
             /\ x \in Owners /\ Configured(S, x)
             /\ generated.bundle[x] = Files(S, x)
             /\ x \in generated.held <=> HeldBy(S, D, x)
             /\ About(x).owners = OwnersIn(S, x)
             /\ About(x).nets = Named(S, x) \intersect Nets
    BY <1>1, GeneratedFacts
  <2>2. ASSUME handed # None PROVE HandedOutIsClean
    <3>1. handed \in DOMAIN generated.bundle /\ handed \notin generated.held
      BY <1>1, <2>2 DEF HoldsInv
    <3>2. ~HeldBy(S, D, handed) /\ handed \in Owners /\ Configured(S, handed)
      BY <2>1, <3>1
    <3>3. /\ ~D.settings /\ handed \notin D.own
          /\ OwnersIn(S, handed) \intersect D.bad = {}
          /\ Listed(Files(S, handed)) \intersect D.wide = {}
          /\ \A n, m \in Named(S, handed) \intersect Nets : ~Overlap(D, n, m)
          /\ \A o, q \in OwnersIn(S, handed) : o # q => D.mark[o] # D.mark[q]
          /\ \A o, q \in OwnersIn(S, handed) \intersect Hubs(S) : o # q =>
               D.endpoint[o] # D.endpoint[q]
      BY <2>1, <3>2, FaultIsFound
    <3>4. /\ generated.bundle[handed] = Files(S, handed)
          /\ About(handed).owners = OwnersIn(S, handed)
          /\ About(handed).nets = Named(S, handed) \intersect Nets
      BY <2>1, <3>1
    <3> QED
      BY <3>3, <3>4 DEF HandedOutIsClean
  <2>3. ASSUME NEW x \in generated.held \intersect DOMAIN generated.bundle
        PROVE  D.settings \/ About(x).owners \intersect Faulty # {}
    <3>1. D.settings \/ \E o \in OwnersIn(S, x) : FaultyIn(D, o)
      BY <2>1, HoldsAssumption, FoundIsFault
    <3>2. \A o \in OwnersIn(S, x) : o \in Owners
      BY <2>1, AboutMesh DEF Owners, MeshSites
    <3>3. \A o \in Owners : FaultyIn(D, o) => o \in Faulty
      BY DEF Faulty, FaultyIn
    <3> QED
      BY <2>1, <3>1, <3>2, <3>3
  <2>4. HandedOutIsClean
    BY <2>2 DEF HandedOutIsClean
  <2>5. HeldForAReason
    BY <2>3 DEF HeldForAReason
  <2> QED
    BY <2>4, <2>5 DEF HeldAsFarAsNeeded
<1> QED
  BY <1>1, StartHolds, KeepHolds, PTL DEF HoldsSpec

---------------------------------------------------------------------------
(* Reports *)

\* What is kept of a report for the live view and in the database, and the
\* values of the variables.
ReportType == [age : 0..Never, peers : UNION {[P -> Row] : P \in SUBSET (Sites \union Clients)}]
SeenType == [age : 0..Gone, ok : BOOLEAN]

VerdictTypes ==
    /\ vplan \in Snapshot
    /\ forwards \subseteq Hubs(vplan) /\ linked \subseteq Sites
    /\ away \subseteq ActiveClients(vplan) /\ failing \subseteq MeshSites(vplan)
    /\ shaken \in [Pairs -> 0..Never]
    /\ told \in [Sites -> ReportType \union {None}]
    /\ \A g \in Sites : told[g] # None => g \in MeshSites(vplan) /\
         DOMAIN told[g].peers = Peers(vplan, g)
    /\ seen \in [Sites -> SeenType \union {None}]
    /\ met \in [Clients -> 0..Never]
    /\ quiet \in 0..Gone

\* As old as the last change, as far as ages are counted.
Old(n) == n >= quiet \/ n >= Never - 1

\* Who keeps in touch with the controller.
InTouch(g) == g \in linked \intersect MeshSites(vplan)

\* What passed since the last change shows in the handshakes,
HandshakesTell ==
    \A p \in Pairs : /\ Works(p) /\ quiet >= 1 => shaken[p] <= 2
                     /\ ~Works(p) => Old(shaken[p])

\* in the reports,
ReportsTell ==
    \A g \in Sites :
        /\ InTouch(g) /\ quiet >= 1 =>
             /\ told[g] # None /\ told[g].age = 0
             /\ \A x \in Peers(vplan, g) :
                  /\ told[g].peers[x].hs = shaken[{g, x}]
                  /\ told[g].peers[x].rtt <=> x \in Sites /\ Works({g, x}) /\ {g, x} \notin deaf
        /\ g \notin linked /\ told[g] # None =>
             Old(told[g].age) /\ \A x \in Peers(vplan, g) : Old(told[g].peers[x].hs)

\* and in what the database keeps of them.
RecordsTell ==
    /\ \A g \in Sites :
        /\ InTouch(g) /\ quiet >= 1 => seen[g] # None /\ seen[g].age = 0 /\
             (seen[g].ok <=> g \notin failing)
        /\ g \notin linked /\ seen[g] # None => seen[g].age >= quiet
    /\ \A c \in Clients :
        /\ quiet >= 1 /\ (\E g \in linked : Works({c, g})) => met[c] <= 2
        /\ (\A g \in linked : ~Works({c, g})) => Old(met[c])

\* What the verdicts follow from at any time.
VerdictsInv == VerdictTypes /\ HandshakesTell /\ ReportsTell /\ RecordsTell

LEMMA LeastAge ==
  ASSUME NEW S \in SUBSET (0..Never), S # {}
  PROVE  Min(S) \in S /\ \A n \in S : Min(S) <= n
<1>1. S \in SUBSET Nat
  BY DEF Never
<1>2. \E n \in S : \A m \in S : <<m, n>> \notin OpToRel(<, Nat)
  BY <1>1, NatLessThanWellFounded, WFMin
<1>3. PICK n \in S : \A m \in S : <<m, n>> \notin OpToRel(<, Nat)
  BY <1>2
<1>4. \A m \in S : n <= m
  <2>1. \A m \in S : ~(m < n)
    BY <1>1, <1>3 DEF OpToRel
  <2> QED
    BY <1>1, <2>1
<1> QED
  BY <1>4 DEF Min

\* The peers of a gateway are the other ends of its tunnels.
LEMMA PeersHaveTunnels ==
  ASSUME MeshAssumption, NEW S \in Snapshot, NEW g \in Sites, NEW x \in Sites \union Clients
  PROVE  /\ x \in Peers(S, g) <=> IsTunnel(S, {g, x})
         /\ IsTunnel(S, {g, x}) => g \in MeshSites(S)
         /\ x \in Sites => (IsTunnel(S, {g, x}) <=> ArePeered(S, g, x))
<1>1. Sites \intersect Clients = {}
  BY DEF MeshAssumption
<1>2. CASE x \in Sites
  <2>1. x \notin Clients /\ g \notin Clients
    BY <1>1, <1>2
  <2>2. {g, x} \intersect ActiveClients(S) = {}
    BY <2>1 DEF ActiveClients
  <2>3. IsTunnel(S, {g, x}) <=> ArePeered(S, g, x)
    BY <2>2 DEF IsTunnel, ArePeered
  <2>4. x \in Peers(S, g) <=> ArePeered(S, g, x)
    BY <1>2, <2>1 DEF Peers, ActiveClients
  <2> QED
    BY <2>3, <2>4 DEF ArePeered
<1>3. CASE x \in Clients
  <2>1. x \notin Sites /\ g \notin Clients
    BY <1>1, <1>3
  <2>2. ASSUME NEW a \in {g, x}, NEW b \in {g, x}, ArePeered(S, a, b) PROVE FALSE
    BY <2>1, <2>2 DEF ArePeered, MeshSites
  <2>3. IsTunnel(S, {g, x}) <=> x \in ActiveClients(S) /\ g \in ClientEntrySites(S, x)
    <3>1. \A c \in {g, x} \intersect ActiveClients(S) : c = x
      BY <2>1 DEF ActiveClients
    <3>2. {g, x} \ {x} = {g}
      BY <2>1
    <3> QED
      BY <2>2, <3>1, <3>2 DEF IsTunnel
  <2>4. x \in Peers(S, g) <=> x \in ActiveClients(S) /\ g \in ClientEntrySites(S, x)
    BY <2>1 DEF Peers
  <2>5. g \in ClientEntrySites(S, x) => g \in MeshSites(S)
    BY DEF ClientEntrySites, Hubs, IsReachable, MeshSites
  <2> QED
    BY <2>1, <2>3, <2>4, <2>5
<1> QED
  BY <1>2, <1>3

LEMMA EndsArePairs ==
  ASSUME NEW g \in Sites, NEW x \in Sites \union Clients
  PROVE  {g, x} \in Pairs /\ {x, g} \in Pairs /\ {g, x} = {x, g}
  BY DEF Pairs

LEMMA PeersAreEnds ==
  ASSUME NEW S, NEW g
  PROVE  Peers(S, g) \subseteq Sites \union Clients
  BY DEF Peers, ActiveClients

LEMMA VerdictsStart == MeshAssumption /\ VerdictsAssumption /\ VerdictsInit => VerdictsInv
<1> SUFFICES ASSUME MeshAssumption, VerdictsAssumption, VerdictsInit PROVE VerdictsInv
  OBVIOUS
<1>1. VerdictTypes
  <2>1. Never \in 0..Never /\ 0 \in 0..Gone
    BY DEF Never, Gone, Late
  <2>2. {} \subseteq MeshSites(vplan)
    OBVIOUS
  <2> QED
    BY <2>1, <2>2 DEF VerdictsInit, VerdictTypes, VerdictsAssumption
<1>2. HandshakesTell
  BY DEF HandshakesTell, VerdictsInit, Old, Never
<1>3. ReportsTell
  <2>1. quiet = 0 /\ ~(quiet >= 1) /\ \A g \in Sites : told[g] = None
    BY DEF VerdictsInit
  <2> QED
    BY <2>1 DEF ReportsTell
<1>4. RecordsTell
  BY DEF RecordsTell, VerdictsInit, Old, Never
<1> QED
  BY <1>1, <1>2, <1>3, <1>4 DEF VerdictsInv

LEMMA OlderAges ==
  ASSUME NEW n \in 0..Never
  PROVE  /\ Older(n) \in 0..Never
         /\ n <= 1 => Older(n) <= 2
         /\ \A q \in Nat : n >= q \/ n >= Never - 1 => Older(n) >= q + 1 \/ Older(n) >= Never - 1
  BY DEF Older, Never

\* A minute: the handshakes.
LEMMA HandshakesAge ==
  ASSUME MeshAssumption, VerdictsInv, Minute, NEW p \in Pairs
  PROVE  /\ shaken'[p] \in 0..Never
         /\ Works(p) => shaken'[p] <= 2
         /\ ~Works(p) => Old(shaken[p])' /\ shaken'[p] = Older(shaken[p])
<1>1. shaken[p] \in 0..Never /\ quiet \in 0..Gone
  BY DEF VerdictsInv, VerdictTypes
<1>2. shaken'[p] = IF Works(p) /\ shaken[p] >= 2 THEN 0 ELSE Older(shaken[p])
  BY DEF Minute, Handshakes
<1>3. quiet' <= quiet + 1 /\ quiet' \in Nat
  BY <1>1 DEF Minute, Gone, Late
<1>4. CASE Works(p)
  <2>1. CASE shaken[p] >= 2
    <3>1. shaken'[p] = 0
      BY <1>2, <1>4, <2>1
    <3> QED
      BY <1>4, <3>1 DEF Never
  <2>2. CASE ~(shaken[p] >= 2)
    <3>1. shaken'[p] = Older(shaken[p]) /\ shaken[p] <= 1
      BY <1>1, <1>2, <2>2 DEF Never
    <3> QED
      BY <1>1, <1>4, <3>1, OlderAges
  <2> QED
    BY <2>1, <2>2
<1>5. CASE ~Works(p)
  <2>1. shaken'[p] = Older(shaken[p])
    BY <1>2, <1>5
  <2>2. Old(shaken[p])
    BY <1>5 DEF VerdictsInv, HandshakesTell
  <2>3. quiet \in Nat
    BY <1>1 DEF Gone, Late
  <2>4. Older(shaken[p]) >= quiet + 1 \/ Older(shaken[p]) >= Never - 1
    BY <1>1, <2>2, <2>3, OlderAges DEF Old
  <2>5. Older(shaken[p]) \in 0..Never
    BY <1>1, OlderAges
  <2>6. Old(shaken[p])'
    BY <1>3, <2>1, <2>3, <2>4, <2>5 DEF Old, Never
  <2> QED
    BY <1>5, <2>1, <2>5, <2>6
<1> QED
  BY <1>4, <1>5

\* A minute: the report of a gateway that is in touch.
LEMMA InTouchReports ==
  ASSUME MeshAssumption, VerdictsAssumption, VerdictsInv, Minute, NEW g \in Sites, InTouch(g)
  PROVE  /\ told'[g] = ReportOf(g) /\ ReportOf(g) \in ReportType /\ told'[g] # None
         /\ told'[g].age = 0 /\ DOMAIN told'[g].peers = Peers(vplan, g)
         /\ \A x \in Peers(vplan, g) :
              /\ told'[g].peers[x].hs = shaken'[{g, x}]
              /\ told'[g].peers[x].rtt <=> x \in Sites /\ Works({g, x}) /\ {g, x} \notin deaf
<1>1. told'[g] = ReportOf(g)
  BY DEF Minute, InTouch
<1>2. \A x \in Peers(vplan, g) : {g, x} \in Pairs /\ shaken'[{g, x}] \in 0..Never
  BY PeersAreEnds, EndsArePairs, HandshakesAge
<1> DEFINE row(x) == [hs |-> shaken'[{g, x}],
                      rtt |-> x \in Sites /\ Works({g, x}) /\ {g, x} \notin deaf]
           P == Peers(vplan, g)
           f == [x \in P |-> row(x)]
<1>3. \A x \in P : row(x) \in Row
  BY <1>2 DEF Row
<1>4. ReportOf(g) = [age |-> 0, peers |-> f]
  BY DEF ReportOf
<1>5. f \in [P -> Row]
  BY <1>3
<1>6. P \in SUBSET (Sites \union Clients)
  BY PeersAreEnds
<1>7. f \in UNION {[Q -> Row] : Q \in SUBSET (Sites \union Clients)}
  BY <1>5, <1>6
<1>8. 0 \in 0..Never
  BY DEF Never
<1>9. \A x \in P : f[x].hs = shaken'[{g, x}]
                   /\ (f[x].rtt <=> x \in Sites /\ Works({g, x}) /\ {g, x} \notin deaf)
  OBVIOUS
<1>10. DOMAIN f = P
  OBVIOUS
<1> HIDE DEF f
<1>11. ReportOf(g) \in ReportType
  BY <1>4, <1>7, <1>8 DEF ReportType
<1>12. ReportOf(g) # None
  BY <1>11 DEF ReportType, VerdictsAssumption
<1> QED
  BY <1>1, <1>4, <1>9, <1>10, <1>11, <1>12

\* A minute: what is known of one that is not.
LEMMA OthersAge ==
  ASSUME MeshAssumption, VerdictsAssumption, VerdictsInv, Minute, NEW g \in Sites, ~InTouch(g)
  PROVE  /\ told'[g] \in ReportType \union {None}
         /\ told'[g] # None =>
              /\ g \in MeshSites(vplan) /\ DOMAIN told'[g].peers = Peers(vplan, g)
              /\ g \notin linked => Old(told[g].age)'
              /\ g \notin linked => \A x \in Peers(vplan, g) : Old(told[g].peers[x].hs)'
<1>1. told'[g] = Aged(told[g]) /\ quiet' <= quiet + 1 /\ quiet' \in Nat /\ quiet \in Nat
  BY DEF Minute, InTouch, VerdictsInv, VerdictTypes, Gone, Late
<1>2. CASE told[g] = None
  BY <1>1, <1>2 DEF Aged
<1>3. CASE told[g] # None
  <2> DEFINE r == told[g]
             P == Peers(vplan, g)
             row(x) == [r.peers[x] EXCEPT !.hs = Older(@)]
             f == [x \in P |-> row(x)]
  <2>1. r \in ReportType /\ g \in MeshSites(vplan) /\ DOMAIN r.peers = P
    BY <1>3 DEF VerdictsInv, VerdictTypes
  <2>2. r.age \in 0..Never /\ r.peers \in UNION {[Q -> Row] : Q \in SUBSET (Sites \union Clients)}
    BY <2>1 DEF ReportType
  <2>3. PICK Q \in SUBSET (Sites \union Clients) : r.peers \in [Q -> Row]
    BY <2>2
  <2>4. Q = P /\ r.peers \in [P -> Row]
    BY <2>1, <2>3
  <2>5. \A x \in P : r.peers[x] \in Row
    BY <2>4
  <2>6. \A x \in P : row(x) \in Row /\ row(x).hs = Older(r.peers[x].hs) /\
          r.peers[x].hs \in 0..Never
    BY <2>5, OlderAges DEF Row
  <2>7. told'[g] = [age |-> Older(r.age), peers |-> f]
    BY <1>1, <1>3, <2>1 DEF Aged
  <2>8. f \in [P -> Row] /\ DOMAIN f = P /\ \A x \in P : f[x].hs = Older(r.peers[x].hs)
    BY <2>6
  <2>9. P \in SUBSET (Sites \union Clients)
    BY PeersAreEnds
  <2> HIDE DEF f
  <2>10. f \in UNION {[N -> Row] : N \in SUBSET (Sites \union Clients)}
    BY <2>8, <2>9
  <2>11. Older(r.age) \in 0..Never
    BY <2>2, OlderAges
  <2>12. told'[g] \in ReportType
    BY <2>7, <2>10, <2>11 DEF ReportType
  <2>13. told'[g].age = Older(r.age) /\ told'[g].peers = f
    BY <2>7
  <2>14. ASSUME g \notin linked PROVE Old(told[g].age)'
    <3>1. Old(r.age)
      BY <1>3, <2>14 DEF VerdictsInv, ReportsTell
    <3>2. Older(r.age) >= quiet + 1 \/ Older(r.age) >= Never - 1
      BY <1>1, <2>2, <3>1, OlderAges DEF Old
    <3> QED
      BY <1>1, <2>11, <2>13, <3>2 DEF Old, Never
  <2>15. ASSUME g \notin linked, NEW x \in P PROVE Old(told[g].peers[x].hs)'
    <3>1. Old(r.peers[x].hs) /\ r.peers[x].hs \in 0..Never
      BY <1>3, <2>6, <2>15 DEF VerdictsInv, ReportsTell
    <3>2. Older(r.peers[x].hs) >= quiet + 1 \/ Older(r.peers[x].hs) >= Never - 1
      BY <1>1, <3>1, OlderAges DEF Old
    <3>3. Older(r.peers[x].hs) \in 0..Never
      BY <3>1, OlderAges
    <3>4. told'[g].peers[x].hs = Older(r.peers[x].hs)
      BY <2>8, <2>13
    <3> QED
      BY <1>1, <3>2, <3>3, <3>4 DEF Old, Never
  <2> QED
    BY <2>1, <2>8, <2>12, <2>13, <2>14, <2>15
<1> QED
  BY <1>2, <1>3

\* A minute: what the database keeps of a gateway.
LEMMA SeenAges ==
  ASSUME VerdictsAssumption, VerdictsInv, Minute, NEW g \in Sites
  PROVE  /\ seen'[g] \in SeenType \union {None}
         /\ InTouch(g) => seen'[g] # None /\ seen'[g].age = 0 /\
              (seen'[g].ok <=> g \notin failing)
         /\ g \notin linked /\ seen'[g] # None => seen'[g].age >= quiet'
<1>1. seen'[g] = IF g \in linked \intersect MeshSites(vplan)
        THEN [age |-> 0, ok |-> g \notin failing]
                 ELSE OlderReport(seen[g])
  BY DEF Minute
<1>2. quiet' <= quiet + 1 /\ quiet' \in 0..Gone /\ quiet \in 0..Gone
  BY DEF Minute, VerdictsInv, VerdictTypes, Gone, Late
<1>3. CASE InTouch(g)
  <2>1. seen'[g] = [age |-> 0, ok |-> g \notin failing]
    BY <1>1, <1>3 DEF InTouch
  <2>2. [age |-> 0, ok |-> g \notin failing] \in SeenType
    BY DEF SeenType, Gone, Late
  <2>3. [age |-> 0, ok |-> g \notin failing] \in [age : Nat, ok : BOOLEAN]
    OBVIOUS
  <2>4. seen'[g] # None
    BY <2>1, <2>3 DEF VerdictsAssumption
  <2>5. seen'[g].age = 0 /\ (seen'[g].ok <=> g \notin failing)
    <3>1. seen'[g].age = 0
      BY <2>1
    <3>2. seen'[g].ok = (g \notin failing)
      BY <2>1
    <3> QED
      BY <3>1, <3>2
  <2>6. seen'[g] \in SeenType /\ g \in linked
    BY <1>3, <2>1, <2>2 DEF InTouch
  <2> QED
    BY <2>4, <2>5, <2>6
<1>4. CASE ~InTouch(g)
  <2>1. seen'[g] = OlderReport(seen[g])
    BY <1>1, <1>4 DEF InTouch
  <2>2. CASE seen[g] = None
    BY <1>4, <2>1, <2>2 DEF OlderReport
  <2>3. CASE seen[g] # None
    <3> DEFINE r == seen[g]
    <3>1. r \in SeenType /\ r.age \in 0..Gone
      BY <2>3 DEF VerdictsInv, VerdictTypes, SeenType
    <3>2. g \notin linked => r.age >= quiet
      BY <2>3 DEF VerdictsInv, RecordsTell
    <3>3. CASE r.age >= Gone
      <4>1. seen'[g] = r
        BY <2>1, <3>3 DEF OlderReport
      <4>2. r.age >= quiet'
        BY <1>2, <3>1, <3>3 DEF Gone, Late
      <4> QED
        BY <1>4, <3>1, <4>1, <4>2
    <3>4. CASE ~(r.age >= Gone)
      <4>1. seen'[g] = [r EXCEPT !.age = r.age + 1]
        BY <2>1, <2>3, <3>4 DEF OlderReport
      <4>2. r.age + 1 \in 0..Gone
        BY <3>1, <3>4 DEF Gone, Late
      <4>3. seen'[g] \in SeenType /\ seen'[g].age = r.age + 1
        BY <3>1, <4>1, <4>2 DEF SeenType
      <4>4. g \notin linked => r.age + 1 >= quiet'
        BY <1>2, <3>1, <3>2 DEF Gone, Late
      <4> QED
        BY <1>4, <4>3, <4>4
    <3> QED
      BY <3>3, <3>4
  <2> QED
    BY <2>2, <2>3
<1> QED
  BY <1>3, <1>4

\* A minute: what it keeps of a client.
LEMMA MetAges ==
  ASSUME MeshAssumption, VerdictsInv, Minute, NEW c \in Clients
  PROVE  /\ met'[c] \in 0..Never
         /\ (\E g \in linked : Works({c, g})) => met'[c] <= 2
         /\ (\A g \in linked : ~Works({c, g})) => Old(met[c])'
<1> DEFINE H == {h \in linked \intersect MeshSites(vplan) : c \in Peers(vplan, h)}
           S == {Older(met[c])} \union {shaken'[{c, g}] : g \in H}
<1>1. met[c] \in 0..Never /\ linked \subseteq Sites /\ vplan \in Snapshot
  BY DEF VerdictsInv, VerdictTypes
<1>2. \A g \in H : {c, g} \in Pairs /\ shaken'[{c, g}] \in 0..Never
  BY <1>1, EndsArePairs, HandshakesAge
<1>3. S \in SUBSET (0..Never) /\ S # {}
  BY <1>1, <1>2, OlderAges
<1>4. met'[c] = Min(S)
  BY DEF Minute
<1>5. Min(S) \in S /\ \A n \in S : Min(S) <= n
  BY <1>3, LeastAge
<1>6. quiet' <= quiet + 1 /\ quiet' \in Nat /\ quiet \in Nat
  BY DEF Minute, VerdictsInv, VerdictTypes, Gone, Late
<1>7. ASSUME NEW g \in linked, Works({c, g}) PROVE met'[c] <= 2
  <2>1. IsTunnel(vplan, {g, c}) /\ {g, c} = {c, g} /\ g \in Sites
    BY <1>1, <1>7 DEF Works
  <2>2. c \in Peers(vplan, g) /\ g \in MeshSites(vplan)
    BY <1>1, <2>1, PeersHaveTunnels
  <2>3. g \in H
    BY <2>2
  <2>4. shaken'[{c, g}] <= 2 /\ shaken'[{c, g}] \in S
    BY <1>2, <1>7, <2>3, HandshakesAge
  <2>5. Min(S) <= shaken'[{c, g}] /\ Min(S) \in 0..Never /\ shaken'[{c, g}] \in 0..Never
    BY <1>3, <1>5, <2>4
  <2> HIDE DEF S
  <2> QED
    BY <1>4, <2>4, <2>5 DEF Never
<1>8. ASSUME \A g \in linked : ~Works({c, g}) PROVE Old(met[c])'
  <2>1. CASE Min(S) = Older(met[c])
    <3>1. Old(met[c])
      BY <1>8 DEF VerdictsInv, RecordsTell
    <3>2. Older(met[c]) >= quiet + 1 \/ Older(met[c]) >= Never - 1
      BY <1>1, <1>6, <3>1, OlderAges DEF Old
    <3>3. Older(met[c]) \in 0..Never
      BY <1>1, OlderAges
    <3> HIDE DEF S
    <3> QED
      BY <1>4, <1>6, <2>1, <3>2, <3>3 DEF Old, Never
  <2>2. ASSUME NEW g \in H, Min(S) = shaken'[{c, g}] PROVE Old(met[c])'
    <3>1. ~Works({c, g}) /\ {c, g} \in Pairs
      BY <1>2, <1>8
    <3>2. Old(shaken[{c, g}])'
      BY <3>1, HandshakesAge
    <3> QED
      BY <1>4, <2>2, <3>2 DEF Old
  <2> QED
    BY <1>5, <2>1, <2>2
<1>9. Min(S) \in 0..Never
  BY <1>3, <1>5
<1> QED
  BY <1>4, <1>7, <1>8, <1>9

LEMMA VerdictsMinute ==
  ASSUME MeshAssumption, VerdictsAssumption, VerdictsInv, Minute
  PROVE  VerdictsInv'
<1>1. UNCHANGED <<vplan, forwards, linked, away, deaf, failing>>
  BY DEF Minute
<1>2. \A p : Works(p)' <=> Works(p)
  BY <1>1 DEF Works
<1>3. \A g : InTouch(g)' <=> InTouch(g)
  BY <1>1 DEF InTouch
<1>4. VerdictTypes'
  <2>1. shaken' \in [Pairs -> 0..Never]
    <3>1. shaken' = Handshakes
      BY DEF Minute
    <3> QED
      BY <3>1, HandshakesAge DEF Handshakes
  <2>2. \A g \in Sites : /\ told'[g] \in ReportType \union {None}
                         /\ told'[g] # None => g \in MeshSites(vplan) /\
                              DOMAIN told'[g].peers = Peers(vplan, g)
    BY InTouchReports, OthersAge DEF InTouch
  <2>3. told' \in [Sites -> ReportType \union {None}]
    <3>1. told' = [g \in Sites |-> told'[g]]
      BY DEF Minute
    <3> QED
      BY <2>2, <3>1
  <2>4. seen' \in [Sites -> SeenType \union {None}]
    <3>1. seen' = [g \in Sites |-> seen'[g]]
      BY DEF Minute
    <3> QED
      BY <3>1, SeenAges
  <2>5. met' \in [Clients -> 0..Never]
    <3>1. met' = [c \in Clients |-> met'[c]]
      BY DEF Minute
    <3> QED
      BY <3>1, MetAges
  <2>6. quiet' \in 0..Gone
    BY DEF Minute, VerdictsInv, VerdictTypes, Gone, Late
  <2> QED
    BY <1>1, <2>1, <2>2, <2>3, <2>4, <2>5, <2>6 DEF VerdictsInv, VerdictTypes
<1>5. HandshakesTell'
  BY <1>2, HandshakesAge DEF HandshakesTell
<1>6. ReportsTell'
  <2>1. ASSUME NEW g \in Sites, InTouch(g)
        PROVE  /\ told'[g] # None /\ told'[g].age = 0
               /\ \A x \in Peers(vplan, g) :
                    /\ told'[g].peers[x].hs = shaken'[{g, x}]
                    /\ told'[g].peers[x].rtt <=> x \in Sites /\ Works({g, x}) /\
                         {g, x} \notin deaf
    BY <2>1, InTouchReports
  <2>2. ASSUME NEW g \in Sites, g \notin linked, told'[g] # None
        PROVE  Old(told[g].age)' /\ \A x \in Peers(vplan, g) : Old(told[g].peers[x].hs)'
    BY <2>2, OthersAge DEF InTouch
  <2> QED
    BY <1>1, <1>2, <1>3, <2>1, <2>2 DEF ReportsTell
<1>7. RecordsTell'
  <2>1. ASSUME NEW g \in Sites
        PROVE  /\ InTouch(g) => seen'[g] # None /\ seen'[g].age = 0 /\
                    (seen'[g].ok <=> g \notin failing)
               /\ g \notin linked /\ seen'[g] # None => seen'[g].age >= quiet'
    BY SeenAges
  <2>2. ASSUME NEW c \in Clients
        PROVE  /\ (\E g \in linked : Works({c, g})) => met'[c] <= 2
               /\ (\A g \in linked : ~Works({c, g})) => Old(met[c])'
    BY MetAges
  <2> QED
    BY <1>1, <1>2, <1>3, <2>1, <2>2 DEF RecordsTell
<1> QED
  BY <1>4, <1>5, <1>6, <1>7 DEF VerdictsInv

LEMMA VerdictsUpset ==
  ASSUME MeshAssumption, VerdictsAssumption, VerdictsInv, Upset
  PROVE  VerdictsInv'
<1>1. quiet' = 0 /\ UNCHANGED <<vplan, shaken, seen, met>>
  BY DEF Upset
<1>2. /\ forwards' \subseteq Hubs(vplan) /\ linked' \subseteq Sites
      /\ away' \subseteq ActiveClients(vplan) /\ failing' \subseteq MeshSites(vplan)
  BY DEF VerdictsInv, VerdictTypes, Upset, Toggle, MeshSites
<1>3. told' = told \/ told' = [g \in Sites |-> None]
  BY DEF Upset
<1>4. VerdictTypes'
  <2>1. told' \in [Sites -> ReportType \union {None}]
    BY <1>3 DEF VerdictsInv, VerdictTypes
  <2>2. \A g \in Sites : told'[g] # None => g \in MeshSites(vplan) /\
          DOMAIN told'[g].peers = Peers(vplan, g)
    BY <1>3 DEF VerdictsInv, VerdictTypes
  <2>3. 0 \in 0..Gone
    BY DEF Gone, Late
  <2> QED
    BY <1>1, <1>2, <2>1, <2>2, <2>3 DEF VerdictsInv, VerdictTypes
<1>5. \A n \in Nat : Old(n)'
  BY <1>1 DEF Old
<1>6. ~(quiet' >= 1)
  BY <1>1
<1>7. \A p \in Pairs : shaken'[p] \in Nat
  BY <1>4 DEF VerdictTypes, Never
<1>8. HandshakesTell'
  BY <1>5, <1>6, <1>7 DEF HandshakesTell, Old
<1>9. ReportsTell'
  <2>1. ASSUME NEW g \in Sites, told'[g] # None
        PROVE  told'[g].age \in Nat /\ \A x \in Peers(vplan', g) : told'[g].peers[x].hs \in Nat
    <3>1. told'[g] \in ReportType /\ DOMAIN told'[g].peers = Peers(vplan', g)
      BY <1>4, <2>1 DEF VerdictTypes
    <3>2. PICK Q \in SUBSET (Sites \union Clients) : told'[g].peers \in [Q -> Row]
      BY <3>1 DEF ReportType
    <3>3. told'[g].peers \in [Peers(vplan', g) -> Row]
      BY <3>1, <3>2
    <3>4. \A x \in Peers(vplan', g) : told'[g].peers[x] \in Row
      BY <3>3
    <3> QED
      BY <3>1, <3>4 DEF ReportType, Row, Never
  <2> QED
    BY <1>5, <1>6, <2>1 DEF ReportsTell, Old
<1>10. RecordsTell'
  <2>1. ASSUME NEW g \in Sites, seen'[g] # None PROVE seen'[g].age >= quiet'
    <3>1. seen'[g] \in SeenType
      BY <1>4, <2>1 DEF VerdictTypes
    <3> QED
      BY <1>1, <3>1 DEF SeenType
  <2>2. ASSUME NEW c \in Clients PROVE Old(met[c])'
    <3>1. met'[c] \in Nat
      BY <1>4, <2>2 DEF VerdictTypes, Never
    <3> QED
      BY <1>5, <3>1 DEF Old
  <2> QED
    BY <1>6, <2>1, <2>2 DEF RecordsTell
<1> QED
  BY <1>4, <1>8, <1>9, <1>10 DEF VerdictsInv

LEMMA VerdictsIdle == VerdictsInv /\ UNCHANGED verdictsVars => VerdictsInv'
<1> SUFFICES ASSUME VerdictsInv, UNCHANGED verdictsVars PROVE VerdictsInv'
  OBVIOUS
<1> USE DEF verdictsVars
<1>1. VerdictTypes'
  BY DEF VerdictsInv, VerdictTypes
<1>2. HandshakesTell'
  BY DEF VerdictsInv, HandshakesTell, Works, Old
<1>3. ReportsTell'
  BY DEF VerdictsInv, ReportsTell, Works, Old, InTouch
<1>4. RecordsTell'
  BY DEF VerdictsInv, RecordsTell, Works, Old, InTouch
<1> QED
  BY <1>1, <1>2, <1>3, <1>4 DEF VerdictsInv

---------------------------------------------------------------------------
(* What the reports say once all has settled *)

LEMMA SettledHandshakes ==
  ASSUME VerdictsInv, quiet >= SettleTime, NEW p \in Pairs
  PROVE  Works(p) <=> shaken[p] < Fresh
<1>1. shaken[p] \in Nat /\ quiet \in Nat /\ quiet >= 4
  BY DEF VerdictsInv, VerdictTypes, SettleTime, Never, Gone, Late
<1>2. CASE Works(p)
  BY <1>1, <1>2 DEF VerdictsInv, HandshakesTell, Fresh
<1>3. CASE ~Works(p)
  BY <1>1, <1>3 DEF VerdictsInv, HandshakesTell, Fresh, Old, Never
<1> QED
  BY <1>2, <1>3

LEMMA SettledRecent ==
  ASSUME VerdictsInv, quiet >= SettleTime, NEW g \in Sites
  PROVE  IsRecent(g) <=> InTouch(g)
<1>1. quiet \in Nat /\ quiet >= 4
  BY DEF VerdictsInv, VerdictTypes, SettleTime, Gone, Late
<1>2. CASE InTouch(g)
  BY <1>1, <1>2 DEF VerdictsInv, ReportsTell, IsRecent, Recent
<1>3. CASE told[g] # None /\ g \notin linked
  <2>1. told[g].age \in Nat /\ Old(told[g].age)
    BY <1>3 DEF VerdictsInv, VerdictTypes, ReportsTell, ReportType, Never
  <2> QED
    BY <1>1, <1>3, <2>1 DEF Old, IsRecent, Recent, InTouch, Never
<1>4. CASE told[g] = None
  BY <1>1, <1>4, <1>2 DEF IsRecent
<1>5. told[g] # None => g \in MeshSites(vplan)
  BY DEF VerdictsInv, VerdictTypes
<1> QED
  BY <1>2, <1>3, <1>4, <1>5 DEF InTouch

\* The row of a gateway in touch.
LEMMA SettledRow ==
  ASSUME VerdictsInv, quiet >= SettleTime, NEW g \in Sites, InTouch(g), NEW x \in Peers(vplan, g)
  PROVE  /\ Rows(g, x) = {told[g].peers[x]} /\ x \in DOMAIN told[g].peers
         /\ told[g].peers[x].hs = shaken[{g, x}]
         /\ told[g].peers[x].hs < Fresh <=> Works({g, x})
         /\ told[g].peers[x].rtt <=> x \in Sites /\ Works({g, x}) /\ {g, x} \notin deaf
<1>1. quiet >= 1
  BY DEF VerdictsInv, VerdictTypes, SettleTime, Gone, Late
<1>2. told[g] # None /\ DOMAIN told[g].peers = Peers(vplan, g)
  BY <1>1 DEF VerdictsInv, VerdictTypes, ReportsTell
<1>3. Rows(g, x) = {told[g].peers[x]} /\ x \in DOMAIN told[g].peers
  BY <1>2 DEF Rows
<1>4. /\ told[g].peers[x].hs = shaken[{g, x}]
      /\ told[g].peers[x].rtt <=> x \in Sites /\ Works({g, x}) /\ {g, x} \notin deaf
  BY <1>1 DEF VerdictsInv, ReportsTell
<1>5. {g, x} \in Pairs
  BY PeersAreEnds, EndsArePairs
<1>6. Works({g, x}) <=> shaken[{g, x}] < Fresh
  BY <1>5, SettledHandshakes
<1> QED
  BY <1>3, <1>4, <1>6

\* A row of another.
LEMMA SettledOldRow ==
  ASSUME VerdictsInv, quiet >= SettleTime, NEW g \in Sites, g \notin linked, NEW x,
           NEW r \in Rows(g, x)
  PROVE  ~(r.hs < Fresh) /\ r.hs >= Fresh
<1>1. told[g] # None /\ x \in DOMAIN told[g].peers /\ r = told[g].peers[x]
  BY DEF Rows
<1>2. x \in Peers(vplan, g) /\ told[g] \in ReportType
  BY <1>1 DEF VerdictsInv, VerdictTypes
<1>3. Old(r.hs)
  BY <1>1, <1>2 DEF VerdictsInv, ReportsTell
<1>4. PICK Q \in SUBSET (Sites \union Clients) : told[g].peers \in [Q -> Row]
  BY <1>2 DEF ReportType
<1>5. r \in Row
  BY <1>1, <1>4
<1>6. r.hs \in Nat /\ quiet \in Nat /\ quiet >= 4
  BY <1>5 DEF Row, Never, VerdictsInv, VerdictTypes, SettleTime, Gone, Late
<1> QED
  BY <1>3, <1>6 DEF Old, Fresh, Never

LEMMA NoRow ==
  ASSUME VerdictsInv, NEW g \in Sites, NEW x, x \notin Peers(vplan, g)
  PROVE  Rows(g, x) = {}
  BY DEF Rows, VerdictsInv, VerdictTypes

LEMMA SettledDial ==
  ASSUME MeshAssumption, VerdictsInv, quiet >= SettleTime, NEW g \in Sites, InTouch(g),
         NEW x \in Sites \union Clients
  PROVE  DialledIn(g, x) <=> Works({g, x})
<1>1. CASE x \in Peers(vplan, g)
  BY <1>1, SettledRow DEF DialledIn
<1>2. CASE x \notin Peers(vplan, g)
  <2>1. ~DialledIn(g, x)
    BY <1>2, NoRow DEF DialledIn
  <2>2. vplan \in Snapshot
    BY DEF VerdictsInv, VerdictTypes
  <2>3. ~Works({g, x})
    BY <1>2, <2>2, PeersHaveTunnels DEF Works
  <2> QED
    BY <2>1, <2>3
<1> QED
  BY <1>1, <1>2

---------------------------------------------------------------------------
(* Tunnels *)

LEMMA TunnelsTold ==
  ASSUME MeshAssumption, VerdictsInv, quiet >= SettleTime, NEW m \in Sites, NEW o \in Sites,
         ArePeered(vplan, m, o), m \in linked
  PROVE  LET p == {m, o} IN
         /\ Works(p) <=> TunnelCheck(m, o) # "fail"
         /\ Works(p) <=> TunnelView(m, o) # "down"
         /\ Works(p) <=> TunnelCheck(o, m) # "fail"
         /\ Works(p) <=> TunnelView(o, m) # "down"
         /\ o \in linked /\ Works(p) =>
              /\ TunnelCheck(m, o) = IF p \in deaf THEN "warn" ELSE "pass"
              /\ TunnelView(m, o) = IF p \in deaf THEN "handshake-only" ELSE "up"
<1> DEFINE p == {m, o}
<1>1. /\ vplan \in Snapshot /\ m \in MeshSites(vplan) /\ o \in MeshSites(vplan) /\ m # o
      /\ ArePeered(vplan, o, m) /\ p = {o, m}
  BY DEF VerdictsInv, VerdictTypes, ArePeered
<1>2. m \in Peers(vplan, o) /\ o \in Peers(vplan, m)
  BY <1>1 DEF Peers
<1>3. InTouch(m) /\ IsRecent(m) /\ (IsRecent(o) <=> InTouch(o)) /\ (InTouch(o) <=> o \in linked)
  BY <1>1, SettledRecent DEF InTouch
<1> DEFINE r == told[m].peers[o]
           q == told[o].peers[m]
<1>4. /\ Rows(m, o) = {r} /\ r.hs = shaken[p] /\ (r.hs < Fresh <=> Works(p))
      /\ (r.rtt <=> Works(p) /\ p \notin deaf)
  BY <1>2, <1>3, SettledRow
<1>5. o \in linked => /\ Rows(o, m) = {q} /\ q.hs = shaken[p] /\ (q.hs < Fresh <=> Works(p))
                      /\ (q.rtt <=> Works(p) /\ p \notin deaf)
  BY <1>1, <1>2, <1>3, SettledRow
<1>6. o \notin linked => \A t \in Rows(o, m) : ~(t.hs < Fresh) /\ t.hs >= Fresh
  BY SettledOldRow
<1>7. shaken[p] \in Nat
  BY EndsArePairs DEF VerdictsInv, VerdictTypes, Never
<1>8. shaken[p] >= Fresh <=> ~Works(p)
  BY <1>4, <1>7 DEF Fresh
<1> HIDE DEF p, r, q
<1> DEFINE checked == Rows(m, o) \union Rows(o, m)
<1>9. checked # {} /\ ((\A t \in checked : t.hs >= Fresh) <=> ~Works(p))
  BY <1>4, <1>5, <1>6, <1>8
<1>10. o \in linked => ((\E t \in checked : t.rtt) <=> Works(p) /\ p \notin deaf)
  BY <1>4, <1>5
<1> DEFINE viewed(a, b) ==
             UNION {Rows(g, IF g = a THEN b ELSE a) : g \in {x \in {a, b} : IsRecent(x)}}
<1>11. /\ o \in linked => viewed(m, o) = {r, q} /\ viewed(o, m) = {r, q}
       /\ o \notin linked => viewed(m, o) = {r} /\ viewed(o, m) = {r}
  <2>1. CASE o \in linked
    <3>1. {x \in {m, o} : IsRecent(x)} = {m, o} /\ {x \in {o, m} : IsRecent(x)} = {m, o}
      BY <1>3, <2>1
    <3>2. /\ viewed(m, o) = Rows(m, o) \union Rows(o, m)
          /\ viewed(o, m) = Rows(m, o) \union Rows(o, m)
      BY <1>1, <3>1
    <3> QED
      BY <1>4, <1>5, <2>1, <3>2
  <2>2. CASE o \notin linked
    <3>1. {x \in {m, o} : IsRecent(x)} = {m} /\ {x \in {o, m} : IsRecent(x)} = {m}
      BY <1>3, <2>2
    <3>2. viewed(m, o) = Rows(m, o) /\ viewed(o, m) = Rows(m, o)
      BY <1>1, <3>1
    <3> QED
      BY <1>4, <2>2, <3>2
  <2> QED
    BY <2>1, <2>2
<1>12. ASSUME NEW W, W = viewed(m, o) \/ W = viewed(o, m)
       PROVE  /\ W # {} /\ ((\A t \in W : t.hs >= Fresh) <=> ~Works(p))
              /\ (\E t \in W : t.rtt) <=> Works(p) /\ p \notin deaf
  BY <1>4, <1>5, <1>8, <1>11, <1>12
<1>13. /\ TunnelCheck(m, o) = Verdict(checked,
                                      [none |-> "skip", down |-> "fail", up |-> "pass",
                                       mute |-> "warn"])
       /\ TunnelCheck(o, m) = Verdict(checked,
                                      [none |-> "skip", down |-> "fail", up |-> "pass",
                                       mute |-> "warn"])
  <2>1. Rows(o, m) \union Rows(m, o) = checked
    OBVIOUS
  <2> QED
    BY <2>1 DEF TunnelCheck
<1>14. /\ TunnelView(m, o) = Verdict(viewed(m, o),
                                     [none |-> "down", down |-> "down", up |-> "up",
                                      mute |-> "handshake-only"])
       /\ TunnelView(o, m) = Verdict(viewed(o, m),
                                     [none |-> "down", down |-> "down", up |-> "up",
                                      mute |-> "handshake-only"])
  BY <1>3 DEF TunnelView
<1> HIDE DEF checked, viewed
<1>15. /\ ~Works(p) => TunnelCheck(m, o) = "fail" /\ TunnelCheck(o, m) = "fail"
       /\ Works(p) => TunnelCheck(m, o) \in {"pass", "warn"} /\
            TunnelCheck(o, m) \in {"pass", "warn"}
       /\ o \in linked /\ Works(p) => TunnelCheck(m, o) = IF p \in deaf THEN "warn" ELSE "pass"
  BY <1>9, <1>10, <1>13 DEF Verdict
<1>16. /\ ~Works(p) => TunnelView(m, o) = "down" /\ TunnelView(o, m) = "down"
       /\ Works(p) => TunnelView(m, o) = (IF p \in deaf THEN "handshake-only" ELSE "up")
                      /\ TunnelView(o, m) = IF p \in deaf THEN "handshake-only" ELSE "up"
  BY <1>12, <1>14 DEF Verdict
<1>17. "pass" # "fail" /\ "warn" # "fail" /\ "handshake-only" # "down" /\ "up" # "down"
  OBVIOUS
<1> QED
  BY <1>15, <1>16, <1>17 DEF p

LEMMA TunnelsAreTold ==
  ASSUME MeshAssumption, VerdictsInv
  PROVE  TunnelsAsTold
<1> SUFFICES ASSUME quiet >= SettleTime, NEW m \in Sites, NEW o \in Sites,
                    ArePeered(vplan, m, o), {m, o} \intersect linked # {}
             PROVE  LET p == {m, o} IN
                    /\ Works(p) <=> TunnelCheck(m, o) # "fail"
                    /\ Works(p) <=> TunnelView(m, o) # "down"
                    /\ p \subseteq linked /\ Works(p) =>
                         /\ TunnelCheck(m, o) = IF p \in deaf THEN "warn" ELSE "pass"
                         /\ TunnelView(m, o) = IF p \in deaf THEN "handshake-only" ELSE "up"
  BY DEF TunnelsAsTold
<1>1. CASE m \in linked
  BY <1>1, TunnelsTold
<1>2. CASE m \notin linked
  <2>1. o \in linked /\ ArePeered(vplan, o, m) /\ {m, o} = {o, m} /\ ~({m, o} \subseteq linked)
    BY <1>2 DEF ArePeered
  <2> QED
    BY <2>1, TunnelsTold
<1> QED
  BY <1>1, <1>2

---------------------------------------------------------------------------
(* Ports, the headline and the counters *)

LEMMA InboundIsTold ==
  ASSUME MeshAssumption, VerdictsInv
  PROVE  InboundAsTold
<1> SUFFICES ASSUME quiet >= SettleTime, NEW m \in linked \intersect Hubs(vplan)
             PROVE  /\ InboundCheck(m) = "pass" <=> \E d \in Dialers(m) : Works({m, d})
                    /\ InboundCheck(m) = "fail" =>
                         m \notin forwards /\ \E d \in Dialers(m) \intersect linked,
                           h \in forwards \ {m} : Works({d, h})
                    /\ InboundCheck(m) = "warn" => m \notin forwards /\
                         Dialers(m) \intersect linked # {}
  BY DEF InboundAsTold
<1>1. /\ vplan \in Snapshot /\ m \in Sites /\ IsReachable(vplan, m) /\ InTouch(m)
      /\ Sites \intersect Clients = {} /\ away \subseteq Clients /\ forwards \subseteq Hubs(vplan)
      /\ Hubs(vplan) \subseteq Sites
  BY DEF VerdictsInv, VerdictTypes, Hubs, IsReachable, MeshSites, InTouch, MeshAssumption,
           ActiveClients
<1>2. \A d \in Dialers(m) : d \in Sites \union Clients
  BY DEF Dialers, MeshSites, ActiveClients
<1>3. \A d \in Dialers(m) : DialledIn(m, d) <=> Works({m, d})
  BY <1>1, <1>2, SettledDial
<1>4. ASSUME NEW d \in Dialers(m) \intersect Sites, IsRecent(d)
      PROVE  d \in linked /\ (m \in forwards => Works({m, d}))
  <2>1. d \in Sites /\ InTouch(d) /\ ArePeered(vplan, m, d)
    <3>1. d \notin ActiveClients(vplan)
      BY <1>1 DEF ActiveClients
    <3> QED
      BY <1>4, <3>1, SettledRecent DEF Dialers
  <2>2. IsTunnel(vplan, {m, d})
    BY <1>1, <2>1, PeersHaveTunnels
  <2>3. {m, d} \intersect away = {}
    BY <1>1, <2>1
  <2> QED
    BY <1>1, <2>1, <2>2, <2>3 DEF Works, InTouch
<1>5. InboundCheck(m) = "pass" <=> \E d \in Dialers(m) : Works({m, d})
  BY <1>1, <1>3 DEF InboundCheck
<1>6. ASSUME InboundCheck(m) = "fail"
      PROVE  m \notin forwards /\ \E d \in Dialers(m) \intersect linked,
               h \in forwards \ {m} : Works({d, h})
  <2>1. Elsewhere(m) # {} /\ \A d \in Dialers(m) : ~Works({m, d})
    BY <1>3, <1>6 DEF InboundCheck
  <2>2. PICK d \in Dialers(m) \intersect Sites :
          IsRecent(d) /\ \E h \in Hubs(vplan) \ {m} : DialledIn(d, h)
    BY <2>1 DEF Elsewhere
  <2>3. PICK h \in Hubs(vplan) \ {m} : DialledIn(d, h)
    BY <2>2
  <2>4. d \in linked /\ InTouch(d) /\ m \notin forwards
    BY <1>4, <2>1, <2>2, SettledRecent
  <2>5. Works({d, h})
    BY <1>1, <2>3, <2>4, SettledDial
  <2>6. d \notin Hubs(vplan)
    BY <1>1, <2>2 DEF Dialers, Hubs, ActiveClients
  <2>7. h \in forwards
    BY <1>1, <2>5, <2>6 DEF Works
  <2> QED
    BY <2>2, <2>3, <2>4, <2>5, <2>7
<1>7. ASSUME InboundCheck(m) = "warn"
      PROVE  m \notin forwards /\ Dialers(m) \intersect linked # {}
  <2>1. \A d \in Dialers(m) : ~Works({m, d})
    BY <1>3, <1>7 DEF InboundCheck
  <2>2. \E d \in Dialers(m) \intersect Sites : IsRecent(d)
    BY <1>7 DEF InboundCheck
  <2> QED
    BY <1>4, <2>1, <2>2
<1> QED
  BY <1>5, <1>6, <1>7

LEMMA HealthIsTold ==
  ASSUME VerdictsInv, NEW g \in MeshSites(vplan)
  PROVE  /\ quiet >= 1 /\ g \in linked => GatewayHealth(g) = "online" /\
              (seen[g].ok <=> g \notin failing)
         /\ quiet >= SettleTime /\ g \notin linked =>
              GatewayHealth(g) \in {"never", "stale", "offline"}
         /\ quiet = Gone /\ g \notin linked => GatewayHealth(g) \in {"never", "offline"}
         /\ seen[g] # None => seen[g].ok \in BOOLEAN
<1>1. g \in Sites /\ quiet \in Nat
  BY DEF MeshSites, VerdictsInv, VerdictTypes, Gone, Late
<1>2. ASSUME quiet >= 1, g \in linked
      PROVE  GatewayHealth(g) = "online" /\ (seen[g].ok <=> g \notin failing)
  <2>1. seen[g] # None /\ seen[g].age = 0 /\ (seen[g].ok <=> g \notin failing)
    BY <1>1, <1>2 DEF VerdictsInv, RecordsTell, InTouch
  <2> QED
    BY <2>1 DEF GatewayHealth, Recent
<1>3. ASSUME g \notin linked, seen[g] # None
      PROVE  seen[g].age \in Nat /\ seen[g].age >= quiet /\ seen[g].age <= Gone
  <2>1. seen[g] \in SeenType
    BY <1>1, <1>3 DEF VerdictsInv, VerdictTypes
  <2> QED
    BY <1>1, <1>3, <2>1 DEF VerdictsInv, RecordsTell, SeenType, Gone, Late
<1>4. ASSUME quiet >= SettleTime, g \notin linked
      PROVE  GatewayHealth(g) \in {"never", "stale", "offline"}
  BY <1>1, <1>3, <1>4 DEF GatewayHealth, SettleTime, Recent
<1>5. ASSUME quiet = Gone, g \notin linked
      PROVE  GatewayHealth(g) \in {"never", "offline"}
  BY <1>1, <1>3, <1>5 DEF GatewayHealth, Gone, Late, Recent
<1>6. seen[g] # None => seen[g].ok \in BOOLEAN
  BY <1>1 DEF VerdictsInv, VerdictTypes, SeenType
<1> QED
  BY <1>2, <1>4, <1>5, <1>6

\* A tunnel between sites is a pair of peers.
LEMMA SiteTunnel ==
  ASSUME MeshAssumption, vplan \in Snapshot
  PROVE  /\ \A a, b \in Sites : ArePeered(vplan, a, b) =>
              {a, b} \in Tunnels(vplan) \intersect SUBSET Sites
         /\ \A p \in Tunnels(vplan) \intersect SUBSET Sites :
              \E a, b \in Sites : p = {a, b} /\ a # b /\ ArePeered(vplan, a, b)
<1>1. ASSUME NEW a \in Sites, NEW b \in Sites, ArePeered(vplan, a, b)
      PROVE  {a, b} \in Tunnels(vplan) \intersect SUBSET Sites
  BY <1>1, EndsArePairs DEF Tunnels, IsTunnel
<1>2. ASSUME NEW p \in Tunnels(vplan) \intersect SUBSET Sites
      PROVE  \E a, b \in Sites : p = {a, b} /\ a # b /\ ArePeered(vplan, a, b)
  <2>1. p \in Pairs /\ IsTunnel(vplan, p) /\ p \intersect Clients = {}
    BY <1>2 DEF Tunnels, MeshAssumption
  <2>2. PICK a \in p, b \in p : ArePeered(vplan, a, b)
    BY <2>1 DEF IsTunnel, ActiveClients
  <2>3. a # b /\ a \in Sites /\ b \in Sites
    BY <1>2, <2>2 DEF ArePeered
  <2>4. PICK c, d : p = {c, d}
    BY <2>1 DEF Pairs
  <2>5. p = {a, b}
    BY <2>2, <2>3, <2>4
  <2> QED
    BY <2>2, <2>3, <2>5
<1> QED
  BY <1>1, <1>2

\* The lines of the dashboard, when every gateway is in touch.
LEMMA LinesAreTold ==
  ASSUME MeshAssumption, VerdictsInv, quiet >= SettleTime, MeshSites(vplan) \subseteq linked
  PROVE  /\ DirectTunnels("down") = {p \in Tunnels(vplan) \intersect SUBSET Sites : ~Works(p)}
         /\ DirectTunnels("up") = {p \in Tunnels(vplan) \intersect SUBSET Sites : Works(p)} \ deaf
<1>1. vplan \in Snapshot
  BY DEF VerdictsInv, VerdictTypes
<1>2. ASSUME NEW p \in Tunnels(vplan) \intersect SUBSET Sites, NEW a \in p, NEW b \in p,
               p = {a, b}, a # b
      PROVE  /\ TunnelView(a, b) = "down" <=> ~Works(p)
             /\ TunnelView(a, b) = "up" <=> Works(p) /\ p \notin deaf
  <2>1. a \in Sites /\ b \in Sites /\ ArePeered(vplan, a, b)
    <3>1. PICK c \in Sites, d \in Sites : p = {c, d} /\ c # d /\ ArePeered(vplan, c, d)
      BY <1>1, SiteTunnel
    <3>2. (a = c /\ b = d) \/ (a = d /\ b = c)
      BY <1>2, <3>1
    <3> QED
      BY <3>1, <3>2 DEF ArePeered
  <2>2. a \in linked /\ b \in linked
    BY <2>1 DEF ArePeered
  <2>3. /\ Works(p) <=> TunnelView(a, b) # "down"
        /\ Works(p) => TunnelView(a, b) = IF p \in deaf THEN "handshake-only" ELSE "up"
    BY <1>2, <2>1, <2>2, TunnelsTold
  <2>4. "handshake-only" # "up" /\ "down" # "up"
    OBVIOUS
  <2> QED
    BY <2>3, <2>4
<1>3. \A p \in Tunnels(vplan) \intersect SUBSET Sites : \E a, b \in p : p = {a, b} /\ a # b
  <2> TAKE p \in Tunnels(vplan) \intersect SUBSET Sites
  <2>1. PICK c \in Sites, d \in Sites : p = {c, d} /\ c # d
    BY <1>1, SiteTunnel
  <2> QED
    BY <2>1
<1> QED
  BY <1>2, <1>3 DEF DirectTunnels

LEMMA HeadlineIsTold ==
  ASSUME MeshAssumption, VerdictsInv
  PROVE  HeadlineAsTold
<1> DEFINE silent == MeshSites(vplan) \ linked
           broken == {p \in Tunnels(vplan) \intersect SUBSET Sites : ~Works(p)}
<1>1. quiet \in Nat /\ failing \subseteq MeshSites(vplan)
  BY DEF VerdictsInv, VerdictTypes, Gone, Late
<1>2. ASSUME quiet >= 1 PROVE OfHealth({"offline", "never"}) \subseteq silent
  BY <1>2, HealthIsTold DEF OfHealth
<1>3. ASSUME quiet = Gone, silent # {}
      PROVE  Headline = "not responding" /\ OfHealth({"offline", "never"}) = silent
  <2>1. OfHealth({"offline", "never"}) \subseteq silent
    BY <1>2, <1>3 DEF Gone, Late
  <2>2. silent \subseteq OfHealth({"offline", "never"})
    BY <1>3, HealthIsTold DEF OfHealth
  <2>3. MeshSites(vplan) # {} /\ OfHealth({"offline", "never"}) # {}
    BY <1>3, <2>2
  <2> QED
    BY <2>1, <2>2, <2>3 DEF Headline
<1>4. ASSUME quiet >= SettleTime, MeshSites(vplan) # {}, silent = {}
      PROVE  Headline = IF failing # {} THEN "attention"
                        ELSE IF broken # {} THEN "tunnel down" ELSE "working"
  <2>1. MeshSites(vplan) \subseteq linked /\ quiet >= 1
    BY <1>1, <1>4 DEF SettleTime
  <2>2. \A g \in MeshSites(vplan) : GatewayHealth(g) = "online" /\
          (seen[g].ok <=> g \notin failing)
    BY <2>1, HealthIsTold
  <2>3. OfHealth({"offline", "never"}) = {} /\ OfHealth({"stale"}) = {}
        /\ OfHealth({"online", "stale"}) = MeshSites(vplan)
    BY <2>2 DEF OfHealth
  <2>4. Attention = failing
    BY <1>1, <2>2, <2>3 DEF Attention
  <2>5. DirectTunnels("down") = broken
    BY <1>4, <2>1, LinesAreTold
  <2> HIDE DEF silent, broken
  <2> QED
    BY <1>4, <2>3, <2>4, <2>5 DEF Headline
<1>5. ASSUME quiet >= SettleTime, MeshSites(vplan) # {}, silent # {}
      PROVE  Headline # "working"
  <2>1. PICK g \in MeshSites(vplan) : g \notin linked
    BY <1>5
  <2>2. GatewayHealth(g) \in {"never", "stale", "offline"}
    BY <1>5, <2>1, HealthIsTold
  <2>3. OfHealth({"offline", "never"}) # {} \/ OfHealth({"stale"}) # {}
    BY <2>2 DEF OfHealth
  <2> HIDE DEF silent, broken
  <2> QED
    BY <1>5, <2>3 DEF Headline
<1> HIDE DEF silent, broken
<1>6. ASSUME quiet >= SettleTime, MeshSites(vplan) # {}
      PROVE  /\ Headline = "working" <=> silent = {} /\ failing = {} /\ broken = {}
             /\ silent = {} => Headline = IF failing # {} THEN "attention"
                                           ELSE IF broken # {} THEN "tunnel down" ELSE "working"
  BY <1>4, <1>5, <1>6
<1> QED
  BY <1>2, <1>3, <1>6 DEF HeadlineAsTold, silent, broken

LEMMA ClientIsTold ==
  ASSUME MeshAssumption, VerdictsInv, quiet >= SettleTime, NEW c \in Clients
  PROVE  ClientOnline(c) <=> \E g \in linked : Works({c, g})
<1> DEFINE M == Meetings(c)
           heard == {M[g] : g \in DOMAIN M} \ {Never}
<1>1. linked \subseteq Sites /\ vplan \in Snapshot /\ met[c] \in 0..Never /\
        quiet \in Nat /\ quiet >= 4
  BY DEF VerdictsInv, VerdictTypes, SettleTime, Gone, Late
<1>2. \A g \in DOMAIN M : /\ g \in Sites /\ InTouch(g) /\ c \in Peers(vplan, g)
                          /\ M[g] \in 0..Never /\ (M[g] < Fresh <=> Works({c, g}))
  <2> SUFFICES ASSUME NEW g \in DOMAIN M
               PROVE  /\ g \in Sites /\ InTouch(g) /\ c \in Peers(vplan, g)
                      /\ M[g] \in 0..Never /\ (M[g] < Fresh <=> Works({c, g}))
    OBVIOUS
  <2>1. g \in Sites /\ IsRecent(g) /\ Rows(g, c) # {} /\ M[g] = told[g].peers[c].hs
    BY DEF Meetings, MeshSites
  <2>2. InTouch(g) /\ c \in Peers(vplan, g)
    BY <2>1, SettledRecent, NoRow
  <2>3. M[g] = shaken[{g, c}] /\ (M[g] < Fresh <=> Works({g, c})) /\ {g, c} = {c, g}
    BY <2>1, <2>2, SettledRow
  <2>4. shaken[{g, c}] \in 0..Never
    BY <2>1, EndsArePairs DEF VerdictsInv, VerdictTypes
  <2> QED
    BY <2>1, <2>2, <2>3, <2>4
<1>3. ASSUME NEW g \in linked, Works({c, g}) PROVE g \in DOMAIN M /\ M[g] \in heard
  <2>1. IsTunnel(vplan, {g, c}) /\ g \in Sites
    <3>1. {g, c} = {c, g}
      OBVIOUS
    <3> QED
      BY <1>1, <1>3, <3>1 DEF Works
  <2>2. c \in Peers(vplan, g) /\ g \in MeshSites(vplan)
    BY <1>1, <2>1, PeersHaveTunnels
  <2>3. InTouch(g) /\ IsRecent(g) /\ Rows(g, c) # {}
    <3>1. InTouch(g)
      BY <1>3, <2>2 DEF InTouch
    <3>2. Rows(g, c) = {told[g].peers[c]}
      BY <2>1, <2>2, <3>1, SettledRow
    <3> QED
      BY <2>1, <3>1, <3>2, SettledRecent
  <2>4. g \in DOMAIN M
    BY <2>2, <2>3 DEF Meetings
  <2>5. M[g] < Fresh /\ M[g] \in 0..Never
    BY <1>2, <1>3, <2>4
  <2>6. M[g] # Never
    BY <2>5 DEF Fresh, Never
  <2> HIDE DEF M
  <2> QED
    BY <2>4, <2>6
<1>4. CASE \E g \in linked : Works({c, g})
  <2>1. PICK g \in linked : Works({c, g})
    BY <1>4
  <2>2. g \in DOMAIN M /\ M[g] \in heard /\ M[g] < Fresh
    BY <1>2, <1>3, <2>1
  <2>3. heard \in SUBSET (0..Never) /\ heard # {}
    BY <1>2, <2>2
  <2> HIDE DEF M
  <2>4. Min(heard) <= M[g] /\ Min(heard) \in 0..Never /\ M[g] \in 0..Never
    BY <2>2, <2>3, LeastAge
  <2>5. Min(heard) < Fresh
    BY <2>2, <2>4 DEF Fresh, Never
  <2> HIDE DEF heard
  <2>6. Min(IF heard = {} THEN {met[c]} ELSE heard) < Fresh
    BY <2>3, <2>5
  <2> QED
    BY <1>4, <2>6 DEF ClientOnline, heard, M
<1>5. CASE ~\E g \in linked : Works({c, g})
  <2>1. CASE heard = {}
    <3>1. Old(met[c])
      BY <1>5 DEF VerdictsInv, RecordsTell
    <3>2. {met[c]} \in SUBSET (0..Never) /\ {met[c]} # {}
      BY <1>1
    <3>3. Min({met[c]}) = met[c]
      BY <3>2, LeastAge
    <3>4. ~(met[c] < Fresh)
      BY <1>1, <3>1 DEF Old, Fresh, Never
    <3>5. ~(Min(IF heard = {} THEN {met[c]} ELSE heard) < Fresh)
      BY <2>1, <3>3, <3>4
    <3> QED
      BY <1>5, <3>5 DEF ClientOnline, heard, M
  <2>2. CASE heard # {}
    <3>1. heard \in SUBSET (0..Never) /\ \A n \in heard : ~(n < Fresh)
      <4>1. \A g \in DOMAIN M : M[g] \in 0..Never /\ ~(M[g] < Fresh)
        BY <1>2, <1>5 DEF InTouch
      <4> HIDE DEF M
      <4> QED
        BY <4>1
    <3>2. Min(heard) \in heard
      BY <2>2, <3>1, LeastAge
    <3>3. ~(Min(heard) < Fresh)
      BY <3>1, <3>2
    <3>4. ~(Min(IF heard = {} THEN {met[c]} ELSE heard) < Fresh)
      BY <2>2, <3>3
    <3> QED
      BY <1>5, <3>4 DEF ClientOnline, heard, M
  <2> QED
    BY <2>1, <2>2
<1> QED
  BY <1>4, <1>5

LEMMA CountsAreTold ==
  ASSUME MeshAssumption, VerdictsInv
  PROVE  CountsAsTold
<1> SUFFICES ASSUME quiet >= SettleTime
             PROVE  /\ Summary.sitesOnline = MeshSites(vplan) \intersect linked
                    /\ \A g \in MeshSites(vplan) : ReportingCheck(g) = "pass" <=> g \in linked
                    /\ \A g \in MeshSites(vplan) \intersect linked : ConfigCheck(g) = "fail" <=> g \in failing
                    /\ \A c \in Clients : c \in Summary.clientsOnline <=> \E g \in linked : Works({c, g})
                    /\ MeshSites(vplan) \subseteq linked =>
                         Summary.tunnelsUp = {p \in Tunnels(vplan) \intersect SUBSET Sites : Works(p)} \ deaf
  BY DEF CountsAsTold
<1>1. quiet >= 1
  BY DEF VerdictsInv, VerdictTypes, SettleTime, Gone, Late
<1>2. \A g \in MeshSites(vplan) : GatewayHealth(g) = "online" <=> g \in linked
  BY <1>1, HealthIsTold
<1>3. Summary.sitesOnline = MeshSites(vplan) \intersect linked
  BY <1>2 DEF Summary, OfHealth
<1>4. \A g \in MeshSites(vplan) : ReportingCheck(g) = "pass" <=> g \in linked
  <2> TAKE g \in MeshSites(vplan)
  <2>1. GatewayHealth(g) \in {"online", "stale", "offline", "never"}
    BY DEF GatewayHealth
  <2> QED
    BY <1>2, <2>1 DEF ReportingCheck
<1>5. \A g \in MeshSites(vplan) \intersect linked : ConfigCheck(g) = "fail" <=> g \in failing
  <2> TAKE g \in MeshSites(vplan) \intersect linked
  <2>1. seen[g] # None /\ (seen[g].ok <=> g \notin failing)
    BY <1>1 DEF VerdictsInv, RecordsTell, InTouch, MeshSites
  <2> QED
    BY <2>1 DEF ConfigCheck
<1>6. \A c \in Clients : c \in Summary.clientsOnline <=> \E g \in linked : Works({c, g})
  BY ClientIsTold DEF Summary
<1>7. MeshSites(vplan) \subseteq linked =>
        Summary.tunnelsUp = {p \in Tunnels(vplan) \intersect SUBSET Sites : Works(p)} \ deaf
  BY LinesAreTold DEF Summary
<1> QED
  BY <1>3, <1>4, <1>5, <1>6, <1>7

\* What is said of tunnels, ports, gateways and clients four minutes after the last
\* change is so, for any plan, whoever has stopped reporting and whatever was
\* kept of earlier reports (src/server/state.ts, status.ts, diagnostics.ts).
THEOREM AlwaysToldAsItIs == VerdictsSpec => []ToldAsItIs
<1>1. VerdictsInv /\ [VerdictsNext]_verdictsVars => VerdictsInv'
  BY MeshAssumption, VerdictsAssumption, VerdictsMinute, VerdictsUpset,
       VerdictsIdle DEF VerdictsNext
<1>2. VerdictsInit => VerdictsInv
  BY MeshAssumption, VerdictsAssumption, VerdictsStart
<1>3. VerdictsInv => ToldAsItIs
  BY MeshAssumption, TunnelsAreTold, InboundIsTold, HeadlineIsTold, CountsAreTold DEF ToldAsItIs
<1> QED
  BY <1>1, <1>2, <1>3, PTL DEF VerdictsSpec

---------------------------------------------------------------------------
(* What is generated is accepted, but for what is known *)

\* The agent reads a firewall to its end and finds that it filters forwarding.
FirewallTaken(sh) ==
    LET r == CheckNftBody(GenerateNftables(sh)) IN r.ok /\ r.filters /\ r.stack = <<>>

\* What the controller can have stored, and what the agent said of it.
LansTaken == {t \in PrefixText : ~t.host}

ValuesTaken ==
    [lan : LansTaken,
     endpoint : {"none", "address", "name"},
     listenPort : {n \in Nat : PortInRange(n)}, mtu : {n \in Nat : MtuInRange(n)},
     peerPort : {n \in Nat : n = Unset \/ PortInRange(n)},
     ownMtu : {n \in Nat : n = Unset \/ MtuInRange(n)},
     keepalive : {n \in Nat : n >= 1 /\ n <= 3600},
     interface : {name \in InterfaceNames \union {"opnmesh0"} : InterfaceForm(name)},
     key : {"canonical"}]

ReceivedInv == values \in ValuesTaken /\ shape \in Shapes /\ RefusedAsKnown

\* What is in a sequence is in it with another before or after it.
Holding(s, x) == \E i \in DOMAIN s : s[i] = x

LEMMA HoldingJoined ==
  ASSUME NEW S, NEW s \in Seq(S), NEW t \in Seq(S), NEW x
  PROVE  Holding(s, x) \/ Holding(t, x) => Holding(s \o t, x)
<1>1. ASSUME NEW i \in DOMAIN s, s[i] = x PROVE Holding(s \o t, x)
  <2>1. i \in DOMAIN (s \o t) /\ (s \o t)[i] = x
    BY <1>1
  <2> QED
    BY <2>1 DEF Holding
<1>2. ASSUME NEW i \in DOMAIN t, t[i] = x PROVE Holding(s \o t, x)
  <2>1. Len(s) + i \in DOMAIN (s \o t) /\ (s \o t)[Len(s) + i] = x
    BY <1>2
  <2> QED
    BY <2>1 DEF Holding
<1> QED
  BY <1>1, <1>2 DEF Holding

\* Of what is stored and not held back, the agent takes the WireGuard file unless
\* another site's network in it has a leading zero.
LEMMA WireGuardTaken ==
  ASSUME NEW v \in ValuesTaken, NEW sh \in Shape, ~Held(v, sh)
  PROVE  ValidateWireGuard(GenerateGatewayConf(v, sh)) <=> ~(sh.remote /\ v.lan.zeros)
<1> DEFINE ips == {Whole} \union (IF sh.remote THEN {v.lan} ELSE {})
           l1 == Line("Interface.address", [bits |-> 24, host |-> TRUE, zeros |-> FALSE])
           l2 == Line("Interface.listenport", v.listenPort)
           l3 == Line("Interface.mtu", MtuOf(v))
           l4 == Line("Interface.postup", "/etc/opnmesh/private.key")
           l5 == Line("Peer.publickey", v.key)
           l6 == Line("Peer.endpoint", [host |-> v.endpoint, port |-> ListenPortOf(v)])
           l7 == Line("Peer.allowedips", ips)
           l8 == Line("Peer.persistentkeepalive", v.keepalive)
           l9 == Line("Peer.publickey", "canonical")
           l10 == Line("Peer.allowedips", {Whole})
           zero == sh.remote /\ v.lan.zeros
           L == {l1, l2, l3, l4, l5, l7, l8, l9, l10}
                  \union (IF v.endpoint # "none" THEN {l6} ELSE {})
<1>1. /\ v.listenPort \in Nat /\ PortInRange(v.listenPort) /\ v.key = "canonical"
      /\ v.keepalive \in Nat /\ v.keepalive <= 3600
      /\ MtuOf(v) \in Nat /\ MtuInRange(MtuOf(v))
      /\ ListenPortOf(v) \in Nat /\ PortInRange(ListenPortOf(v))
      /\ v.lan \in PrefixText /\ ~v.lan.host
      /\ v.endpoint \in {"none", "address", "name"}
  BY DEF ValuesTaken, LansTaken, MtuOf, ListenPortOf
<1>2. sh.remote => v.lan.bits >= 8
  <2>1. ~(sh.remote /\ v.lan.bits < 8)
    BY Zenon DEF Held
  <2>2. v.lan.bits \in 0..32
    BY <1>1 DEF PrefixText
  <2> QED
    BY <2>1, <2>2
<1>3. CheckLine(l1)
  BY DEF Line, CheckLine, CheckPrefixes, ParsePrefix
<1>4. CheckLine(l2)
  BY <1>1 DEF Line, CheckLine, CheckNumber, PortInRange, MtuInRange
<1>5. CheckLine(l3)
  BY <1>1 DEF Line, CheckLine, CheckNumber, PortInRange, MtuInRange
<1>6. CheckLine(l4) /\ CheckLine(l9)
  BY DEF Line, CheckLine
<1>7. CheckLine(l5)
  BY <1>1 DEF Line, CheckLine
<1>8. v.endpoint # "none" => CheckLine(l6)
  <2>1. v.endpoint # "none" => CheckEndpoint([host |-> v.endpoint, port |-> ListenPortOf(v)])
    BY <1>1 DEF CheckEndpoint, CheckNumber, PortInRange
  <2> QED
    BY <2>1 DEF Line, CheckLine
<1>9. (CheckLine(l7) <=> ~zero) /\ CheckLine(l10)
  <2>1. (CheckAllowedIPs(ips) <=> ~zero) /\ CheckAllowedIPs({Whole})
    BY <1>1, <1>2 DEF CheckAllowedIPs, ParsePrefix, Whole
  <2> QED
    BY <2>1 DEF Line, CheckLine
<1>10. CheckLine(l8)
  BY <1>1 DEF Line, CheckLine, CheckNumber, PortInRange, MtuInRange
<1>11. ~zero => \A l \in L : CheckLine(l)
  BY <1>3, <1>4, <1>5, <1>6, <1>7, <1>8, <1>9, <1>10
<1>12. /\ GenerateGatewayConf(v, sh) \in Seq(L)
       /\ zero => Holding(GenerateGatewayConf(v, sh), l7)
  <2>1. <<l1, l2, l3, l4>> \in Seq(L) /\ <<l9, l10>> \in Seq(L) /\ <<l5>> \in Seq(L)
        /\ <<l7>> \in Seq(L) /\ <<l8>> \in Seq(L)
    OBVIOUS
  <2>2. When(v.endpoint # "none", <<l6>>) \in Seq(L)
    <3>1. CASE v.endpoint # "none"
      <4>1. l6 \in L
        BY <3>1
      <4> HIDE DEF l6, L
      <4> QED
        BY <3>1, <4>1 DEF When
    <3>2. CASE v.endpoint = "none"
      BY <3>2 DEF When
    <3> QED
      BY <3>1, <3>2
  <2> HIDE DEF l1, l2, l3, l4, l5, l6, l7, l8, l9, l10, L
  <2>3. When(sh.outbound, <<l8>>) \in Seq(L)
    BY <2>1 DEF When
  <2>4. <<l5>> \o When(v.endpoint # "none", <<l6>>)
          \o <<l7>> \o When(sh.outbound, <<l8>>) \in Seq(L)
    BY <2>1, <2>2, <2>3
  <2>5. /\ When(sh.remote \/ sh.relayed, <<l5>> \o When(v.endpoint # "none", <<l6>>)
                                            \o <<l7>> \o When(sh.outbound, <<l8>>)) \in Seq(L)
        /\ When(sh.open \/ sh.restricted, <<l9, l10>>) \in Seq(L)
    BY <2>1, <2>4 DEF When
  <2>6. <<l1, l2, l3, l4>>
          \o When(sh.remote \/ sh.relayed, <<l5>> \o When(v.endpoint # "none", <<l6>>)
                                             \o <<l7>> \o When(sh.outbound, <<l8>>))
          \o When(sh.open \/ sh.restricted, <<l9, l10>>) \in Seq(L)
    BY <2>1, <2>5
  <2>7. ASSUME zero PROVE Holding(<<l1, l2, l3, l4>>
          \o When(sh.remote \/ sh.relayed, <<l5>> \o When(v.endpoint # "none", <<l6>>)
                                             \o <<l7>> \o When(sh.outbound, <<l8>>))
          \o When(sh.open \/ sh.restricted, <<l9, l10>>), l7)
    <3>1. Holding(<<l7>>, l7)
      <4>1. 1 \in DOMAIN <<l7>> /\ <<l7>>[1] = l7
        OBVIOUS
      <4> QED
        BY <4>1 DEF Holding
    <3>2. <<l5>> \o When(v.endpoint # "none", <<l6>>) \in Seq(L)
      BY <2>1, <2>2
    <3>3. <<l5>> \o When(v.endpoint # "none", <<l6>>) \o <<l7>> \in Seq(L)
      BY <2>1, <3>2
    <3>4. Holding(<<l5>> \o When(v.endpoint # "none", <<l6>>) \o <<l7>>, l7)
      BY <2>1, <3>1, <3>2, HoldingJoined
    <3>5. Holding(<<l5>> \o When(v.endpoint # "none", <<l6>>)
                    \o <<l7>> \o When(sh.outbound, <<l8>>), l7)
      BY <2>3, <3>3, <3>4, HoldingJoined
    <3>6. Holding(When(sh.remote \/ sh.relayed, <<l5>> \o When(v.endpoint # "none", <<l6>>)
                                                  \o <<l7>> \o When(sh.outbound, <<l8>>)), l7)
      BY <2>7, <3>5 DEF When
    <3> DEFINE first == <<l1, l2, l3, l4>>
               peer == When(sh.remote \/ sh.relayed, <<l5>> \o When(v.endpoint # "none", <<l6>>)
                                                       \o <<l7>> \o When(sh.outbound, <<l8>>))
               clients == When(sh.open \/ sh.restricted, <<l9, l10>>)
    <3>7. first \in Seq(L) /\ peer \in Seq(L) /\ clients \in Seq(L) /\ Holding(peer, l7)
      BY <2>1, <2>5, <3>6
    <3> HIDE DEF first, peer, clients
    <3>8. first \o peer \in Seq(L) /\ Holding(first \o peer, l7)
      BY <3>7, HoldingJoined
    <3>9. Holding(first \o peer \o clients, l7)
      BY <3>7, <3>8, HoldingJoined
    <3> QED
      BY <3>9 DEF first, peer, clients
  <2> QED
    BY <2>6, <2>7 DEF GenerateGatewayConf, l1, l2, l3, l4, l5, l6, l7, l8, l9, l10
<1>13. CASE ~zero
  <2> HIDE DEF L
  <2> QED
    BY <1>11, <1>12, <1>13 DEF ValidateWireGuard
<1>14. CASE zero
  <2> HIDE DEF l7
  <2> QED
    BY <1>9, <1>12, <1>14 DEF ValidateWireGuard, Holding
<1> QED
  BY <1>13, <1>14

LEMMA FilesTaken ==
  ASSUME NEW v \in ValuesTaken, NEW sh \in Shape, ~Held(v, sh), FirewallTaken(sh)
  PROVE  /\ ValidInterfaceName(v.interface) /\ ValidateFiles(v, sh)
              <=> ~(sh.remote /\ v.lan.zeros) /\ v.interface \notin ManagedNames \union {"include"}
         /\ NftFiltersForwarding(GenerateNftables(sh))
<1>1. ValidateWireGuard(GenerateGatewayConf(v, sh)) <=> ~(sh.remote /\ v.lan.zeros)
  BY WireGuardTaken
<1>2. ParseSysctl(GenerateSysctl)
  BY DEF ParseSysctl, GenerateSysctl, Line
<1>3. ValidateNftables(GenerateNftables(sh), {v.interface}) <=> v.interface # "include"
  BY DEF ValidateNftables, FirewallTaken
<1>4. ValidInterfaceName(v.interface) <=> v.interface \notin ManagedNames
  BY DEF ValidInterfaceName, ValuesTaken
<1>5. NftFiltersForwarding(GenerateNftables(sh))
  BY DEF NftFiltersForwarding, FirewallTaken
<1> QED
  BY <1>1, <1>2, <1>3, <1>4, <1>5 DEF ValidateFiles

\* A value is replaced by another that can have been stored.
LEMMA Replaced ==
  ASSUME values \in ValuesTaken
  PROVE  /\ \A t \in LansTaken : [values EXCEPT !["lan"] = t] \in ValuesTaken
         /\ \A h \in {"address", "name"} : [values EXCEPT !["endpoint"] = h] \in ValuesTaken
         /\ \A name \in InterfaceNames :
              InterfaceForm(name) => [values EXCEPT !["interface"] = name] \in ValuesTaken
         /\ [values EXCEPT !["key"] = "canonical"] \in ValuesTaken
         /\ \A n \in Nat :
              /\ PortInRange(n) => [values EXCEPT !["listenPort"] = n] \in ValuesTaken
              /\ MtuInRange(n) => [values EXCEPT !["mtu"] = n] \in ValuesTaken
              /\ n = Unset \/ PortInRange(n) => [values EXCEPT !["peerPort"] = n] \in ValuesTaken
              /\ n = Unset \/ MtuInRange(n) => [values EXCEPT !["ownMtu"] = n] \in ValuesTaken
  BY DEF ValuesTaken

LEMMA ReceivedStep ==
  ASSUME \A sh \in Shapes : FirewallTaken(sh), ReceivedInv, [ReceivedNext]_receivedVars
  PROVE  ReceivedInv'
<1>0. values \in ValuesTaken /\ shape \in Shapes /\ RefusedAsKnown
  BY DEF ReceivedInv
<1>1. ASSUME NEW t \in NetworkTexts, AddLan(t) PROVE ReceivedInv'
  <2>1. t \in LansTaken
    BY <1>1, ReceivedAssumption DEF AddLan, ValidLan, LansTaken
  <2> QED
    BY <1>0, <1>1, <2>1, Replaced DEF AddLan, Store, ReceivedInv, RefusedAsKnown
<1>2. ASSUME NEW n \in Numbers, NEW f \in {"listenPort", "mtu", "keepalive"}, ChangeSetting(f, n)
      PROVE  ReceivedInv'
  <2>1. n \in Nat /\ AcceptsSetting(f, n)
    BY <1>2, ReceivedAssumption DEF ChangeSetting
  <2>2. [values EXCEPT ![f] = n] \in ValuesTaken
    <3>1. CASE f = "listenPort"
      BY <1>0, <2>1, <3>1, Replaced DEF AcceptsSetting
    <3>2. CASE f = "mtu"
      BY <1>0, <2>1, <3>2, Replaced DEF AcceptsSetting
    <3>3. CASE f = "keepalive"
      <4>1. n >= 1 /\ n <= 3600
        BY <2>1, <3>3 DEF AcceptsSetting
      <4>2. [values EXCEPT !["keepalive"] = n] \in ValuesTaken
        BY <1>0, <2>1, <4>1 DEF ValuesTaken
      <4> QED
        BY <3>3, <4>2
    <3> QED
      BY <3>1, <3>2, <3>3
  <2> QED
    BY <1>0, <1>2, <2>2 DEF ChangeSetting, Store, ReceivedInv, RefusedAsKnown
<1>3. ASSUME NEW n \in Numbers, NEW f \in {"peerPort", "ownMtu"}, ChangeGateway(f, n)
      PROVE  ReceivedInv'
  <2>1. n \in Nat /\ AcceptsGatewayValue(f, n)
    BY <1>3, ReceivedAssumption DEF ChangeGateway
  <2>2. [values EXCEPT ![f] = n] \in ValuesTaken
    BY <1>0, <2>1, Replaced DEF AcceptsGatewayValue
  <2> QED
    BY <1>0, <1>3, <2>2 DEF ChangeGateway, Store, ReceivedInv, RefusedAsKnown
<1>4. ASSUME NEW h \in Hosts, ChangeGateway("endpoint", h) PROVE ReceivedInv'
  <2>1. h \in {"address", "name"}
    BY <1>4, ReceivedAssumption, Zenon DEF ChangeGateway, AcceptsGatewayValue, HostKinds
  <2> QED
    BY <1>0, <1>4, <2>1, Replaced DEF ChangeGateway, Store, ReceivedInv, RefusedAsKnown
<1>5. ASSUME NEW name \in InterfaceNames, ChangeSetting("interface", name) PROVE ReceivedInv'
  BY <1>0, <1>5, Replaced DEF ChangeSetting, AcceptsSetting, Store, ReceivedInv, RefusedAsKnown
<1>6. ASSUME NEW k \in Keys, GatewayEnrols(k) PROVE ReceivedInv'
  BY <1>0, <1>6, Replaced DEF GatewayEnrols, IsWgKey, Store, ReceivedInv, RefusedAsKnown
<1>7. CASE FetchAndCheck
  <2>1. shape \in Shape /\ FirewallTaken(shape) /\ ~Held(values, shape)
    BY <1>0, <1>7, ReceivedAssumption DEF FetchAndCheck
  <2>2. answer' # "accepted" <=> LeadingZero \/ RefusedName
    BY <1>0, <1>7, <2>1, FilesTaken DEF FetchAndCheck, LeadingZero, RefusedName
  <2> QED
    BY <1>0, <1>7, <2>2 DEF FetchAndCheck, ReceivedInv, RefusedAsKnown, LeadingZero, RefusedName
<1>8. CASE UNCHANGED receivedVars
  BY <1>0, <1>8 DEF receivedVars, ReceivedInv, RefusedAsKnown, LeadingZero, RefusedName
<1> QED
  BY <1>1, <1>2, <1>3, <1>4, <1>5, <1>6, <1>7, <1>8 DEF ReceivedNext

\* For any numbers, networks, endpoints, keys and names of interfaces an
\* administrator may type, any number of changes and any places in the mesh whose
\* firewall the agent takes: of what the controller does not hold back the agent
\* refuses exactly what has another site's network with a leading zero in it and
\* what names an interface "include" or as one of the files (generate/,
\* settings.ts, apply.go, validate.go).
THEOREM AlwaysRefusedAsKnown ==
  ASSUME \A sh \in Shapes : FirewallTaken(sh)
  PROVE  ReceivedSpec => []RefusedAsKnown
<1>1. ReceivedInit => ReceivedInv
  <2> SUFFICES ASSUME ReceivedInit PROVE ReceivedInv
    OBVIOUS
  <2>1. [bits |-> 24, host |-> FALSE, zeros |-> FALSE] \in LansTaken
    <3> DEFINE t == [bits |-> 24, host |-> FALSE, zeros |-> FALSE]
    <3>1. t \in PrefixText
      BY DEF PrefixText
    <3>2. t.zeros = FALSE /\ t.host = FALSE
      OBVIOUS
    <3> HIDE DEF t
    <3>3. t \in LansTaken
      BY <3>1, <3>2 DEF LansTaken
    <3> QED
      BY <3>3 DEF t
  <2>2. shape \in Shapes /\ RefusedAsKnown
    BY DEF ReceivedInit, RefusedAsKnown
  <2>3. /\ PortInRange(51820) /\ MtuInRange(1420) /\ Unset \in Nat
        /\ 51820 \in Nat /\ 1420 \in Nat /\ 25 \in Nat
    BY DEF PortInRange, MtuInRange, Unset
  <2>4. values \in ValuesTaken
    BY <2>1, <2>3 DEF ReceivedInit, ValuesTaken, InterfaceForm
  <2> QED
    BY <2>2, <2>4 DEF ReceivedInv
<1>2. ReceivedInv /\ [ReceivedNext]_receivedVars => ReceivedInv'
  BY ReceivedStep
<1>3. ReceivedInv => RefusedAsKnown
  BY DEF ReceivedInv
<1> QED
  BY <1>1, <1>2, <1>3, PTL DEF ReceivedSpec

=============================================================================
