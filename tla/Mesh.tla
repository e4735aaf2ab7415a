-------------------------------- MODULE Mesh --------------------------------
(***************************************************************************)
(* Who may talk to whom, and which way the packets go: the topology engine  *)
(* (src/core/topology.ts) and the two files it generates for a gateway, the *)
(* WireGuard configuration (generate/wireguard.ts) and the forward chain    *)
(* (generate/nftables.ts).                                                  *)
(*                                                                          *)
(* The plan is the snapshot those functions take.  Every gateway fetches    *)
(* its own files when it can, and a client's configuration is handed out by *)
(* hand, so at any moment each of them runs some version of the plan, and   *)
(* no two need run the same.  The model sends the packets of one            *)
(* conversation through such a mesh.                                        *)
(*                                                                          *)
(* A prefix is a network, a client (its /32) or a site (the /32 of its      *)
(* gateway's tunnel).  WireGuard takes a packet from a peer only if the     *)
(* peer's AllowedIPs hold its source, and sends it to the peer whose        *)
(* AllowedIPs hold its destination.  Whether a datagram can travel between  *)
(* two gateways is what the plan says: one of them has an endpoint.         *)
(***************************************************************************)
EXTENDS Naturals, Sequences

CONSTANTS
    Sites,        \* the sites; each stands also for its gateway
    Nets,         \* the sites' networks
    Home,         \* the site of each network
    Clients,      \* the roaming clients
    FirstPlans,   \* the plans the behaviours begin with
    EditPlans,    \* the plans an administrator changes from and to
    MaxEdits,     \* bound: edits of the plan
    MaxHops,      \* bound: gateways a packet passes (its TTL)
    None          \* no site, packet or conversation

VARIABLES
    plans,        \* the versions of the plan and what is generated from each,
                  \* the last one current
    run,          \* the version each gateway and each client runs; 0: none
    down,         \* a gateway that stopped, or None
    conv,         \* the conversation: its ends, and what it began under
    tracked,      \* per gateway: the directions of it that connection tracking saw
    pkt,          \* its packet on the way: direction and the gateways it passed
    last          \* what became of the last packet

vars == <<plans, run, down, conv, tracked, pkt, last>>

Snapshot == [gw : [Sites -> {"none", "outbound", "reachable"}],
         priority : [Sites -> Nat],
         shared : SUBSET Nets,
         client : [Clients -> [enabled : BOOLEAN, preferred : Sites \union {None},
                               restricted : BOOLEAN, allowed : SUBSET Sites,
                               inbound : BOOLEAN]]]

Ends == Nets \union Clients
Directions == {"request", "reply"}

ASSUME MeshAssumption ==
    /\ Home \in [Nets -> Sites]
    /\ Sites \intersect Nets = {} /\ Sites \intersect Clients = {} /\ Nets \intersect Clients = {}
    /\ None \notin Sites \union Nets \union Clients
    /\ FirstPlans \subseteq Snapshot /\ EditPlans \subseteq Snapshot
    /\ MaxEdits \in Nat /\ MaxHops \in Nat
    /\ MaxHops >= 3    \* no way in the plan is longer

ASSUME NoneAssumption ==
    /\ None \notin [src : Ends, dst : Ends, met : BOOLEAN, version : Nat]
    /\ None \notin [dir : Directions, path : Seq(Sites), new : BOOLEAN, steady : BOOLEAN]

---------------------------------------------------------------------------
(* Topology: sites *)

MeshSites(S) == {s \in Sites : S.gw[s] # "none"}
IsReachable(S, s) == S.gw[s] = "reachable"
Hubs(S) == {s \in Sites : IsReachable(S, s)}

FirstHub(S) ==
    IF Hubs(S) = {} THEN None
    ELSE CHOOSE h \in Hubs(S) : \A k \in Hubs(S) : S.priority[h] <= S.priority[k]

SharedNets(S, s) == {n \in S.shared : Home[n] = s}

\* Two different sites of the mesh, and one of them can be dialled.
ArePeered(S, a, b) ==
    a # b /\ {a, b} \subseteq MeshSites(S) /\ {a, b} \intersect Hubs(S) # {}

\* (mutant: the hub is chosen by each end, the nearest to it)
NextHopOwnHub(S, a, b) ==
    IF ArePeered(S, a, b) THEN b
    ELSE IF Hubs(S) = {} THEN None ELSE CHOOSE h \in Hubs(S) : \A k \in Hubs(S) : S.priority[h] >= S.priority[k]

NextHop(S, a, b) == IF ArePeered(S, a, b) THEN b ELSE FirstHub(S)

\* (mutant: the sites without an endpoint are looked for behind every peer)
TransitDestinationsAny(S, g, p) == {t \in MeshSites(S) \ {g, p} : ~IsReachable(S, t)}

TransitDestinationsVia(S, g, p) ==
    {t \in MeshSites(S) \ {g, p} : NextHop(S, g, t) = p}

ReachableSitesFrom(S, s) == {t \in MeshSites(S) \ {s} : NextHop(S, s, t) # None}

\* Ordered pairs whose traffic h carries.
RelayedPairs(S, h) ==
    {ab \in MeshSites(S) \X MeshSites(S) :
        ab[1] # ab[2] /\ ~ArePeered(S, ab[1], ab[2]) /\ FirstHub(S) = h}

---------------------------------------------------------------------------
(* Topology: clients *)

ActiveClients(S) == {c \in Clients : S.client[c].enabled}
ClientAllows(S, c, s) == ~S.client[c].restricted \/ s \in S.client[c].allowed

ClientRelaySite(S, c) ==
    IF S.client[c].preferred \in Hubs(S) THEN S.client[c].preferred ELSE FirstHub(S)

ClientCarriedByEntry(S, c, e) ==
    {s \in MeshSites(S) :
        /\ e \in Hubs(S) /\ ClientAllows(S, c, s)
        /\ s = e \/ (~IsReachable(S, s) /\ ClientRelaySite(S, c) = e)}

ClientEntrySites(S, c) == {e \in Hubs(S) : ClientCarriedByEntry(S, c, e) # {}}

\* The peer of g that carries the client's address: the client itself
\* ("self"), the site that relays for it, or none.
ClientRouteFrom(S, g, c) ==
    IF g \in ClientEntrySites(S, c) THEN c
    ELSE IF ~IsReachable(S, g) /\ ClientAllows(S, c, g) THEN ClientRelaySite(S, c)
    ELSE None

ClientTransitViaHub(S, h, c) == ClientCarriedByEntry(S, c, h) \ {h}

---------------------------------------------------------------------------
(* WireGuard configurations *)

Peers(S, g) ==
    {p \in Sites : ArePeered(S, g, p)} \union {c \in ActiveClients(S) : g \in ClientEntrySites(S, c)}

GatewayPeerAllowedIps(S, g, p) ==
    {c \in ActiveClients(S) : ClientRouteFrom(S, g, c) = p}
    \union UNION {{t} \union SharedNets(S, t) : t \in {p} \union TransitDestinationsVia(S, g, p)}

\* What the configuration of gateway g lists on its peer p.
AllowedIps(S, g, p) == IF p \in Clients THEN {p} ELSE GatewayPeerAllowedIps(S, g, p)

\* What the configuration of client c lists on the entry e.
ClientAllowedIps(S, c, e) ==
    UNION {{s} \union SharedNets(S, s) : s \in ClientCarriedByEntry(S, c, e)}

---------------------------------------------------------------------------
(* The forward chain *)

ReachesHere(S, g) == {c \in ActiveClients(S) : ClientRouteFrom(S, g, c) # None}
OpenHere(S, g) == {c \in ReachesHere(S, g) : ~S.client[c].restricted}
InboundOk(S, g) == {c \in ReachesHere(S, g) : S.client[c].inbound}

SiteRule(S, g, in, out, src, dst) ==
    \E p \in ReachableSitesFrom(S, g) :
        \/ in = "lan" /\ out = "wg" /\ src \in SharedNets(S, g) /\ dst \in SharedNets(S, p)
        \/ in = "wg" /\ out = "lan" /\ src \in SharedNets(S, p) /\ dst \in SharedNets(S, g)

RelayRule(S, g, in, out, src, dst) ==
    /\ in = "wg" /\ out = "wg"
    /\ \E ab \in RelayedPairs(S, g) : src \in SharedNets(S, ab[1]) /\ dst \in SharedNets(S, ab[2])

\* (mutant: a restricted client is let into whatever site it reaches)
ClientRuleOpen(S, g, in, out, src, dst) ==
    in = "wg" /\ out = "lan" /\ dst \in SharedNets(S, g) /\ src \in ReachesHere(S, g)

ClientRule(S, g, in, out, src, dst) ==
    /\ in = "wg" /\ out = "lan" /\ dst \in SharedNets(S, g)
    /\ src \in ReachesHere(S, g) /\ ClientAllows(S, src, g)

\* One rule lets every open client on to a site that one of them is relayed to.
OnwardRule(S, g, in, out, src, dst) ==
    /\ in = "wg" /\ out = "wg"
    /\ \E c \in ReachesHere(S, g) : \E o \in ClientTransitViaHub(S, g, c) :
         /\ dst \in SharedNets(S, o)
         /\ src \in IF S.client[c].restricted THEN {c} ELSE OpenHere(S, g)

\* The verdict on a packet that belongs to no tracked connection.
Accepts(S, g, in, out, src, dst) ==
    IF out = "wg" /\ dst \in Clients THEN dst \in InboundOk(S, g)
    ELSE \/ SiteRule(S, g, in, out, src, dst)
         \/ RelayRule(S, g, in, out, src, dst)
         \/ ClientRule(S, g, in, out, src, dst)
         \/ OnwardRule(S, g, in, out, src, dst)

---------------------------------------------------------------------------
(* What runs, and the packet's next step *)


\* The files of gateway or client x, as those who run them read them: what
\* WireGuard takes from and sends to each peer, and what the forward chain of
\* a gateway accepts without knowing the connection.
Files(S, x) ==
    IF x \in Sites
    THEN [allowed |-> [p \in Peers(S, x) |-> AllowedIps(S, x, p)],
          accept |-> {r \in {"lan", "wg"} \X {"lan", "wg"} \X Ends \X Ends :
                        Accepts(S, x, r[1], r[2], r[3], r[4])}]
    ELSE [allowed |-> [e \in ClientEntrySites(S, x) |-> ClientAllowedIps(S, x, e)],
          accept |-> {}]

\* There is a configuration for gateway or client x: a client's is not
\* handed out without a peer in it.
Configured(S, x) ==
    x \in MeshSites(S) \/ (x \in ActiveClients(S) /\ ClientEntrySites(S, x) # {})

Generate(S) ==
    [snapshot |-> S,
     bundle |-> [x \in {y \in Sites \union Clients : Configured(S, y)} |-> Files(S, x)]]

Current == plans[Len(plans)].snapshot
Conf(x) == plans[run[x]].bundle[x]

Opposite(d) == IF d = "request" THEN "reply" ELSE "request"
Src(d) == IF d = "request" THEN conv.src ELSE conv.dst
Dst(d) == IF d = "request" THEN conv.dst ELSE conv.src

Up(g) == run[g] # 0 /\ g # down

\* Gateway g takes a packet that its peer x sends it.
Takes(g, x, src) ==
    Up(g) /\ x \in DOMAIN Conf(g).allowed /\ src \in Conf(g).allowed[x]

\* Gateway g is the first that a packet passes.
Enters(d, g) ==
    IF Src(d) \in Nets THEN g = Home[Src(d)] /\ Up(g)
    ELSE /\ run[Src(d)] # 0 /\ g \in DOMAIN Conf(Src(d)).allowed
         /\ Dst(d) \in Conf(Src(d)).allowed[g]
         /\ Takes(g, Src(d), Src(d))

At == pkt.path[Len(pkt.path)]
In == IF Len(pkt.path) = 1 /\ Src(pkt.dir) \in Nets THEN "lan" ELSE "wg"
Out == IF Dst(pkt.dir) \in Nets /\ Home[Dst(pkt.dir)] = At THEN "lan" ELSE "wg"
Via == {p \in DOMAIN Conf(At).allowed : Dst(pkt.dir) \in Conf(At).allowed[p]}

\* The gateway has a way on for the packet, and its forward chain lets it pass.
Passes ==
    /\ Up(At) /\ (Out = "lan" \/ Via # {})
    /\ \/ Opposite(pkt.dir) \in tracked[At]
       \/ <<In, Out, Src(pkt.dir), Dst(pkt.dir)>> \in Conf(At).accept

\* The host or the client it is for gets it from this gateway.
Arrives ==
    \/ Out = "lan"
    \/ LET c == Dst(pkt.dir) IN
         /\ c \in Via \intersect Clients /\ run[c] # 0
         /\ At \in DOMAIN Conf(c).allowed /\ Src(pkt.dir) \in Conf(c).allowed[At]

\* Gateway q gets it from this one.
MovesTo(q) == q \in Via /\ Takes(q, At, Src(pkt.dir)) /\ Len(pkt.path) < MaxHops

\* Everyone runs the current plan, and who is not in it has stopped.
Converged ==
    \A x \in Sites \union Clients : run[x] = IF Configured(Current, x) THEN Len(plans) ELSE 0

---------------------------------------------------------------------------
(* The plan and those who run it *)

Init ==
    /\ \E S \in FirstPlans :
         /\ plans = <<Generate(S)>>
         /\ run = [x \in Sites \union Clients |-> IF Configured(S, x) THEN 1 ELSE 0]
    /\ down = None /\ conv = None /\ pkt = None /\ last = None
    /\ tracked = [s \in Sites |-> {}]

Edit(S) ==
    /\ Len(plans) <= MaxEdits /\ Current \in EditPlans /\ down = None
    /\ plans' = Append(plans, Generate(S))
    /\ UNCHANGED <<run, down, conv, tracked, pkt, last>>

\* A gateway applies, or a person imports, the current configuration.  A
\* gateway that has none keeps what it runs.
Apply(x) ==
    /\ Configured(Current, x) /\ run[x] < Len(plans)
    /\ run' = [run EXCEPT ![x] = Len(plans)]
    /\ pkt' = IF pkt = None THEN None ELSE [pkt EXCEPT !.steady = FALSE]
    /\ UNCHANGED <<plans, down, conv, tracked, last>>

\* At most one gateway stops, before the conversation, and (a bound) only
\* while the plan is the first.
Stop(g) ==
    /\ down = None /\ conv = None /\ Len(plans) = 1
    /\ down' = g
    /\ UNCHANGED <<plans, run, conv, tracked, pkt, last>>

---------------------------------------------------------------------------
(* The conversation *)

Begin(src, dst) ==
    /\ conv = None /\ src # dst
    /\ conv' = [src |-> src, dst |-> dst, met |-> FALSE,
                version |-> IF Converged THEN Len(plans) ELSE 0]
    /\ UNCHANGED <<plans, run, down, tracked, pkt, last>>

Lose(d, new) == last' = [dir |-> d, fate |-> "lost", new |-> new] /\ pkt' = None

Send(d) ==
    /\ conv # None /\ pkt = None
    /\ d = "reply" => conv.met
    /\ LET new == d = "request" /\ \A g \in Sites : "reply" \notin tracked[g] IN
         \/ \E g \in Sites :
              /\ Enters(d, g)
              /\ pkt' = [dir |-> d, path |-> <<g>>, new |-> new, steady |-> TRUE]
              /\ UNCHANGED last
         \/ (\A g \in Sites : ~Enters(d, g)) /\ Lose(d, new)
    /\ UNCHANGED <<plans, run, down, conv, tracked>>

Track == tracked' = [tracked EXCEPT ![At] = @ \union {pkt.dir}]

Relay(q) ==
    /\ pkt # None /\ Passes /\ ~Arrives /\ MovesTo(q)
    /\ pkt' = [pkt EXCEPT !.path = Append(@, q)]
    /\ Track
    /\ UNCHANGED <<plans, run, down, conv, last>>

Deliver ==
    /\ pkt # None /\ Passes /\ Arrives
    /\ last' = [dir |-> pkt.dir, fate |-> "delivered", new |-> pkt.new]
    /\ pkt' = None
    /\ conv' = [conv EXCEPT !.met = TRUE]
    /\ Track
    /\ UNCHANGED <<plans, run, down>>

\* The forward chain drops it, or whoever it is sent to does.
Drop ==
    /\ pkt # None
    /\ \/ ~Passes /\ UNCHANGED tracked
       \/ Passes /\ ~Arrives /\ (\A q \in Sites : ~MovesTo(q)) /\ Track
    /\ Lose(pkt.dir, pkt.new)
    /\ UNCHANGED <<plans, run, down, conv>>

\* "ct state invalid drop": an answer to nothing that was seen here.
DropInvalid ==
    /\ pkt # None /\ pkt.dir = "reply" /\ tracked[At] = {}
    /\ Lose(pkt.dir, pkt.new)
    /\ UNCHANGED <<plans, run, down, conv, tracked>>

Next ==
    \/ \E S \in EditPlans : Edit(S)
    \/ \E x \in Sites \union Clients : Apply(x)
    \/ \E g \in Sites : Stop(g)
    \/ \E src, dst \in Ends : Begin(src, dst)
    \/ \E d \in Directions : Send(d)
    \/ \E q \in Sites : Relay(q)
    \/ Deliver \/ Drop \/ DropInvalid

Spec == Init /\ [][Next]_vars

---------------------------------------------------------------------------
(* Properties *)

TypeOK ==
    /\ plans # <<>> /\ \A v \in 1..Len(plans) : plans[v].snapshot \in Snapshot
    /\ run \in [Sites \union Clients -> 0..Len(plans)]
    /\ down \in Sites \union {None}
    /\ conv \in [src : Ends, dst : Ends, met : BOOLEAN,
                 version : 0..Len(plans)] \union {None}
    /\ tracked \in [Sites -> SUBSET Directions]
    /\ pkt \in [dir : Directions, path : Seq(Sites), new : BOOLEAN, steady : BOOLEAN] \union {None}
    /\ pkt # None => conv # None /\ pkt.path # <<>> /\ At \in Sites
    /\ last \in [dir : Directions, fate : {"delivered", "lost"}, new : BOOLEAN] \union {None}

\* On the interface of one gateway every prefix is listed by one peer
\* (docs/ARCHITECTURE.md, "Prefix ownership invariant"): by none twice, for
\* whatever sites, endpoints, hub priorities, restrictions and relays.
OnePeerPerPrefix ==
    \A g \in Sites : run[g] # 0 =>
        \A p, q \in DOMAIN Conf(g).allowed :
            p # q => Conf(g).allowed[p] \intersect Conf(g).allowed[q] = {}

\* No packet passes a gateway twice, whatever versions of the plan the
\* gateways run, unless one of them changes while it is on its way.
NoLoop ==
    pkt # None /\ pkt.steady =>
        \A i, j \in 1..Len(pkt.path) : pkt.path[i] = pkt.path[j] => i = j

\* Who may open a connection to whom: both ends shared with the mesh or an
\* enabled client, a path between them, the site allowed to the client, and
\* towards a client its own consent.
HasPath(S, a, b) == a # b /\ {a, b} \subseteq MeshSites(S) /\ Hubs(S) # {}

ClientPath(S, c, n) ==
    /\ S.client[c].enabled /\ n \in S.shared
    /\ Home[n] \in MeshSites(S) /\ Hubs(S) # {} /\ ClientAllows(S, c, Home[n])

Permitted(S, src, dst) ==
    IF src \in Nets /\ dst \in Nets
    THEN {src, dst} \subseteq S.shared /\ HasPath(S, Home[src], Home[dst])
    ELSE IF src \in Clients THEN dst \in Nets /\ ClientPath(S, src, dst)
    ELSE ClientPath(S, dst, src) /\ S.client[dst].inbound

\* The conversation began when everyone ran the current plan, and still does.
Settled == last # None /\ conv.version = Len(plans) /\ Converged

\* Once everyone runs the current plan, what the plan permits is delivered,
\* requests and answers alike, over relays too, and nothing else is: the
\* AllowedIPs at both ends of every hop and the forward chains on the way
\* agree on it.
DeliversPermitted ==
    Settled /\ down = None =>
        (last.fate = "delivered" <=> Permitted(Current, conv.src, conv.dst))

\* What spofAnalysis says of site s.
SeveredPairs(S, s) == RelayedPairs(S, s)
\* (mutant: a client is stranded by the loss of any of its entries)
StrandedClientsAny(S, s) == {c \in ActiveClients(S) : s \in ClientEntrySites(S, c)}

StrandedClients(S, s) == {c \in ActiveClients(S) : ClientEntrySites(S, c) = {s}}
RelayDependentClients(S, s) ==
    {c \in ActiveClients(S) \ StrandedClients(S, s) : ClientTransitViaHub(S, s, c) # {}}

CutOff(S, s, a, b) ==
    IF a \in Nets /\ b \in Nets
    THEN <<Home[a], Home[b]>> \in SeveredPairs(S, s)
    ELSE LET c == IF a \in Clients THEN a ELSE b
             n == IF a \in Clients THEN b ELSE a
         IN  \/ c \in StrandedClients(S, s)
             \/ c \in RelayDependentClients(S, s) /\ ~IsReachable(S, Home[n])

\* With one gateway down, the conversations between the others that no
\* longer get through are those the report of single points of failure names.
SpofIsTrue ==
    Settled /\ down # None /\ Permitted(Current, conv.src, conv.dst)
            /\ (\A n \in {conv.src, conv.dst} \intersect Nets : Home[n] # down) =>
        (last.fate = "lost" <=> CutOff(Current, down, conv.src, conv.dst))

\* While gateways and clients run different versions, a new connection still
\* only gets where a version that a gateway runs permits it, however old the file
\* of the client that opens it; and to a client, only from where the client's own
\* file takes it, and while some gateway's version lets it in.
Running(x) == {plans[run[y]].snapshot : y \in {z \in x : run[z] # 0}}

NewIsPermitted ==
    [][pkt # None /\ pkt.new /\ pkt' = None /\ last'.fate = "delivered" =>
         IF conv.dst \in Nets
         THEN \E S \in Running(Sites) : Permitted(S, conv.src, conv.dst)
         ELSE /\ \E S \in Running({conv.dst}) : ClientPath(S, conv.dst, conv.src)
              /\ \E S \in Running(Sites) : S.client[conv.dst].enabled /\ S.client[conv.dst].inbound]_vars
=============================================================================
