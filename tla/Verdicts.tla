------------------------------- MODULE Verdicts -------------------------------
(***************************************************************************)
(* What an administrator is told of gateways, tunnels and clients: the      *)
(* dashboard's headline and lines (src/server/state.ts, status.ts) and the  *)
(* checks the controller makes without a gateway's help                     *)
(* (src/server/diagnostics.ts, controllerChecks).  All are worked out from  *)
(* the last report of either end, which may be old, absent since the        *)
(* controller restarted, or tell of a handshake long ago, and from the      *)
(* little of it that the database keeps.                                    *)
(*                                                                          *)
(* A step of time is one minute, the longest reporting interval.  Ages are  *)
(* counted in it: of a handshake, which a tunnel in use makes again after   *)
(* two minutes, and of a report.                                            *)
(***************************************************************************)
EXTENDS Mesh, FiniteSetsExt

CONSTANTS
    VerdictPlans,  \* the plans looked at
    MaxUpsets      \* bound: things that go wrong or right

Never == 9      \* no handshake yet

\* What a report says of a peer: the age of the last handshake, and whether pings return.
Row == [hs : 0..Never, rtt : BOOLEAN]

ASSUME VerdictsAssumption ==
    /\ VerdictPlans \subseteq Snapshot /\ MaxUpsets \in Nat
    /\ None \notin [age : 0..Never, peers : UNION {[P -> Row] : P \in SUBSET (Sites \union Clients)}]
    /\ None \notin [age : Nat, ok : BOOLEAN]

VARIABLES
    vplan,      \* the plan
    forwards,   \* the hubs whose router forwards the port to the gateway
    linked,     \* the gateways whose reports arrive
    away,       \* the clients that are switched off
    deaf,       \* the pairs of sites whose pings get no reply, though the tunnel is up
    failing,    \* the gateways that cannot apply what they are handed
    shaken,     \* the age of the last handshake of each pair
    told,       \* the last report of each gateway: its age and its peers
    seen,       \* gateways.lastSeenAt and lastError: the report's age, and whether it had no error
    met,        \* clients.lastHandshakeAt: its age
    quiet,      \* minutes since anything changed
    upsets      \* changes so far

verdictsVars == <<vplan, forwards, linked, away, deaf, failing, shaken, told, seen, met, quiet, upsets>>

Fresh == 3      \* FRESH_HANDSHAKE_S, and the dashboard's 180 s
Recent == 3     \* liveMaxAgeMs, and ONLINE_INTERVALS
Late == 12      \* gatewayHealth: "stale" up to this many intervals
SettleTime == 4    \* after this long everything that changed is reported
Gone == Late + 1   \* after this long whoever does not report is offline

\* Ages end at the last before Never, which stays apart: no handshake at all.
Older(n) == IF n < Never - 1 THEN n + 1 ELSE n
OlderReport(r) == IF r = None \/ r.age >= Gone THEN r ELSE [r EXCEPT !.age = @ + 1]

\* The pairs that hold tunnels: two peered sites, or a client and its entry.
Pairs == {{a, b} : a, b \in Sites} \union {{c, h} : c \in Clients, h \in Sites}
IsTunnel(S, p) ==
    \/ \E a, b \in p : ArePeered(S, a, b)
    \/ \E c \in p \intersect ActiveClients(S) : \E h \in p \ {c} : h \in ClientEntrySites(S, c)
Tunnels(S) == {p \in Pairs : IsTunnel(S, p)}

\* One end can dial the other.
Works(p) ==
    /\ IsTunnel(vplan, p) /\ p \intersect away = {}
    /\ \E h \in p \intersect Hubs(vplan) : h \in forwards

---------------------------------------------------------------------------
(* Time passes *)

Handshakes ==
    [p \in Pairs |-> IF Works(p) /\ shaken[p] >= 2 THEN 0 ELSE Older(shaken[p])]

\* The peers of g: how long ago the last handshake was, and whether pings return.
ReportOf(g) ==
    [age |-> 0,
     peers |-> [x \in Peers(vplan, g) |->
        [hs |-> shaken'[{g, x}],
         rtt |-> x \in Sites /\ Works({g, x}) /\ {g, x} \notin deaf]]]

Aged(r) ==
    IF r = None THEN None
    ELSE [age |-> Older(r.age), peers |-> [x \in DOMAIN r.peers |-> [r.peers[x] EXCEPT !.hs = Older(@)]]]

Minute ==
    /\ shaken' = Handshakes
    /\ told' = [g \in Sites |->
                  IF g \in linked \intersect MeshSites(vplan) THEN ReportOf(g) ELSE Aged(told[g])]
    /\ seen' = [g \in Sites |->
                  IF g \in linked \intersect MeshSites(vplan) THEN [age |-> 0, ok |-> g \notin failing]
                  ELSE OlderReport(seen[g])]
    /\ met' = [c \in Clients |->
                 Min({Older(met[c])} \union
                     {shaken'[{c, g}] : g \in {h \in linked \intersect MeshSites(vplan) : c \in Peers(vplan, h)}})]
    /\ quiet' = IF quiet < Gone THEN quiet + 1 ELSE quiet
    /\ UNCHANGED <<vplan, forwards, linked, away, deaf, failing, upsets>>

Toggle(x, set) == IF x \in set THEN set \ {x} ELSE set \union {x}

\* A change: at a router, at the way to the controller, at a client or a firewall,
\* or the controller starts anew and knows no report.
Upset ==
    /\ upsets < MaxUpsets /\ upsets' = upsets + 1 /\ quiet' = 0
    /\ \/ \E h \in Hubs(vplan) :
            forwards' = Toggle(h, forwards) /\ UNCHANGED <<linked, away, deaf, failing, told>>
       \/ \E g \in MeshSites(vplan) :
            linked' = Toggle(g, linked) /\ UNCHANGED <<forwards, away, deaf, failing, told>>
       \/ \E g \in MeshSites(vplan) :
            failing' = Toggle(g, failing) /\ UNCHANGED <<forwards, linked, away, deaf, told>>
       \/ \E c \in ActiveClients(vplan) :
            away' = Toggle(c, away) /\ UNCHANGED <<forwards, linked, deaf, failing, told>>
       \/ \E p \in Tunnels(vplan) \intersect SUBSET Sites :
            deaf' = Toggle(p, deaf) /\ UNCHANGED <<forwards, linked, away, failing, told>>
       \/ told' = [g \in Sites |-> None] /\ UNCHANGED <<forwards, linked, away, deaf, failing>>
    /\ UNCHANGED <<vplan, shaken, seen, met>>

VerdictsInit ==
    /\ vplan \in VerdictPlans
    /\ forwards \in SUBSET Hubs(vplan) /\ away \in SUBSET ActiveClients(vplan)
    /\ deaf = {} /\ failing = {}
    /\ \E g \in Sites : linked \in {Sites, Sites \ {g}}
    /\ shaken = [p \in Pairs |-> Never] /\ told = [g \in Sites |-> None]
    /\ seen = [g \in Sites |-> None] /\ met = [c \in Clients |-> Never]
    /\ quiet = 0 /\ upsets = 0

VerdictsNext == Minute \/ Upset

VerdictsSpec == VerdictsInit /\ [][VerdictsNext]_verdictsVars

---------------------------------------------------------------------------
(* What is said *)

IsRecent(g) == told[g] # None /\ told[g].age <= Recent

\* What the reports of g say of its peer x: one row or none.
Rows(g, x) == IF told[g] # None /\ x \in DOMAIN told[g].peers THEN {told[g].peers[x]} ELSE {}

Verdict(rows, words) ==
    IF rows = {} THEN words.none
    ELSE IF \A r \in rows : r.hs >= Fresh THEN words.down
    ELSE IF \E r \in rows : r.rtt THEN words.up
    ELSE words.mute

\* (mutant: only what the first of the two reports)
TunnelViewFirst(a, b) ==
    IF ~IsRecent(a) /\ ~IsRecent(b) THEN "unknown"
    ELSE Verdict(IF IsRecent(a) THEN Rows(a, b) ELSE {},
                 [none |-> "down", down |-> "down", up |-> "up", mute |-> "handshake-only"])

\* A line of the dashboard: only what is recent.
TunnelView(a, b) ==
    IF ~IsRecent(a) /\ ~IsRecent(b) THEN "unknown"
    ELSE LET rows == UNION {Rows(g, IF g = a THEN b ELSE a) : g \in {x \in {a, b} : IsRecent(x)}}
         IN  Verdict(rows, [none |-> "down", down |-> "down", up |-> "up", mute |-> "handshake-only"])

\* The check on the tunnel of site m to o.
TunnelCheck(m, o) ==
    Verdict(Rows(m, o) \union Rows(o, m), [none |-> "skip", down |-> "fail", up |-> "pass", mute |-> "warn"])

\* Those that have to dial m: sites without an endpoint, and every client.
Dialers(m) ==
    {o \in MeshSites(vplan) : ~IsReachable(vplan, o) /\ ArePeered(vplan, m, o)} \union ActiveClients(vplan)

DialledIn(g, x) == \E r \in Rows(g, x) : r.hs < Fresh

\* They reach another site that accepts connections.
Elsewhere(m) ==
    {d \in Dialers(m) \intersect Sites : IsRecent(d) /\ \E h \in Hubs(vplan) \ {m} : DialledIn(d, h)}

\* (mutant: who has ever reported counts as online)
InboundCheckStale(m) ==
    IF ~IsReachable(vplan, m) THEN "skip"
    ELSE IF \E d \in Dialers(m) : DialledIn(m, d) THEN "pass"
    ELSE IF Dialers(m) = {} THEN "skip"
    ELSE IF Elsewhere(m) # {} THEN "fail"
    ELSE IF \E d \in Dialers(m) \intersect Sites : told[d] # None THEN "warn" ELSE "skip"

\* The check whether anything can dial in to site m.
InboundCheck(m) ==
    IF ~IsReachable(vplan, m) THEN "skip"
    ELSE IF \E d \in Dialers(m) : DialledIn(m, d) THEN "pass"
    ELSE IF Dialers(m) = {} THEN "skip"
    ELSE IF Elsewhere(m) # {} THEN "fail"
    ELSE IF \E d \in Dialers(m) \intersect Sites : IsRecent(d) THEN "warn" ELSE "skip"

\* A gateway's health: what the database keeps is as new as the last report.
GatewayHealth(g) ==
    IF seen[g] = None THEN "never"
    ELSE IF seen[g].age <= Recent THEN "online"
    ELSE IF seen[g].age <= Late THEN "stale" ELSE "offline"

OfHealth(healths) == {g \in MeshSites(vplan) : GatewayHealth(g) \in healths}

\* Its last report told of a change it could not apply.
Attention == {g \in OfHealth({"online", "stale"}) : ~seen[g].ok}

\* The checks of the same two.
ReportingCheck(g) ==
    CASE GatewayHealth(g) = "online" -> "pass"
      [] GatewayHealth(g) = "stale" -> "warn"
      [] GatewayHealth(g) \in {"offline", "never"} -> "fail"

ConfigCheck(g) == IF seen[g] # None /\ ~seen[g].ok THEN "fail" ELSE "pass"

DirectTunnels(health) ==
    {p \in Tunnels(vplan) \intersect SUBSET Sites :
        \E a, b \in p : p = {a, b} /\ a # b /\ TunnelView(a, b) = health}

\* The gateways' last handshakes with client c, among recent reports.
Meetings(c) ==
    [g \in {h \in MeshSites(vplan) : IsRecent(h) /\ Rows(h, c) # {}} |-> told[g].peers[c].hs]

\* (mutant: a handshake kept from before counts beside the reports)
ClientOnlineEver(c) == met[c] < Never

\* A client: what recent reports say, and the handshake kept from before if none tells of one.
ClientOnline(c) ==
    LET heard == {Meetings(c)[g] : g \in DOMAIN Meetings(c)} \ {Never} IN
    Min(IF heard = {} THEN {met[c]} ELSE heard) < Fresh

\* (mutant: a gateway whose reports are late is not asked about)
HeadlineForgiving ==
    IF MeshSites(vplan) = {} THEN "empty"
    ELSE IF OfHealth({"offline", "never"}) # {} THEN "not responding"
    ELSE IF Attention # {} THEN "attention"
    ELSE IF DirectTunnels("down") # {} THEN "tunnel down" ELSE "working"

\* The headline, when the configuration has no errors (those are in Holds).
Headline ==
    IF MeshSites(vplan) = {} THEN "empty"
    ELSE IF OfHealth({"offline", "never"}) # {} THEN "not responding"
    ELSE IF Attention # {} THEN "attention"
    ELSE IF DirectTunnels("down") # {} THEN "tunnel down"
    ELSE IF OfHealth({"stale"}) # {} THEN "slow to report" ELSE "working"

\* The counters of the status bar.
Summary ==
    [sitesOnline |-> OfHealth({"online"}), tunnelsUp |-> DirectTunnels("up"),
     clientsOnline |-> {c \in Clients : ClientOnline(c)}]

---------------------------------------------------------------------------
(* Properties *)

\* Four minutes after the last change, the checks and the dashboard both say of
\* every tunnel with an end that reports whether it is up, whichever end that is;
\* and of two that report, whether pings return.
TunnelsAsTold ==
    quiet >= SettleTime => \A m, o \in Sites :
        ArePeered(vplan, m, o) /\ {m, o} \intersect linked # {} =>
            LET p == {m, o} IN
            /\ Works(p) <=> TunnelCheck(m, o) # "fail"
            /\ Works(p) <=> TunnelView(m, o) # "down"
            /\ p \subseteq linked /\ Works(p) =>
                 /\ TunnelCheck(m, o) = IF p \in deaf THEN "warn" ELSE "pass"
                 /\ TunnelView(m, o) = IF p \in deaf THEN "handshake-only" ELSE "up"

\* By then a port that is forwarded and dialled is said to be open, and a port
\* is said to be closed only if it is, with a site to show for it that reports
\* and reaches another hub (diagnostics.ts 351-375).
InboundAsTold ==
    quiet >= SettleTime => \A m \in linked \intersect Hubs(vplan) :
        /\ InboundCheck(m) = "pass" <=> \E d \in Dialers(m) : Works({m, d})
        /\ InboundCheck(m) = "fail" =>
             m \notin forwards /\ \E d \in Dialers(m) \intersect linked, h \in forwards \ {m} : Works({d, h})
        /\ InboundCheck(m) = "warn" => m \notin forwards /\ Dialers(m) \intersect linked # {}

\* The headline says that everything works, from four minutes after the last
\* change, exactly if it does, pings apart: there are gateways, none is silent
\* or fails, and every tunnel works.  It then names a gateway that fails before a tunnel, and
\* after twelve intervals the silent ones before all.  At no time after a
\* report does it say of a gateway that it does not respond while it does.
HeadlineAsTold ==
    LET silent == MeshSites(vplan) \ linked
        broken == {p \in Tunnels(vplan) \intersect SUBSET Sites : ~Works(p)}
    IN  /\ quiet >= SettleTime /\ MeshSites(vplan) # {} =>
             /\ Headline = "working" <=> silent = {} /\ failing = {} /\ broken = {}
             /\ silent = {} => Headline = IF failing # {} THEN "attention"
                                           ELSE IF broken # {} THEN "tunnel down" ELSE "working"
        /\ quiet >= 1 => OfHealth({"offline", "never"}) \subseteq silent
        /\ quiet = Gone /\ silent # {} => Headline = "not responding" /\ OfHealth({"offline", "never"}) = silent

\* By then the counters of the status bar are of what works, as far as gateways
\* report it: a client that is switched off is not online, whatever was kept of
\* it, and one a reporting gateway talks to is.  The checks agree with it.
CountsAsTold ==
    quiet >= SettleTime =>
        /\ Summary.sitesOnline = MeshSites(vplan) \intersect linked
        /\ \A g \in MeshSites(vplan) : ReportingCheck(g) = "pass" <=> g \in linked
        /\ \A g \in MeshSites(vplan) \intersect linked : ConfigCheck(g) = "fail" <=> g \in failing
        /\ \A c \in Clients : c \in Summary.clientsOnline <=> \E g \in linked : Works({c, g})
        /\ MeshSites(vplan) \subseteq linked =>
             Summary.tunnelsUp = {p \in Tunnels(vplan) \intersect SUBSET Sites : Works(p)} \ deaf

\* All: what the health checks and the dashboard conclude from the reports of
\* several gateways, some of them silent, is what the mesh does.
ToldAsItIs == TunnelsAsTold /\ InboundAsTold /\ HeadlineAsTold /\ CountsAsTold

=============================================================================
