-------------------------------- MODULE Fleet --------------------------------
(***************************************************************************)
(* The controller's record of the mesh and what gateways get of it: sites,  *)
(* enrolment tokens and gateways (src/server/sites.ts), settings and the    *)
(* configuration version (settings.ts), the cache of everything generated   *)
(* (snapshot.ts), and the routes agents call (app/api/agent).               *)
(*                                                                          *)
(* The controller is one Node process on a synchronous database.  The only  *)
(* await here is for the body of a report: the gateway's row is read and    *)
(* the report admitted before it.  The process may end anywhere, also       *)
(* between the write of a change and the bump of the version, each being a  *)
(* transaction of its own; what is in memory is then gone.                  *)
(*                                                                          *)
(* A site's networks are one value; two sites in the mesh with the same one *)
(* are the fault that holds configurations back (Holds says how far faults  *)
(* reach; here every gateway reaches every other).  Whether the answer to   *)
(* an enrolment arrives makes no difference to what is stored.              *)
(***************************************************************************)
EXTENDS Naturals

CONSTANTS
    Sites,         \* site identifiers; random, so none is given twice
    Nets,          \* values of a site's networks
    Gateways,      \* identifiers of gateway rows, with the token that goes with each
    EnrolTokens,   \* enrolment tokens; random, so none is issued twice
    Keys,          \* WireGuard public keys VMs come with
    ClientKeys,    \* the keys of roaming clients
    SettingsValues, \* values of the settings that configurations depend on
    Nothing        \* no site, key, network or answer

ASSUME FleetAssumption ==
    /\ Nothing \notin Sites \union Keys \union Nets
    /\ {"new", "gone"} \intersect Nets = {}

VARIABLES
    site,      \* the sites table: its networks, or "new" or "gone"
    gw,        \* the gateways table
    enrol,     \* the enrol_tokens table
    range,     \* the settings row
    cache,     \* globalThis.__opnmeshGenerated while its version is the settings row's
    live,      \* the gateways with a report in memory
    awaited,   \* the gateways of whose reports the body is awaited
    gaveUp,    \* history: gateways that left the mesh while it was
    served     \* the last answer: to whom, and what

fleetVars == <<site, gw, enrol, range, cache, live, awaited, gaveUp, served>>
tables == <<site, gw, enrol, range>>

GatewayRow == [status : {"new", "pending", "active", "disabled", "gone"},
               site : Sites \union {Nothing}, key : Keys \union {Nothing}]
EnrolToken == [state : {"new", "unused", "used", "gone"}, site : Sites \union {Nothing},
               auto : BOOLEAN, expired : BOOLEAN, made : Nat]

NoGateway == [status |-> "new", site |-> Nothing, key |-> Nothing]
NoToken == [state |-> "new", site |-> Nothing, auto |-> FALSE, expired |-> FALSE, made |-> 0]

FleetInit ==
    /\ site = [s \in Sites |-> "new"]
    /\ gw = [g \in Gateways |-> NoGateway]
    /\ enrol = [t \in EnrolTokens |-> NoToken]
    /\ range \in SettingsValues
    /\ cache = Nothing
    /\ live = {} /\ awaited = {} /\ gaveUp = {}
    /\ served = Nothing

---------------------------------------------------------------------------
(* The tables *)

Here(s) == s \in Sites /\ site[s] \in Nets
IsThere(g) == gw[g].status \in {"pending", "active", "disabled"}
Active(g) == gw[g].status = "active"
GatewaysOf(s) == {g \in Gateways : IsThere(g) /\ gw[g].site = s}

\* loadSnapshot and generateAll: what the configurations are made of.
Snapshot == [g \in {h \in Gateways : Active(h)} |->
               [site |-> gw[g].site, key |-> gw[g].key, net |-> site[gw[g].site], range |-> range]]

\* heldConfigs: an overlap holds whoever carries both networks.
Held(bundle) == IF \E g, h \in DOMAIN bundle : g # h /\ bundle[g].net = bundle[h].net
                THEN DOMAIN bundle ELSE {}

\* getGenerated: the cache, made again when the version has moved.
Generated == IF cache # Nothing THEN cache ELSE Snapshot

\* After the transaction: liveState().forget, then bumpConfigVersion, after which
\* what was generated is of no use.  A report whose body is still awaited is not
\* stopped.  Or the process ends first, and its memory is gone.
Bump(G) ==
    /\ cache' = Nothing
    /\ \/ /\ live' = live \ G
          /\ gaveUp' = (gaveUp \ G) \union (G \intersect awaited)
          /\ UNCHANGED awaited
       \/ live' = {} /\ gaveUp' = {} /\ awaited' = {}

Gone(G) == [g \in Gateways |-> IF g \in G THEN [NoGateway EXCEPT !.status = "gone"] ELSE gw[g]]
Revoked(T) == [t \in EnrolTokens |-> IF t \in T THEN [NoToken EXCEPT !.state = "gone", !.made = enrol[t].made]
                                     ELSE enrol[t]]
Unused(s) == {t \in EnrolTokens : enrol[t].state = "unused" /\ enrol[t].site = s}

---------------------------------------------------------------------------
(* Sites and settings *)

\* A site without a gateway is in no configuration: no bump.
CreateSite(s, n) ==
    /\ site[s] = "new"
    /\ site' = [site EXCEPT ![s] = n]
    /\ served' = Nothing
    /\ UNCHANGED <<gw, enrol, range, cache, live, awaited, gaveUp>>

\* (mutant: a network is moved and the version stays)
UpdateLanUnseen(s, n) ==
    /\ Here(s) /\ n # site[s]
    /\ site' = [site EXCEPT ![s] = n]
    /\ served' = Nothing
    /\ UNCHANGED <<gw, enrol, range, cache, live, awaited, gaveUp>>

\* updateSite, addLan, updateLan, removeLan.
UpdateLan(s, n) ==
    /\ Here(s) /\ n # site[s]
    /\ site' = [site EXCEPT ![s] = n]
    /\ Bump({})
    /\ served' = Nothing
    /\ UNCHANGED <<gw, enrol, range>>

\* The gateway and the tokens go with the site (ON DELETE CASCADE).
DeleteSite(s) ==
    /\ Here(s)
    /\ site' = [site EXCEPT ![s] = "gone"]
    /\ gw' = Gone(GatewaysOf(s))
    /\ enrol' = Revoked({t \in EnrolTokens : enrol[t].site = s})
    /\ Bump(GatewaysOf(s))
    /\ served' = Nothing
    /\ UNCHANGED range

\* updateSettings, when the change affects configurations.
UpdateSettings(r) ==
    /\ r # range
    /\ range' = r
    /\ Bump({})
    /\ served' = Nothing
    /\ UNCHANGED <<site, gw, enrol>>

---------------------------------------------------------------------------
(* Enrolment *)

\* One transaction: the site's other unused tokens are revoked.
CreateEnrolToken(s, t, auto) ==
    /\ Here(s)
    /\ enrol[t].state = "new"
    /\ enrol' = [Revoked(Unused(s)) EXCEPT ![t] = [NoToken EXCEPT !.state = "unused", !.site = s, !.auto = auto]]
    /\ served' = Nothing
    /\ UNCHANGED <<site, gw, range, cache, live, awaited, gaveUp>>

TokenExpires(t) ==
    /\ enrol[t].state = "unused" /\ ~enrol[t].expired
    /\ enrol' = [enrol EXCEPT ![t].expired = TRUE]
    /\ served' = Nothing
    /\ UNCHANGED <<site, gw, range, cache, live, awaited, gaveUp>>

\* Expired ones at once, used ones after a week.
PruneEnrolTokens ==
    /\ \E week \in SUBSET {t \in EnrolTokens : enrol[t].state = "used"} :
         LET T == week \union {t \in EnrolTokens : enrol[t].state = "unused" /\ enrol[t].expired} IN
         /\ T # {}
         /\ enrol' = Revoked(T)
    /\ served' = Nothing
    /\ UNCHANGED <<site, gw, range, cache, live, awaited, gaveUp>>

OthersKey(s, k) == k \in ClientKeys \/ \E g \in Gateways : IsThere(g) /\ gw[g].site # s /\ gw[g].key = k

\* Why enrolGateway turns a VM with key k and token t away.
Refusal(t, k) ==
    IF enrol[t].state \in {"new", "gone"} THEN "invalid-token"
    ELSE IF enrol[t].state = "used" THEN "used"
    ELSE IF enrol[t].expired THEN "expired"
    ELSE IF ~enrol[t].auto /\ \E g \in GatewaysOf(enrol[t].site) : Active(g) THEN "gateway-active"
    ELSE IF OthersKey(enrol[t].site, k) THEN "duplicate-key"
    ELSE "none"

\* The transaction: the token is spent, the site's other tokens go, and the new
\* row g takes the place of the site's gateway.
Replace(g, t, k) ==
    LET s == enrol[t].site IN
    /\ gw[g].status = "new"
    /\ enrol' = [Revoked(Unused(s)) EXCEPT ![t] = [enrol[t] EXCEPT !.state = "used", !.made = @ + 1]]
    /\ gw' = [Gone(GatewaysOf(s)) EXCEPT ![g] =
                [status |-> IF enrol[t].auto THEN "active" ELSE "pending", site |-> s, key |-> k]]
    /\ Bump(GatewaysOf(s))
    /\ served' = Nothing
    /\ UNCHANGED <<site, range>>

\* (mutant: a token is good until it expires)
EnrolAgain(g, t, k) ==
    /\ enrol[t].state \in {"unused", "used"} /\ ~enrol[t].expired
    /\ ~OthersKey(enrol[t].site, k)
    /\ Replace(g, t, k)

Enrol(g, t, k) == Refusal(t, k) = "none" /\ Replace(g, t, k)

---------------------------------------------------------------------------
(* Gateways *)

\* (mutant: the last report of a gateway that is disabled stays)
SetStatusOnly(g, status) ==
    /\ IsThere(g) /\ status # gw[g].status
    /\ gw' = [gw EXCEPT ![g].status = status]
    /\ Bump({})
    /\ served' = Nothing
    /\ UNCHANGED <<site, enrol, range>>

\* updateGateway with a status: approval, disabling, enabling again.
SetStatus(g, status) ==
    /\ IsThere(g) /\ status # gw[g].status
    /\ gw' = [gw EXCEPT ![g].status = status]
    /\ Bump(IF status = "disabled" THEN {g} ELSE {})
    /\ served' = Nothing
    /\ UNCHANGED <<site, enrol, range>>

RemoveGateway(g) ==
    /\ IsThere(g)
    /\ gw' = Gone({g})
    /\ Bump({g})
    /\ served' = Nothing
    /\ UNCHANGED <<site, enrol, range>>

---------------------------------------------------------------------------
(* What agents ask *)

\* A report up to its await: its answer names the configuration to run, unless
\* that is held.
BeginReport(g) ==
    /\ Active(g) /\ g \notin awaited
    /\ cache' = Generated
    /\ awaited' = awaited \union {g}
    /\ served' = [to |-> g, conf |-> IF g \in Held(Generated) \/ g \notin DOMAIN Generated THEN Nothing
                                     ELSE Generated]
    /\ UNCHANGED <<tables, live, gaveUp>>

\* Its body has come: storeTelemetry, for the row that was read.
StoreReport(g) ==
    /\ g \in awaited
    /\ awaited' = awaited \ {g}
    /\ cache' = Generated
    /\ live' = live \union {g}
    /\ served' = Nothing
    /\ UNCHANGED <<tables, gaveUp>>

ReportFails(g) ==
    /\ g \in awaited
    /\ awaited' = awaited \ {g}
    /\ gaveUp' = gaveUp \ {g}
    /\ served' = Nothing
    /\ UNCHANGED <<tables, cache, live>>

\* GET config, for an active gateway.
FetchConfig(g) ==
    /\ Active(g)
    /\ cache' = Generated
    /\ served' = [to |-> g, conf |-> IF g \in Held(Generated) \/ g \notin DOMAIN Generated THEN Nothing
                                     ELSE Generated]
    /\ UNCHANGED <<tables, live, awaited, gaveUp>>

\* The process ends and is started again.
StopController ==
    /\ cache' = Nothing
    /\ live' = {} /\ awaited' = {} /\ gaveUp' = {}
    /\ served' = Nothing
    /\ UNCHANGED tables

FleetNext ==
    \/ \E s \in Sites :
         \/ DeleteSite(s)
         \/ \E n \in Nets : CreateSite(s, n) \/ UpdateLan(s, n)
         \/ \E t \in EnrolTokens, auto \in BOOLEAN : CreateEnrolToken(s, t, auto)
    \/ \E r \in SettingsValues : UpdateSettings(r)
    \/ \E t \in EnrolTokens : TokenExpires(t)
    \/ PruneEnrolTokens
    \/ \E g \in Gateways :
         \/ RemoveGateway(g) \/ BeginReport(g) \/ StoreReport(g) \/ ReportFails(g) \/ FetchConfig(g)
         \/ \E status \in {"active", "disabled"} : SetStatus(g, status)
         \/ \E t \in EnrolTokens, k \in Keys : Enrol(g, t, k)
    \/ StopController

FleetSpec == FleetInit /\ [][FleetNext]_fleetVars

---------------------------------------------------------------------------
(* Properties *)

\* Every row is well formed; a site has one gateway and a key belongs to one
\* gateway or client, as the tables' unique columns and the look-ups before
\* an enrolment have it.
FleetTypeOK ==
    /\ site \in [Sites -> Nets \union {"new", "gone"}]
    /\ gw \in [Gateways -> GatewayRow]
    /\ enrol \in [EnrolTokens -> EnrolToken]
    /\ range \in SettingsValues
    /\ live \union awaited \subseteq Gateways
    /\ \A g \in Gateways : IsThere(g) => Here(gw[g].site) /\ gw[g].key \in Keys \ ClientKeys
    /\ \A g, h \in Gateways : IsThere(g) /\ IsThere(h) /\ g # h =>
         gw[g].site # gw[h].site /\ gw[g].key # gw[h].key
    /\ \A t \in EnrolTokens : enrol[t].state = "unused" => Here(enrol[t].site)

\* What an agent is told to run, or is given, is what the tables say at that
\* moment and has no fault in it, however the change before it ended
\* (snapshot.ts:102-110, 117-120; settings.ts:15; sites.ts:4-5).
ServedIsGood ==
    served # Nothing /\ served.conf # Nothing =>
        served.conf = Snapshot /\ served.to \in DOMAIN Snapshot /\ Held(Snapshot) = {}

\* An enrolment token makes one gateway in its life, whatever the tries, lost
\* answers, prunings and replacements.
EnrolOnce == INSTANCE OneShot WITH
    Secrets <- EnrolTokens,
    good <- {t \in EnrolTokens : enrol[t].state = "unused"},
    over <- {t \in EnrolTokens : enrol[t].state \in {"used", "gone"}},
    uses <- [t \in EnrolTokens |-> enrol[t].made]
TokensAreOneShot == EnrolOnce!ShotSpec

\* What the dashboard shows as a gateway's present is of a gateway in the mesh,
\* but for a report whose body was on its way when the gateway left it
\* (sites.ts:461-462, 411-412).
LiveIsInMesh == \A g \in live : Active(g) \/ g \in gaveUp

=============================================================================
