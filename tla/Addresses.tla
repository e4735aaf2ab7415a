------------------------------ MODULE Addresses ------------------------------
(***************************************************************************)
(* The tunnel addresses of gateways and clients (src/server/sites.ts,       *)
(* src/server/clients.ts), taken from two ranges of the settings that may   *)
(* be moved at any time (src/server/settings.ts).  An address stays where   *)
(* it was given, outside its range if need be; what is outside or shared is *)
(* a finding (module Holds).                                                *)
(*                                                                          *)
(* A range is a network given by its first and last address.  Everything    *)
(* here runs without an await, so an operation is one step.                 *)
(***************************************************************************)
EXTENDS Naturals, FiniteSets

CONSTANTS
    Homes,       \* sites
    Devices,     \* clients
    Ranges,      \* bound: networks of at least four addresses (the code: of eight)
    NoIp        \* no address

ASSUME RangesAssumption ==
    /\ \A r \in Ranges : r.first \in Nat /\ r.last \in Nat /\ r.first + 3 <= r.last
    /\ \E r, s \in Ranges : r.last < s.first
    /\ NoIp \notin Nat

VARIABLES
    gatewayRange, clientRange,
    gatewayIp,   \* of each site's gateway
    clientIp,
    overlaid     \* history: clients whose address the gateways' range was moved over

addressVars == <<gatewayRange, clientRange, gatewayIp, clientIp, overlaid>>

CidrOverlaps(a, b) == a.first <= b.last /\ b.first <= a.last
CidrContainsIp(r, ip) == ip # NoIp /\ r.first <= ip /\ ip <= r.last

AddressesInit ==
    /\ gatewayRange \in Ranges /\ clientRange \in Ranges
    /\ ~CidrOverlaps(gatewayRange, clientRange)
    /\ gatewayIp = [s \in Homes |-> NoIp]
    /\ clientIp = [c \in Devices |-> NoIp]
    /\ overlaid = {}

---------------------------------------------------------------------------
(* Giving an address *)

OfGateways == {gatewayIp[s] : s \in Homes} \ {NoIp}
OfClients == {clientIp[c] : c \in Devices} \ {NoIp}

\* The first and the last address of a network are no host's.
NextFreeIp(r, inUse) ==
    LET free == (r.first + 1 .. r.last - 1) \ inUse
    IN  IF free = {} THEN NoIp ELSE CHOOSE ip \in free : \A other \in free : ip <= other

\* (mutant: a client's address is looked for among the clients')
UsedByClients == OfClients

UsedByAny == OfClients \union OfGateways

\* createClient: refused when the range is full.
ClientJoins(c) ==
    /\ clientIp[c] = NoIp
    /\ LET ip == NextFreeIp(clientRange, UsedByAny) IN
         /\ ip # NoIp
         /\ clientIp' = [clientIp EXCEPT ![c] = ip]
    /\ UNCHANGED <<gatewayRange, clientRange, gatewayIp, overlaid>>

ClientLeaves(c) ==
    /\ clientIp[c] # NoIp
    /\ clientIp' = [clientIp EXCEPT ![c] = NoIp]
    /\ overlaid' = overlaid \ {c}
    /\ UNCHANGED <<gatewayRange, clientRange, gatewayIp>>

\* (mutant: a replacement gets an address of its own)
IpForNew(s) == NextFreeIp(gatewayRange, OfGateways)

\* A replacement keeps the address; a new gateway's is looked for among the
\* gateways' only.
IpFor(s) == IF gatewayIp[s] # NoIp THEN gatewayIp[s] ELSE NextFreeIp(gatewayRange, OfGateways)

\* enrolGateway: refused, the token unspent, when the range is full.
GatewayJoins(s) ==
    /\ IpFor(s) # NoIp
    /\ gatewayIp' = [gatewayIp EXCEPT ![s] = IpFor(s)]
    /\ UNCHANGED <<gatewayRange, clientRange, clientIp, overlaid>>

\* Removed, or with its site.
GatewayLeaves(s) ==
    /\ gatewayIp[s] # NoIp
    /\ gatewayIp' = [gatewayIp EXCEPT ![s] = NoIp]
    /\ UNCHANGED <<gatewayRange, clientRange, clientIp, overlaid>>

---------------------------------------------------------------------------

\* updateSettings: one range or both; nobody's address changes.
MoveRanges(g, c) ==
    /\ ~CidrOverlaps(g, c)
    /\ gatewayRange' = g /\ clientRange' = c
    /\ overlaid' = overlaid \union {d \in Devices : CidrContainsIp(g, clientIp[d])}
    /\ UNCHANGED <<gatewayIp, clientIp>>

AddressesNext ==
    \/ \E c \in Devices : ClientJoins(c) \/ ClientLeaves(c)
    \/ \E s \in Homes : GatewayJoins(s) \/ GatewayLeaves(s)
    \/ \E g, c \in Ranges : MoveRanges(g, c)

AddressesSpec == AddressesInit /\ [][AddressesNext]_addressVars

---------------------------------------------------------------------------
(* Properties *)

\* No two gateways and no two clients have one address, however the ranges are
\* moved, and no gateway and client unless the gateways' range was moved over
\* the client: enrolment does not look at the clients' addresses, adding a
\* client looks at both (sites.ts:356, clients.ts:86-89).
OneAddressEach ==
    /\ \A s, t \in Homes : s # t /\ gatewayIp[s] # NoIp => gatewayIp[s] # gatewayIp[t]
    /\ \A c, d \in Devices : c # d /\ clientIp[c] # NoIp => clientIp[c] # clientIp[d]
    /\ \A s \in Homes, c \in Devices \ overlaid :
         gatewayIp[s] # NoIp => gatewayIp[s] # clientIp[c]

\* A replacement, of a gateway that was rebuilt or whose range has been moved
\* since, has the old one's address: the others' configurations and the router's
\* routes go on naming it (sites.ts:320-322).
ReplacementKeepsIp ==
    [][\A s \in Homes : gatewayIp[s] # NoIp => gatewayIp'[s] \in {gatewayIp[s], NoIp}]_addressVars

\* Both, of every address given (sites.ts:355-358, clients.ts:86-92).
AddressesHold == []OneAddressEach /\ ReplacementKeepsIp
=============================================================================
