------------------------------- MODULE MCMesh -------------------------------
(* Four sites with a network each and one client: two sites that may be      *)
(* hubs, two that can only be relayed to each other, and a client that       *)
(* enters at one site for another.  One part of the whole moves: the packets *)
(* of Mesh, or what Holds hands out.                                         *)
EXTENDS Holds, Received, Verdicts, TLC

CONSTANTS s1, s2, s3, s4, n1, n2, n3, n4, c1, k1, k2, k3, k4, k5

MCHome == n1 :> s1 @@ n2 :> s2 @@ n3 :> s3 @@ n4 :> s4

PlanOf(g1, g2, g3, g4, shared, c) ==
    [gw |-> s1 :> g1 @@ s2 :> g2 @@ s3 :> g3 @@ s4 :> g4,
     priority |-> s1 :> 1 @@ s2 :> 2 @@ s3 :> 3 @@ s4 :> 4,
     shared |-> shared, client |-> c1 :> c]

Client(p, r, a, i) ==
    [enabled |-> TRUE, preferred |-> p, restricted |-> r, allowed |-> a, inbound |-> i]

C1Plans ==
    {[Client(None, FALSE, {}, FALSE) EXCEPT !.enabled = FALSE],
     Client(None, FALSE, {}, FALSE), Client(None, FALSE, {}, TRUE), Client(s2, FALSE, {}, FALSE),
     Client(None, TRUE, {}, TRUE), Client(None, TRUE, {s3}, TRUE)}
    \union {Client(s2, TRUE, {s}, TRUE) : s \in {s1, s3}}

\* The plans an edit leads between, either way: the hub moves, and a client
\* that nobody may call can be called, but is restricted to a site behind the
\* one it enters at either way.
MCEditPlans ==
    {PlanOf("reachable", "reachable", "outbound", "outbound", Nets, Client(s2, FALSE, {}, FALSE)),
     PlanOf("outbound", "reachable", "outbound", "outbound", Nets, Client(s2, TRUE, {s3}, TRUE))}

\* A site outside the mesh shares everything, for it makes no difference, and
\* there is no mesh of outbound sites without the first.
MCFirstPlans ==
    {PlanOf(g[1], g[2], g3, "outbound", IF g3 = "none" THEN Nets ELSE shared, c) :
        g \in ({"none", "outbound", "reachable"} \X {"outbound", "reachable"}) \ {<<"none", "outbound">>},
        g3 \in {"none", "outbound"}, shared \in {Nets, Nets \ {n3}}, c \in C1Plans}

MCBlocks == {{1}, {2}, {3}, {4}, {4, 5}, {1, 6}}

Sound ==
    [block |-> n1 :> {1} @@ n2 :> {2} @@ n3 :> {3} @@ n4 :> {4},
     mark |-> s1 :> k1 @@ s2 :> k2 @@ s3 :> k3 @@ s4 :> k4 @@ c1 :> k5,
     endpoint |-> s1 :> k1 @@ s2 :> k2 @@ s3 :> k3 @@ s4 :> k4,
     settings |-> FALSE, bad |-> {}, own |-> {}, wide |-> {}]

\* Nothing is wrong, or one thing is: the same network as another's or one that
\* overlaps it, a mark or an endpoint twice, something malformed.
MCDataPlans ==
    {Sound, [Sound EXCEPT !.settings = TRUE], [Sound EXCEPT !.wide = {n3}],
     [Sound EXCEPT !.mark[s3] = k4], [Sound EXCEPT !.endpoint[s2] = k1]}
    \union {[Sound EXCEPT !.block[n3] = b] : b \in {{4}, {4, 5}, {1, 6}}}
    \union {[Sound EXCEPT !.mark[c1] = m] : m \in {k1, k3}}
    \union {[Sound EXCEPT !.bad = {x}] : x \in {s1, s3, c1}}
    \union {[Sound EXCEPT !.own = {x}] : x \in {s3, c1}}

\* What is left out (s3 outside the mesh, clients that may not be called) makes
\* no difference to how far an error reaches.
MCDrawnPlans ==
    {S \in MCFirstPlans : S.gw[s3] = "outbound" /\ S.client[c1] \in
        {[Client(None, FALSE, {}, FALSE) EXCEPT !.enabled = FALSE], Client(None, FALSE, {}, TRUE),
         Client(None, TRUE, {s3}, TRUE), Client(s2, TRUE, {s1}, TRUE)}}

---------------------------------------------------------------------------
\* Networks at and below the limit for a prefix, one host, one with host bits and
\* two with a leading zero; numbers at and beyond each limit on either side.
MCNetworkTexts ==
    {[bits |-> b, host |-> FALSE, zeros |-> FALSE] : b \in {7, 8, 32}}
    \union {[bits |-> 24, host |-> TRUE, zeros |-> FALSE]}
    \union {[bits |-> b, host |-> FALSE, zeros |-> TRUE] : b \in {7, 16}}

MCNumbers == {0, 1, 68, 1279, 1280, 1500, 1501, 3600, 3601, 65535, 65536}

Traits == {"masquerade", "self", "remote", "relayed", "open"}

\* A shape has none of the traits, one, all but one, or all.
MCShapes ==
    {[masquerade |-> "masquerade" \in T, self |-> "self" \in T, remote |-> "remote" \in T,
      relayed |-> "relayed" \in T, open |-> "open" \in T, restricted |-> "open" \in T,
      inbound |-> "open" \in T, outbound |-> "remote" \in T] :
        T \in {U \in SUBSET Traits : Cardinality(U) \in {0, 1, 4, 5}}}

\* One hub and two, and a client that enters at both or is relayed.
MCVerdictPlans ==
    {PlanOf("reachable", g, "none", "outbound", Nets, Client(None, FALSE, {}, FALSE)) :
        g \in {"reachable", "outbound"}}
    \union {PlanOf("none", "none", "none", "none", Nets, Client(None, FALSE, {}, FALSE))}

---------------------------------------------------------------------------
VARIABLE part

\* The plan that waits while the other parts move.
OnePlan == PlanOf("reachable", "outbound", "outbound", "outbound", Nets, Client(None, FALSE, {}, TRUE))

\* Every variable of the other parts keeps this value.
Resting == "resting"

MCInit ==
    /\ part \in {"packets", "holds", "received", "verdicts"}
    /\ Init
    /\ part # "packets" => plans[1].snapshot = OnePlan
    /\ IF part = "holds" THEN HoldsInit ELSE drawn = None /\ generated = None /\ handed = None
    /\ IF part = "received" THEN ReceivedInit
       ELSE values = Resting /\ shape = Resting /\ answer = "none" /\ edited = 0
    /\ IF part = "verdicts" THEN VerdictsInit
       ELSE /\ vplan = Resting /\ forwards = {} /\ linked = {} /\ away = {} /\ deaf = {} /\ failing = {}
            /\ shaken = Resting /\ told = Resting /\ seen = Resting /\ met = Resting /\ quiet = 0 /\ upsets = 0

MCNext ==
    \/ part = "packets" /\ Next /\ UNCHANGED <<part, holdsVars, receivedVars, verdictsVars>>
    \/ part = "holds" /\ HoldsNext /\ UNCHANGED <<part, vars, receivedVars, verdictsVars>>
    \/ /\ part = "received"
       /\ (ReceivedNext \/ (edited = MaxChanges /\ UNCHANGED receivedVars))
       /\ UNCHANGED <<part, vars, holdsVars, verdictsVars>>
    \/ part = "verdicts" /\ VerdictsNext /\ UNCHANGED <<part, vars, holdsVars, receivedVars>>

MCSpec == MCInit /\ [][MCNext]_<<part, vars, holdsVars, receivedVars, verdictsVars>>
=============================================================================
