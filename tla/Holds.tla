-------------------------------- MODULE Holds --------------------------------
(***************************************************************************)
(* Which configurations are held back while the plan has an error           *)
(* (src/core/validate.ts, src/server/snapshot.ts).                          *)
(*                                                                          *)
(* An error in one object reaches the files of others, over relays and      *)
(* entries too: validate.ts says how far from the topology, without looking *)
(* at the files, and reads some errors off the files again.  The model puts *)
(* values that can be wrong beside Mesh's plan, finds what the code finds   *)
(* in them, and compares what is handed out with the files themselves.      *)
(*                                                                          *)
(* A network is the set of the addresses in it.  A tunnel address and a key *)
(* are one mark: both are looked up among all owners and reach equally far. *)
(* Warnings hold nothing.                                                   *)
(***************************************************************************)
EXTENDS Mesh

CONSTANTS
    Blocks,       \* values of networks, as sets of addresses
    Marks,        \* values of tunnel addresses and keys, and of endpoints
    DrawnPlans,   \* the plans that are drawn
    DataPlans     \* the values they come with

Owners == Sites \union Clients

Data == [block : [Nets -> Blocks], mark : [Owners -> Marks], endpoint : [Sites -> Marks],
         settings : BOOLEAN,       \* a range, or the default MTU, is wrong
         bad : SUBSET Owners,      \* a value of theirs that others' files carry is malformed
         own : SUBSET Owners,      \* a value of theirs that only their own file depends on is wrong
         wide : SUBSET Nets]       \* networks that cover most of the internet

\* A network has an address.  One that is a tunnel address overlaps a tunnel range,
\* which is told like a malformed one (validate.ts:147-155): its owner is in bad.
ASSUME HoldsAssumption ==
    /\ DataPlans \subseteq Data /\ DrawnPlans \subseteq Snapshot
    /\ {} \notin Blocks /\ \A b \in Blocks : \A m \in Marks : b # {m}

VARIABLES
    drawn,        \* the snapshot and its values
    generated,    \* what is made of it: the files, and which of them are held
    handed        \* the last configuration handed out: whose, and made of what

holdsVars == <<drawn, generated, handed>>

---------------------------------------------------------------------------
(* How far an error reaches *)

NoScope == [sites |-> {}, clients |-> {}]
Only(x) == [sites |-> {x} \intersect Sites, clients |-> {x} \intersect Clients]
Everything(S) == [sites |-> MeshSites(S), clients |-> Clients]
Both(a, b) == [sites |-> a.sites \union b.sites, clients |-> a.clients \union b.clients]

\* (mutant: only the gateways that peer with it are thought of)
SiteReachPeers(S, s) ==
    IF s \notin MeshSites(S) THEN NoScope
    ELSE [sites |-> {s} \union {p \in Sites : ArePeered(S, s, p)},
          clients |-> {c \in ActiveClients(S) : \E e \in ClientEntrySites(S, c) :
                         e = s \/ s \in ClientCarriedByEntry(S, c, e)}]

SiteReach(S, s) ==
    IF s \notin MeshSites(S) THEN NoScope
    ELSE [sites |-> {s} \union ReachableSitesFrom(S, s),
          clients |-> {c \in ActiveClients(S) : \E e \in ClientEntrySites(S, c) :
                         e = s \/ s \in ClientCarriedByEntry(S, c, e)}]

ClientReach(S, c) ==
    IF ~S.client[c].enabled THEN Only(c)
    ELSE [sites |-> {s \in MeshSites(S) : ClientRouteFrom(S, s, c) # None}, clients |-> {c}]

Reach(S, x) == IF x \in Sites THEN SiteReach(S, x) ELSE ClientReach(S, x)

---------------------------------------------------------------------------
(* The findings that are errors, as the scopes they hold *)

Overlap(D, n, m) == n # m /\ D.block[n] \intersect D.block[m] # {}

\* Networks of one site may not overlap, shared or not; those of two sites may
\* not once both are shared, which holds something once both are in the mesh.
OverlapFindings(S, D) ==
    {SiteReach(S, Home[n]) : n \in {k \in Nets : \E m \in Nets : Home[m] = Home[k] /\ Overlap(D, k, m)}}
    \union
    {Both(SiteReach(S, Home[p[1]]), SiteReach(S, Home[p[2]])) :
        p \in {q \in S.shared \X S.shared : /\ Overlap(D, q[1], q[2]) /\ Home[q[1]] # Home[q[2]]
                                            /\ {Home[q[1]], Home[q[2]]} \subseteq MeshSites(S)}}

\* A tunnel address or key used twice, by sites that have a gateway and clients
\* that may be disabled; a host and port published twice.
TwiceFindings(S, D) ==
    LET named == MeshSites(S) \union Clients IN
    {Both(Reach(S, p[1]), Reach(S, p[2])) :
        p \in {q \in named \X named : q[1] # q[2] /\ D.mark[q[1]] = D.mark[q[2]]}}
    \union
    {Both(SiteReach(S, p[1]), SiteReach(S, p[2])) :
        p \in {q \in Hubs(S) \X Hubs(S) : q[1] # q[2] /\ D.endpoint[q[1]] = D.endpoint[q[2]]}}

\* Values that are wrong by themselves.
OwnFindings(S, D) ==
    (IF D.settings THEN {Everything(S)} ELSE {})
    \union {Reach(S, x) : x \in D.bad}
    \union {Only(x) : x \in D.own}

\* What is read off a file again: the same prefix twice, or one too wide.
Text(D, x) == IF x \in Nets THEN D.block[x] ELSE {D.mark[x]}
Listed(file) == UNION {file.allowed[p] : p \in DOMAIN file.allowed}
FileFindings(bundle, D) ==
    {Only(x) : x \in {y \in DOMAIN bundle :
        \/ Listed(bundle[y]) \intersect D.wide # {}
        \/ \E a, b \in Listed(bundle[y]) : a # b /\ Text(D, a) = Text(D, b)}}

\* Two sites without a path are an error that holds nothing.
TopologyFindings(S) ==
    {NoScope : p \in {q \in MeshSites(S) \X MeshSites(S) : q[1] # q[2] /\ NextHop(S, q[1], q[2]) = None}}

ValidateAll(S, D, bundle) ==
    OverlapFindings(S, D) \union TwiceFindings(S, D) \union OwnFindings(S, D)
    \union FileFindings(bundle, D) \union TopologyFindings(S)

\* (mutant: any error holds everything)
HeldConfigsAll(S, findings) == IF findings = {} THEN {} ELSE MeshSites(S) \union Clients

HeldConfigs(S, findings) ==
    UNION {(f.sites \intersect MeshSites(S)) \union f.clients : f \in findings}

---------------------------------------------------------------------------
(* Generating and handing out *)

GenerateAll(S, D) ==
    LET bundle == Generate(S).bundle
    IN  [bundle |-> bundle, held |-> HeldConfigs(S, ValidateAll(S, D, bundle))]

HoldsInit ==
    /\ drawn \in [snapshot : DrawnPlans, data : DataPlans]
    /\ generated = GenerateAll(drawn.snapshot, drawn.data)
    /\ handed = None

\* An administrator changes the plan or a value in it.
Redraw(S, D) ==
    /\ S = drawn.snapshot \/ (D = drawn.data /\ drawn.snapshot \in EditPlans)
    /\ drawn' = [snapshot |-> S, data |-> D]
    /\ generated' = GenerateAll(S, D)
    /\ handed' = None

\* A gateway fetches its files, or a client's are rendered for it.
HandOut(x) ==
    /\ x \in DOMAIN generated.bundle \ generated.held
    /\ handed' = x
    /\ UNCHANGED <<drawn, generated>>

\* Held: the answer is that there is nothing to fetch.
Withhold(x) ==
    /\ x \in DOMAIN generated.bundle \intersect generated.held
    /\ handed' = None
    /\ UNCHANGED <<drawn, generated>>

HoldsNext ==
    \/ \E S \in EditPlans : \E D \in DataPlans : Redraw(S, D)
    \/ \E x \in Owners : HandOut(x) \/ Withhold(x)

HoldsSpec == HoldsInit /\ [][HoldsNext]_holdsVars

---------------------------------------------------------------------------
(* Properties *)

\* The owners and networks that the files of x are about.
About(x) ==
    LET file == generated.bundle[x]
        named == {x} \union DOMAIN file.allowed \union Listed(file)
                 \union (IF x \in Sites THEN SharedNets(drawn.snapshot, x) ELSE {})
    IN  [owners |-> (named \intersect Owners) \union {Home[n] : n \in named \intersect Nets},
         nets |-> named \intersect Nets]

\* What is handed out means one thing: no two owners in it have the same
\* address, key or endpoint, no two networks overlap, nothing in it is
\* malformed; by whatever path it got into the file (validate.ts:64-69,
\* docs/ARCHITECTURE.md:493-508).
HandedOutIsClean ==
    generated # None /\ handed # None =>
        LET D == drawn.data
            of == About(handed)
        IN  /\ ~D.settings /\ handed \notin D.own
            /\ of.owners \intersect D.bad = {} /\ Listed(generated.bundle[handed]) \intersect D.wide = {}
            /\ \A n, m \in of.nets : ~Overlap(D, n, m)
            /\ \A x, y \in of.owners : x # y => D.mark[x] # D.mark[y]
            /\ \A x, y \in of.owners \intersect Hubs(drawn.snapshot) :
                 x # y => D.endpoint[x] # D.endpoint[y]

\* Owners with a value that is wrong, or the same as another's.
Faulty ==
    LET D == drawn.data IN
    {x \in Owners :
        \/ x \in D.bad \union D.own
        \/ \E n \in Nets : Home[n] = x /\ (n \in D.wide \/ \E m \in Nets : Overlap(D, n, m))
        \/ \E y \in Owners \ {x} : D.mark[y] = D.mark[x]
        \/ \E y \in Sites \ {x} : x \in Sites /\ D.endpoint[y] = D.endpoint[x]}

\* An error in one place does not stop the rest of the mesh: whoever is held
\* has a faulty owner in its files (validate.ts:466-472, 495-499).
HeldForAReason ==
    generated # None => \A x \in generated.held \intersect DOMAIN generated.bundle :
        drawn.data.settings \/ About(x).owners \intersect Faulty # {}

\* Both: an error reaches as far as the files that would contain it, and no further.
HeldAsFarAsNeeded == HandedOutIsClean /\ HeldForAReason

=============================================================================
