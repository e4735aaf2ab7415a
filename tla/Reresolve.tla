------------------------------- MODULE Reresolve -------------------------------
(***************************************************************************)
(* How a gateway finds its peers again when their public address changes    *)
(* (agent/reresolve.go, maintain in agent/apply.go).                        *)
(*                                                                          *)
(* The kernel resolves a peer's name once, when the peer is set, and after  *)
(* that follows the peer only if the peer itself dials in.  On every tick   *)
(* the agent reads the handshakes of all peers and then sets the endpoint   *)
(* of each silent one again, one lookup after another: meanwhile the peer   *)
(* may dial in from its new address while its name still gives the old one, *)
(* or the interface may go.  Lookups fail, and each peer is tried at most   *)
(* once every 30 seconds.                                                   *)
(***************************************************************************)
EXTENDS Naturals, Sequences, FiniteSets

CONSTANTS
    Named,       \* the peers whose endpoint is a name, in the order of the file
    Addresses,   \* public addresses
    Nowhere,     \* no address: the name does not resolve, or the peer has no endpoint
    MaxMoves,    \* bound: moves of a peer to another address
    MaxMishaps   \* bound: lookups that begin to fail, interfaces lost, agents restarted

Peer == {Named[i] : i \in DOMAIN Named}

ASSUME ReresolveAssumption ==
    Named \in Seq(Peer) /\ Nowhere \notin Addresses /\ MaxMoves \in Nat /\ MaxMishaps \in Nat

VARIABLES
    place,       \* where each peer is
    name,        \* what its name resolves to
    endpoint,    \* where the kernel sends
    handshake,   \* "never", "fresh", or "stale": more than 135 seconds ago
    waited,      \* the peers last tried more than 30 seconds ago
    up,          \* the interface exists
    todo,        \* the peers found silent on this tick and not yet set again
    moves, mishaps

reresolveVars == <<place, name, endpoint, handshake, waited, up, todo, moves, mishaps>>

---------------------------------------------------------------------------
(* The peers, their names and the kernel *)

Moves(p, a) ==
    /\ moves < MaxMoves /\ moves' = moves + 1
    /\ a # place[p] /\ place' = [place EXCEPT ![p] = a]
    /\ UNCHANGED <<name, endpoint, handshake, waited, up, todo, mishaps>>

NameFollows(p) ==
    /\ name[p] # place[p] /\ name' = [name EXCEPT ![p] = place[p]]
    /\ UNCHANGED <<place, endpoint, handshake, waited, up, todo, moves, mishaps>>

Mishap == mishaps < MaxMishaps /\ mishaps' = mishaps + 1

LookupFails(p) ==
    /\ Mishap /\ name' = [name EXCEPT ![p] = Nowhere]
    /\ UNCHANGED <<place, endpoint, handshake, waited, up, todo, moves>>

InterfaceLost ==
    /\ Mishap /\ up /\ up' = FALSE
    /\ endpoint' = [p \in Peer |-> Nowhere] /\ handshake' = [p \in Peer |-> "never"]
    /\ UNCHANGED <<place, name, waited, todo, moves>>

\* The peer answers at its endpoint.
Answers(p) ==
    /\ up /\ endpoint[p] = place[p] /\ handshake[p] # "fresh"
    /\ handshake' = [handshake EXCEPT ![p] = "fresh"]
    /\ UNCHANGED <<place, name, endpoint, waited, up, todo, moves, mishaps>>

\* It dials this gateway: the kernel takes the address it came from.
DialsIn(p) ==
    /\ up /\ endpoint[p] # place[p]
    /\ endpoint' = [endpoint EXCEPT ![p] = place[p]]
    /\ handshake' = [handshake EXCEPT ![p] = "fresh"]
    /\ UNCHANGED <<place, name, waited, up, todo, moves, mishaps>>

\* More than 135 seconds without an answer.
GoesStale(p) ==
    /\ handshake[p] = "fresh" /\ endpoint[p] # place[p]
    /\ handshake' = [handshake EXCEPT ![p] = "stale"]
    /\ UNCHANGED <<place, name, endpoint, waited, up, todo, moves, mishaps>>

WaitOver(p) ==
    /\ p \notin waited /\ waited' = waited \union {p}
    /\ UNCHANGED <<place, name, endpoint, handshake, up, todo, moves, mishaps>>

---------------------------------------------------------------------------
(* The agent's tick *)

\* (mutant: a peer that has shaken hands once is taken to be alive)
SilentNever == SelectSeq(Named, LAMBDA p : handshake[p] = "never")

\* The peers whose handshake is missing or old, in the order of the file.
Silent == SelectSeq(Named, LAMBDA p : handshake[p] # "fresh")

\* The interface is brought up from the files: every name is looked up.
BringUp ==
    /\ ~up /\ todo = <<>> /\ \A p \in Peer : name[p] # Nowhere
    /\ up' = TRUE /\ endpoint' = name /\ todo' = Silent
    /\ UNCHANGED <<place, name, handshake, waited, moves, mishaps>>

ReadHandshakes ==
    /\ up /\ todo = <<>> /\ Silent # <<>>
    /\ todo' = Silent
    /\ UNCHANGED <<place, name, endpoint, handshake, waited, up, moves, mishaps>>

\* The next of them: tried too recently, or its endpoint is set again, or the
\* name does not resolve, or the interface has gone.
SetAgain ==
    /\ todo # <<>> /\ todo' = Tail(todo)
    /\ LET p == Head(todo) IN
         IF p \notin waited THEN UNCHANGED <<endpoint, waited>>
         ELSE /\ waited' = waited \ {p}
              /\ endpoint' = IF up /\ name[p] # Nowhere THEN [endpoint EXCEPT ![p] = name[p]] ELSE endpoint
    /\ UNCHANGED <<place, name, handshake, up, moves, mishaps>>

AgentRestarts ==
    /\ Mishap /\ todo' = <<>> /\ waited' = Peer
    /\ UNCHANGED <<place, name, endpoint, handshake, up, moves>>

---------------------------------------------------------------------------
ReresolveInit ==
    /\ \E a \in Addresses : place = [p \in Peer |-> a] /\ name = [p \in Peer |-> a]
    /\ endpoint = name /\ handshake = [p \in Peer |-> "fresh"]
    /\ waited = Peer /\ up = TRUE /\ todo = <<>> /\ moves = 0 /\ mishaps = 0

ReresolveNext ==
    \/ \E p \in Peer : \/ \E a \in Addresses : Moves(p, a)
                       \/ NameFollows(p) \/ LookupFails(p) \/ Answers(p) \/ DialsIn(p)
                       \/ GoesStale(p) \/ WaitOver(p)
    \/ InterfaceLost \/ AgentRestarts \/ BringUp \/ ReadHandshakes \/ SetAgain

\* The agent ticks and time passes; a peer where the kernel sends answers; the
\* name's owner updates it.  Nothing makes a peer dial in.
ReresolveFairness ==
    /\ WF_reresolveVars(BringUp) /\ WF_reresolveVars(ReadHandshakes) /\ WF_reresolveVars(SetAgain)
    /\ \A p \in Peer : /\ WF_reresolveVars(NameFollows(p)) /\ WF_reresolveVars(Answers(p))
                       /\ WF_reresolveVars(GoesStale(p)) /\ WF_reresolveVars(WaitOver(p))

ReresolveSpec == ReresolveInit /\ [][ReresolveNext]_reresolveVars /\ ReresolveFairness

---------------------------------------------------------------------------
(* Properties *)

\* Once the peers stay where they are, every one of them is found again and
\* stays found, however the moves, the lookups, the ticks and the loss of the
\* interface fell together (reresolve.go:8-13).
PeerFound == <>[](\A p \in Peer : endpoint[p] = place[p] /\ handshake[p] = "fresh")
=============================================================================
