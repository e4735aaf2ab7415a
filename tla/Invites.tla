------------------------------ MODULE Invites ------------------------------
(***************************************************************************)
(* Clients and the one-time links that hand out their configuration        *)
(* (src/server/clients.ts and the POST of app/api/invite/[token]).          *)
(*                                                                          *)
(* The controller is one Node process on a synchronous database: a handler  *)
(* runs alone between two of its awaits.  Everything an administrator does  *)
(* here is one such step.  The person collecting a link is two: the request *)
(* looks the link up and builds the configuration (RenderConf), awaits the  *)
(* drawing of its QR code, then spends the link and answers (ConsumeInvite),*)
(* and any step of anyone else may come in between.                         *)
(*                                                                          *)
(* A client's configuration is abstracted to the generation of its key; the *)
(* refusals that leave everything as it was (unknown client, held           *)
(* configuration, rate limit) are the steps that do not happen.             *)
(***************************************************************************)
EXTENDS Naturals, FiniteSets

CONSTANTS
    Clients,      \* client identifiers, each created at most once
    Links,        \* link tokens; random, so none is issued twice
    Requests,     \* POSTs in flight at once
    MaxKeys,      \* bound: key generations of a client
    None          \* no client, or no link

ASSUME NoneAssumption == None \notin Clients \union Links
ASSUME MaxKeysAssumption == MaxKeys \in Nat \ {0}

VARIABLES
    client,       \* the clients table: status, key generation, expiry passed?
    link,         \* the invites table: owner, state, expired?
    req,          \* the locals of each POST between its two halves
    handed        \* history: how often each link handed out a configuration

inviteVars == <<client, link, req, handed>>

Client == [status : {"new", "enabled", "disabled", "deleted"}, key : 1..MaxKeys, due : BOOLEAN]
Link == [of : Clients \union {None}, state : {"new", "unused", "used", "deleted"}, expired : BOOLEAN]
Request == [link : Links \union {None}, key : 1..MaxKeys]

InviteTypeOK ==
    /\ client \in [Clients -> Client]
    /\ link \in [Links -> Link]
    /\ req \in [Requests -> Request]
    /\ handed \in [Links -> Nat]
    /\ \A l \in Links : link[l].of = None <=> link[l].state = "new"

Idle == [link |-> None, key |-> 1]

InviteInit ==
    /\ client = [c \in Clients |-> [status |-> "new", key |-> 1, due |-> FALSE]]
    /\ link = [l \in Links |-> [of |-> None, state |-> "new", expired |-> FALSE]]
    /\ req = [r \in Requests |-> Idle]
    /\ handed = [l \in Links |-> 0]

---------------------------------------------------------------------------
(* The rows *)

Exists(c) == client[c].status \in {"enabled", "disabled"}
Enabled(c) == client[c].status = "enabled"
UnusedLink(l) == link[l].state = "unused"

\* deleteUnusedInvites for every client of C.
WithoutUnused(C) ==
    [l \in Links |-> IF link[l].of \in C /\ UnusedLink(l) THEN [link[l] EXCEPT !.state = "deleted"]
                     ELSE link[l]]

\* peekInvite finds nothing to object to.
Collectable(l) == UnusedLink(l) /\ ~link[l].expired /\ Enabled(link[l].of)

---------------------------------------------------------------------------
(* What an administrator does *)

CreateClient(c) ==
    /\ client[c].status = "new"
    /\ \E on \in BOOLEAN :
         client' = [client EXCEPT ![c].status = IF on THEN "enabled" ELSE "disabled"]
    /\ UNCHANGED <<link, req, handed>>

\* The edit may switch the client on or off, and move its expiry past now.
UpdateClient(c) ==
    /\ Exists(c)
    /\ \E on, due \in BOOLEAN :
         /\ client' = [client EXCEPT ![c].status = IF on THEN "enabled" ELSE "disabled",
                                     ![c].due = due]
         /\ link' = IF on THEN link ELSE WithoutUnused({c})
    /\ UNCHANGED <<req, handed>>

\* (mutant: rotation leaves the links alone)
RotateKeepsLinks(c) ==
    /\ Exists(c) /\ client[c].key < MaxKeys
    /\ client' = [client EXCEPT ![c].key = @ + 1]
    /\ UNCHANGED <<link, req, handed>>

RotateClientKeys(c) ==
    /\ Exists(c)
    /\ client[c].key < MaxKeys
    /\ client' = [client EXCEPT ![c].key = @ + 1]
    /\ link' = WithoutUnused({c})
    /\ UNCHANGED <<req, handed>>

\* The used links go with the row they belong to (ON DELETE CASCADE).
DeleteClient(c) ==
    /\ Exists(c)
    /\ client' = [client EXCEPT ![c].status = "deleted"]
    /\ link' = [l \in Links |-> IF link[l].of = c THEN [link[l] EXCEPT !.state = "deleted"]
                                ELSE link[l]]
    /\ UNCHANGED <<req, handed>>

CreateInvite(c, l) ==
    /\ Enabled(c)
    /\ link[l].state = "new"
    /\ link' = [WithoutUnused({c}) EXCEPT ![l] = [of |-> c, state |-> "unused", expired |-> FALSE]]
    /\ UNCHANGED <<client, req, handed>>

RevokeInvites(c) ==
    /\ Exists(c)
    /\ link' = WithoutUnused({c})
    /\ UNCHANGED <<client, req, handed>>

---------------------------------------------------------------------------
(* Time, and the ten-minute jobs *)

ExpiryPasses(c) ==
    /\ ~client[c].due
    /\ client' = [client EXCEPT ![c].due = TRUE]
    /\ UNCHANGED <<link, req, handed>>

LinkExpires(l) ==
    /\ UnusedLink(l) /\ ~link[l].expired
    /\ link' = [link EXCEPT ![l].expired = TRUE]
    /\ UNCHANGED <<client, req, handed>>

\* One transaction a client: a failing statement leaves the rest for the next run.
ExpireClients ==
    /\ \E C \in SUBSET {c \in Clients : Enabled(c) /\ client[c].due} :
         /\ C # {}
         /\ client' = [c \in Clients |-> IF c \in C THEN [client[c] EXCEPT !.status = "disabled"]
                                         ELSE client[c]]
         /\ link' = WithoutUnused(C)
    /\ UNCHANGED <<req, handed>>

\* Used links go at once, expired ones after a week.
PruneInvites ==
    /\ \E week \in SUBSET {l \in Links : link[l].expired} :
         link' = [l \in Links |-> IF l \in week \/ link[l].state = "used"
                                  THEN [link[l] EXCEPT !.state = "deleted"] ELSE link[l]]
    /\ UNCHANGED <<client, req, handed>>

---------------------------------------------------------------------------
(* The person with the link *)

RenderConf(r, l) ==
    /\ req[r] = Idle
    /\ Collectable(l)
    /\ req' = [req EXCEPT ![r] = [link |-> l, key |-> client[link[l].of].key]]
    /\ UNCHANGED <<client, link, handed>>

\* (mutant: a link already used is spent again)
ConsumeAgain(r) ==
    /\ req[r].link # None
    /\ LET l == req[r].link IN
         /\ link[l].state # "deleted" /\ ~link[l].expired /\ Enabled(link[l].of)
         /\ link' = [link EXCEPT ![l].state = "used"]
         /\ handed' = [handed EXCEPT ![l] = @ + 1]
    /\ req' = [req EXCEPT ![r] = Idle]
    /\ UNCHANGED client

\* Spends the link and answers with what was built before the await, or refuses.
ConsumeInvite(r) ==
    /\ req[r].link # None
    /\ LET l == req[r].link IN
         \/ /\ Collectable(l)
            /\ link' = [link EXCEPT ![l].state = "used"]
            /\ handed' = [handed EXCEPT ![l] = @ + 1]
         \/ /\ ~Collectable(l)
            /\ UNCHANGED <<link, handed>>
    /\ req' = [req EXCEPT ![r] = Idle]
    /\ UNCHANGED client

---------------------------------------------------------------------------

InviteNext ==
    \/ \E c \in Clients :
         \/ CreateClient(c) \/ UpdateClient(c) \/ RotateClientKeys(c) \/ DeleteClient(c)
         \/ RevokeInvites(c) \/ ExpiryPasses(c)
         \/ \E l \in Links : CreateInvite(c, l)
    \/ \E l \in Links : LinkExpires(l)
    \/ ExpireClients
    \/ PruneInvites
    \/ \E r \in Requests : ConsumeInvite(r) \/ \E l \in Links : RenderConf(r, l)

InviteSpec == InviteInit /\ [][InviteNext]_inviteVars

---------------------------------------------------------------------------
(* Properties *)

\* A link hands out one configuration in its life, however many requests for
\* it overlap, whatever is pruned or deleted meanwhile (route.ts: "returns the
\* config and QR exactly once").
OnceOnly == \A l \in Links : handed[l] <= 1

\* A link is a one-time secret: given out once, good until it is spent, revoked,
\* replaced or deleted, and never again (clients.ts:221, 272-290; route.ts:
\* "returns the config and QR exactly once").
LinkOnce == INSTANCE OneShot WITH
    Secrets <- Links,
    good <- {l \in Links : link[l].state = "unused"},
    over <- {l \in Links : link[l].state \in {"used", "deleted"}},
    uses <- handed
LinksAreOneShot == LinkOnce!ShotSpec

\* What a request hands out was built before its await, yet it is for a client
\* that is enabled now and holds the key it has now: nobody can have rotated
\* the key or switched the client off and on in between (clients.ts, above
\* consumeInvite).
GivenIsCurrent ==
    [][\A r \in Requests :
         LET l == req[r].link IN
         (l # None /\ req'[r] = Idle /\ handed' # handed)
           => Enabled(link[l].of) /\ req[r].key = client[link[l].of].key]_inviteVars

\* A client has at most one link that can still be collected, and none while it
\* is disabled or after it is deleted: switching it back on revives no old link.
OneLiveLink ==
    \A l \in Links : UnusedLink(l) =>
        /\ Enabled(link[l].of)
        /\ \A m \in Links : UnusedLink(m) /\ link[m].of = link[l].of => m = l

=============================================================================
