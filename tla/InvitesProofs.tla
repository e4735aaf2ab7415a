--------------------------- MODULE InvitesProofs ---------------------------
(***************************************************************************)
(* Proofs about Invites for any number of clients, links and requests.      *)
(*                                                                          *)
(* GivenIsCurrent relates a key read before an await to the key in the      *)
(* database after it.  The invariant behind it is BuiltIsCurrent: as long   *)
(* as the link a request looked up is unused, the key it read is the        *)
(* client's.  Every step that changes a key deletes the unused links in the *)
(* same step, and no link becomes unused twice.                             *)
(***************************************************************************)
EXTENDS Invites, TLAPS

BuiltIsCurrent ==
    \A r \in Requests : req[r].link # None /\ UnusedLink(req[r].link)
                          => req[r].key = client[link[req[r].link].of].key

\* Only issued links are looked up.
BuiltIsIssued == \A r \in Requests : req[r].link # None => link[req[r].link].state # "new"

ExpiredIsIssued == \A l \in Links : link[l].expired => link[l].state # "new"

UsedOnce ==
    \A l \in Links : IF link[l].state \in {"new", "unused"} THEN handed[l] = 0 ELSE handed[l] <= 1

IInv == InviteTypeOK /\ OneLiveLink /\ BuiltIsCurrent /\ BuiltIsIssued /\ ExpiredIsIssued /\ UsedOnce

LEMMA InitIInv == InviteInit => IInv
  BY NoneAssumption, MaxKeysAssumption
     DEF InviteInit, IInv, InviteTypeOK, OneLiveLink, BuiltIsCurrent, BuiltIsIssued, ExpiredIsIssued, UsedOnce, UnusedLink,
         Client, Link, Request, Idle

LEMMA WithoutUnusedType ==
  ASSUME InviteTypeOK, NEW C \in SUBSET Clients
  PROVE  /\ WithoutUnused(C) \in [Links -> Link]
         /\ \A l \in Links : WithoutUnused(C)[l].of = None <=> WithoutUnused(C)[l].state = "new"
<1> DEFINE W == WithoutUnused(C)
<1>1. ASSUME NEW l \in Links
      PROVE  /\ W[l] = link[l] \/ (UnusedLink(l) /\ W[l] = [link[l] EXCEPT !.state = "deleted"])
             /\ W[l] \in Link
  BY DEF WithoutUnused, InviteTypeOK, Link
<1>2. W \in [Links -> Link]
  BY <1>1 DEF WithoutUnused
<1>3. ASSUME NEW l \in Links PROVE W[l].of = None <=> W[l].state = "new"
  BY <1>1 DEF InviteTypeOK, Link, UnusedLink
<1> QED
  BY <1>2, <1>3

\* One invariant is disturbed by a step in six ways; each leaf below shows one.
LEMMA NextIInv == IInv /\ [InviteNext]_inviteVars => IInv'
<1> SUFFICES ASSUME IInv, [InviteNext]_inviteVars PROVE IInv'
  OBVIOUS
<1> USE NoneAssumption, MaxKeysAssumption
<1>1. ASSUME NEW c \in Clients, CreateClient(c) PROVE IInv'
  <2>1. InviteTypeOK'
    BY <1>1 DEF IInv, InviteTypeOK, Client, Link, Request, Idle, CreateClient, Exists, Enabled, UnusedLink, WithoutUnused
  <2>2. OneLiveLink'
    BY <1>1 DEF IInv, OneLiveLink, InviteTypeOK, Client, Link, CreateClient, Exists, Enabled, UnusedLink, WithoutUnused
  <2>3. BuiltIsCurrent'
    BY <1>1 DEF IInv, BuiltIsCurrent, BuiltIsIssued, InviteTypeOK, Client, Link, Request, Idle, CreateClient, Exists, Enabled, UnusedLink, WithoutUnused
  <2>4. BuiltIsIssued'
    BY <1>1 DEF IInv, BuiltIsIssued, InviteTypeOK, Link, Request, Idle, CreateClient, Exists, Enabled, UnusedLink, WithoutUnused
  <2>5. UsedOnce'
    BY <1>1 DEF IInv, UsedOnce, InviteTypeOK, Link, CreateClient, Exists, Enabled, UnusedLink, WithoutUnused
  <2>6. ExpiredIsIssued'
    BY <1>1 DEF IInv, ExpiredIsIssued, InviteTypeOK, Link, CreateClient, Exists, Enabled, UnusedLink, WithoutUnused
  <2> QED BY <2>1, <2>2, <2>3, <2>4, <2>5, <2>6 DEF IInv
<1>2. ASSUME NEW c \in Clients, UpdateClient(c) PROVE IInv'
  <2>1. InviteTypeOK'
    <3>1. client' \in [Clients -> Client]
      <4>1. PICK on \in BOOLEAN, due \in BOOLEAN :
               client' = [client EXCEPT ![c].status = IF on THEN "enabled" ELSE "disabled",
                                        ![c].due = due]
        BY <1>2 DEF UpdateClient
      <4>2. [client[c] EXCEPT !.status = IF on THEN "enabled" ELSE "disabled", !.due = due] \in Client
        BY DEF IInv, InviteTypeOK, Client
      <4> QED
        BY <4>1, <4>2 DEF IInv, InviteTypeOK
    <3> QED
      BY <1>2, <3>1, WithoutUnusedType DEF IInv, InviteTypeOK, UpdateClient
  <2>2. OneLiveLink'
    BY <1>2 DEF IInv, OneLiveLink, InviteTypeOK, Client, Link, UpdateClient, Exists, Enabled, UnusedLink, WithoutUnused
  <2>3. BuiltIsCurrent'
    BY <1>2 DEF IInv, BuiltIsCurrent, BuiltIsIssued, InviteTypeOK, Client, Link, Request, Idle, UpdateClient, Exists, Enabled, UnusedLink, WithoutUnused
  <2>4. BuiltIsIssued'
    BY <1>2 DEF IInv, BuiltIsIssued, InviteTypeOK, Link, Request, Idle, UpdateClient, Exists, Enabled, UnusedLink, WithoutUnused
  <2>5. UsedOnce'
    BY <1>2 DEF IInv, UsedOnce, InviteTypeOK, Link, UpdateClient, Exists, Enabled, UnusedLink, WithoutUnused
  <2>6. ExpiredIsIssued'
    BY <1>2 DEF IInv, ExpiredIsIssued, InviteTypeOK, Link, UpdateClient, Exists, Enabled, UnusedLink, WithoutUnused
  <2> QED BY <2>1, <2>2, <2>3, <2>4, <2>5, <2>6 DEF IInv
<1>3. ASSUME NEW c \in Clients, RotateClientKeys(c) PROVE IInv'
  <2>1. InviteTypeOK'
    <3>1. client' \in [Clients -> Client]
      <4>1. client[c].key + 1 \in 1..MaxKeys
        BY <1>3 DEF IInv, InviteTypeOK, Client, RotateClientKeys
      <4> QED
        BY <1>3, <4>1 DEF IInv, InviteTypeOK, Client, RotateClientKeys
    <3> QED
      BY <1>3, <3>1, WithoutUnusedType DEF IInv, InviteTypeOK, RotateClientKeys
  <2>2. OneLiveLink'
    BY <1>3 DEF IInv, OneLiveLink, InviteTypeOK, Client, Link, RotateClientKeys, Exists, Enabled, UnusedLink, WithoutUnused
  <2>3. BuiltIsCurrent'
    BY <1>3 DEF IInv, BuiltIsCurrent, BuiltIsIssued, InviteTypeOK, Client, Link, Request, Idle, RotateClientKeys, Exists, Enabled, UnusedLink, WithoutUnused
  <2>4. BuiltIsIssued'
    BY <1>3 DEF IInv, BuiltIsIssued, InviteTypeOK, Link, Request, Idle, RotateClientKeys, Exists, Enabled, UnusedLink, WithoutUnused
  <2>5. UsedOnce'
    BY <1>3 DEF IInv, UsedOnce, InviteTypeOK, Link, RotateClientKeys, Exists, Enabled, UnusedLink, WithoutUnused
  <2>6. ExpiredIsIssued'
    BY <1>3 DEF IInv, ExpiredIsIssued, InviteTypeOK, Link, RotateClientKeys, Exists, Enabled, UnusedLink, WithoutUnused
  <2> QED BY <2>1, <2>2, <2>3, <2>4, <2>5, <2>6 DEF IInv
<1>4. ASSUME NEW c \in Clients, DeleteClient(c) PROVE IInv'
  <2>1. InviteTypeOK'
    BY <1>4 DEF IInv, InviteTypeOK, Client, Link, Request, Idle, DeleteClient, Exists, Enabled, UnusedLink, WithoutUnused
  <2>2. OneLiveLink'
    BY <1>4 DEF IInv, OneLiveLink, InviteTypeOK, Client, Link, DeleteClient, Exists, Enabled, UnusedLink, WithoutUnused
  <2>3. BuiltIsCurrent'
    BY <1>4 DEF IInv, BuiltIsCurrent, BuiltIsIssued, InviteTypeOK, Client, Link, Request, Idle, DeleteClient, Exists, Enabled, UnusedLink, WithoutUnused
  <2>4. BuiltIsIssued'
    BY <1>4 DEF IInv, BuiltIsIssued, InviteTypeOK, Link, Request, Idle, DeleteClient, Exists, Enabled, UnusedLink, WithoutUnused
  <2>5. UsedOnce'
    BY <1>4 DEF IInv, UsedOnce, InviteTypeOK, Link, DeleteClient, Exists, Enabled, UnusedLink, WithoutUnused
  <2>6. ExpiredIsIssued'
    BY <1>4 DEF IInv, ExpiredIsIssued, InviteTypeOK, Link, DeleteClient, Exists, Enabled, UnusedLink, WithoutUnused
  <2> QED BY <2>1, <2>2, <2>3, <2>4, <2>5, <2>6 DEF IInv
<1>5. ASSUME NEW c \in Clients, RevokeInvites(c) PROVE IInv'
  <2>1. InviteTypeOK'
    BY <1>5 DEF IInv, InviteTypeOK, Client, Link, Request, Idle, RevokeInvites, Exists, Enabled, UnusedLink, WithoutUnused
  <2>2. OneLiveLink'
    BY <1>5 DEF IInv, OneLiveLink, InviteTypeOK, Client, Link, RevokeInvites, Exists, Enabled, UnusedLink, WithoutUnused
  <2>3. BuiltIsCurrent'
    BY <1>5 DEF IInv, BuiltIsCurrent, BuiltIsIssued, InviteTypeOK, Client, Link, Request, Idle, RevokeInvites, Exists, Enabled, UnusedLink, WithoutUnused
  <2>4. BuiltIsIssued'
    BY <1>5 DEF IInv, BuiltIsIssued, InviteTypeOK, Link, Request, Idle, RevokeInvites, Exists, Enabled, UnusedLink, WithoutUnused
  <2>5. UsedOnce'
    BY <1>5 DEF IInv, UsedOnce, InviteTypeOK, Link, RevokeInvites, Exists, Enabled, UnusedLink, WithoutUnused
  <2>6. ExpiredIsIssued'
    BY <1>5 DEF IInv, ExpiredIsIssued, InviteTypeOK, Link, RevokeInvites, Exists, Enabled, UnusedLink, WithoutUnused
  <2> QED BY <2>1, <2>2, <2>3, <2>4, <2>5, <2>6 DEF IInv
<1>6. ASSUME NEW c \in Clients, ExpiryPasses(c) PROVE IInv'
  <2>1. InviteTypeOK'
    <3>1. client' \in [Clients -> Client]
      BY <1>6 DEF IInv, InviteTypeOK, Client, ExpiryPasses
    <3> QED
      BY <1>6, <3>1 DEF IInv, InviteTypeOK, ExpiryPasses
  <2>2. OneLiveLink'
    BY <1>6 DEF IInv, OneLiveLink, InviteTypeOK, Client, Link, ExpiryPasses, Exists, Enabled, UnusedLink, WithoutUnused
  <2>3. BuiltIsCurrent'
    BY <1>6 DEF IInv, BuiltIsCurrent, BuiltIsIssued, InviteTypeOK, Client, Link, Request, Idle, ExpiryPasses, Exists, Enabled, UnusedLink, WithoutUnused
  <2>4. BuiltIsIssued'
    BY <1>6 DEF IInv, BuiltIsIssued, InviteTypeOK, Link, Request, Idle, ExpiryPasses, Exists, Enabled, UnusedLink, WithoutUnused
  <2>5. UsedOnce'
    BY <1>6 DEF IInv, UsedOnce, InviteTypeOK, Link, ExpiryPasses, Exists, Enabled, UnusedLink, WithoutUnused
  <2>6. ExpiredIsIssued'
    BY <1>6 DEF IInv, ExpiredIsIssued, InviteTypeOK, Link, ExpiryPasses, Exists, Enabled, UnusedLink, WithoutUnused
  <2> QED BY <2>1, <2>2, <2>3, <2>4, <2>5, <2>6 DEF IInv
<1>7. ASSUME NEW c \in Clients, NEW l \in Links, CreateInvite(c, l) PROVE IInv'
  <2>1. InviteTypeOK'
    BY <1>7 DEF IInv, InviteTypeOK, Client, Link, Request, Idle, CreateInvite, Enabled, UnusedLink, WithoutUnused
  <2>2. OneLiveLink'
    <3>1. /\ link'[l].of = c
          /\ \A m \in Links : m # l => link'[m] = WithoutUnused({c})[m]
      BY <1>7 DEF IInv, InviteTypeOK, CreateInvite, WithoutUnused
    <3>2. \A m \in Links : m # l /\ link'[m].state = "unused"
                            => link'[m] = link[m] /\ link[m].of # c
      BY <3>1 DEF WithoutUnused, UnusedLink, IInv, InviteTypeOK, Link
    <3>3. client' = client /\ Enabled(c)
      BY <1>7 DEF CreateInvite
    <3> QED
      BY <3>1, <3>2, <3>3 DEF IInv, OneLiveLink, UnusedLink, Enabled
  <2>3. BuiltIsCurrent'
    BY <1>7 DEF IInv, BuiltIsCurrent, BuiltIsIssued, InviteTypeOK, Client, Link, Request, Idle, CreateInvite, Enabled, UnusedLink, WithoutUnused
  <2>4. BuiltIsIssued'
    BY <1>7 DEF IInv, BuiltIsIssued, InviteTypeOK, Link, Request, Idle, CreateInvite, Enabled, UnusedLink, WithoutUnused
  <2>5. UsedOnce'
    BY <1>7 DEF IInv, UsedOnce, InviteTypeOK, Link, CreateInvite, Enabled, UnusedLink, WithoutUnused
  <2>6. ExpiredIsIssued'
    BY <1>7 DEF IInv, ExpiredIsIssued, InviteTypeOK, Link, CreateInvite, Enabled, UnusedLink, WithoutUnused
  <2> QED BY <2>1, <2>2, <2>3, <2>4, <2>5, <2>6 DEF IInv
<1>8. ASSUME NEW l \in Links, LinkExpires(l) PROVE IInv'
  <2>1. InviteTypeOK'
    BY <1>8 DEF IInv, InviteTypeOK, Client, Link, Request, Idle, LinkExpires, Enabled, UnusedLink
  <2>2. OneLiveLink'
    BY <1>8 DEF IInv, OneLiveLink, InviteTypeOK, Client, Link, LinkExpires, Enabled, UnusedLink
  <2>3. BuiltIsCurrent'
    BY <1>8 DEF IInv, BuiltIsCurrent, BuiltIsIssued, InviteTypeOK, Client, Link, Request, Idle, LinkExpires, Enabled, UnusedLink
  <2>4. BuiltIsIssued'
    BY <1>8 DEF IInv, BuiltIsIssued, InviteTypeOK, Link, Request, Idle, LinkExpires, Enabled, UnusedLink
  <2>5. UsedOnce'
    BY <1>8 DEF IInv, UsedOnce, InviteTypeOK, Link, LinkExpires, Enabled, UnusedLink
  <2>6. ExpiredIsIssued'
    BY <1>8 DEF IInv, ExpiredIsIssued, InviteTypeOK, Link, LinkExpires, Enabled, UnusedLink
  <2> QED BY <2>1, <2>2, <2>3, <2>4, <2>5, <2>6 DEF IInv
<1>9. CASE ExpireClients
  <2>1. InviteTypeOK'
    <3>1. PICK C \in SUBSET Clients :
            /\ client' = [c \in Clients |-> IF c \in C THEN [client[c] EXCEPT !.status = "disabled"]
                                            ELSE client[c]]
            /\ link' = WithoutUnused(C)
      BY <1>9 DEF ExpireClients
    <3>2. client' \in [Clients -> Client]
      BY <3>1 DEF IInv, InviteTypeOK, Client
    <3> QED
      BY <1>9, <3>1, <3>2, WithoutUnusedType DEF IInv, InviteTypeOK, ExpireClients
  <2>2. OneLiveLink'
    BY <1>9 DEF IInv, OneLiveLink, InviteTypeOK, Client, Link, ExpireClients, Enabled, UnusedLink, WithoutUnused
  <2>3. BuiltIsCurrent'
    BY <1>9 DEF IInv, BuiltIsCurrent, BuiltIsIssued, InviteTypeOK, Client, Link, Request, Idle, ExpireClients, Enabled, UnusedLink, WithoutUnused
  <2>4. BuiltIsIssued'
    BY <1>9 DEF IInv, BuiltIsIssued, InviteTypeOK, Link, Request, Idle, ExpireClients, Enabled, UnusedLink, WithoutUnused
  <2>5. UsedOnce'
    BY <1>9 DEF IInv, UsedOnce, InviteTypeOK, Link, ExpireClients, Enabled, UnusedLink, WithoutUnused
  <2>6. ExpiredIsIssued'
    BY <1>9 DEF IInv, ExpiredIsIssued, InviteTypeOK, Link, ExpireClients, Enabled, UnusedLink, WithoutUnused
  <2> QED BY <2>1, <2>2, <2>3, <2>4, <2>5, <2>6 DEF IInv
<1>10. CASE PruneInvites
  <2>1. InviteTypeOK'
    <3>1. \A l \in Links : \/ link'[l] = link[l]
                           \/ /\ link[l].expired \/ link[l].state = "used"
                              /\ link'[l] = [link[l] EXCEPT !.state = "deleted"]
      BY <1>10 DEF IInv, InviteTypeOK, PruneInvites
    <3>2. \A l \in Links : link[l].expired => link[l].state # "new"
      BY DEF IInv, ExpiredIsIssued
    <3>3. DOMAIN link' = Links /\ link' = [l \in Links |-> link'[l]]
      BY <1>10 DEF PruneInvites
    <3>4. \A l \in Links : link'[l] \in Link /\ (link'[l].of = None <=> link'[l].state = "new")
      <4> SUFFICES ASSUME NEW l \in Links
                   PROVE  link'[l] \in Link /\ (link'[l].of = None <=> link'[l].state = "new")
        OBVIOUS
      <4>1. link[l] \in Link /\ (link[l].of = None <=> link[l].state = "new")
        BY DEF IInv, InviteTypeOK
      <4>2. CASE link'[l] = link[l]
        BY <4>1, <4>2
      <4>3. CASE /\ link[l].expired \/ link[l].state = "used"
                 /\ link'[l] = [link[l] EXCEPT !.state = "deleted"]
        <5>1. link[l].state # "new"
          BY <3>2, <4>3
        <5>2. link'[l] = [of |-> link[l].of, state |-> "deleted", expired |-> link[l].expired]
          BY <4>1, <4>3 DEF Link
        <5> QED
          BY <4>1, <5>1, <5>2 DEF Link
      <4> QED
        BY <3>1, <4>2, <4>3
    <3> QED
      BY <1>10, <3>3, <3>4 DEF IInv, InviteTypeOK, PruneInvites
  <2>2. OneLiveLink'
    BY <1>10 DEF IInv, OneLiveLink, InviteTypeOK, Client, Link, PruneInvites, Enabled, UnusedLink
  <2>3. BuiltIsCurrent'
    BY <1>10 DEF IInv, BuiltIsCurrent, BuiltIsIssued, InviteTypeOK, Client, Link, Request, Idle, PruneInvites, Enabled, UnusedLink
  <2>4. BuiltIsIssued'
    BY <1>10 DEF IInv, BuiltIsIssued, InviteTypeOK, Link, Request, Idle, PruneInvites, Enabled, UnusedLink
  <2>5. UsedOnce'
    BY <1>10 DEF IInv, UsedOnce, InviteTypeOK, Link, PruneInvites, Enabled, UnusedLink
  <2>6. ExpiredIsIssued'
    BY <1>10 DEF IInv, ExpiredIsIssued, InviteTypeOK, Link, PruneInvites, Enabled, UnusedLink
  <2> QED BY <2>1, <2>2, <2>3, <2>4, <2>5, <2>6 DEF IInv
<1>11. ASSUME NEW r \in Requests, NEW l \in Links, RenderConf(r, l) PROVE IInv'
  <2>1. InviteTypeOK'
    BY <1>11 DEF IInv, InviteTypeOK, Client, Link, Request, Idle, RenderConf, Collectable, Enabled, UnusedLink
  <2>2. OneLiveLink'
    BY <1>11 DEF IInv, OneLiveLink, InviteTypeOK, Client, Link, RenderConf, Collectable, Enabled, UnusedLink
  <2>3. BuiltIsCurrent'
    BY <1>11 DEF IInv, BuiltIsCurrent, BuiltIsIssued, InviteTypeOK, Client, Link, Request, Idle, RenderConf, Collectable, Enabled, UnusedLink
  <2>4. BuiltIsIssued'
    BY <1>11 DEF IInv, BuiltIsIssued, InviteTypeOK, Link, Request, Idle, RenderConf, Collectable, Enabled, UnusedLink
  <2>5. UsedOnce'
    BY <1>11 DEF IInv, UsedOnce, InviteTypeOK, Link, RenderConf, Collectable, Enabled, UnusedLink
  <2>6. ExpiredIsIssued'
    BY <1>11 DEF IInv, ExpiredIsIssued, InviteTypeOK, Link, RenderConf, Collectable, Enabled, UnusedLink
  <2> QED BY <2>1, <2>2, <2>3, <2>4, <2>5, <2>6 DEF IInv
<1>12. ASSUME NEW r \in Requests, ConsumeInvite(r) PROVE IInv'
  <2>1. InviteTypeOK'
    <3>1. req' \in [Requests -> Request]
      BY <1>12 DEF IInv, InviteTypeOK, Request, Idle, ConsumeInvite
    <3>2. CASE UNCHANGED <<link, handed>>
      BY <1>12, <3>1, <3>2 DEF IInv, InviteTypeOK, ConsumeInvite
    <3>3. CASE /\ Collectable(req[r].link)
               /\ link' = [link EXCEPT ![req[r].link].state = "used"]
               /\ handed' = [handed EXCEPT ![req[r].link] = @ + 1]
      <4>1. req[r].link \in Links
        BY <1>12 DEF IInv, InviteTypeOK, Request, ConsumeInvite
      <4>2. link' \in [Links -> Link] /\ handed' \in [Links -> Nat]
        BY <3>3, <4>1 DEF IInv, InviteTypeOK, Link
      <4>3. \A l \in Links : link'[l].of = None <=> link'[l].state = "new"
        BY <3>3, <4>1 DEF IInv, InviteTypeOK, Link, Collectable, UnusedLink
      <4> QED
        BY <1>12, <3>1, <4>2, <4>3 DEF IInv, InviteTypeOK, ConsumeInvite
    <3> QED
      BY <1>12, <3>2, <3>3 DEF ConsumeInvite
  <2>2. OneLiveLink'
    <3>1. client' = client
      BY <1>12 DEF ConsumeInvite
    <3>2. \A m \in Links : link'[m].of = link[m].of /\ (link'[m].state = "unused" => UnusedLink(m))
      BY <1>12 DEF ConsumeInvite, UnusedLink, IInv, InviteTypeOK, Link
    <3> QED
      BY <3>1, <3>2 DEF IInv, OneLiveLink, UnusedLink, Enabled
  <2>3. BuiltIsCurrent'
    BY <1>12 DEF IInv, BuiltIsCurrent, BuiltIsIssued, InviteTypeOK, Client, Link, Request, Idle, ConsumeInvite, Collectable, Enabled, UnusedLink
  <2>4. BuiltIsIssued'
    BY <1>12 DEF IInv, BuiltIsIssued, InviteTypeOK, Link, Request, Idle, ConsumeInvite, Collectable, Enabled, UnusedLink
  <2>5. UsedOnce'
    BY <1>12 DEF IInv, UsedOnce, InviteTypeOK, Link, ConsumeInvite, Collectable, Enabled, UnusedLink
  <2>6. ExpiredIsIssued'
    BY <1>12 DEF IInv, ExpiredIsIssued, InviteTypeOK, Link, ConsumeInvite, Collectable, Enabled, UnusedLink
  <2> QED BY <2>1, <2>2, <2>3, <2>4, <2>5, <2>6 DEF IInv
<1>13. CASE UNCHANGED inviteVars
  <2>1. InviteTypeOK'
    BY <1>13 DEF IInv, InviteTypeOK, Client, Link, Request, Idle, inviteVars, Enabled, UnusedLink
  <2>2. OneLiveLink'
    BY <1>13 DEF IInv, OneLiveLink, InviteTypeOK, Client, Link, inviteVars, Enabled, UnusedLink
  <2>3. BuiltIsCurrent'
    BY <1>13 DEF IInv, BuiltIsCurrent, BuiltIsIssued, InviteTypeOK, Client, Link, Request, Idle, inviteVars, Enabled, UnusedLink
  <2>4. BuiltIsIssued'
    BY <1>13 DEF IInv, BuiltIsIssued, InviteTypeOK, Link, Request, Idle, inviteVars, Enabled, UnusedLink
  <2>5. UsedOnce'
    BY <1>13 DEF IInv, UsedOnce, InviteTypeOK, Link, inviteVars, Enabled, UnusedLink
  <2>6. ExpiredIsIssued'
    BY <1>13 DEF IInv, ExpiredIsIssued, InviteTypeOK, Link, inviteVars, Enabled, UnusedLink
  <2> QED BY <2>1, <2>2, <2>3, <2>4, <2>5, <2>6 DEF IInv
<1> QED
  BY <1>1, <1>2, <1>3, <1>4, <1>5, <1>6, <1>7, <1>8, <1>9, <1>10, <1>11, <1>12, <1>13 DEF InviteNext

LEMMA Invariant == InviteSpec => []IInv
  BY InitIInv, NextIInv, PTL DEF InviteSpec

\* Every row and every request in flight is well formed, and a link has an owner
\* exactly when it was issued.
THEOREM TypeCorrect == InviteSpec => []InviteTypeOK
  BY Invariant, PTL DEF IInv

\* No link hands out two configurations, whatever overlaps.
THEOREM HandsOutOnce == InviteSpec => []OnceOnly
<1>1. IInv => OnceOnly
  BY DEF IInv, UsedOnce, OnceOnly, InviteTypeOK
<1> QED
  BY Invariant, <1>1, PTL

\* A client has at most one link that can be collected, and only while enabled.
THEOREM LinksFollowClients == InviteSpec => []OneLiveLink
  BY Invariant, PTL DEF IInv

\* What is handed out after the await is for an enabled client and its present key.
THEOREM HandsOutCurrent == InviteSpec => GivenIsCurrent
<1> DEFINE Given == \A r \in Requests :
         LET l == req[r].link IN
         (l # None /\ req'[r] = Idle /\ handed' # handed)
           => Enabled(link[l].of) /\ req[r].key = client[link[l].of].key
<1>1. ASSUME IInv, [InviteNext]_inviteVars PROVE [Given]_inviteVars
  <2>1. ASSUME NEW q \in Requests, ConsumeInvite(q), NEW r \in Requests, req[r].link # None,
               req'[r] = Idle, handed' # handed
        PROVE  Enabled(link[req[r].link].of) /\ req[r].key = client[link[req[r].link].of].key
    <3>1. r = q
      BY <1>1, <2>1 DEF ConsumeInvite, IInv, InviteTypeOK, Idle
    <3>2. Collectable(req[r].link)
      BY <2>1, <3>1 DEF ConsumeInvite
    <3> QED
      BY <1>1, <2>1, <3>2 DEF Collectable, IInv, BuiltIsCurrent
  <2>2. ASSUME handed' # handed PROVE \E q \in Requests : ConsumeInvite(q)
    BY <1>1, <2>2 DEF InviteNext, inviteVars, CreateClient, UpdateClient, RotateClientKeys, DeleteClient,
       RevokeInvites, ExpiryPasses, CreateInvite, LinkExpires, ExpireClients, PruneInvites, RenderConf
  <2> QED
    BY <2>1, <2>2
<1> QED
  BY Invariant, <1>1, PTL DEF InviteSpec, GivenIsCurrent

---------------------------------------------------------------------------
(* Links are one-time secrets *)

\* Nothing is handed out, and links at most disappear.
OnlyWithdraws ==
    /\ handed' = handed
    /\ \A l \in Links : \/ link'[l].state = link[l].state
                        \/ link[l].state \in {"unused", "used"} /\ link'[l].state = "deleted"

LEMMA WithdrawsLinks ==
  ASSUME OnlyWithdraws
  PROVE  \E gone \in SUBSET {l \in Links : link[l].state = "unused"} : LinkOnce!Withdraw(gone)
<1> DEFINE gone == {l \in Links : link[l].state = "unused" /\ link'[l].state = "deleted"}
<1>1. LinkOnce!Withdraw(gone)
  BY DEF OnlyWithdraws, LinkOnce!Withdraw
<1>2. gone \in SUBSET {l \in Links : link[l].state = "unused"}
  OBVIOUS
<1> HIDE DEF gone
<1> QED
  BY <1>1, <1>2, Zenon DEF LinkOnce!Withdraw

LEMMA DeletesUnused ==
  ASSUME IInv, NEW C, link' = WithoutUnused(C), handed' = handed
  PROVE  OnlyWithdraws
<1> SUFFICES ASSUME NEW l \in Links
             PROVE  \/ link'[l].state = link[l].state
                    \/ link[l].state \in {"unused", "used"} /\ link'[l].state = "deleted"
  BY DEF OnlyWithdraws
<1>1. link[l] \in Link
  BY DEF IInv, InviteTypeOK
<1> QED
  BY <1>1 DEF WithoutUnused, UnusedLink, Link

LEMMA IssuesLink ==
  ASSUME IInv, NEW c \in Clients, NEW l \in Links, CreateInvite(c, l)
  PROVE  \E gone \in SUBSET {k \in Links : link[k].state = "unused"} : LinkOnce!Issue(l, gone)
<1> DEFINE gone == {k \in Links : link[k].of = c /\ link[k].state = "unused"}
<1>1. link \in [Links -> Link] /\ link[l].state = "new" /\ handed' = handed
  BY DEF IInv, InviteTypeOK, CreateInvite
<1>2. link'[l].state = "unused"
  BY <1>1 DEF CreateInvite, WithoutUnused
<1>3. ASSUME NEW k \in Links, k # l
      PROVE  IF k \in gone THEN link'[k].state = "deleted" ELSE link'[k].state = link[k].state
  BY <1>1, <1>3 DEF CreateInvite, WithoutUnused, UnusedLink, Link
<1>4. LinkOnce!Issue(l, gone)
  BY <1>1, <1>2, <1>3 DEF LinkOnce!Issue
<1>5. gone \in SUBSET {k \in Links : link[k].state = "unused"}
  OBVIOUS
<1> HIDE DEF gone
<1> QED
  BY <1>4, <1>5, Zenon DEF LinkOnce!Issue

LEMMA SpendsLink ==
  ASSUME IInv, NEW l \in Links, link[l].state = "unused",
         link' = [link EXCEPT ![l].state = "used"], handed' = [handed EXCEPT ![l] = @ + 1]
  PROVE  LinkOnce!Spend(l, {})
<1>1. link \in [Links -> Link] /\ handed \in [Links -> Nat]
  BY DEF IInv, InviteTypeOK
<1>2. link'[l].state = "used" /\ \A k \in Links : k # l => link'[k] = link[k]
  BY <1>1 DEF Link
<1> QED
  BY <1>1, <1>2 DEF LinkOnce!Spend

LEMMA StepIsShot == IInv /\ [InviteNext]_inviteVars => [LinkOnce!ShotNext]_(LinkOnce!shotVars)
<1> SUFFICES ASSUME IInv, [InviteNext]_inviteVars
             PROVE  LinkOnce!ShotNext \/ UNCHANGED LinkOnce!shotVars
  OBVIOUS
<1> DEFINE good == {l \in Links : link[l].state = "unused"}
<1>1. ASSUME OnlyWithdraws PROVE LinkOnce!ShotNext
  BY <1>1, WithdrawsLinks DEF LinkOnce!ShotNext
<1>2. ASSUME link' = link, handed' = handed PROVE LinkOnce!ShotNext
  BY <1>1, <1>2 DEF OnlyWithdraws
<1>3. ASSUME NEW c \in Clients, CreateClient(c) \/ ExpiryPasses(c) PROVE LinkOnce!ShotNext
  BY <1>2, <1>3 DEF CreateClient, ExpiryPasses
<1>4. ASSUME NEW c \in Clients, UpdateClient(c) PROVE LinkOnce!ShotNext
  <2>1. (link' = link \/ link' = WithoutUnused({c})) /\ handed' = handed
    BY <1>4 DEF UpdateClient
  <2> QED
    BY <2>1, <1>1, <1>2, DeletesUnused
<1>5. ASSUME NEW c \in Clients, RotateClientKeys(c) \/ RevokeInvites(c) PROVE LinkOnce!ShotNext
  BY <1>1, <1>5, DeletesUnused DEF RotateClientKeys, RevokeInvites
<1>6. ASSUME NEW c \in Clients, DeleteClient(c) PROVE LinkOnce!ShotNext
  <2>1. ASSUME NEW l \in Links
        PROVE  \/ link'[l].state = link[l].state
               \/ link[l].state \in {"unused", "used"} /\ link'[l].state = "deleted"
    <3>1. link[l] \in Link /\ (link[l].of = None <=> link[l].state = "new") /\ c # None
      BY NoneAssumption DEF IInv, InviteTypeOK
    <3>2. CASE link[l].of = c
      BY <1>6, <3>1, <3>2 DEF DeleteClient, Link
    <3>3. CASE link[l].of # c
      BY <1>6, <3>3 DEF DeleteClient
    <3> QED
      BY <3>2, <3>3
  <2> QED
    BY <1>1, <1>6, <2>1 DEF DeleteClient, OnlyWithdraws
<1>7. ASSUME NEW c \in Clients, NEW l \in Links, CreateInvite(c, l) PROVE LinkOnce!ShotNext
  BY <1>7, IssuesLink DEF LinkOnce!ShotNext
<1>8. ASSUME NEW l \in Links, LinkExpires(l) PROVE LinkOnce!ShotNext
  <2>1. \A k \in Links : link'[k].state = link[k].state
    BY <1>8 DEF LinkExpires, IInv, InviteTypeOK, Link
  <2> QED
    BY <1>1, <1>8, <2>1 DEF LinkExpires, OnlyWithdraws
<1>9. CASE ExpireClients
  <2>1. PICK C \in SUBSET Clients : link' = WithoutUnused(C)
    BY <1>9 DEF ExpireClients
  <2> QED
    BY <1>1, <1>9, <2>1, DeletesUnused DEF ExpireClients
<1>10. CASE PruneInvites
  <2>1. ASSUME NEW l \in Links
        PROVE  \/ link'[l].state = link[l].state
               \/ link[l].state \in {"unused", "used"} /\ link'[l].state = "deleted"
    <3>1. link[l] \in Link /\ (link[l].expired => link[l].state # "new")
      BY DEF IInv, InviteTypeOK, ExpiredIsIssued
    <3>2. \/ link'[l] = link[l]
          \/ /\ link[l].expired \/ link[l].state = "used"
             /\ link'[l] = [link[l] EXCEPT !.state = "deleted"]
      BY <1>10 DEF PruneInvites
    <3> QED
      BY <3>1, <3>2 DEF Link
  <2> QED
    BY <1>1, <1>10, <2>1 DEF PruneInvites, OnlyWithdraws
<1>11. ASSUME NEW r \in Requests, NEW l \in Links, RenderConf(r, l) PROVE LinkOnce!ShotNext
  BY <1>2, <1>11 DEF RenderConf
<1>12. ASSUME NEW r \in Requests, ConsumeInvite(r) PROVE LinkOnce!ShotNext
  <2>1. req[r].link \in Links
    BY <1>12 DEF IInv, InviteTypeOK, Request, ConsumeInvite
  <2>2. CASE link' = link /\ handed' = handed
    BY <1>2, <2>2
  <2>3. CASE /\ link[req[r].link].state = "unused"
             /\ link' = [link EXCEPT ![req[r].link].state = "used"]
             /\ handed' = [handed EXCEPT ![req[r].link] = @ + 1]
    <3>1. LinkOnce!Spend(req[r].link, {})
      BY <2>1, <2>3, SpendsLink
    <3> QED
      BY <2>1, <3>1 DEF LinkOnce!ShotNext
  <2> QED
    BY <1>12, <2>2, <2>3 DEF ConsumeInvite, Collectable, UnusedLink
<1>13. CASE UNCHANGED inviteVars
  BY <1>13 DEF inviteVars, LinkOnce!shotVars
<1> QED
  BY <1>3, <1>4, <1>5, <1>6, <1>7, <1>8, <1>9, <1>10, <1>11, <1>12, <1>13 DEF InviteNext

\* The links, with all that administrators, time and the people who collect them
\* do, keep the promise of a one-time secret.
THEOREM LinksImplementOneShot == InviteSpec => LinksAreOneShot
<1>1. InviteInit => LinkOnce!ShotInit
  BY DEF InviteInit, LinkOnce!ShotInit
<1> QED
  BY <1>1, Invariant, StepIsShot, PTL DEF InviteSpec, LinksAreOneShot, LinkOnce!ShotSpec
=============================================================================
