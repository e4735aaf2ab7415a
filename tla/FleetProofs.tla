---------------------------- MODULE FleetProofs ----------------------------
(***************************************************************************)
(* Proofs about Fleet for any number of sites, gateways, tokens and keys.   *)
(*                                                                          *)
(* ServedIsGood rests on the cache: whoever changes a table that            *)
(* configurations are made of drops what was generated in the same step or  *)
(* loses its memory, so a cache that is there is what would be generated    *)
(* now.  LiveIsInMesh follows a report across the await for its body.       *)
(***************************************************************************)
EXTENDS Fleet, TLAPS

TokenRows == \A t \in EnrolTokens : enrol[t].state = "new" => enrol[t].site = Nothing /\ enrol[t].made = 0

CacheIsCurrent == cache # Nothing => cache = Snapshot

\* A report is awaited of a gateway that is in the mesh or has left it since,
\* and nothing is live of one that has left.
AwaitedIsKnown ==
    \A g \in awaited : (Active(g) \/ g \in gaveUp) /\ (g \in live => Active(g))

IInv == FleetTypeOK /\ TokenRows /\ CacheIsCurrent /\ AwaitedIsKnown /\ LiveIsInMesh /\ ServedIsGood

LEMMA InitIInv == FleetInit => IInv
<1> SUFFICES ASSUME FleetInit PROVE IInv
  OBVIOUS
<1>1. NoGateway \in GatewayRow /\ NoToken \in EnrolToken
  BY Zenon DEF NoGateway, GatewayRow, NoToken, EnrolToken
<1>2. gw \in [Gateways -> GatewayRow] /\ enrol \in [EnrolTokens -> EnrolToken]
  BY <1>1 DEF FleetInit
<1>3. /\ \A g \in Gateways : ~IsThere(g)
      /\ \A t \in EnrolTokens : enrol[t].state = "new" /\ enrol[t].site = Nothing /\ enrol[t].made = 0
  BY DEF FleetInit, NoGateway, NoToken, IsThere
<1>4. FleetTypeOK
  BY <1>2, <1>3 DEF FleetInit, FleetTypeOK
<1> QED
  BY <1>3, <1>4 DEF FleetInit, IInv, TokenRows, CacheIsCurrent, AwaitedIsKnown, LiveIsInMesh, ServedIsGood

---------------------------------------------------------------------------
(* The helpers of the steps *)

LEMMA RevokedRows ==
  ASSUME FleetTypeOK, TokenRows, NEW T
  PROVE  /\ Revoked(T) \in [EnrolTokens -> EnrolToken]
         /\ \A t \in EnrolTokens :
              IF t \in T THEN Revoked(T)[t].state = "gone" /\ Revoked(T)[t].made = enrol[t].made
              ELSE Revoked(T)[t] = enrol[t]
<1> DEFINE row(t) == [NoToken EXCEPT !.state = "gone", !.made = enrol[t].made]
<1>1. NoToken \in EnrolToken
  BY Zenon DEF NoToken, EnrolToken
<1>2. ASSUME NEW t \in EnrolTokens
      PROVE  row(t) \in EnrolToken /\ row(t).state = "gone" /\ row(t).made = enrol[t].made
  <2>1. enrol[t] \in EnrolToken
    BY DEF FleetTypeOK
  <2> QED
    BY <1>1, <2>1 DEF EnrolToken
<1>3. Revoked(T) = [t \in EnrolTokens |-> IF t \in T THEN row(t) ELSE enrol[t]]
  BY DEF Revoked
<1> HIDE DEF row
<1> QED
  BY <1>2, <1>3 DEF FleetTypeOK

LEMMA GoneRows ==
  ASSUME FleetTypeOK, NEW G
  PROVE  /\ Gone(G) \in [Gateways -> GatewayRow]
         /\ \A g \in Gateways : IF g \in G THEN Gone(G)[g].status = "gone" ELSE Gone(G)[g] = gw[g]
<1> DEFINE row == [NoGateway EXCEPT !.status = "gone"]
<1>1. NoGateway \in GatewayRow
  BY Zenon DEF NoGateway, GatewayRow
<1>2. row \in GatewayRow /\ row.status = "gone"
  BY <1>1 DEF GatewayRow
<1>3. Gone(G) = [g \in Gateways |-> IF g \in G THEN row ELSE gw[g]]
  BY DEF Gone
<1> HIDE DEF row
<1> QED
  BY <1>2, <1>3 DEF FleetTypeOK

\* What generateAll reads.
LEMMA SameSnapshot ==
  ASSUME gw' = gw, range' = range, \A g \in Gateways : Active(g) => site'[gw[g].site] = site[gw[g].site]
  PROVE  Snapshot' = Snapshot
<1>1. \A g \in Gateways : Active(g)' <=> Active(g)
  BY DEF Active
<1>2. {h \in Gateways : Active(h)'} = {h \in Gateways : Active(h)}
  BY <1>1
<1> QED
  BY <1>2 DEF Snapshot

\* What a change of the tables and its bump do to the rest of the invariant.
LEMMA BumpKeeps ==
  ASSUME IInv, NEW G \in SUBSET Gateways, Bump(G), served' = Nothing,
         \A g \in Gateways \ G : Active(g) => Active(g)'
  PROVE  /\ CacheIsCurrent' /\ AwaitedIsKnown' /\ LiveIsInMesh' /\ ServedIsGood'
         /\ (live \union awaited)' \subseteq Gateways
<1>1. live \subseteq Gateways /\ awaited \subseteq Gateways
  BY DEF IInv, FleetTypeOK
<1>2. CacheIsCurrent' /\ ServedIsGood'
  BY DEF CacheIsCurrent, ServedIsGood, Bump
<1>3. AwaitedIsKnown'
  BY <1>1 DEF IInv, AwaitedIsKnown, Bump
<1>4. LiveIsInMesh'
  BY <1>1 DEF IInv, LiveIsInMesh, Bump
<1> QED
  BY <1>1, <1>2, <1>3, <1>4 DEF Bump

\* A step that leaves the memory and the gateways alone.
LEMMA QuietKeeps ==
  ASSUME IInv, gw' = gw, range' = range, UNCHANGED <<cache, live, awaited, gaveUp>>, served' = Nothing,
         \A g \in Gateways : Active(g) => site'[gw[g].site] = site[gw[g].site]
  PROVE  CacheIsCurrent' /\ AwaitedIsKnown' /\ LiveIsInMesh' /\ ServedIsGood'
<1>1. Snapshot' = Snapshot
  BY SameSnapshot
<1>2. CacheIsCurrent' /\ ServedIsGood'
  BY <1>1 DEF IInv, CacheIsCurrent, ServedIsGood
<1>3. AwaitedIsKnown' /\ LiveIsInMesh'
  BY DEF IInv, AwaitedIsKnown, LiveIsInMesh, Active
<1> QED
  BY <1>2, <1>3

LEMMA CacheOrNow == CacheIsCurrent => Generated = Snapshot
  BY DEF CacheIsCurrent, Generated

\* An answer made from what is generated.
LEMMA AnswersGood ==
  ASSUME CacheIsCurrent, UNCHANGED tables, NEW g,
         served' = [to |-> g, conf |-> IF g \in Held(Generated) \/ g \notin DOMAIN Generated THEN Nothing
                                       ELSE Generated]
  PROVE  ServedIsGood'
<1>1. Generated = Snapshot /\ Snapshot' = Snapshot
  BY CacheOrNow, SameSnapshot DEF tables
<1>2. Held(Snapshot)' = Held(Snapshot) /\ (DOMAIN Snapshot)' = DOMAIN Snapshot
  BY <1>1 DEF Held
<1>3. ASSUME served'.conf # Nothing
      PROVE  served'.conf = Snapshot /\ served'.to = g /\ g \in DOMAIN Snapshot /\ g \notin Held(Snapshot)
  BY <1>1, <1>3
<1>4. g \in DOMAIN Snapshot /\ g \notin Held(Snapshot) => Held(Snapshot) = {}
  BY DEF Held
<1> QED
  BY <1>1, <1>2, <1>3, <1>4 DEF ServedIsGood

---------------------------------------------------------------------------
(* Every step keeps the invariant *)

LEMMA ActiveIsHere ==
  ASSUME FleetTypeOK, NEW g \in Gateways, IsThere(g)
  PROVE  gw[g].site \in Sites /\ Here(gw[g].site)
  BY FleetAssumption DEF FleetTypeOK, Here, GatewayRow, IsThere

LEMMA GatewayStep ==
  ASSUME IInv, FleetTypeOK', TokenRows', CacheIsCurrent', AwaitedIsKnown', LiveIsInMesh', ServedIsGood'
  PROVE  IInv'
  BY DEF IInv

LEMMA NextIInv == IInv /\ [FleetNext]_fleetVars => IInv'
<1> SUFFICES ASSUME IInv, [FleetNext]_fleetVars PROVE IInv'
  OBVIOUS
<1>1. ASSUME NEW s \in Sites, NEW n \in Nets, CreateSite(s, n) PROVE IInv'
  <2>1. \A g \in Gateways : IsThere(g) => site'[gw[g].site] = site[gw[g].site] /\ gw[g].site # s
    BY <1>1, ActiveIsHere, FleetAssumption DEF CreateSite, IInv, FleetTypeOK, Here
  <2>2. \A q \in Sites : Here(q) => Here(q)'
    BY <1>1 DEF CreateSite, Here, IInv, FleetTypeOK
  <2>3. FleetTypeOK'
    BY <1>1, <2>1, <2>2 DEF CreateSite, IInv, FleetTypeOK, IsThere, Here
  <2>4. CacheIsCurrent' /\ AwaitedIsKnown' /\ LiveIsInMesh' /\ ServedIsGood'
    BY <1>1, <2>1, QuietKeeps DEF CreateSite, Active, IsThere
  <2> QED
    BY <1>1, <2>3, <2>4 DEF CreateSite, IInv, TokenRows
<1>2. ASSUME NEW s \in Sites, NEW n \in Nets, UpdateLan(s, n) PROVE IInv'
  <2>1. \A q \in Sites \union {Nothing} : Here(q) => Here(q)'
    BY <1>2 DEF UpdateLan, Here, IInv, FleetTypeOK
  <2>2. CacheIsCurrent' /\ AwaitedIsKnown' /\ LiveIsInMesh' /\ ServedIsGood' /\ (live \union awaited)' \subseteq Gateways
    BY <1>2, BumpKeeps DEF UpdateLan, Active
  <2>3. FleetTypeOK'
    BY <1>2, <2>1, <2>2 DEF UpdateLan, IInv, FleetTypeOK, IsThere, GatewayRow, EnrolToken
  <2> QED
    BY <1>2, <2>2, <2>3 DEF UpdateLan, IInv, TokenRows
<1>3. ASSUME NEW s \in Sites, DeleteSite(s) PROVE IInv'
  <2> DEFINE G == GatewaysOf(s)
  <2>1. /\ gw' \in [Gateways -> GatewayRow]
        /\ \A g \in Gateways : IF g \in G THEN gw'[g].status = "gone" ELSE gw'[g] = gw[g]
    BY <1>3, GoneRows DEF DeleteSite, IInv
  <2>2. /\ enrol' \in [EnrolTokens -> EnrolToken]
        /\ \A t \in EnrolTokens : IF enrol[t].site = s THEN enrol'[t].state = "gone" ELSE enrol'[t] = enrol[t]
    BY <1>3, RevokedRows DEF DeleteSite, IInv
  <2>3. /\ site' \in [Sites -> Nets \union {"new", "gone"}]
        /\ \A q : q # s => site'[q] = site[q]
    BY <1>3 DEF DeleteSite, IInv, FleetTypeOK
  <2>4. G \in SUBSET Gateways /\ \A g \in Gateways \ G : Active(g) => Active(g)'
    BY <2>1 DEF GatewaysOf, Active
  <2>5. CacheIsCurrent' /\ AwaitedIsKnown' /\ LiveIsInMesh' /\ ServedIsGood' /\ (live \union awaited)' \subseteq Gateways
    BY <1>3, <2>4, BumpKeeps DEF DeleteSite
  <2>6. \A g \in Gateways : IsThere(g)' => IsThere(g) /\ gw'[g] = gw[g] /\ gw[g].site # s
    BY <2>1 DEF IsThere, GatewaysOf
  <2>7. \A q \in Sites : q # s => (Here(q) => Here(q)')
    BY <2>3 DEF Here
  <2>8. \A t \in EnrolTokens : enrol'[t].state = "unused" => Here(enrol[t].site)'
    BY <2>2, <2>3 DEF IInv, FleetTypeOK, Here
  <2>9. \A g \in Gateways : IsThere(g)' => Here(gw[g].site)'
    BY <2>3, <2>6 DEF IInv, FleetTypeOK, Here
  <2>10. FleetTypeOK'
    BY <1>3, <2>1, <2>2, <2>3, <2>5, <2>6, <2>8, <2>9 DEF DeleteSite, IInv, FleetTypeOK
  <2>11. TokenRows'
    BY <2>2 DEF IInv, TokenRows
  <2> QED
    BY <2>5, <2>10, <2>11 DEF IInv
<1>4. ASSUME NEW r \in SettingsValues, UpdateSettings(r) PROVE IInv'
  <2>1. CacheIsCurrent' /\ AwaitedIsKnown' /\ LiveIsInMesh' /\ ServedIsGood' /\ (live \union awaited)' \subseteq Gateways
    BY <1>4, BumpKeeps DEF UpdateSettings, Active
  <2> QED
    BY <1>4, <2>1 DEF UpdateSettings, IInv, FleetTypeOK, TokenRows, IsThere, Here
<1>5. ASSUME NEW s \in Sites, NEW t \in EnrolTokens, NEW auto \in BOOLEAN, CreateEnrolToken(s, t, auto) PROVE IInv'
  <2> DEFINE new == [NoToken EXCEPT !.state = "unused", !.site = s, !.auto = auto]
  <2>1. NoToken \in EnrolToken
    BY Zenon DEF NoToken, EnrolToken
  <2>2. new \in EnrolToken /\ new.state = "unused" /\ new.site = s
    BY <2>1 DEF EnrolToken
  <2>3. enrol' = [Revoked(Unused(s)) EXCEPT ![t] = new]
    BY <1>5 DEF CreateEnrolToken
  <2> HIDE DEF new
  <2>4. /\ enrol' \in [EnrolTokens -> EnrolToken]
        /\ \A u \in EnrolTokens : IF u = t THEN enrol'[u] = new
                                  ELSE enrol'[u] = enrol[u] \/ enrol'[u].state = "gone"
    BY <2>2, <2>3, RevokedRows DEF IInv
  <2>5. CacheIsCurrent' /\ AwaitedIsKnown' /\ LiveIsInMesh' /\ ServedIsGood'
    BY <1>5, QuietKeeps DEF CreateEnrolToken
  <2>6. FleetTypeOK'
    BY <1>5, <2>2, <2>4 DEF CreateEnrolToken, IInv, FleetTypeOK, IsThere, Here
  <2>7. TokenRows'
    BY <2>2, <2>4 DEF IInv, TokenRows
  <2> QED
    BY <2>5, <2>6, <2>7 DEF IInv
<1>6. ASSUME NEW t \in EnrolTokens, TokenExpires(t) PROVE IInv'
  <2>1. [enrol[t] EXCEPT !.expired = TRUE] \in EnrolToken
    BY Zenon DEF IInv, FleetTypeOK, EnrolToken
  <2>2. /\ enrol' \in [EnrolTokens -> EnrolToken]
        /\ \A u \in EnrolTokens : /\ enrol'[u].state = enrol[u].state /\ enrol'[u].site = enrol[u].site
                                    /\ enrol'[u].made = enrol[u].made
    BY <1>6, <2>1 DEF TokenExpires, IInv, FleetTypeOK, EnrolToken
  <2>3. CacheIsCurrent' /\ AwaitedIsKnown' /\ LiveIsInMesh' /\ ServedIsGood'
    BY <1>6, QuietKeeps DEF TokenExpires
  <2>4. FleetTypeOK'
    BY <1>6, <2>2 DEF TokenExpires, IInv, FleetTypeOK, IsThere, Here
  <2> QED
    BY <2>2, <2>3, <2>4 DEF IInv, TokenRows
<1>7. CASE PruneEnrolTokens
  <2>1. PICK T : enrol' = Revoked(T)
    BY <1>7 DEF PruneEnrolTokens
  <2>2. /\ enrol' \in [EnrolTokens -> EnrolToken]
        /\ \A u \in EnrolTokens : enrol'[u] = enrol[u] \/ enrol'[u].state = "gone"
    BY <2>1, RevokedRows DEF IInv
  <2>3. CacheIsCurrent' /\ AwaitedIsKnown' /\ LiveIsInMesh' /\ ServedIsGood'
    BY <1>7, QuietKeeps DEF PruneEnrolTokens
  <2>4. FleetTypeOK'
    BY <1>7, <2>2 DEF PruneEnrolTokens, IInv, FleetTypeOK, IsThere, Here
  <2> QED
    BY <2>2, <2>3, <2>4 DEF IInv, TokenRows
<1>8. ASSUME NEW g \in Gateways, NEW t \in EnrolTokens, NEW k \in Keys, Enrol(g, t, k) PROVE IInv'
  <2> DEFINE s == enrol[t].site
  <2> DEFINE G == GatewaysOf(s)
  <2> DEFINE row == [status |-> IF enrol[t].auto THEN "active" ELSE "pending", site |-> s, key |-> k]
  <2> DEFINE spent == [enrol[t] EXCEPT !.state = "used", !.made = @ + 1]
  <2>1. enrol[t] \in EnrolToken /\ enrol[t].state = "unused" /\ ~OthersKey(s, k) /\ Replace(g, t, k)
    BY <1>8 DEF Enrol, Refusal, IInv, FleetTypeOK, EnrolToken
  <2>2. s \in Sites /\ Here(s)
    BY <2>1, FleetAssumption DEF IInv, FleetTypeOK, EnrolToken, Here
  <2>3. row \in GatewayRow /\ row.status \in {"active", "pending"} /\ row.site = s /\ row.key = k
    BY <2>2 DEF GatewayRow
  <2>4. spent \in EnrolToken /\ spent.state = "used"
    <3>1. enrol[t].made + 1 \in Nat
      BY <2>1 DEF EnrolToken
    <3>2. [[enrol[t] EXCEPT !.state = "used"] EXCEPT !.made = enrol[t].made + 1] \in EnrolToken
      BY <2>1, <3>1 DEF EnrolToken
    <3> QED
      BY <2>1, <3>1, <3>2 DEF EnrolToken
  <2>5. gw' = [Gone(G) EXCEPT ![g] = row] /\ enrol' = [Revoked(Unused(s)) EXCEPT ![t] = spent]
    BY <2>1 DEF Replace
  <2> HIDE DEF row, spent
  <2>6. /\ gw' \in [Gateways -> GatewayRow]
        /\ gw'[g] = row
        /\ \A h \in Gateways : h # g => IF h \in G THEN gw'[h].status = "gone" ELSE gw'[h] = gw[h]
    BY <2>3, <2>5, GoneRows DEF IInv
  <2>7. /\ enrol' \in [EnrolTokens -> EnrolToken]
        /\ enrol'[t] = spent
        /\ \A u \in EnrolTokens : u # t => enrol'[u] = enrol[u] \/ enrol'[u].state = "gone"
    BY <2>4, <2>5, RevokedRows DEF IInv
  <2>8. G \in SUBSET Gateways /\ \A h \in Gateways \ G : Active(h) => Active(h)'
    BY <2>1, <2>6 DEF GatewaysOf, Active, Replace
  <2>9. CacheIsCurrent' /\ AwaitedIsKnown' /\ LiveIsInMesh' /\ ServedIsGood' /\ (live \union awaited)' \subseteq Gateways
    BY <2>1, <2>8, BumpKeeps DEF Replace
  <2>10. \A h \in Gateways : h # g /\ IsThere(h)' => IsThere(h) /\ gw'[h] = gw[h] /\ gw[h].site # s
    BY <2>6 DEF IsThere, GatewaysOf
  <2>11. \A h \in Gateways : h # g /\ IsThere(h)' => gw[h].key # k
    BY <2>1, <2>10 DEF OthersKey
  <2>12. k \notin ClientKeys
    BY <2>1 DEF OthersKey
  <2>13. \A h \in Gateways : IsThere(h)' => Here(gw[h].site)' /\ gw'[h].key \in Keys \ ClientKeys
    <3>1. ASSUME NEW h \in Gateways, IsThere(h)', h = g PROVE Here(gw[h].site)' /\ gw'[h].key \in Keys \ ClientKeys
      BY <2>1, <2>2, <2>3, <2>6, <2>12, <3>1 DEF Replace, Here
    <3>2. ASSUME NEW h \in Gateways, IsThere(h)', h # g PROVE Here(gw[h].site)' /\ gw'[h].key \in Keys \ ClientKeys
      BY <2>1, <2>10, <3>2 DEF IInv, FleetTypeOK, Replace, Here
    <3> QED
      BY <3>1, <3>2
  <2>14. \A h, j \in Gateways : IsThere(h)' /\ IsThere(j)' /\ h # j => gw'[h].site # gw'[j].site /\ gw'[h].key # gw'[j].key
    <3>1. ASSUME NEW h \in Gateways, IsThere(h)', h # g
          PROVE gw'[h].site # gw'[g].site /\ gw'[h].key # gw'[g].key
      BY <2>3, <2>6, <2>10, <2>11, <3>1
    <3>2. ASSUME NEW h \in Gateways, NEW j \in Gateways, IsThere(h)', IsThere(j)', h # j, h # g, j # g
          PROVE gw'[h].site # gw'[j].site /\ gw'[h].key # gw'[j].key
      BY <2>10, <3>2 DEF IInv, FleetTypeOK
    <3> QED
      BY <3>1, <3>2
  <2>15. \A u \in EnrolTokens : enrol'[u].state = "unused" => Here(enrol[u].site)'
    BY <2>1, <2>4, <2>7 DEF IInv, FleetTypeOK, Replace, Here
  <2>16. FleetTypeOK'
    BY <2>1, <2>6, <2>7, <2>9, <2>13, <2>14, <2>15 DEF IInv, FleetTypeOK, Replace
  <2>17. TokenRows'
    BY <2>4, <2>7 DEF IInv, TokenRows
  <2> QED
    BY <2>9, <2>16, <2>17 DEF IInv
<1>9. ASSUME NEW g \in Gateways, NEW status \in {"active", "disabled"}, SetStatus(g, status) PROVE IInv'
  <2> DEFINE G == IF status = "disabled" THEN {g} ELSE {}
  <2>1. [gw[g] EXCEPT !.status = status] \in GatewayRow
    BY DEF IInv, FleetTypeOK, GatewayRow
  <2>2. /\ gw' \in [Gateways -> GatewayRow]
        /\ gw'[g].status = status
        /\ \A h \in Gateways : gw'[h].site = gw[h].site /\ gw'[h].key = gw[h].key /\ (IsThere(h)' <=> IsThere(h))
        /\ \A h \in Gateways : h # g => gw'[h] = gw[h]
    BY <1>9, <2>1 DEF SetStatus, IInv, FleetTypeOK, GatewayRow, IsThere
  <2>3. G \in SUBSET Gateways /\ \A h \in Gateways \ G : Active(h) => Active(h)'
    BY <2>2 DEF Active
  <2>4. CacheIsCurrent' /\ AwaitedIsKnown' /\ LiveIsInMesh' /\ ServedIsGood' /\ (live \union awaited)' \subseteq Gateways
    BY <1>9, <2>3, BumpKeeps DEF SetStatus
  <2>5. FleetTypeOK'
    BY <1>9, <2>2, <2>4 DEF SetStatus, IInv, FleetTypeOK, Here
  <2> QED
    BY <1>9, <2>4, <2>5 DEF SetStatus, IInv, TokenRows
<1>10. ASSUME NEW g \in Gateways, RemoveGateway(g) PROVE IInv'
  <2>1. /\ gw' \in [Gateways -> GatewayRow]
        /\ \A h \in Gateways : IF h = g THEN gw'[h].status = "gone" ELSE gw'[h] = gw[h]
    BY <1>10, GoneRows DEF RemoveGateway, IInv
  <2>2. \A h \in Gateways \ {g} : Active(h) => Active(h)'
    BY <2>1 DEF Active
  <2>3. CacheIsCurrent' /\ AwaitedIsKnown' /\ LiveIsInMesh' /\ ServedIsGood' /\ (live \union awaited)' \subseteq Gateways
    BY <1>10, <2>2, BumpKeeps DEF RemoveGateway
  <2>4. \A h \in Gateways : IsThere(h)' => IsThere(h) /\ gw'[h] = gw[h]
    BY <2>1 DEF IsThere
  <2>5. FleetTypeOK'
    BY <1>10, <2>1, <2>3, <2>4 DEF RemoveGateway, IInv, FleetTypeOK, Here
  <2> QED
    BY <1>10, <2>3, <2>5 DEF RemoveGateway, IInv, TokenRows
<1>11. ASSUME UNCHANGED tables, (live \union awaited)' \subseteq Gateways PROVE FleetTypeOK' /\ TokenRows' /\ Snapshot' = Snapshot
  BY <1>11, SameSnapshot DEF tables, IInv, FleetTypeOK, TokenRows, IsThere, Here
<1>12. ASSUME NEW g \in Gateways, BeginReport(g) PROVE IInv'
  <2>1. FleetTypeOK' /\ TokenRows' /\ Snapshot' = Snapshot
    BY <1>11, <1>12 DEF BeginReport, IInv, FleetTypeOK
  <2>2. CacheIsCurrent'
    BY <1>12, <2>1, CacheOrNow DEF BeginReport, IInv, CacheIsCurrent
  <2>3. ServedIsGood'
    BY <1>12, AnswersGood DEF BeginReport, IInv
  <2>4. AwaitedIsKnown' /\ LiveIsInMesh'
    BY <1>12 DEF BeginReport, IInv, AwaitedIsKnown, LiveIsInMesh, Active, tables
  <2> QED
    BY <2>1, <2>2, <2>3, <2>4 DEF IInv
<1>13. ASSUME NEW g \in Gateways, StoreReport(g) PROVE IInv'
  <2>1. FleetTypeOK' /\ TokenRows' /\ Snapshot' = Snapshot
    BY <1>11, <1>13 DEF StoreReport, IInv, FleetTypeOK
  <2>2. CacheIsCurrent' /\ ServedIsGood'
    BY <1>13, <2>1, CacheOrNow DEF StoreReport, IInv, CacheIsCurrent, ServedIsGood
  <2>3. AwaitedIsKnown' /\ LiveIsInMesh'
    BY <1>13 DEF StoreReport, IInv, AwaitedIsKnown, LiveIsInMesh, Active, tables
  <2> QED
    BY <2>1, <2>2, <2>3 DEF IInv
<1>14. ASSUME NEW g \in Gateways, ReportFails(g) PROVE IInv'
  <2>1. FleetTypeOK' /\ TokenRows' /\ Snapshot' = Snapshot
    BY <1>11, <1>14 DEF ReportFails, IInv, FleetTypeOK
  <2>2. CacheIsCurrent' /\ ServedIsGood'
    BY <1>14, <2>1 DEF ReportFails, IInv, CacheIsCurrent, ServedIsGood
  <2>3. AwaitedIsKnown' /\ LiveIsInMesh'
    BY <1>14 DEF ReportFails, IInv, AwaitedIsKnown, LiveIsInMesh, Active, tables
  <2> QED
    BY <2>1, <2>2, <2>3 DEF IInv
<1>15. ASSUME NEW g \in Gateways, FetchConfig(g) PROVE IInv'
  <2>1. FleetTypeOK' /\ TokenRows' /\ Snapshot' = Snapshot
    BY <1>11, <1>15 DEF FetchConfig, IInv, FleetTypeOK
  <2>2. CacheIsCurrent'
    BY <1>15, <2>1, CacheOrNow DEF FetchConfig, IInv, CacheIsCurrent
  <2>3. ServedIsGood'
    BY <1>15, AnswersGood DEF FetchConfig, IInv
  <2>4. AwaitedIsKnown' /\ LiveIsInMesh'
    BY <1>15 DEF FetchConfig, IInv, AwaitedIsKnown, LiveIsInMesh, Active, tables
  <2> QED
    BY <2>1, <2>2, <2>3, <2>4 DEF IInv
<1>16. CASE StopController
  <2>1. FleetTypeOK' /\ TokenRows'
    BY <1>11, <1>16 DEF StopController
  <2> QED
    BY <1>16, <2>1 DEF StopController, IInv, CacheIsCurrent, ServedIsGood, AwaitedIsKnown, LiveIsInMesh
<1>17. CASE UNCHANGED fleetVars
  <2>1. FleetTypeOK' /\ TokenRows' /\ Snapshot' = Snapshot
    BY <1>11, <1>17 DEF fleetVars, tables, IInv, FleetTypeOK
  <2>2. Held(Snapshot)' = Held(Snapshot) /\ (DOMAIN Snapshot)' = DOMAIN Snapshot
    BY <2>1 DEF Held
  <2> QED
    BY <1>17, <2>1, <2>2 DEF fleetVars, IInv, CacheIsCurrent, ServedIsGood, AwaitedIsKnown, LiveIsInMesh, Active
<1> QED
  BY <1>1, <1>2, <1>3, <1>4, <1>5, <1>6, <1>7, <1>8, <1>9, <1>10, <1>12, <1>13, <1>14, <1>15, <1>16, <1>17 DEF FleetNext

LEMMA Invariant == FleetSpec => []IInv
  BY InitIInv, NextIInv, PTL DEF FleetSpec

\* The tables stay well formed: a gateway's site exists, a site has one gateway
\* and a key one owner, through enrolments, replacements and cascades.
THEOREM TypeCorrect == FleetSpec => []FleetTypeOK
<1>1. IInv => FleetTypeOK
  BY DEF IInv
<1> QED
  BY <1>1, Invariant, PTL

\* Agents are told to run, and given, what the tables say at that moment, and
\* never what is held.
THEOREM AlwaysServesGood == FleetSpec => []ServedIsGood
<1>1. IInv => ServedIsGood
  BY DEF IInv
<1> QED
  BY <1>1, Invariant, PTL

\* What is live is of gateways in the mesh, but for reports whose bodies were on
\* their way.
THEOREM AlwaysLiveInMesh == FleetSpec => []LiveIsInMesh
<1>1. IInv => LiveIsInMesh
  BY DEF IInv
<1> QED
  BY <1>1, Invariant, PTL

---------------------------------------------------------------------------
(* Enrolment tokens are one-time secrets *)

\* No gateway is made, and tokens at most disappear.
OnlyRevokes ==
    /\ \A t \in EnrolTokens : enrol'[t].made = enrol[t].made
    /\ \A t \in EnrolTokens : \/ enrol'[t].state = enrol[t].state
                              \/ enrol[t].state \in {"unused", "used", "gone"} /\ enrol'[t].state = "gone"

LEMMA RevokesTokens ==
  ASSUME OnlyRevokes
  PROVE  \E gone \in SUBSET {t \in EnrolTokens : enrol[t].state = "unused"} : EnrolOnce!Withdraw(gone)
<1> DEFINE gone == {t \in EnrolTokens : enrol[t].state = "unused" /\ enrol'[t].state = "gone"}
<1>1. EnrolOnce!Withdraw(gone)
  BY DEF OnlyRevokes, EnrolOnce!Withdraw
<1>2. gone \in SUBSET {t \in EnrolTokens : enrol[t].state = "unused"}
  OBVIOUS
<1> HIDE DEF gone
<1> QED
  BY <1>1, <1>2, Zenon DEF EnrolOnce!Withdraw

LEMMA RevokedOnly ==
  ASSUME IInv, NEW T, \A t \in T \intersect EnrolTokens : enrol[t].state # "new", enrol' = Revoked(T)
  PROVE  OnlyRevokes
<1> SUFFICES ASSUME NEW t \in EnrolTokens
             PROVE  /\ enrol'[t].made = enrol[t].made
                    /\ \/ enrol'[t].state = enrol[t].state
                       \/ enrol[t].state \in {"unused", "used", "gone"} /\ enrol'[t].state = "gone"
  BY DEF OnlyRevokes
<1>1. enrol[t] \in EnrolToken
  BY DEF IInv, FleetTypeOK
<1> QED
  BY <1>1, RevokedRows DEF IInv, EnrolToken

LEMMA IssuesToken ==
  ASSUME IInv, NEW s \in Sites, NEW t \in EnrolTokens, NEW auto \in BOOLEAN, CreateEnrolToken(s, t, auto)
  PROVE  \E gone \in SUBSET {u \in EnrolTokens : enrol[u].state = "unused"} : EnrolOnce!Issue(t, gone)
<1> DEFINE gone == Unused(s)
<1> DEFINE new == [NoToken EXCEPT !.state = "unused", !.site = s, !.auto = auto]
<1>1. new.state = "unused" /\ new.made = 0
  BY DEF NoToken
<1>2. enrol[t].state = "new" /\ enrol[t].made = 0 /\ enrol' = [Revoked(Unused(s)) EXCEPT ![t] = new]
  BY DEF CreateEnrolToken, IInv, TokenRows
<1> HIDE DEF new
<1>3. \A u \in EnrolTokens : IF u = t THEN enrol'[u] = new
                             ELSE IF u \in gone THEN enrol'[u].state = "gone" /\ enrol'[u].made = enrol[u].made
                             ELSE enrol'[u] = enrol[u]
  BY <1>2, RevokedRows DEF IInv
<1>4. EnrolOnce!Issue(t, gone)
  BY <1>1, <1>2, <1>3 DEF EnrolOnce!Issue, Unused
<1>5. gone \in SUBSET {u \in EnrolTokens : enrol[u].state = "unused"}
  BY DEF Unused
<1> HIDE DEF gone
<1> QED
  BY <1>4, <1>5, Zenon DEF EnrolOnce!Issue

LEMMA SpendsToken ==
  ASSUME IInv, NEW g \in Gateways, NEW t \in EnrolTokens, NEW k \in Keys, Enrol(g, t, k)
  PROVE  \E gone \in SUBSET {u \in EnrolTokens : enrol[u].state = "unused"} : EnrolOnce!Spend(t, gone)
<1> DEFINE gone == Unused(enrol[t].site)
<1> DEFINE spent == [enrol[t] EXCEPT !.state = "used", !.made = @ + 1]
<1>1. enrol[t] \in EnrolToken
  BY DEF IInv, FleetTypeOK
<1>2. enrol[t].state = "unused" /\ enrol' = [Revoked(gone) EXCEPT ![t] = spent]
  BY <1>1 DEF Enrol, Refusal, Replace, EnrolToken
<1>3. spent.state = "used" /\ spent.made = enrol[t].made + 1
  BY <1>1 DEF EnrolToken
<1> HIDE DEF spent
<1>4. \A u \in EnrolTokens : IF u = t THEN enrol'[u] = spent
                             ELSE IF u \in gone THEN enrol'[u].state = "gone" /\ enrol'[u].made = enrol[u].made
                             ELSE enrol'[u] = enrol[u]
  BY <1>2, RevokedRows DEF IInv
<1>5. EnrolOnce!Spend(t, gone)
  <2> DEFINE good == {u \in EnrolTokens : enrol[u].state = "unused"}
  <2> DEFINE over == {u \in EnrolTokens : enrol[u].state \in {"used", "gone"}}
  <2>1. t \in good /\ gone \subseteq good
    BY <1>2 DEF Unused
  <2>2. {u \in EnrolTokens : enrol'[u].state = "unused"} = good \ ({t} \union gone)
    BY <1>3, <1>4
  <2>3. {u \in EnrolTokens : enrol'[u].state \in {"used", "gone"}} = (over \union {t}) \union gone
    BY <1>3, <1>4, <2>1
  <2>4. [u \in EnrolTokens |-> enrol'[u].made]
          = [[u \in EnrolTokens |-> enrol[u].made] EXCEPT ![t] = @ + 1]
    BY <1>3, <1>4
  <2> QED
    BY <2>1, <2>2, <2>3, <2>4 DEF EnrolOnce!Spend
<1>6. gone \in SUBSET {u \in EnrolTokens : enrol[u].state = "unused"}
  BY DEF Unused
<1> HIDE DEF gone
<1> QED
  BY <1>5, <1>6, Zenon DEF EnrolOnce!Spend

LEMMA StepIsShot == IInv /\ [FleetNext]_fleetVars => [EnrolOnce!ShotNext]_(EnrolOnce!shotVars)
<1> SUFFICES ASSUME IInv, [FleetNext]_fleetVars
             PROVE  EnrolOnce!ShotNext \/ UNCHANGED EnrolOnce!shotVars
  OBVIOUS
<1>1. ASSUME OnlyRevokes PROVE EnrolOnce!ShotNext
  BY <1>1, RevokesTokens DEF EnrolOnce!ShotNext
<1>2. ASSUME enrol' = enrol PROVE EnrolOnce!ShotNext
  BY <1>1, <1>2 DEF OnlyRevokes
<1>3. ASSUME NEW s \in Sites, DeleteSite(s) PROVE EnrolOnce!ShotNext
  <2>1. \A t \in EnrolTokens : enrol[t].site = s => enrol[t].state # "new"
    BY FleetAssumption DEF IInv, TokenRows
  <2> QED
    BY <1>1, <1>3, <2>1, RevokedOnly DEF DeleteSite
<1>4. ASSUME NEW s \in Sites, NEW t \in EnrolTokens, NEW auto \in BOOLEAN, CreateEnrolToken(s, t, auto)
      PROVE  EnrolOnce!ShotNext
  BY <1>4, IssuesToken DEF EnrolOnce!ShotNext
<1>5. ASSUME NEW t \in EnrolTokens, TokenExpires(t) PROVE EnrolOnce!ShotNext
  <2>1. \A u \in EnrolTokens : enrol'[u].state = enrol[u].state /\ enrol'[u].made = enrol[u].made
    BY <1>5 DEF TokenExpires, IInv, FleetTypeOK, EnrolToken
  <2> QED
    BY <1>1, <2>1 DEF OnlyRevokes
<1>6. CASE PruneEnrolTokens
  <2>1. PICK T \in SUBSET EnrolTokens : (\A t \in T : enrol[t].state \in {"used", "unused"}) /\ enrol' = Revoked(T)
    BY <1>6 DEF PruneEnrolTokens
  <2> QED
    BY <1>1, <2>1, RevokedOnly
<1>7. ASSUME NEW g \in Gateways, NEW t \in EnrolTokens, NEW k \in Keys, Enrol(g, t, k) PROVE EnrolOnce!ShotNext
  BY <1>7, SpendsToken DEF EnrolOnce!ShotNext
<1>8. CASE UNCHANGED fleetVars
  BY <1>2, <1>8 DEF fleetVars
<1>9. ASSUME NEW s \in Sites, NEW n \in Nets, CreateSite(s, n) \/ UpdateLan(s, n) PROVE EnrolOnce!ShotNext
  BY <1>2, <1>9 DEF CreateSite, UpdateLan
<1>10. ASSUME NEW r \in SettingsValues, UpdateSettings(r) PROVE EnrolOnce!ShotNext
  BY <1>2, <1>10 DEF UpdateSettings
<1>11. ASSUME NEW g \in Gateways, NEW status \in {"active", "disabled"}, SetStatus(g, status) PROVE EnrolOnce!ShotNext
  BY <1>2, <1>11 DEF SetStatus
<1>12. ASSUME NEW g \in Gateways, RemoveGateway(g) \/ BeginReport(g) \/ StoreReport(g) \/ ReportFails(g) \/ FetchConfig(g)
       PROVE  EnrolOnce!ShotNext
  BY <1>2, <1>12 DEF RemoveGateway, BeginReport, StoreReport, ReportFails, FetchConfig, tables
<1>13. CASE StopController
  BY <1>2, <1>13 DEF StopController, tables
<1> QED
  BY <1>3, <1>4, <1>5, <1>6, <1>7, <1>8, <1>9, <1>10, <1>11, <1>12, <1>13 DEF FleetNext

\* A token makes one gateway in its life, whatever else happens to it: the
\* tokens keep the promise of a one-time secret.
THEOREM TokensImplementOneShot == FleetSpec => TokensAreOneShot
<1>1. FleetInit => EnrolOnce!ShotInit
  BY DEF FleetInit, NoToken, EnrolOnce!ShotInit
<1> QED
  BY <1>1, Invariant, StepIsShot, PTL DEF FleetSpec, TokensAreOneShot, EnrolOnce!ShotSpec
====
