------------------------------- MODULE MCLive -------------------------------
(* What must eventually happen, and what must then be right: dashboards let  *)
(* go of what they hold, the administrator learns how gateways are, gateways *)
(* find peers that move, and their routes end as the files say.  The parts   *)
(* do not touch each other's state; a behaviour moves one of them.  Gateways *)
(* come to rest, dashboards and alerts never do.                             *)
EXTENDS LiveStreams, Alerts, Reresolve, Routes

CONSTANTS p1, p2, netA, netB, netC, tunnelNet

TwoSites == {1, 2}
TwoNamed == <<p1, p2>>
ThreeConfs == {{netA, netB}, {netB, netC}, {netC, tunnelNet}}

VARIABLE part

MCInit ==
    /\ part \in {"streams", "alerts", "reresolve", "routes"}
    /\ StreamInit /\ AlertInit /\ ReresolveInit /\ RoutesInit
    /\ part # "reresolve" => place = CHOOSE f \in [Peer -> Addresses] : TRUE
    /\ part # "routes" => conf = {netA, netB}

MCNext ==
    /\ UNCHANGED part
    /\ IF part = "streams" THEN StreamNext ELSE UNCHANGED streamVars
    /\ IF part = "alerts" THEN AlertNext ELSE UNCHANGED alertVars
    /\ IF part = "reresolve" THEN ReresolveNext \/ UNCHANGED reresolveVars ELSE UNCHANGED reresolveVars
    /\ IF part = "routes" THEN RoutesNext \/ UNCHANGED routesVars ELSE UNCHANGED routesVars

MCVars == <<part, streamVars, alertVars, reresolveVars, routesVars>>

\* AlertFairness, for the behaviours that move the alerts.
MCAlertFairness ==
    /\ WF_alertVars(part = "alerts" /\ CheckGatewayAlerts)
    /\ WF_alertVars(part = "alerts" /\ (Sent \/ NotSent))
    /\ WF_alertVars(part = "alerts" /\ RetryDue)
    /\ WF_alertVars(part = "alerts" /\ GraceEnds)

MCSpec == MCInit /\ [][MCNext]_MCVars /\ StreamFairness /\ MCAlertFairness /\ ReresolveFairness
=============================================================================
