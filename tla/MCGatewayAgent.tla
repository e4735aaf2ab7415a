--------------------------- MODULE MCGatewayAgent ---------------------------
(* Small instances of GatewayAgent for TLC. *)
EXTENDS GatewayAgent, TLC

CONSTANTS v1, v2, v3, v4, wg0, wg1, s1, s2

\* v1 and v2 differ in peers only; v3 and v4 change the [Interface] section and,
\* where two names are in play, v3 renames the interface, keeping the port.
MCSectionOf == [v \in Versions |-> IF v \in {v3, v4} THEN s2 ELSE s1]
MCOneIface == [v \in Versions |-> wg0]
MCRename == [v \in Versions |-> IF v = v3 THEN wg1 ELSE wg0]
MCPortOf == [s \in Sections |-> 51820]

EverythingFails == Labels
\* everything but saving meta.json at the end of an apply
AllButFinish == Labels \ {"finish"}
=============================================================================
