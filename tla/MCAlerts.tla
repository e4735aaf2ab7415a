------------------------------ MODULE MCAlerts ------------------------------
(* Two sites, taken in their order. *)
EXTENDS Alerts

TwoSites == {1, 2}
=============================================================================
