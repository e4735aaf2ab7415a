------------------------------ MODULE MCCharts ------------------------------
(* The ranges and tables of the code, in the proportions of its RETENTION to *)
(* one another: raw samples are kept for longer than "1h" and not for "6h".  *)
EXTENDS Charts, TLC

MCTicks == ("1h" :> 4) @@ ("6h" :> 6) @@ ("24h" :> 4) @@ ("7d" :> 6) @@ ("30d" :> 8) @@ ("1y" :> 8)
MCTable == ("1h" :> "raw") @@ ("6h" :> "raw") @@ ("24h" :> "minutes") @@ ("7d" :> "minutes")
           @@ ("30d" :> "hours") @@ ("1y" :> "hours")
MCRangeTicks == [r \in Ranges |-> MCTicks[r]]
MCRangeTable == [r \in Ranges |-> MCTable[r]]
=============================================================================
