------------------------------- MODULE Charts -------------------------------
(***************************************************************************)
(* What the dashboard's charts show of a gateway's history: each range is   *)
(* drawn from one of the three tables (src/server/telemetry.ts, siteSeries, *)
(* peerSeries, pairSeries).                                                 *)
(***************************************************************************)
EXTENDS Telemetry

CONSTANTS
    Ranges,       \* the ranges a chart is asked for
    RangeTicks,   \* RANGE_MS
    RangeTable    \* tableFor: "raw", "minutes" or "hours"

\* How long the rows of a table are, and the row a sample is in.
Unit(r) == CASE RangeTable[r] = "raw" -> 1
             [] RangeTable[r] = "minutes" -> Minute
             [] RangeTable[r] = "hours" -> Hour
RowOf(r, t) == Start(t, Unit(r))

\* The samples in the table of range r.
Kept(r) == CASE RangeTable[r] = "raw" -> raw
             [] RangeTable[r] = "minutes" -> UNION {minutes[m] : m \in Starts(Minute)}
             [] RangeTable[r] = "hours" -> UNION {hours[h] : h \in Starts(Hour)}

\* Those a chart of range r is drawn from.
Shown(r) == {t \in Kept(r) : RowOf(r, t) + RangeTicks[r] >= clock}

\* Has a pass completed the row of a sample?
Complete(r, t) == RangeTable[r] = "raw" \/ RowOf(r, t) + Unit(r) <= passed

\* A chart shows every sample of its range whose row is complete ("History
\* ranges ... come from the telemetry tables, choosing the coarsest rollup that
\* fits", docs/ARCHITECTURE.md:763-764).
ChartsComplete ==
    clock = newest => \A r \in Ranges : \A t \in stored \ late :
        RowOf(r, t) + RangeTicks[r] >= clock /\ Complete(r, t) => t \in Shown(r)
=============================================================================
