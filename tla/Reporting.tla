------------------------------ MODULE Reporting ------------------------------
(***************************************************************************)
(* How often a gateway reports and which of its reports the controller      *)
(* keeps (agent/commands.go, src/server/live.ts, src/server/telemetry.ts).  *)
(*                                                                          *)
(* The answer to a report says how long to wait before the next: a second   *)
(* while somebody watches the overview, the configured interval otherwise.  *)
(* The controller lets a gateway earn one report per half of the interval   *)
(* it would give now, up to three in hand; the interval it gave last may    *)
(* have been much shorter.  Calls and answers are lost, and the agent then  *)
(* goes back to the interval it was configured with and doubles it.         *)
(*                                                                          *)
(* A step of time is half a second.  Reports in hand are counted in parts,  *)
(* so that a step earns a whole number of them.  The agent's jitter, which  *)
(* only lengthens a wait, is left out, and an apply takes no time.          *)
(***************************************************************************)
EXTENDS Integers

CONSTANTS
    Intervals,    \* configured intervals, in steps: even numbers
    Part,         \* parts of one report: a multiple of half of each interval
    FastGrace,    \* FAST_MODE_GRACE_MS
    LongestPause, \* maxReportBackoff
    StepBack,     \* how far the controller's clock may be set back
    MaxTrouble,   \* bound: calls or answers lost, restarts, clocks set back
    MaxSwitches   \* bound: viewers that come or go, changes of the settings

FastInterval == 2
ReportBurst == 3

ASSUME ReportingAssumption ==
    /\ \A n \in Intervals : n \in Nat /\ n >= FastInterval /\ n % 2 = 0 /\ Part % (n \div 2) = 0
    /\ {Part, FastGrace, LongestPause, StepBack, MaxTrouble, MaxSwitches} \subseteq Nat

VARIABLES
    every,       \* the interval the settings say
    viewing,     \* an overview page is open
    sinceViewed, \* time since the last was closed
    inHand,      \* parts of reports in hand when the last report came
    sinceReport, \* time since then, by the controller's clock
    configured,  \* the interval of the configuration the agent last applied
    pause,       \* the interval it waits now
    slept,       \* how long it has
    failures,    \* reports in a row without an answer
    told,        \* answers in a row that said how long to wait, up to two,
                 \* since the settings last made the interval longer
    lastReport,  \* of the last report: what `told` was, and whether it was kept
    trouble, switches

clocks == <<sinceViewed, sinceReport, slept>>
agentVars == <<configured, pause, failures, told>>
gateVars == <<inHand, lastReport>>
countVars == <<trouble, switches>>
reportingVars == <<every, viewing, clocks, agentVars, gateVars, countVars>>

Least(n, m) == IF n < m THEN n ELSE m
Most(n, m) == IF n > m THEN n ELSE m

\* Longer than it takes to earn all there can be in hand.
Long == ReportBurst * Part

---------------------------------------------------------------------------
(* The controller *)

FastMode == viewing \/ sinceViewed < FastGrace

IntervalNow == IF FastMode THEN FastInterval ELSE every

\* (mutant: one report in hand at most)
HaveOne == Least(Part, inHand + Most(0, sinceReport) * (Part \div (IntervalNow \div 2)))

\* One report is earned per half of the interval in force when a report comes; a
\* clock set back earns nothing.
Have == Least(ReportBurst * Part, inHand + Most(0, sinceReport) * (Part \div (IntervalNow \div 2)))

\* A report comes.  It is answered in any case, and kept if one is in hand.
MeterReport ==
    /\ inHand' = IF Have >= Part THEN Have - Part ELSE Have
    /\ lastReport' = [told |-> told, kept |-> Have >= Part]
    /\ sinceReport' = 0

Switch == switches < MaxSwitches /\ switches' = switches + 1

AddFastViewer ==
    /\ Switch /\ ~viewing /\ viewing' = TRUE
    /\ UNCHANGED <<every, clocks, agentVars, gateVars, trouble>>

RemoveFastViewer ==
    /\ Switch /\ viewing /\ viewing' = FALSE /\ sinceViewed' = 0
    /\ UNCHANGED <<every, sinceReport, slept, agentVars, gateVars, trouble>>

ChangeInterval(n) ==
    /\ Switch /\ n # every /\ every' = n
    /\ told' = IF n > every THEN 0 ELSE told
    /\ UNCHANGED <<viewing, clocks, configured, pause, failures, gateVars, trouble>>

Trouble == trouble < MaxTrouble /\ trouble' = trouble + 1

ControllerRestarts ==
    /\ Trouble
    /\ viewing' = FALSE /\ sinceViewed' = FastGrace /\ inHand' = ReportBurst * Part /\ sinceReport' = 0
    /\ UNCHANGED <<every, slept, agentVars, lastReport, switches>>

\* By the controller's clock the agent then has not waited as told.
ClockSetBack ==
    /\ Trouble
    /\ sinceViewed' = sinceViewed - StepBack /\ sinceReport' = sinceReport - StepBack
    /\ told' = 0
    /\ UNCHANGED <<every, viewing, slept, configured, pause, failures, gateVars, switches>>

---------------------------------------------------------------------------
(* The agent *)

\* The wait after a run of failures: doubled each time up to the longest, and
\* never shorter than the interval it is configured with.
BackoffInterval(n) ==
    IF configured >= LongestPause THEN configured
    ELSE Least(configured * 2 ^ (n - 1), LongestPause)

Waits ==
    /\ slept < pause /\ slept' = slept + 1
    /\ sinceViewed' = IF viewing THEN sinceViewed ELSE Least(sinceViewed + 1, FastGrace)
    /\ sinceReport' = Least(sinceReport + 1, Long)
    /\ UNCHANGED <<every, viewing, agentVars, gateVars, countVars>>

\* It has waited, reports, and is answered; there may be a configuration to
\* apply, and with one that applies comes the configured interval.
IsAnswered(applies) ==
    /\ slept = pause /\ MeterReport
    /\ configured' = IF applies THEN every ELSE configured
    /\ pause' = IF applies THEN every ELSE IntervalNow
    /\ slept' = 0 /\ failures' = 0 /\ told' = Least(told + 1, 2)
    /\ UNCHANGED <<every, viewing, sinceViewed, countVars>>

\* The gateway is pending or disabled: the answer's 15 seconds are not heeded.
NotActive ==
    /\ Switch /\ slept = pause /\ slept' = 0 /\ failures' = 0
    /\ UNCHANGED <<every, viewing, sinceViewed, sinceReport, configured, pause, told, gateVars, trouble>>

\* The call is lost, or its answer after the controller has counted it.
Unanswered(arrives) ==
    /\ Trouble /\ slept = pause
    /\ IF arrives THEN MeterReport ELSE UNCHANGED <<inHand, lastReport, sinceReport>>
    /\ failures' = failures + 1 /\ pause' = BackoffInterval(failures + 1)
    /\ slept' = 0 /\ told' = 0
    /\ UNCHANGED <<every, viewing, sinceViewed, configured, switches>>

\* It reports at once when it starts.
AgentStarts ==
    /\ Trouble
    /\ pause' = configured /\ slept' = configured /\ failures' = 0 /\ told' = 0
    /\ UNCHANGED <<every, viewing, sinceViewed, sinceReport, configured, gateVars, switches>>

---------------------------------------------------------------------------
ReportingInit ==
    /\ every \in Intervals /\ configured = every
    /\ viewing = FALSE /\ sinceViewed = FastGrace
    /\ inHand = ReportBurst * Part /\ sinceReport = 0
    /\ pause = configured /\ slept = pause /\ failures = 0 /\ told = 0
    /\ lastReport = [told |-> 0, kept |-> TRUE] /\ trouble = 0 /\ switches = 0

ReportingNext ==
    \/ AddFastViewer \/ RemoveFastViewer \/ \E n \in Intervals : ChangeInterval(n)
    \/ ControllerRestarts \/ ClockSetBack \/ Waits
    \/ \E applies \in BOOLEAN : IsAnswered(applies)
    \/ NotActive \/ \E arrives \in BOOLEAN : Unanswered(arrives) \/ AgentStarts

ReportingSpec == ReportingInit /\ [][ReportingNext]_reportingVars

---------------------------------------------------------------------------
(* Properties *)

\* A gateway that has waited as long as it was told twice in a row is not refused,
\* however viewers, settings, lost calls, restarts and clocks fell before and
\* between, unless the settings made the interval longer meanwhile (telemetry.ts
\* 91-93: the agent waits at least the interval; one that comes much sooner is not
\* kept).  Once is not enough: after reports whose answers were lost nothing may be
\* in hand, and the last wait may have been the second of an open overview.
ObedientIsKept == lastReport.told = 2 => lastReport.kept
=============================================================================
