----------------------------- MODULE Telemetry -----------------------------
(***************************************************************************)
(* The history of a gateway's reports (src/server/telemetry.ts and          *)
(* app/api/agent/telemetry).                                                *)
(*                                                                          *)
(* A report is admitted when its request arrives and stored when its body   *)
(* has been read, under the time of its admission.  With a report before it *)
(* to take a difference from it becomes a sample; a pass every minute       *)
(* averages samples into minutes and minutes into hours, and drops what is  *)
(* too old.  Where the last pass stopped is remembered in memory only.  The *)
(* controller may be down for any length of time, its clock may be set      *)
(* back, and passes may be late.                                            *)
(*                                                                          *)
(* Time is in ticks; minutes, hours and what is kept are CONSTANTS in the   *)
(* order the code has them in, not in its proportions.  A row is the set of *)
(* samples its average was taken of.                                        *)
(***************************************************************************)
EXTENDS Naturals, FiniteSets, FiniteSetsExt

CONSTANTS
    Minute, Hour,                    \* MIN and HOUR, in ticks
    KeepRaw, KeepMinutes, KeepHours, \* RETENTION
    RateGap,                         \* the longest time a rate is taken over
    MaxTime, MaxBack,                \* bounds: the clock, the times it is set back,
    MaxPending, MaxStored            \* the bodies awaited at once, the samples

ASSUME TelemetryAssumption ==
    /\ {Minute, Hour} \subseteq Nat \ {0} /\ Hour % Minute = 0
    /\ {KeepRaw, KeepMinutes, KeepHours} \subseteq Nat
    /\ KeepRaw >= Minute /\ KeepMinutes >= Hour /\ KeepHours >= Hour
    /\ {RateGap, MaxTime, MaxBack, MaxPending, MaxStored} \subseteq Nat

VARIABLES
    clock,     \* now()
    newest,    \* history: the latest it has been
    backs,     \* how often it was set back
    pending,   \* admitted reports whose bodies are awaited, by the time of admission
    last,      \* when the gateway's live report was admitted
    raw,       \* telemetry_5s
    minutes,   \* telemetry_1m
    hours,     \* telemetry_1h
    mark,      \* where the previous pass stopped
    stored,    \* history: every sample stored
    late,      \* history: those stored when a pass had been over their minute
    passed     \* history: the end of the last complete minute a pass has seen

telemetryVars == <<clock, newest, backs, pending, last, raw, minutes, hours, mark, stored, late, passed>>
history == <<raw, minutes, hours, mark, stored, late, passed>>

Times == 0..MaxTime
Never == MaxTime + 1     \* no report, no mark
Start(t, u) == (t \div u) * u
Starts(u) == {t \in Times : t % u = 0}
NoRows(u) == [t \in Starts(u) |-> {}]

TelemetryInit ==
    /\ clock = 0 /\ newest = 0 /\ backs = 0
    /\ pending = {}
    /\ last = Never
    /\ raw = {} /\ minutes = NoRows(Minute) /\ hours = NoRows(Hour)
    /\ mark = Never
    /\ stored = {} /\ late = {} /\ passed = 0

---------------------------------------------------------------------------
(* Reports *)

Larger(a, b) == IF a > b THEN a ELSE b

\* admitTelemetry lets a report in; one that comes too soon is not read.
AdmitReport ==
    /\ Cardinality(pending) < MaxPending
    /\ pending' = pending \union {clock}
    /\ UNCHANGED <<clock, newest, backs, last, history>>

\* ingest: a report not long before this one, so that there are rates.
HasRates(t) == last # Never /\ last < t /\ t - last <= RateGap

\* storeTelemetry, for the report admitted at t.
StoreTelemetry(t) ==
    /\ t \in pending
    /\ Cardinality(stored \union {t}) <= MaxStored
    /\ pending' = pending \ {t}
    /\ last' = t
    /\ IF HasRates(t)
       THEN /\ raw' = raw \union {t}
            /\ stored' = stored \union {t}
            /\ late' = IF t < passed /\ t \notin raw THEN late \union {t} ELSE late
       ELSE UNCHANGED <<raw, stored, late>>
    /\ UNCHANGED <<clock, newest, backs, minutes, hours, mark, passed>>

\* The body is too large, no report at all, or the connection is gone.
BodyFails(t) ==
    /\ t \in pending
    /\ pending' = pending \ {t}
    /\ UNCHANGED <<clock, newest, backs, last, history>>

\* forget: the gateway was removed or replaced.
Forget ==
    /\ last # Never
    /\ last' = Never
    /\ UNCHANGED <<clock, newest, backs, pending, history>>

---------------------------------------------------------------------------
(* Rollups *)

Oldest(S, u) == IF S = {} THEN Never ELSE Start(Min(S), u)

\* Where a pass begins: where the last one stopped, or, after a start or when the
\* clock is behind it, with the oldest row there is.
From(m, end, S, u) == IF m <= end THEN m ELSE Oldest(S, u)

\* INSERT OR IGNORE of the average of what `in` has for every complete unit.
Rolled(rows, u, from, end, in) ==
    [t \in Starts(u) |-> IF rows[t] = {} /\ from <= t /\ t < end THEN {s \in in : Start(s, u) = t} ELSE rows[t]]

Pruned5s(rows, keep) == {t \in rows : t + keep >= clock}
PrunedRows(rows, keep) == [t \in DOMAIN rows |-> IF t + keep >= clock THEN rows[t] ELSE {}]

\* (mutant: what is too old goes before it is averaged)
MinuteRowsOfKept ==
    LET end == Start(clock, Minute)
        kept == Pruned5s(raw, KeepRaw)
    IN  Rolled(minutes, Minute, From(mark, end, kept, Minute), end, kept)

MinuteRows == LET end == Start(clock, Minute) IN
    Rolled(minutes, Minute, From(mark, end, raw, Minute), end, raw)
RowStarts(rows) == {t \in DOMAIN rows : rows[t] # {}}
HourRows == LET end == Start(clock, Hour)
                from == IF mark = Never THEN Never ELSE Start(mark, Hour)
            IN Rolled(hours, Hour, From(from, end, RowStarts(MinuteRows), Hour), end,
                      UNION {MinuteRows[m] : m \in Starts(Minute)})

\* runRollups, one transaction; hour and minute of its mark are those of one time.
RunRollups ==
    /\ minutes' = PrunedRows(MinuteRows, KeepMinutes)
    /\ hours' = PrunedRows(HourRows, KeepHours)
    /\ raw' = Pruned5s(raw, KeepRaw)
    /\ mark' = Start(clock, Minute)
    /\ passed' = Larger(passed, Start(clock, Minute))
    /\ UNCHANGED <<clock, newest, backs, pending, last, stored, late>>

---------------------------------------------------------------------------
(* Time and restarts *)

Tick ==
    /\ clock < MaxTime
    /\ clock' = clock + 1
    /\ newest' = Larger(newest, clock + 1)
    /\ UNCHANGED <<backs, pending, last, history>>

SetBack ==
    /\ backs < MaxBack /\ clock > 0
    /\ backs' = backs + 1
    /\ \E d \in {1, Hour} : d <= clock /\ clock' = clock - d
    /\ UNCHANGED <<newest, pending, last, history>>

\* The process ends and is started; what was in memory is gone.
RestartController ==
    /\ mark # Never \/ pending # {} \/ last # Never
    /\ mark' = Never
    /\ pending' = {}
    /\ last' = Never
    /\ UNCHANGED <<clock, newest, backs, raw, minutes, hours, stored, late, passed>>

TelemetryNext ==
    \/ AdmitReport \/ Forget \/ RunRollups \/ Tick \/ SetBack \/ RestartController
    \/ \E t \in pending : StoreTelemetry(t) \/ BodyFails(t)

TelemetrySpec == TelemetryInit /\ [][TelemetryNext]_telemetryVars

---------------------------------------------------------------------------
(* Properties *)

\* Every sample is to be found in some table until two years are over, however
\* long the controller was down and however late a pass: it is averaged before
\* it is dropped.  The exception is a sample stored after a pass over its minute
\* (telemetry.ts:207-213, 259-264).
NothingLost ==
    \A t \in stored \ late :
        \/ t \in raw \/ t \in minutes[Start(t, Minute)] \/ t \in hours[Start(t, Hour)]
        \/ Start(t, Hour) + KeepHours < newest
=============================================================================
