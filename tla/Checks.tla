------------------------------- MODULE Checks -------------------------------
(***************************************************************************)
(* Health checks of one gateway (src/server/diagnostics.ts, agent/diag.go). *)
(*                                                                          *)
(* The administrator asks; the answer to the gateway's next report carries  *)
(* the request; the agent runs the checks in the background, one run at a   *)
(* time, and posts what it found; the controller keeps it if it answers the *)
(* request there is.  Reports and answers are handled around awaits, may be *)
(* given up by the agent and still arrive, and the agent may be killed.     *)
(*                                                                          *)
(* Of the checks, the one of the site's router is modelled in full: a probe *)
(* for every remote network is steered past the tunnel to the router, which *)
(* sends it back if it has the route.  The others only read the host.       *)
(***************************************************************************)
EXTENDS Naturals, FiniteSets

CONSTANTS
    Remote,          \* networks of other sites
    Wait,            \* AGENT_WAIT_MS, in ticks
    Window,          \* AGENT_ANSWER_WINDOW_MS, in ticks
    LastTick,        \* bounds: the clock, the requests made,
    MaxAsked,
    MaxPosts,        \* the answers on their way at once,
    MaxKills,        \* how often the agent is killed,
    Unset            \* no time, no request, nothing

ASSUME ChecksAssumption ==
    /\ {Wait, Window, LastTick, MaxAsked, MaxPosts, MaxKills} \subseteq Nat
    /\ 0 < Wait /\ Wait <= Window /\ Unset \notin Nat /\ Unset \notin Remote

VARIABLES
    now,         \* the controller's clock
    row,         \* the gateway's row
    asked,       \* how many requests there were
    routed,      \* those the site's router has a route for to this gateway
    own,         \* those whose first host is an address of the gateway itself
    report,      \* the report being answered: the row and the time it began with
    lastDiag,    \* the id of the last request it ran
    busy,        \* diagRunning
    run,         \* runs of the checks
    steered,     \* networks whose probes the rule and the table entry send to the router
    posts,       \* answers on their way
    kills

controllerSide == <<now, row, asked>>
host == <<routed, own>>
agentSide == <<lastDiag, busy, run>>
checksVars == <<controllerSide, host, report, agentSide, steered, posts, kills>>

ChecksInit ==
    /\ now = 0 /\ asked = 0 /\ kills = 0
    /\ row = [active |-> TRUE, requested |-> Unset, answered |-> Unset, kept |-> Unset]
    /\ routed \in SUBSET Remote /\ own \in SUBSET Remote
    /\ report = Unset /\ lastDiag = Unset /\ busy = FALSE
    /\ run = [r \in {1, 2} |-> Unset]
    /\ steered = {} /\ posts = {}

---------------------------------------------------------------------------
(* The controller *)

RequestDiagnostics ==
    /\ asked < MaxAsked
    /\ asked' = asked + 1
    /\ row' = [row EXCEPT !.requested = now]
    /\ UNCHANGED <<now, host, report, agentSide, steered, posts, kills>>

\* The administrator switches the gateway off or on.
SwitchGateway ==
    /\ row' = [row EXCEPT !.active = ~@]
    /\ UNCHANGED <<now, asked, host, report, agentSide, steered, posts, kills>>

Answered(g) == g.answered # Unset /\ g.requested # Unset /\ g.answered >= g.requested

IsPending(g, at) == g.requested # Unset /\ ~Answered(g) /\ at - g.requested < Wait

AwaitingAgentReport(g, at) ==
    g.active /\ g.requested # Unset /\ ~Answered(g) /\ at - g.requested < Window

\* withGateway reads the row; what it does for answers is in PostArrives.
ReportArrives ==
    /\ report = Unset
    /\ report' = [row |-> row, at |-> now]
    /\ UNCHANGED <<controllerSide, host, agentSide, steered, posts, kills>>

\* The route of the agent's answers, up to its await.
PostArrives(p) ==
    /\ p \in posts /\ p.row = Unset
    /\ posts' = (posts \ {p}) \union
                (IF AwaitingAgentReport(row, now) THEN {[p EXCEPT !.row = row]} ELSE {})
    /\ UNCHANGED <<controllerSide, host, report, agentSide, steered, kills>>

\* (mutant: kept for the request the row had before the body was awaited)
StoreAnyway(p) ==
    /\ p \in posts /\ p.row # Unset
    /\ posts' = posts \ {p}
    /\ row' = IF AwaitingAgentReport(p.row, now) /\ p.id = p.row.requested
              THEN [row EXCEPT !.kept = [id |-> p.id, began |-> p.began], !.answered = now] ELSE row
    /\ UNCHANGED <<now, asked, host, report, agentSide, steered, kills>>

\* storeAgentReport, after the await: the row it looks at is the one read before,
\* the row it writes must still have the same request.
StoreAgentReport(p) ==
    /\ p \in posts /\ p.row # Unset
    /\ posts' = posts \ {p}
    /\ row' = IF /\ AwaitingAgentReport(p.row, now) /\ p.id = p.row.requested
                 /\ row.requested = p.row.requested
              THEN [row EXCEPT !.kept = [id |-> p.id, began |-> p.began], !.answered = now] ELSE row
    /\ UNCHANGED <<now, asked, host, report, agentSide, steered, kills>>

TimePasses ==
    /\ now < LastTick
    /\ now' = now + 1
    /\ UNCHANGED <<row, asked, host, report, agentSide, steered, posts, kills>>

---------------------------------------------------------------------------
(* The agent *)

\* What of buildAgentRequest's networks confine may let runDiagnostics test: those
\* the gateway's file names too, and none when the router needs no routes.
Confined == SUBSET Remote

Untested == [n \in Remote |-> "untested"]

NewRun(id, nets) ==
    [id |-> id, began |-> now, todo |-> nets, probing |-> Unset, posted |-> FALSE,
     found |-> Untested]

\* dispatchDiagnostics: a request not seen before starts a run unless one is
\* going; until then it counts as not seen.
DispatchDiagnostics(id) ==
    IF id # lastDiag /\ ~busy
    THEN /\ \E nets \in Confined : run' = [run EXCEPT ![CHOOSE r \in {1, 2} : run[r] = Unset] = NewRun(id, nets)]
         /\ busy' = TRUE /\ lastDiag' = id
    ELSE UNCHANGED agentSide

\* The route of reports, after its await, and the agent's loop with its answer.
ReportAnswered ==
    /\ report # Unset
    /\ report' = Unset
    /\ IF report.row.active /\ IsPending(report.row, report.at)
       THEN DispatchDiagnostics(report.row.requested)
       ELSE UNCHANGED agentSide
    /\ UNCHANGED <<controllerSide, host, steered, posts, kills>>

ReportLost ==
    /\ report # Unset
    /\ report' = Unset
    /\ UNCHANGED <<controllerSide, host, agentSide, steered, posts, kills>>

\* Someone adds a route to the router or takes one out.
RouterChanges(n) ==
    /\ routed' = IF n \in routed THEN routed \ {n} ELSE routed \union {n}
    /\ UNCHANGED <<controllerSide, own, report, agentSide, steered, posts, kills>>

\* routerForwardsToUs sets up the steering, over what a killed run may have left.
\* A tool or a socket may fail; then it takes down what it set up.
ProbeBegins(r, n) ==
    /\ run[r] # Unset /\ run[r].probing = Unset /\ n \in run[r].todo
    /\ \/ /\ run' = [run EXCEPT ![r].probing = n]
          /\ steered' = steered \union {n}
       \/ /\ run' = [run EXCEPT ![r].todo = @ \ {n}, ![r].found[n] = "warn"]
          /\ steered' = steered \ {n}
    /\ UNCHANGED <<controllerSide, host, report, lastDiag, busy, posts, kills>>

\* (mutant: the first host of a network, whoever's address that is)
ProbeFirstHost(n) == "first"

\* probeIpFor: the host of the network that a probe is addressed to.
ProbeIpFor(n) == IF n \in own THEN "last" ELSE "first"

\* The marker comes back on the LAN: the probe is not for the gateway itself,
\* it goes to the router, and the router has the route.
ComesBack(n) == ~(n \in own /\ ProbeIpFor(n) = "first") /\ n \in steered /\ n \in routed

\* The marker is seen, or is not within the deadline; the steering goes.
ProbeEnds(r) ==
    /\ run[r] # Unset /\ run[r].probing # Unset
    /\ LET n == run[r].probing IN
         /\ run' = [run EXCEPT ![r].probing = Unset, ![r].todo = @ \ {n},
                               ![r].found[n] = IF ComesBack(n) THEN "pass" ELSE "fail"]
         /\ steered' = steered \ {n}
    /\ UNCHANGED <<controllerSide, host, report, lastDiag, busy, posts, kills>>

\* SendDiagnostics: the results go with it.
SendAnswer(r) ==
    /\ run[r] # Unset /\ run[r].todo = {} /\ ~run[r].posted
    /\ Cardinality(posts) < MaxPosts
    /\ posts' = posts \union {[id |-> run[r].id, began |-> run[r].began, row |-> Unset]}
    /\ run' = [run EXCEPT ![r].posted = TRUE, ![r].found = Untested]
    /\ UNCHANGED <<controllerSide, host, report, lastDiag, busy, steered, kills>>

\* The answer to it, or none in time: the run is over, the post may still arrive.
RunEnds(r) ==
    /\ run[r] # Unset /\ run[r].posted
    /\ run' = [run EXCEPT ![r] = Unset]
    /\ busy' = FALSE
    /\ UNCHANGED <<controllerSide, host, report, lastDiag, steered, posts, kills>>

PostLost(p) ==
    /\ p \in posts
    /\ posts' = posts \ {p}
    /\ UNCHANGED <<controllerSide, host, report, agentSide, steered, kills>>

\* The agent is killed and started again.
KillAgent ==
    /\ kills < MaxKills /\ (busy \/ lastDiag # Unset)
    /\ kills' = kills + 1
    /\ lastDiag' = Unset /\ busy' = FALSE /\ run' = [r \in {1, 2} |-> Unset]
    /\ report' = Unset
    /\ UNCHANGED <<controllerSide, host, steered, posts>>

ChecksNext ==
    \/ RequestDiagnostics \/ SwitchGateway \/ TimePasses
    \/ ReportArrives \/ ReportAnswered \/ ReportLost
    \/ KillAgent
    \/ \E n \in Remote : RouterChanges(n)
    \/ \E r \in {1, 2} : ProbeEnds(r) \/ SendAnswer(r) \/ RunEnds(r) \/ \E n \in Remote : ProbeBegins(r, n)
    \/ \E p \in posts : PostArrives(p) \/ StoreAgentReport(p) \/ PostLost(p)

ChecksSpec == ChecksInit /\ [][ChecksNext]_checksVars

---------------------------------------------------------------------------
(* Properties *)

\* What the page shows as the answer to the last request is one, and from a run
\* that began after it was made, though runs overlap requests, posts overtake
\* each other, and rows are read before a body is awaited (diagnostics.ts:222-226).
\* A request made in the millisecond of the previous answer counts as answered
\* by that one, and is not handed out (diagnostics.ts:160-162).
KeptIsAnswer ==
    Answered(row) /\ row.requested # row.answered =>
        row.kept.id = row.requested /\ row.kept.began >= row.requested

\* A probe's verdict is the truth about the router when it is reached: probes
\* do not go into the tunnel, to the gateway itself, or lose their steering to
\* another run (diag.go:84-92, 420-425).
RouterVerdictIsTrue ==
    [][\A r \in {1, 2}, n \in Remote :
         run[r] # Unset /\ run'[r] # Unset /\ run[r].found[n] = "untested" =>
             /\ run'[r].found[n] = "pass" => n \in routed
             /\ run'[r].found[n] = "fail" => n \notin routed]_checksVars

\* Both: what the page shows of a health check is what a run found, and one that
\* was asked for.
ShownIsFound == []KeptIsAnswer /\ RouterVerdictIsTrue
=============================================================================
