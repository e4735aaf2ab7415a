-------------------------------- MODULE Routes --------------------------------
(***************************************************************************)
(* The routes on the tunnel's interface when an apply changes only peers:   *)
(* `wg syncconf` leaves them alone, so the agent brings them in line with   *)
(* AllowedIPs one `ip route` at a time, and back again when the apply is    *)
(* undone (agent/wg.go, agent/apply.go).                                    *)
(*                                                                          *)
(* Any command may fail, and somebody at the host may add or delete a route *)
(* between two of them.                                                     *)
(***************************************************************************)
EXTENDS Naturals, Sequences, FiniteSets

CONSTANTS
    Prefixes,    \* prefixes a configuration may list; a default route is none of them
    Covered,     \* those inside the network the kernel connects the interface to
    Confs,       \* the AllowedIPs of the configurations, as sets of prefixes
    MaxRefusals, \* bound: commands that fail
    MaxMeddling, \* bound: routes somebody adds or deletes
    MaxApplies   \* bound: applies

ASSUME RoutesAssumption ==
    /\ Covered \subseteq Prefixes /\ Confs \subseteq SUBSET Prefixes /\ "default" \notin Prefixes
    /\ MaxRefusals \in Nat /\ MaxMeddling \in Nat /\ MaxApplies \in Nat

VARIABLES
    conf,        \* what the files list
    before,      \* what they listed before the apply
    routes,      \* the routes on the interface, the connected one apart
    plan,        \* the commands left: to delete, to add; or nothing under way
    stage,       \* "idle", "apply", or "undo"
    result,      \* of the last apply: "applied", "undone", "unlisted"
    odd,         \* prefixes whose command failed, or touched by others, since the list
    refusals, meddling, applies

routesVars == <<conf, before, routes, plan, stage, result, odd, refusals, meddling, applies>>

\* No routes are listed yet, or nothing is under way.
NoPlan == [del |-> {}, add |-> {}, failed |-> FALSE, listed |-> FALSE]

---------------------------------------------------------------------------
(* The plan *)

\* What is there and not wanted goes, a default route always; what is wanted and
\* not there comes, unless the connected network covers it.
RoutePlan(desired) ==
    [del |-> routes \ desired, add |-> (desired \ routes) \ Covered, failed |-> FALSE, listed |-> TRUE]

\* The files of before are put back, and the routes are brought in line again.
Undo == stage' = "undo" /\ conf' = before /\ plan' = NoPlan /\ UNCHANGED result

Rest(word) == stage' = "idle" /\ result' = word /\ plan' = NoPlan /\ UNCHANGED conf

\* `ip -j route` lists the routes, or fails.
List ==
    /\ stage # "idle" /\ ~plan.listed /\ odd' = {}
    /\ \/ plan' = RoutePlan(conf) /\ UNCHANGED <<conf, stage, result, refusals>>
       \/ /\ refusals < MaxRefusals /\ refusals' = refusals + 1
          /\ IF stage = "apply" THEN Undo ELSE Rest("unlisted")
    /\ UNCHANGED <<before, routes, meddling, applies>>

\* (mutant: the first failure ends it)
AfterAborts(p, failed) ==
    IF failed THEN [plan EXCEPT !.del = {}, !.add = {}, !.failed = TRUE]
    ELSE [plan EXCEPT !.del = @ \ {p}, !.add = IF plan.del # {} THEN @ ELSE @ \ {p}]

\* One bad route keeps none of the others from being seen to.
After(p, failed) ==
    [plan EXCEPT !.del = @ \ {p}, !.add = IF plan.del # {} THEN @ ELSE @ \ {p}, !.failed = @ \/ failed]

\* One `ip route`, the deletions first.  To add a route that is there or delete
\* one that is not fails by itself.
Command(refused) ==
    /\ stage # "idle" /\ plan.del \union plan.add # {}
    /\ refused => refusals < MaxRefusals
    /\ refusals' = IF refused THEN refusals + 1 ELSE refusals
    /\ LET deleting == plan.del # {} IN
       \E p \in (IF deleting THEN plan.del ELSE plan.add) :
         LET failed == refused \/ (deleting <=> p \notin routes) IN
         /\ routes' = IF failed THEN routes ELSE IF deleting THEN routes \ {p} ELSE routes \union {p}
         /\ odd' = IF failed THEN odd \union {p} ELSE odd
         /\ plan' = After(p, failed)
    /\ UNCHANGED <<conf, before, stage, result, meddling, applies>>

---------------------------------------------------------------------------
(* An apply of peers only, and its undo *)

\* The files and the peers are in place.
BeginApply(c) ==
    /\ stage = "idle" /\ applies < MaxApplies /\ applies' = applies + 1
    /\ before' = conf /\ conf' = c /\ stage' = "apply"
    /\ UNCHANGED <<routes, plan, result, odd, refusals, meddling>>

\* The last command has been run: the apply is done, or it failed.
Finish ==
    /\ stage # "idle" /\ plan.listed /\ plan.del \union plan.add = {}
    /\ IF stage = "apply" /\ plan.failed THEN Undo ELSE Rest(IF stage = "apply" THEN "applied" ELSE "undone")
    /\ UNCHANGED <<before, routes, odd, refusals, meddling, applies>>

Meddle(p) ==
    /\ meddling < MaxMeddling /\ meddling' = meddling + 1
    /\ routes' = IF p \in routes THEN routes \ {p} ELSE routes \union {p}
    /\ odd' = odd \union {p}
    /\ UNCHANGED <<conf, before, plan, stage, result, refusals, applies>>

RoutesInit ==
    /\ conf \in Confs /\ before = conf /\ routes = conf \ Covered
    /\ plan = NoPlan /\ stage = "idle" /\ result = "applied" /\ odd = {}
    /\ refusals = 0 /\ meddling = 0 /\ applies = 0

RoutesNext ==
    \/ \E c \in Confs : BeginApply(c)
    \/ \E refused \in BOOLEAN : Command(refused)
    \/ List \/ Finish
    \/ \E p \in Prefixes \union {"default"} : Meddle(p)

RoutesSpec == RoutesInit /\ [][RoutesNext]_routesVars

---------------------------------------------------------------------------
(* Properties *)

\* After every apply and every undo that could list the routes, the interface
\* has exactly those of the files in force, but for prefixes whose own command
\* failed or that somebody touched meanwhile; a default route that was there
\* when it began is gone (wg.go 328-331, 383-387).
RoutesRight ==
    stage = "idle" /\ result # "unlisted" =>
        routes \ odd \subseteq conf /\ (conf \ Covered) \ odd \subseteq routes
=============================================================================
