------------------------------- MODULE Alerts -------------------------------
(***************************************************************************)
(* Emails about gateways that stop responding and recover                   *)
(* (src/server/alerts.ts, checkGatewayAlerts).                              *)
(*                                                                          *)
(* A pass looks at every site in order.  It runs alone up to the next email *)
(* it has to send, then awaits the mail server; while it waits gateways     *)
(* report or fall silent, an administrator replaces a gateway (a new row),  *)
(* the controller restarts.  So a pass is one step from its start, or from  *)
(* the answer about one email, to the next email or to its end.             *)
(*                                                                          *)
(* A gateway's health is a function of when it last reported.  A pass takes *)
(* the time once, at its start: it sees the health of then, or "online" if  *)
(* a report came in since.  Every site has alerts on and an active gateway, *)
(* and the mail server is set up.  An email whose sending failed has not    *)
(* been delivered.                                                          *)
(***************************************************************************)
EXTENDS Naturals, FiniteSets, FiniteSetsExt

CONSTANTS
    Sites,         \* naturals, in the order passes take them
    MaxOutages,    \* bound: outages, of all sites together
    MaxReplaced,   \* bound: gateways that are replaced
    MaxFailures,   \* bound: emails the mail server refuses
    MaxRestarts    \* bound: restarts of the controller

ASSUME SitesAssumption == Sites \subseteq Nat \ {0} /\ IsFiniteSet(Sites)
ASSUME BoundsAssumption ==
    /\ MaxOutages \in Nat \ {0} /\ MaxReplaced \in Nat
    /\ MaxFailures \in Nat /\ MaxRestarts \in Nat

VARIABLES
    health,        \* what gatewayHealth says of the site's gateway now
    outage,        \* outages the site has had
    row,           \* how often its gateway has been replaced
    alert,         \* the row's alert_state, "none" when empty
    pass,          \* the locals of the pass under way
    grace,         \* within two minutes of the start?
    retry,         \* waiting after a failed email?
    mails,         \* history: emails delivered per site, outage and kind
    told,          \* history: the kind of the last one delivered about this gateway
    cut,           \* history: sites whose gateway's email a restart cut off
    failures, restarts

alertVars == <<health, outage, row, alert, pass, grace, retry, mails, told, cut, failures, restarts>>

Kinds == {"down", "up"}

\* A pass is sending the email `kind` about site `at` (0: no pass is under way).
NoPass == [at |-> 0, kind |-> "up", seen |-> [s \in Sites |-> "never"], during |-> [s \in Sites |-> 0],
           rows |-> [s \in Sites |-> 0], was |-> [s \in Sites |-> "none"], grace |-> TRUE]

AlertInit ==
    /\ health = [s \in Sites |-> "never"]
    /\ outage = [s \in Sites |-> 0]
    /\ row = [s \in Sites |-> 0]
    /\ alert = [s \in Sites |-> "none"]
    /\ pass = NoPass
    /\ grace = TRUE /\ retry = FALSE
    /\ mails = [s \in Sites |-> [o \in 1..MaxOutages |-> [k \in Kinds |-> 0]]]
    /\ told = [s \in Sites |-> "none"]
    /\ cut = {}
    /\ failures = 0 /\ restarts = 0

Total(f) == MapThenSumSet(LAMBDA s : f[s], Sites)

---------------------------------------------------------------------------
(* Gateways, and the administrator *)

Report(s) ==
    /\ health[s] # "online"
    /\ health' = [health EXCEPT ![s] = "online"]
    /\ pass' = IF pass.at # 0 /\ pass.rows[s] = row[s]
               THEN [pass EXCEPT !.seen[s] = "online", !.during[s] = outage[s]]
               ELSE pass
    /\ UNCHANGED <<outage, row, alert, grace, retry, mails, told, cut, failures, restarts>>

\* No report for three intervals, then for twelve.
FallsSilent(s) ==
    \/ /\ health[s] = "online"
       /\ health' = [health EXCEPT ![s] = "stale"]
       /\ UNCHANGED <<outage, row, alert, pass, grace, retry, mails, told, cut, failures, restarts>>
    \/ /\ health[s] = "stale" /\ Total(outage) < MaxOutages
       /\ health' = [health EXCEPT ![s] = "offline"]
       /\ outage' = [outage EXCEPT ![s] = @ + 1]
       /\ UNCHANGED <<row, alert, pass, grace, retry, mails, told, cut, failures, restarts>>

\* Enrolling a replacement deletes the row and inserts one nobody was told about.
Replace(s) ==
    /\ Total(row) < MaxReplaced
    /\ row' = [row EXCEPT ![s] = @ + 1]
    /\ health' = [health EXCEPT ![s] = "never"]
    /\ alert' = [alert EXCEPT ![s] = "none"]
    /\ told' = [told EXCEPT ![s] = "none"]
    /\ cut' = cut \ {s}
    /\ UNCHANGED <<outage, pass, grace, retry, mails, failures, restarts>>

---------------------------------------------------------------------------
(* A pass *)

\* The emails a site is due (one at most), by what the pass sees and the row it read.
DueKinds(p, s) ==
    {k \in Kinds :
       \/ k = "down" /\ p.seen[s] = "offline" /\ p.was[s] # "down" /\ ~p.grace
       \/ k = "up" /\ p.seen[s] = "online" /\ p.was[s] = "down"}

\* The claim of a site finds the row the pass read, saying what it said then.
Claimable(p, s) == row[s] = p.rows[s] /\ alert[s] = p.was[s]

\* From here the pass claims the next email due among S and awaits its sending.
Proceed(p, S) ==
    LET due == {s \in S : DueKinds(p, s) # {} /\ Claimable(p, s)} IN
    IF due = {} THEN pass' = NoPass /\ UNCHANGED alert
    ELSE \E k \in DueKinds(p, Min(due)) :
           /\ pass' = [p EXCEPT !.at = Min(due), !.kind = k]
           /\ alert' = [alert EXCEPT ![Min(due)] = k]

CheckGatewayAlerts ==
    /\ pass.at = 0
    /\ ~retry
    /\ Proceed([NoPass EXCEPT !.seen = health, !.during = outage, !.rows = row, !.was = alert,
                               !.grace = grace], Sites)
    /\ UNCHANGED <<health, outage, row, grace, retry, mails, told, cut, failures, restarts>>

Sent ==
    /\ pass.at # 0
    /\ LET s == pass.at IN
         /\ mails' = [mails EXCEPT ![s][pass.during[s]][pass.kind] = @ + 1]
         /\ told' = IF row[s] = pass.rows[s] THEN [told EXCEPT ![s] = pass.kind] ELSE told
         /\ Proceed(pass, {t \in Sites : t > s})
    /\ retry' = FALSE
    /\ UNCHANGED <<health, outage, row, grace, cut, failures, restarts>>

\* (mutant: the claim stays although nothing was delivered)
NotSentKeepsClaim ==
    /\ pass.at # 0
    /\ failures < MaxFailures
    /\ failures' = failures + 1
    /\ retry' = TRUE
    /\ pass' = NoPass
    /\ UNCHANGED <<health, outage, row, alert, grace, mails, told, cut, restarts>>

\* The state is put back, unless it moved on, and the other sites wait too.
NotSent ==
    /\ pass.at # 0
    /\ failures < MaxFailures
    /\ failures' = failures + 1
    /\ LET s == pass.at IN
         alert' = IF row[s] = pass.rows[s] /\ alert[s] = pass.kind
                  THEN [alert EXCEPT ![s] = pass.was[s]] ELSE alert
    /\ retry' = TRUE
    /\ pass' = NoPass
    /\ UNCHANGED <<health, outage, row, grace, mails, told, cut, restarts>>

RetryDue ==
    /\ retry
    /\ retry' = FALSE
    /\ UNCHANGED <<health, outage, row, alert, pass, grace, mails, told, cut, failures, restarts>>

GraceEnds ==
    /\ grace
    /\ grace' = FALSE
    /\ UNCHANGED <<health, outage, row, alert, pass, retry, mails, told, cut, failures, restarts>>

\* (mutant: what was announced is kept in memory)
RestartForgets ==
    /\ restarts < MaxRestarts
    /\ restarts' = restarts + 1
    /\ pass' = NoPass
    /\ grace' = TRUE /\ retry' = FALSE
    /\ alert' = [s \in Sites |-> "none"]
    /\ UNCHANGED <<health, outage, row, mails, told, cut, failures>>

\* The rows survive; the pass, with the email it was sending, does not.
Restart ==
    /\ restarts < MaxRestarts
    /\ restarts' = restarts + 1
    /\ pass' = NoPass
    /\ grace' = TRUE /\ retry' = FALSE
    /\ cut' = cut \union {s \in Sites : s = pass.at /\ row[s] = pass.rows[s]}
    /\ UNCHANGED <<health, outage, row, alert, mails, told, failures>>

---------------------------------------------------------------------------

AlertNext ==
    \/ \E s \in Sites : Report(s) \/ FallsSilent(s) \/ Replace(s)
    \/ CheckGatewayAlerts \/ Sent \/ NotSent \/ RetryDue \/ GraceEnds \/ Restart

AlertSpec == AlertInit /\ [][AlertNext]_alertVars

\* The job runs every 15 seconds; every email is answered or runs into the mail
\* library's time limits; time passes.
AlertFairness ==
    /\ WF_alertVars(CheckGatewayAlerts) /\ WF_alertVars(Sent \/ NotSent)
    /\ WF_alertVars(RetryDue) /\ WF_alertVars(GraceEnds)

FairAlertSpec == AlertSpec /\ AlertFairness

---------------------------------------------------------------------------
(* Properties *)

\* However gateways flap, emails fail and the controller restarts, an outage is
\* announced at most once and its end is announced at most once.
NoResend == \A s \in Sites, o \in 1..MaxOutages, k \in Kinds : mails[s][o][k] <= 1

\* A gateway that stays offline is in the end known to be, and one that stays
\* online is in the end not believed offline any more: the last email about it
\* says how it is, whatever came in between, restarts included that cut no email
\* about it off (ARCHITECTURE.md 776-786).
Knows(s) ==
    /\ <>[](health[s] = "offline" /\ s \notin cut) => <>[](told[s] = "down")
    /\ <>[](health[s] = "online" /\ s \notin cut) => <>[](told[s] # "down")

AdminKnows == \A s \in Sites : Knows(s)

\* Both, of every email (alerts.ts:234-245).
AlertsAreTrue == []NoResend /\ AdminKnows

\* "A gateway whose health drops to offline produces one email" (ARCHITECTURE.md
\* 777-778), without that exception.
OutageIsMailed ==
    \A s \in Sites : <>[](health[s] = "offline") => <>[](told[s] = "down")
=============================================================================
