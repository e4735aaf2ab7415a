---------------------------- MODULE MCUnifiSync ----------------------------
(* A console with routes of others, and of the two ways the link to it may   *)
(* be used one per behaviour: everything at once, four things in all, or the *)
(* background job on its own, where nothing fails and the plan changes more  *)
(* often.  Or, with nothing linked, a console being linked, or the calls of  *)
(* one pass.                                                                 *)
EXTENDS UnifiSync, Console, ConsoleCalls

CONSTANTS n1, n2, hop, old

\* Plans with and without the firewall policy, for one and for two networks.
two == [nets |-> {n1, n2}, hop |-> hop, policy |-> FALSE]
open == [nets |-> {n2}, hop |-> hop, policy |-> TRUE]
moved == [nets |-> {n1}, hop |-> old, policy |-> FALSE]

Moving == {two, moved, open}

Ten == 1..10

SomeRoute(n, h, prefixed, enabled) ==
  [kind |-> "route", net |-> n, hop |-> h, prefixed |-> prefixed,
   enabled |-> enabled]

\* Routes the console's admin made: one exactly as wanted, one to the same
\* network by another gateway that bears the prefix, one without the prefix.
Shared == [i \in Ids |->
  CASE i = 1 -> SomeRoute(n1, hop, TRUE, TRUE)
    [] i = 2 -> SomeRoute(n2, old, TRUE, TRUE)
    [] i = 3 -> SomeRoute(n1, hop, FALSE, TRUE)
    [] OTHER -> None]

\* Two certificates of a well-known CA for one name, and what consoles show first.
ForName == {"signed", "renewed"} \X {"name"}
OwnOrSigned == [{"name", "ip"} -> {"own", "signed"}]

VARIABLES part, alone

MCInit ==
  /\ part \in {"sync", "linking", "calls"}
  /\ Init /\ ConsoleInit /\ CallsInit
  /\ alone \in BOOLEAN
  /\ part # "sync" => alone
  /\ part # "linking" => shows = CHOOSE f \in FirstShown : TRUE
  /\ part # "calls" => auth = "password"

SyncNext ==
  /\ Next
  /\ IF alone
     THEN faults' = 0 /\ deletes' = 0 /\ clicks' <= 1 /\ un' = un
            /\ run'["now"] = run["now"]
     ELSE changes' <= 1 /\ plan' # moved /\ faults' + deletes' + clicks' + changes' <= 4

MCNext ==
  /\ UNCHANGED <<part, alone>>
  /\ IF part = "sync" THEN SyncNext ELSE UNCHANGED vars
  /\ IF part = "linking" THEN ConsoleNext ELSE UNCHANGED consoleVars
  /\ IF part = "calls" THEN CallsNext ELSE UNCHANGED callVars

MCVars == <<vars, part, alone, consoleVars, callVars>>
MCSpec == MCInit /\ [][MCNext]_MCVars /\ Fairness

\* The console ends up equal to the plan for the job on its own, and with the
\* wanted routes whatever else goes on (reconcile.ts 2-12).
Settles == TimePasses => <>[]Settled(alone)

\* A change made at any moment, during a pass too, is picked up by a later pass
\* without waiting for the ten minutes (index.ts 273-277).  One of the plans
\* stands for each: TLC's cost is per plan.
ChangeIsSeen == (alone /\ Pending(open)) ~> PickedUp(open)
=============================================================================
