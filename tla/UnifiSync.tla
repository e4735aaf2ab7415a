------------------------------ MODULE UnifiSync ------------------------------
(***************************************************************************)
(* One site's link to its UniFi console (src/server/unifi/index.ts and      *)
(* reconcile.ts): a sync makes the console's static routes, and for one     *)
(* router layout a firewall policy, equal to what the site's router plan    *)
(* asks for, and records on the link the ids of the objects it owns.        *)
(*                                                                         *)
(* The controller is one Node process.  Every request to the console is an  *)
(* await, and between two of them anything else may run: the background     *)
(* pass against a "Sync now", an unlink, a new plan.  The console may       *)
(* refuse a request, and it may carry one out whose answer never arrives;   *)
(* a sync that takes longer than its limit gives up at whatever request it  *)
(* is waiting for.  What follows an answer up to the next await is one      *)
(* action.                                                                  *)
(*                                                                         *)
(* Two routes for one network differ in next hop, in having the OPNmesh     *)
(* prefix, and in being enabled.  The order of a plan's routes is left      *)
(* open; that deletions come last is not.  Left out: port forwards, which   *)
(* are only looked at, and the status shown for the link.                   *)
(***************************************************************************)
EXTENDS Naturals, FiniteSets

CONSTANTS
  Nets,        \* networks a plan may route to the mesh
  Hops,        \* next hops
  Plans,       \* router plans: [nets, hop, policy]
  Ids,         \* ids the console gives to its objects
  None,        \* no object, no plan, no link
  Duplicates,  \* does the console accept an object just like another?
  Existing,    \* what the console holds before the link is made: id -> object
  Syncs,       \* who syncs: "pass", the background job, and "now", the button
  Unlinks,     \* ways the link may be removed: TRUE removes the objects too
  FailAt,      \* requests that may fail: "list", "step", "policy", "unlink"
  MaxFaults,   \* bound on failed requests
  MaxChanges,  \* bound on changes of the plan
  MaxDeletes,  \* bound on deletions by the console's own admin
  MaxClicks    \* bound on links made and syncs asked for

Routes == [kind : {"route"}, net : Nets, hop : Hops, prefixed : BOOLEAN,
           enabled : BOOLEAN]
Policies == [kind : {"policy"}, ips : SUBSET Nets]
Objects == Routes \cup Policies

\* ManagedIds, as recorded on the link
Managed == [routes : [Nets -> Ids \cup {None}], policy : Ids \cup {None}]
Unowned == [routes |-> [n \in Nets |-> None], policy |-> None]

Links == [row : Nat, managed : Managed]

Steps == [do : {"create", "update", "delete"}, net : Nets,
          id : Ids \cup {None}]
Runs == [pc : {"idle", "list", "step", "policy", "put"},
         row : Nat, plan : Plans \cup {None}, managed : Managed,
         todo : SUBSET Steps, result : Managed, ours : Ids \cup {None}]
Removals == [pc : {"idle", "list", "delete"}, row : Nat, managed : Managed,
             todo : SUBSET Ids]

ASSUME ConstantsAssumption ==
  /\ Plans \subseteq [nets : SUBSET Nets, hop : Hops, policy : BOOLEAN]
  /\ None \notin Ids /\ None \notin Objects /\ None \notin Plans
  /\ None \notin Links
  /\ Existing \in [Ids -> Objects \cup {None}]
  /\ Syncs \subseteq {"pass", "now"} /\ "pass" \in Syncs
  /\ Unlinks \subseteq BOOLEAN
  /\ Duplicates \in BOOLEAN
  /\ FailAt \subseteq {"list", "step", "policy", "unlink"}
  /\ MaxFaults \in Nat /\ MaxChanges \in Nat
  /\ MaxDeletes \in Nat /\ MaxClicks \in Nat

VARIABLES
  obj,      \* the console's routes and policies, by id
  plan,     \* the site's router plan; None while it has no active gateway
  seen,     \* has a background pass been noted at this configuration version?
  link,     \* the row of unifi_links
  run,      \* syncLink's locals, per sync
  un,       \* unlink's locals
  owned,    \* history: objects created here, or adopted when just as wanted
  rows,     \* links made so far
  faults, changes, deletes, clicks

vars == <<obj, plan, seen, link, run, un, owned, rows, faults, changes,
          deletes, clicks>>

-----------------------------------------------------------------------------
Idle == [pc |-> "idle", row |-> 0, plan |-> None, managed |-> Unowned,
         todo |-> {}, result |-> Unowned, ours |-> None]
NoRemoval == [pc |-> "idle", row |-> 0, managed |-> Unowned, todo |-> {}]

Init ==
  /\ obj = Existing
  /\ plan = None
  /\ seen = FALSE
  /\ link = None
  /\ run = [p \in Syncs |-> Idle]
  /\ un = NoRemoval
  /\ owned = {}
  /\ rows = 0
  /\ faults = 0 /\ changes = 0 /\ deletes = 0 /\ clicks = 0

-----------------------------------------------------------------------------
(* Planning: what to do about each route, given what the console lists *)

Recorded(m) == {m.routes[n] : n \in Nets} \cup {m.policy}

IsRoute(i) == obj[i] # None /\ obj[i].kind = "route"
IsPolicy(i) == obj[i] # None /\ obj[i].kind = "policy"

\* desiredRoutes and desiredPolicy
Route(n, p) == [kind |-> "route", net |-> n, hop |-> p.hop,
                prefixed |-> TRUE, enabled |-> TRUE]
Policy(p) == [kind |-> "policy", ips |-> p.nets]

\* (mutant: ownership by name)
ManagedByName(i, m) == IsRoute(i) /\ obj[i].prefixed

IsManagedRoute(i, m) == IsRoute(i) /\ \E n \in Nets : m.routes[n] = i

IsAdoptableRoute(i, n, p) ==
  IsRoute(i) /\ obj[i].prefixed /\ obj[i].net = n /\ obj[i].hop = p.hop

\* (mutant: a recorded id is trusted without looking at the console)
CandidatesTrusted(n, p, m) == {m.routes[n]}

\* The routes that may stand for network n: the recorded ones, or else those
\* that may be adopted.
Candidates(n, p, m) ==
  LET recorded == {i \in Ids : IsManagedRoute(i, m) /\ obj[i].net = n}
      adoptable == {i \in Ids : IsAdoptableRoute(i, n, p)
                                  /\ ~IsManagedRoute(i, m)} IN
  IF recorded # {} THEN recorded
  ELSE IF adoptable # {} THEN adoptable ELSE {None}

\* planRoutes, given the route chosen for each network.
PlanRoutes(p, m, pick) ==
  {[do |-> "create", net |-> n, id |-> None] :
     n \in {n \in p.nets : pick[n] = None}}
  \cup {[do |-> "update", net |-> n, id |-> pick[n]] :
     n \in {n \in p.nets : pick[n] # None /\ obj[pick[n]] # Route(n, p)}}
  \cup {[do |-> "delete", net |-> obj[i].net, id |-> i] :
     i \in {i \in Ids : IsManagedRoute(i, m)
                          /\ \A n \in p.nets : pick[n] # i}}

Kept(p, pick) == {n \in p.nets : pick[n] # None /\ obj[pick[n]] = Route(n, p)}

\* findOurPolicy: the recorded one, or else one that is just as wanted.
OurPolicy(p, m) ==
  IF m.policy # None /\ IsPolicy(m.policy) THEN {m.policy}
  ELSE IF \E i \in Ids : obj[i] = Policy(p)
       THEN {i \in Ids : obj[i] = Policy(p)} ELSE {None}

-----------------------------------------------------------------------------
(* The console carries out a request, and the ways one can fail *)

\* A new object gets an id that nobody remembers from an earlier one.
Remembered ==
  (IF link = None THEN {} ELSE Recorded(link.managed))
  \cup UNION {Recorded(run[p].managed) \cup Recorded(run[p].result)
                \cup {s.id : s \in run[p].todo} \cup {run[p].ours} :
              p \in Syncs}
  \cup Recorded(un.managed) \cup un.todo
Fresh(i) == obj[i] = None /\ i \notin Remembered
NextId == CHOOSE i \in Ids : Fresh(i)

Accepts(o) == Duplicates \/ \A i \in Ids : obj[i] # o

Create(o) == /\ Accepts(o)
             /\ \E i \in Ids : Fresh(i)
             /\ obj' = [obj EXCEPT ![NextId] = o]
             /\ owned' = owned \cup {NextId}

Update(i, o) == obj[i] # None /\ obj' = [obj EXCEPT ![i] = o] /\ UNCHANGED owned

Delete(i) == obj[i] # None /\ obj' = [obj EXCEPT ![i] = None] /\ UNCHANGED owned

Fault(r) == r \in FailAt /\ faults < MaxFaults /\ faults' = faults + 1

Answer == UNCHANGED faults
Refused(r) == Fault(r) /\ UNCHANGED <<obj, owned>>
Gone(i) == obj[i] = None /\ UNCHANGED <<obj, owned, faults>>
Clash(o) == ~Accepts(o) /\ UNCHANGED <<obj, owned, faults>>

\* Any object found to be just what a plan wants may be taken over.
AsWanted(i, n, p) == /\ obj[i] # None /\ obj[i].kind = "route"
                     /\ obj[i].prefixed
                     /\ obj[i].net = n /\ obj[i].hop = p.hop

-----------------------------------------------------------------------------
(* syncDueLinks *)

\* (mutant: the version is noted when the pass ends)
NotedAtEnd(ends) == seen' = IF ends THEN TRUE ELSE seen

\* The version is noted before the pass begins.
Noted(ends) == seen' = IF ends THEN seen ELSE TRUE

Begin(p) == run' = [run EXCEPT ![p] =
  [Idle EXCEPT !.pc = "list", !.row = link.row, !.plan = plan,
               !.managed = link.managed, !.result = link.managed]]

\* One pass at a time, due after a change or when ten minutes are over, that is
\* at any moment.  Without a link, or a plan, it has nothing to do.
Tick ==
  /\ run["pass"].pc = "idle"
  /\ Noted(FALSE)
  /\ IF link # None /\ plan # None THEN Begin("pass") ELSE UNCHANGED run
  /\ UNCHANGED <<obj, plan, link, un, owned, rows, faults, changes, deletes,
                 clicks>>

\* The button has no guard against the pass.
SyncNow ==
  /\ "now" \in Syncs /\ run["now"].pc = "idle"
  /\ link # None /\ plan # None
  /\ clicks < MaxClicks /\ clicks' = clicks + 1
  /\ Begin("now")
  /\ UNCHANGED <<obj, plan, seen, link, un, owned, rows, faults, changes,
                 deletes>>

-----------------------------------------------------------------------------
(* syncLink and syncSite *)

\* The outcome goes on the row the sync began with, if it is still there.
Record(p, m) == link' = IF link = None \/ link.row # run[p].row THEN link
                        ELSE [link EXCEPT !.managed = m]

End(p) == /\ run' = [run EXCEPT ![p] = Idle]
          /\ IF p = "pass" THEN Noted(TRUE) ELSE UNCHANGED seen

Finish(p, m) == Record(p, m) /\ End(p)

\* An error ends the sync; the ids it learnt so far are not recorded.
GiveUp(p) == UNCHANGED link /\ End(p)

\* What follows the answer that left the locals as r.
Continue(p, r) ==
  IF r.todo = {} /\ ~r.plan.policy /\ r.managed.policy = None
  THEN Finish(p, r.result)
  ELSE /\ run' = [run EXCEPT ![p] = [r EXCEPT !.pc =
                    IF r.todo = {} THEN "policy" ELSE "step"]]
       /\ UNCHANGED <<link, seen>>

\* Sign in, list the routes, and decide what to do about each.
List(p) ==
  LET r == run[p] IN
  /\ r.pc = "list"
  /\ \/ \E pick \in [r.plan.nets -> Ids \cup {None}] :
          /\ \A n \in r.plan.nets :
               pick[n] \in Candidates(n, r.plan, r.managed)
          /\ owned' = owned \cup
               {pick[n] : n \in {n \in r.plan.nets :
                    pick[n] # None /\ AsWanted(pick[n], n, r.plan)}}
          /\ Continue(p, [r EXCEPT
               !.todo = PlanRoutes(r.plan, r.managed, pick),
               !.result.routes = [n \in Nets |->
                 IF n \in Kept(r.plan, pick) THEN pick[n]
                 ELSE r.managed.routes[n]]])
          /\ UNCHANGED obj /\ Answer
     \/ Refused("list") /\ GiveUp(p)
  /\ UNCHANGED <<plan, un, rows, changes, deletes, clicks>>

\* The steps that may be next: deletions come after everything else.
NextSteps(p) == {s \in run[p].todo :
                   s.do = "delete" => \A t \in run[p].todo : t.do = "delete"}

Ask(p, s) ==
  \/ s.do = "create" /\ Create(Route(s.net, run[p].plan))
  \/ s.do = "update" /\ Update(s.id, Route(s.net, run[p].plan))
  \/ s.do = "delete" /\ Delete(s.id)

\* The ids recorded once step s has been answered.
After(s, routes) ==
  IF s.do = "delete"
  THEN [n \in Nets |-> IF routes[n] = s.id THEN None ELSE routes[n]]
  ELSE [routes EXCEPT ![s.net] = IF s.do = "create" THEN NextId ELSE s.id]

Step(p) ==
  LET r == run[p] IN
  /\ r.pc = "step"
  /\ \E s \in NextSteps(p) :
       \/ /\ Ask(p, s) /\ Answer
          /\ Continue(p, [r EXCEPT !.todo = @ \ {s},
                                   !.result.routes = After(s, @)])
       \/ Ask(p, s) /\ Fault("step") /\ GiveUp(p)
       \/ Refused("step") /\ GiveUp(p)
       \/ s.do # "create" /\ Gone(s.id) /\ GiveUp(p)
       \/ s.do = "create" /\ Clash(Route(s.net, r.plan)) /\ GiveUp(p)
  /\ UNCHANGED <<plan, un, rows, changes, deletes, clicks>>

\* The policy is wanted: list the zones and policies and look for ours.  A
\* failure is only a warning, unless it is the time limit.
FindPolicy(p) ==
  LET r == run[p] IN
  /\ r.pc = "policy" /\ r.plan.policy
  /\ \/ \E i \in OurPolicy(r.plan, r.managed) :
          /\ owned' = IF i # None /\ obj[i] = Policy(r.plan)
                      THEN owned \cup {i} ELSE owned
          /\ IF i # None /\ obj[i] = Policy(r.plan)
             THEN Finish(p, [r.result EXCEPT !.policy = i])
             ELSE /\ run' = [run EXCEPT ![p].pc = "put", ![p].ours = i]
                  /\ UNCHANGED <<link, seen>>
          /\ UNCHANGED obj /\ Answer
     \/ Refused("policy") /\ (Finish(p, r.result) \/ GiveUp(p))
  /\ UNCHANGED <<plan, un, rows, changes, deletes, clicks>>

\* Create it, or make ours equal to it.
PutPolicy(p) ==
  LET r == run[p]
      put == IF r.ours = None THEN Create(Policy(r.plan))
             ELSE Update(r.ours, Policy(r.plan))
      id == IF r.ours = None THEN NextId ELSE r.ours IN
  /\ r.pc = "put"
  /\ \/ put /\ Answer /\ Finish(p, [r.result EXCEPT !.policy = id])
     \/ put /\ Fault("policy") /\ (Finish(p, r.result) \/ GiveUp(p))
     \/ Refused("policy") /\ (Finish(p, r.result) \/ GiveUp(p))
     \/ r.ours # None /\ Gone(r.ours) /\ Finish(p, r.result)
     \/ r.ours = None /\ Clash(Policy(r.plan)) /\ Finish(p, r.result)
  /\ UNCHANGED <<plan, un, rows, changes, deletes, clicks>>

\* It is no longer wanted.  Its id is dropped whether or not it could be
\* deleted.
DropPolicy(p) ==
  LET r == run[p]
      dropped == [r.result EXCEPT !.policy = None] IN
  /\ r.pc = "policy" /\ ~r.plan.policy
  /\ \/ Delete(r.managed.policy) /\ Answer /\ Finish(p, dropped)
     \/ /\ Delete(r.managed.policy) /\ Fault("policy")
        /\ Finish(p, dropped) \/ GiveUp(p)
     \/ Refused("policy") /\ (Finish(p, dropped) \/ GiveUp(p))
     \/ Gone(r.managed.policy) /\ Finish(p, dropped)
  /\ UNCHANGED <<plan, un, rows, changes, deletes, clicks>>

Sync(p) == List(p) \/ Step(p) \/ FindPolicy(p) \/ PutPolicy(p) \/ DropPolicy(p)

-----------------------------------------------------------------------------
(* saveLink and unlink *)

\* A new row owns nothing.  (Saving an existing link keeps what it owns.)
SaveLink ==
  /\ link = None
  /\ clicks < MaxClicks /\ clicks' = clicks + 1
  /\ rows' = rows + 1
  /\ link' = [row |-> rows + 1, managed |-> Unowned]
  /\ UNCHANGED <<obj, plan, seen, run, un, owned, faults, changes,
                 deletes>>

Drop(row) == link' = IF link # None /\ link.row = row THEN None ELSE link

Unlink(remove) ==
  /\ link # None /\ un.pc = "idle"
  /\ IF remove
     THEN /\ un' = [un EXCEPT !.pc = "list", !.row = link.row,
                              !.managed = link.managed]
          /\ UNCHANGED link
     ELSE Drop(link.row) /\ UNCHANGED un
  /\ UNCHANGED <<obj, plan, seen, run, owned, rows, faults, changes, deletes,
                 clicks>>

\* What follows once the objects in todo are left to delete.
Unlinking(todo) ==
  IF todo = {} THEN un' = NoRemoval /\ Drop(un.row)
  ELSE un' = [un EXCEPT !.pc = "delete", !.todo = todo] /\ UNCHANGED link

Removable(m) == {i \in Ids : IsManagedRoute(i, m)} \cup ({m.policy} \ {None})

\* A failure to sign in or to list skips the removal.
ListOwned ==
  /\ un.pc = "list"
  /\ \/ /\ Unlinking(Removable(un.managed))
        /\ UNCHANGED <<obj, owned>> /\ Answer
     \/ Refused("unlink") /\ Unlinking({})
  /\ UNCHANGED <<plan, seen, run, rows, changes, deletes, clicks>>

\* Each object in turn, the policy last; one that fails is only a warning.
DeleteOwned ==
  /\ un.pc = "delete"
  /\ \E i \in un.todo :
       /\ i = un.managed.policy => un.todo = {i}
       /\ \/ Delete(i) /\ (Answer \/ Fault("unlink"))
          \/ Refused("unlink")
          \/ Gone(i)
       /\ Unlinking(un.todo \ {i})
  /\ UNCHANGED <<plan, seen, run, rows, changes, deletes, clicks>>

-----------------------------------------------------------------------------
(* Around it: the mesh's configuration, and the console's own admin *)

\* Any change that reaches the site's router plan raises the version.
ChangePlan == \E p \in Plans \cup {None} :
  /\ p # plan
  /\ changes < MaxChanges /\ changes' = changes + 1
  /\ plan' = p
  /\ seen' = FALSE
  /\ UNCHANGED <<obj, link, run, un, owned, rows, faults, deletes,
                 clicks>>

AdminDelete == \E i \in Ids :
  /\ obj[i] # None
  /\ deletes < MaxDeletes /\ deletes' = deletes + 1
  /\ obj' = [obj EXCEPT ![i] = None]
  /\ UNCHANGED <<plan, seen, link, run, un, owned, rows, faults, changes,
                 clicks>>

Next ==
  \/ Tick
  \/ SyncNow
  \/ \E p \in Syncs : Sync(p)
  \/ SaveLink
  \/ \E remove \in Unlinks : Unlink(remove)
  \/ ListOwned
  \/ DeleteOwned
  \/ ChangePlan
  \/ AdminDelete

Spec == Init /\ [][Next]_vars

\* The job runs for as long as the controller does, and every request is
\* answered, fails, or meets a time limit.
Fairness == /\ WF_vars(~seen /\ Tick)
            /\ \A p \in Syncs : WF_vars(Sync(p))
            /\ WF_vars(ListOwned \/ DeleteOwned)

FairSpec == Spec /\ Fairness

\* Ten minutes pass again and again.
TimePasses == WF_vars(Tick)

-----------------------------------------------------------------------------
(* Properties *)

\* Every variable has its type, and only "put" remembers a policy to update.
TypeOK ==
  /\ obj \in [Ids -> Objects \cup {None}]
  /\ plan \in Plans \cup {None}
  /\ seen \in BOOLEAN
  /\ link \in Links \cup {None}
  /\ run \in [Syncs -> Runs]
  /\ un \in Removals
  /\ owned \subseteq Ids
  /\ rows \in Nat
  /\ faults \in 0..MaxFaults /\ changes \in 0..MaxChanges
  /\ deletes \in 0..MaxDeletes /\ clicks \in 0..MaxClicks
  /\ \A p \in Syncs : run[p].pc # "idle" => run[p].plan \in Plans

\* Neither a sync nor an unlink changes or deletes an object of the console
\* that OPNmesh did not create or find to be just as wanted: same network,
\* same next hop, its prefix (reconcile.ts 2-12).  This holds whatever else
\* runs meanwhile, whatever fails, and after a link was made anew.
OnlyOwn == [][run' # run \/ un' # un =>
                \A i \in Ids : obj[i] # None /\ obj'[i] # obj[i]
                                 => i \in owned]_vars

Linked == link # None /\ plan # None

HasRoutes == \A n \in plan.nets : \E i \in Ids : obj[i] = Route(n, plan)

Wanted == {Route(n, plan) : n \in plan.nets}
            \cup (IF plan.policy THEN {Policy(plan)} ELSE {})

\* The console has each wanted object, and nothing of ours besides.
Equal ==
  /\ \A o \in Wanted : \E i \in Ids : obj[i] = o
  /\ \A i \in owned : obj[i] # None =>
       /\ obj[i] \in Wanted
       /\ \A j \in owned : obj[j] = obj[i] => i = j

\* What a sync is for: the objects OPNmesh owns on the console are equal to what
\* the mesh needs; or, whatever fails, overlaps or is deleted, at least every
\* wanted network is routed to the gateway.
Settled(undisturbed) == Linked => IF undisturbed THEN Equal ELSE HasRoutes

\* A change to plan q has been made and no pass has been told of it yet.
Pending(q) == ~seen /\ plan = q /\ link # None

\* A pass is made for plan q, or there is nothing left to do for it.
PickedUp(q) == run["pass"].plan = q \/ plan # q \/ link = None
=============================================================================
