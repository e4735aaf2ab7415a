-------------------------- MODULE UnifiSyncProofs --------------------------
(* Theorems about UnifiSync, Console and ConsoleCalls, for every value of    *)
(* their constants.                                                         *)
EXTENDS UnifiSync, Console, ConsoleCalls, TLAPS

-----------------------------------------------------------------------------
(* The inductive invariant: whatever is remembered anywhere is owned *)

\* The ids a sync has in its locals: recorded, learnt, about to be changed.
OwnedRun(r, o) ==
  Recorded(r.managed) \cup Recorded(r.result) \cup {s.id : s \in r.todo}
    \cup {r.ours} \subseteq o \cup {None}

\* So too the ids on the link's row, and those an unlink has read from it.
RememberedIsOwned ==
  /\ link # None => Recorded(link.managed) \subseteq owned \cup {None}
  /\ \A p \in Syncs : OwnedRun(run[p], owned)
  /\ Recorded(un.managed) \cup un.todo \subseteq owned \cup {None}

IInv == TypeOK /\ RememberedIsOwned

-----------------------------------------------------------------------------
(* Types *)

\* What a sync's locals may be at any time.
Proper(r) == r \in Runs /\ (r.pc # "idle" => r.plan \in Plans)

LEMMA UnownedType == Unowned \in Managed
  BY DEF Unowned, Managed

LEMMA UnownedIsOwned == Recorded(Unowned) \subseteq {None}
  BY DEF Unowned, Recorded

LEMMA IdleType == Proper(Idle)
  BY UnownedType DEF Proper, Idle, Runs

LEMMA IdleIsOwned == OwnedRun(Idle, owned)
  BY UnownedIsOwned DEF OwnedRun, Idle

LEMMA FreshType ==
  ASSUME \E i \in Ids : Fresh(i)
  PROVE  NextId \in Ids /\ obj[NextId] = None
  BY DEF NextId, Fresh

LEMMA RouteType ==
  ASSUME NEW n \in Nets, NEW p \in Plans
  PROVE  Route(n, p) \in Objects
  BY ConstantsAssumption DEF Route, Objects, Routes

LEMMA PolicyType == ASSUME NEW p \in Plans PROVE Policy(p) \in Objects
  BY ConstantsAssumption DEF Policy, Objects, Policies

LEMMA RunType ==
  ASSUME TypeOK, NEW p \in Syncs
  PROVE  Proper(run[p])
  BY DEF TypeOK, Proper

\* The console after a request has objects of the right types, and what it
\* created is owned.
LEMMA CreateType ==
  ASSUME TypeOK, NEW o \in Objects, Create(o)
  PROVE  /\ obj' \in [Ids -> Objects \cup {None}]
         /\ owned' \subseteq Ids /\ owned \subseteq owned'
         /\ NextId \in owned' /\ NextId \in Ids
         /\ \A i \in Ids : obj[i] # None => obj'[i] = obj[i]
  BY FreshType DEF TypeOK, Create

LEMMA UpdateType ==
  ASSUME TypeOK, NEW o \in Objects, NEW i, Update(i, o)
  PROVE  /\ obj' \in [Ids -> Objects \cup {None}] /\ owned' = owned
         /\ \A j \in Ids : j # i => obj'[j] = obj[j]
  BY DEF TypeOK, Update

LEMMA DeleteType ==
  ASSUME TypeOK, NEW i, Delete(i)
  PROVE  /\ obj' \in [Ids -> Objects \cup {None}] /\ owned' = owned
         /\ \A j \in Ids : j # i => obj'[j] = obj[j]
  BY DEF TypeOK, Delete

LEMMA FaultType ==
  ASSUME TypeOK, NEW r, Fault(r) \/ Answer
  PROVE  faults' \in 0..MaxFaults
  BY ConstantsAssumption DEF TypeOK, Fault, Answer

LEMMA RefusedType ==
  ASSUME TypeOK, NEW r, Refused(r)
  PROVE  faults' \in 0..MaxFaults /\ obj' = obj /\ owned' = owned
  BY FaultType DEF Refused

-----------------------------------------------------------------------------
(* What a sync's action leaves in its locals and on the link *)

\* The part of the invariant an action of a sync may disturb.
Preserved ==
  /\ run' \in [Syncs -> Runs]
  /\ \A q \in Syncs : run'[q].pc # "idle" => run'[q].plan \in Plans
  /\ \A q \in Syncs : OwnedRun(run'[q], owned')
  /\ link' \in Links \cup {None}
  /\ link' # None => Recorded(link'.managed) \subseteq owned' \cup {None}
  /\ seen' \in BOOLEAN

LEMMA NewLocals ==
  ASSUME IInv, NEW p \in Syncs, owned \subseteq owned',
         NEW r, Proper(r), OwnedRun(r, owned'), run' = [run EXCEPT ![p] = r]
  PROVE  /\ run' \in [Syncs -> Runs]
         /\ \A q \in Syncs : run'[q].pc # "idle" => run'[q].plan \in Plans
         /\ \A q \in Syncs : OwnedRun(run'[q], owned')
<1>1. run \in [Syncs -> Runs] /\ r \in Runs
  BY DEF IInv, TypeOK, Proper
<1>2. run' \in [Syncs -> Runs]
  BY <1>1
<1>3. \A q \in Syncs : run'[q] = IF q = p THEN r ELSE run[q]
  BY <1>1
<1>4. \A q \in Syncs : run'[q].pc # "idle" => run'[q].plan \in Plans
  BY <1>3 DEF IInv, TypeOK, Proper
<1>5. ASSUME NEW q \in Syncs PROVE OwnedRun(run'[q], owned')
  <2>1. CASE q = p
    BY <1>3, <2>1 DEF OwnedRun
  <2>2. CASE q # p
    BY <1>3, <2>2 DEF OwnedRun, IInv, RememberedIsOwned
  <2> QED
    BY <2>1, <2>2
<1> QED
  BY <1>2, <1>4, <1>5

LEMMA EndLocals ==
  ASSUME IInv, NEW p \in Syncs, owned \subseteq owned', End(p)
  PROVE  /\ run' \in [Syncs -> Runs]
         /\ \A q \in Syncs : run'[q].pc # "idle" => run'[q].plan \in Plans
         /\ \A q \in Syncs : OwnedRun(run'[q], owned')
         /\ seen' \in BOOLEAN
<1>1. Proper(Idle) /\ OwnedRun(Idle, owned')
  BY IdleType, UnownedIsOwned DEF OwnedRun, Idle
<1>2. seen' \in BOOLEAN
  BY DEF End, Noted, IInv, TypeOK
<1> QED
  BY <1>1, <1>2, NewLocals DEF End

LEMMA FinishAfter ==
  ASSUME IInv, NEW p \in Syncs, owned \subseteq owned', NEW m \in Managed,
         Recorded(m) \subseteq owned' \cup {None}, Finish(p, m)
  PROVE  Preserved
<1>1. link' \in Links \cup {None}
      /\ (link' # None => Recorded(link'.managed) \subseteq owned' \cup {None})
  <2>1. CASE link = None \/ link.row # run[p].row
    BY <2>1 DEF Finish, Record, IInv, TypeOK, RememberedIsOwned
  <2>2. CASE ~(link = None \/ link.row # run[p].row)
    <3>1. link \in Links /\ link' = [link EXCEPT !.managed = m]
      BY <2>2 DEF Finish, Record, IInv, TypeOK
    <3> QED
      BY <3>1 DEF Links
  <2> QED
    BY <2>1, <2>2
<1> QED
  BY <1>1, EndLocals DEF Finish, Preserved

LEMMA GiveUpAfter ==
  ASSUME IInv, NEW p \in Syncs, owned \subseteq owned', GiveUp(p)
  PROVE  Preserved
<1>1. link' \in Links \cup {None}
      /\ (link' # None => Recorded(link'.managed) \subseteq owned' \cup {None})
  BY DEF GiveUp, IInv, TypeOK, RememberedIsOwned
<1> QED
  BY <1>1, EndLocals DEF GiveUp, Preserved

LEMMA StayAfter ==
  ASSUME IInv, NEW p \in Syncs, owned \subseteq owned', NEW r, Proper(r),
         OwnedRun(r, owned'), run' = [run EXCEPT ![p] = r],
         UNCHANGED <<link, seen>>
  PROVE  Preserved
<1>1. /\ link' \in Links \cup {None} /\ seen' \in BOOLEAN
      /\ link' # None => Recorded(link'.managed) \subseteq owned' \cup {None}
  BY DEF IInv, TypeOK, RememberedIsOwned
<1> QED
  BY <1>1, NewLocals DEF Preserved

LEMMA ContinueAfter ==
  ASSUME IInv, NEW p \in Syncs, owned \subseteq owned', NEW r \in Runs,
         r.plan \in Plans, OwnedRun(r, owned'), Continue(p, r)
  PROVE  Preserved
<1>1. CASE r.todo = {} /\ ~r.plan.policy /\ r.managed.policy = None
  <2>1. r.result \in Managed /\ Recorded(r.result) \subseteq owned' \cup {None}
    BY DEF Runs, OwnedRun
  <2> QED
    BY <1>1, <2>1, FinishAfter DEF Continue
<1>2. CASE ~(r.todo = {} /\ ~r.plan.policy /\ r.managed.policy = None)
  <2> DEFINE s == [r EXCEPT !.pc = IF r.todo = {} THEN "policy" ELSE "step"]
  <2>1. run' = [run EXCEPT ![p] = s] /\ UNCHANGED <<link, seen>>
    BY <1>2 DEF Continue
  <2>2. s \in Runs
    BY DEF Runs
  <2>3. s.plan = r.plan /\ s.managed = r.managed /\ s.result = r.result
        /\ s.todo = r.todo /\ s.ours = r.ours
    BY DEF Runs
  <2>4. Proper(s)
    BY <2>2, <2>3 DEF Proper
  <2>5. OwnedRun(s, owned')
    BY <2>3 DEF OwnedRun
  <2> QED
    BY <2>1, <2>4, <2>5, StayAfter
<1> QED
  BY <1>1, <1>2

-----------------------------------------------------------------------------
(* Each action of a sync *)

\* No object that is not owned is changed or deleted.
Respects == \A i \in Ids : obj[i] # None /\ obj'[i] # obj[i] => i \in owned

\* The console and the history after a request.
Console == /\ obj' \in [Ids -> Objects \cup {None}]
           /\ owned' \subseteq Ids /\ owned \subseteq owned'
           /\ faults' \in 0..MaxFaults
           /\ Respects

LEMMA CreateConsole ==
  ASSUME TypeOK, NEW o \in Objects, Create(o), NEW r, Fault(r) \/ Answer
  PROVE  Console
  BY CreateType, FaultType DEF Console, Respects

LEMMA UpdateConsole ==
  ASSUME TypeOK, NEW o \in Objects, NEW i \in owned \cup {None}, Update(i, o),
         NEW r, Fault(r) \/ Answer
  PROVE  Console
<1>1. owned \subseteq Ids /\ None \notin Ids
  BY ConstantsAssumption DEF TypeOK
<1> QED
  BY <1>1, UpdateType, FaultType DEF Console, Respects

LEMMA DeleteConsole ==
  ASSUME TypeOK, NEW i \in owned \cup {None}, Delete(i),
         NEW r, Fault(r) \/ Answer
  PROVE  Console
<1>1. owned \subseteq Ids /\ None \notin Ids
  BY ConstantsAssumption DEF TypeOK
<1> QED
  BY <1>1, DeleteType, FaultType DEF Console, Respects

LEMMA QuietConsole ==
  ASSUME TypeOK, UNCHANGED <<obj, owned>>,
         UNCHANGED faults \/ \E r : Fault(r)
  PROVE  Console
  BY FaultType DEF Console, Respects, TypeOK, Answer

\* Every route that a pass may keep, change or delete is recorded or adopted.
LEMMA ListSound ==
  ASSUME IInv, NEW p \in Syncs, List(p)
  PROVE  Console /\ Preserved
<1> DEFINE r == run[p]
<1>1. r \in Runs /\ r.plan \in Plans /\ OwnedRun(r, owned)
  BY RunType DEF List, IInv, Proper, RememberedIsOwned
<1>2. CASE Refused("list") /\ GiveUp(p)
  BY <1>2, QuietConsole, GiveUpAfter DEF Refused, IInv
<1>3. ASSUME NEW pick \in [r.plan.nets -> Ids \cup {None}],
             \A n \in r.plan.nets :
               pick[n] \in Candidates(n, r.plan, r.managed),
             owned' = owned \cup
               {pick[n] : n \in {n \in r.plan.nets :
                    pick[n] # None /\ AsWanted(pick[n], n, r.plan)}},
             Continue(p, [r EXCEPT
               !.todo = PlanRoutes(r.plan, r.managed, pick),
               !.result.routes = [n \in Nets |->
                 IF n \in Kept(r.plan, pick) THEN pick[n]
                 ELSE r.managed.routes[n]]]),
             UNCHANGED obj, Answer
      PROVE  Console /\ Preserved
  <2> DEFINE todo == PlanRoutes(r.plan, r.managed, pick)
             routes == [n \in Nets |-> IF n \in Kept(r.plan, pick) THEN pick[n]
                                       ELSE r.managed.routes[n]]
             s == [r EXCEPT !.todo = todo, !.result.routes = routes]
  <2>1. r.plan.nets \subseteq Nets /\ r.managed \in Managed
        /\ r.result \in Managed
    BY <1>1, ConstantsAssumption DEF Runs
  <2>2. \A n \in r.plan.nets : pick[n] # None => pick[n] \in owned'
    <3> TAKE n \in r.plan.nets
    <3> HAVE pick[n] # None
    <3>1. CASE IsManagedRoute(pick[n], r.managed)
      BY <1>1, <1>3, <3>1 DEF IsManagedRoute, OwnedRun, Recorded
    <3>2. CASE ~IsManagedRoute(pick[n], r.managed)
      <4>1. IsAdoptableRoute(pick[n], n, r.plan)
        BY <1>3, <3>2 DEF Candidates
      <4>2. AsWanted(pick[n], n, r.plan)
        BY <4>1 DEF IsAdoptableRoute, AsWanted, IsRoute
      <4> QED
        BY <1>3, <4>2
    <3> QED
      BY <3>1, <3>2
  <2>3. owned \subseteq owned' /\ owned' \subseteq Ids
    BY <1>3 DEF IInv, TypeOK
  <2>4. routes \in [Nets -> Ids \cup {None}]
        /\ \A n \in Nets : routes[n] \in owned' \cup {None}
    BY <1>1, <2>1, <2>2, <2>3 DEF Managed, Kept, OwnedRun, Recorded
  <2>5. todo \subseteq Steps /\ {t.id : t \in todo} \subseteq owned' \cup {None}
    <3> SUFFICES ASSUME NEW t \in todo
                 PROVE  t \in Steps /\ t.id \in owned' \cup {None}
      OBVIOUS
    <3>1. CASE \E n \in r.plan.nets :
                 t = [do |-> "create", net |-> n, id |-> None]
      BY <2>1, <3>1 DEF Steps
    <3>2. CASE \E n \in r.plan.nets : pick[n] # None
                 /\ t = [do |-> "update", net |-> n, id |-> pick[n]]
      BY <2>1, <2>2, <2>3, <3>2 DEF Steps
    <3>3. CASE \E i \in Ids : IsManagedRoute(i, r.managed)
                 /\ t = [do |-> "delete", net |-> obj[i].net, id |-> i]
      <4>1. PICK i \in Ids : IsManagedRoute(i, r.managed)
                 /\ t = [do |-> "delete", net |-> obj[i].net, id |-> i]
        BY <3>3
      <4>2. obj[i] \in Routes
        BY <4>1 DEF IsManagedRoute, IsRoute, IInv, TypeOK, Objects, Policies
      <4>3. i \in owned
        BY <1>1, <4>1, ConstantsAssumption
           DEF IsManagedRoute, OwnedRun, Recorded
      <4> QED
        BY <4>1, <4>2, <4>3, <2>3 DEF Steps, Routes
    <3> QED
      BY <3>1, <3>2, <3>3 DEF PlanRoutes
  <2>6. s \in Runs
    <3>1. [r.result EXCEPT !.routes = routes] \in Managed
      BY <2>1, <2>4 DEF Managed
    <3> QED
      BY <1>1, <2>5, <3>1 DEF Runs
  <2>7. s.plan = r.plan /\ s.managed = r.managed /\ s.todo = todo
        /\ s.ours = r.ours /\ s.result.routes = routes
        /\ s.result.policy = r.result.policy
    BY <1>1, <2>1 DEF Runs, Managed
  <2>8. OwnedRun(s, owned')
    <3>1. Recorded(s.result) \subseteq owned' \cup {None}
      BY <1>1, <2>3, <2>4, <2>7 DEF OwnedRun, Recorded
    <3> QED
      BY <1>1, <2>3, <2>5, <2>7, <3>1 DEF OwnedRun
  <2>9. Preserved
    BY <1>1, <1>3, <2>3, <2>6, <2>7, <2>8, ContinueAfter
  <2> QED
    BY <1>3, <2>3, <2>9 DEF Console, Respects, Answer, IInv, TypeOK
<1> QED
  BY <1>2, <1>3 DEF List

\* A step creates, or touches an object whose id was found to be owned.
LEMMA StepSound ==
  ASSUME IInv, NEW p \in Syncs, Step(p)
  PROVE  Console /\ Preserved
<1> DEFINE r == run[p]
<1>1. r \in Runs /\ r.plan \in Plans /\ OwnedRun(r, owned)
  BY RunType DEF Step, IInv, Proper, RememberedIsOwned
<1>2. PICK s \in NextSteps(p) :
        \/ /\ Ask(p, s) /\ Answer
           /\ Continue(p, [r EXCEPT !.todo = @ \ {s},
                                    !.result.routes = After(s, @)])
        \/ Ask(p, s) /\ Fault("step") /\ GiveUp(p)
        \/ Refused("step") /\ GiveUp(p)
        \/ s.do # "create" /\ Gone(s.id) /\ GiveUp(p)
        \/ s.do = "create" /\ Clash(Route(s.net, r.plan)) /\ GiveUp(p)
  BY DEF Step
<1>3. s \in Steps /\ s \in r.todo /\ s.id \in owned \cup {None}
  BY <1>1, <1>2 DEF NextSteps, Runs, OwnedRun
<1>4. s.net \in Nets /\ Route(s.net, r.plan) \in Objects
  BY <1>1, <1>3, RouteType DEF Steps
<1>5. ASSUME Ask(p, s), Answer \/ Fault("step") PROVE Console
  BY <1>3, <1>4, <1>5, CreateConsole, UpdateConsole, DeleteConsole
     DEF Ask, IInv
<1>6. ASSUME Refused("step") \/ Gone(s.id) \/ Clash(Route(s.net, r.plan))
      PROVE  Console
  BY <1>6, QuietConsole DEF Refused, Gone, Clash, IInv
<1>7. ASSUME Ask(p, s), Answer,
             Continue(p, [r EXCEPT !.todo = @ \ {s},
                                   !.result.routes = After(s, @)])
      PROVE  Preserved
  <2> DEFINE routes == After(s, r.result.routes)
             t == [r EXCEPT !.todo = @ \ {s}, !.result.routes = routes]
  <2>1. Console
    BY <1>5, <1>7
  <2>2. r.managed \in Managed /\ r.result \in Managed
        /\ r.result.routes \in [Nets -> Ids \cup {None}]
        /\ \A n \in Nets : r.result.routes[n] \in owned \cup {None}
    BY <1>1 DEF Runs, Managed, OwnedRun, Recorded
  <2>3. s.do = "create" => NextId \in owned' /\ NextId \in Ids
    BY <1>3, <1>4, <1>7, CreateType DEF Ask, IInv, Steps
  <2>4. routes \in [Nets -> Ids \cup {None}]
        /\ \A n \in Nets : routes[n] \in owned' \cup {None}
    <3>1. CASE s.do = "delete"
      BY <2>1, <2>2, <3>1 DEF After, Console
    <3>2. CASE s.do # "delete"
      <4> DEFINE i == IF s.do = "create" THEN NextId ELSE s.id
      <4>1. i \in Ids \cup {None} /\ i \in owned' \cup {None}
        BY <1>3, <2>1, <2>3 DEF Steps, Console
      <4>2. routes = [r.result.routes EXCEPT ![s.net] = i]
        BY <3>2 DEF After
      <4> HIDE DEF i, routes
      <4> QED
        BY <1>4, <2>1, <2>2, <4>1, <4>2 DEF Console
    <3> QED
      BY <3>1, <3>2
  <2> HIDE DEF routes
  <2>5. [r.result EXCEPT !.routes = routes] \in Managed
    BY <2>2, <2>4 DEF Managed
  <2>6. t \in Runs
    BY <1>1, <2>5 DEF Runs
  <2>7. t.plan = r.plan /\ t.managed = r.managed /\ t.todo = r.todo \ {s}
        /\ t.ours = r.ours /\ t.result.routes = routes
        /\ t.result.policy = r.result.policy
    BY <1>1, <2>2 DEF Runs, Managed
  <2>8. OwnedRun(t, owned')
    <3>1. Recorded(t.result) \subseteq owned' \cup {None}
      BY <1>1, <2>1, <2>4, <2>7 DEF OwnedRun, Recorded, Console
    <3> QED
      BY <1>1, <2>1, <2>7, <3>1 DEF OwnedRun, Console
  <2>9. Continue(p, t)
    BY <1>7 DEF routes
  <2> HIDE DEF t
  <2> QED
    BY <1>1, <2>1, <2>6, <2>7, <2>8, <2>9, ContinueAfter DEF Console
<1>8. ASSUME Console, GiveUp(p) PROVE Preserved
  BY <1>8, GiveUpAfter DEF Console
<1> QED
  BY <1>2, <1>5, <1>6, <1>7, <1>8

\* What the policy's part of a sync may record.
LEMMA PolicyRecorded ==
  ASSUME IInv, NEW p \in Syncs, run[p].pc # "idle", Console,
         NEW i \in owned' \cup {None}
  PROVE  /\ [run[p].result EXCEPT !.policy = i] \in Managed
         /\ Recorded([run[p].result EXCEPT !.policy = i])
              \subseteq owned' \cup {None}
         /\ run[p].result \in Managed
         /\ Recorded(run[p].result) \subseteq owned' \cup {None}
<1>1. run[p].result \in Managed /\ OwnedRun(run[p], owned)
  BY RunType DEF IInv, Proper, RememberedIsOwned, Runs
<1>2. [run[p].result EXCEPT !.policy = i] \in Managed
  BY <1>1 DEF Managed, Console
<1>3. Recorded(run[p].result) \subseteq owned' \cup {None}
  BY <1>1 DEF OwnedRun, Console
<1>4. Recorded([run[p].result EXCEPT !.policy = i])
        \subseteq owned' \cup {None}
  BY <1>1, <1>3 DEF Recorded, Managed
<1> QED
  BY <1>1, <1>2, <1>3, <1>4

LEMMA FindPolicySound ==
  ASSUME IInv, NEW p \in Syncs, FindPolicy(p)
  PROVE  Console /\ Preserved
<1> DEFINE r == run[p]
<1>1. r \in Runs /\ r.plan \in Plans /\ OwnedRun(r, owned) /\ r.pc # "idle"
  BY RunType DEF FindPolicy, IInv, Proper, RememberedIsOwned
<1>2. CASE Refused("policy") /\ (Finish(p, r.result) \/ GiveUp(p))
  <2>1. Console
    BY <1>2, QuietConsole DEF Refused, IInv
  <2> QED
    BY <1>1, <1>2, <2>1, PolicyRecorded, FinishAfter, GiveUpAfter DEF Console
<1>3. ASSUME NEW i \in OurPolicy(r.plan, r.managed),
             owned' = IF i # None /\ obj[i] = Policy(r.plan)
                      THEN owned \cup {i} ELSE owned,
             IF i # None /\ obj[i] = Policy(r.plan)
             THEN Finish(p, [r.result EXCEPT !.policy = i])
             ELSE /\ run' = [run EXCEPT ![p].pc = "put", ![p].ours = i]
                  /\ UNCHANGED <<link, seen>>,
             UNCHANGED obj, Answer
      PROVE  Console /\ Preserved
  <2>1. i \in Ids \cup {None}
    BY <1>1 DEF OurPolicy, Runs, Managed
  <2>2. Console
    BY <1>3, <2>1 DEF Console, Respects, Answer, IInv, TypeOK
  <2>3. CASE i # None /\ obj[i] = Policy(r.plan)
    <3>1. i \in owned' \cup {None}
      BY <1>3, <2>3
    <3> QED
      BY <1>1, <1>3, <2>2, <2>3, <3>1, PolicyRecorded, FinishAfter DEF Console
  <2>4. CASE ~(i # None /\ obj[i] = Policy(r.plan))
    <3> DEFINE s == [r EXCEPT !.pc = "put", !.ours = i]
    <3>1. i \in owned \cup {None}
      BY <1>1, <2>4 DEF OurPolicy, OwnedRun, Recorded
    <3>2. run' = [run EXCEPT ![p] = s] /\ UNCHANGED <<link, seen>>
          /\ owned' = owned
      BY <1>3, <2>4 DEF IInv, TypeOK
    <3>3. s \in Runs /\ s.plan = r.plan /\ s.managed = r.managed
          /\ s.result = r.result /\ s.todo = r.todo /\ s.ours = i
      BY <1>1, <2>1 DEF Runs
    <3>4. Proper(s) /\ OwnedRun(s, owned')
      BY <1>1, <3>1, <3>2, <3>3 DEF Proper, OwnedRun
    <3> QED
      BY <2>2, <3>2, <3>4, StayAfter DEF Console
  <2> QED
    BY <2>2, <2>3, <2>4
<1> QED
  BY <1>2, <1>3 DEF FindPolicy

LEMMA PutPolicySound ==
  ASSUME IInv, NEW p \in Syncs, PutPolicy(p)
  PROVE  Console /\ Preserved
<1> DEFINE r == run[p]
           put == IF r.ours = None THEN Create(Policy(r.plan))
                  ELSE Update(r.ours, Policy(r.plan))
           id == IF r.ours = None THEN NextId ELSE r.ours
<1>1. /\ r.plan \in Plans /\ r.pc # "idle"
      /\ r.ours \in Ids \cup {None} /\ r.ours \in owned \cup {None}
      /\ Policy(r.plan) \in Objects
  BY RunType, PolicyType
     DEF PutPolicy, IInv, Proper, RememberedIsOwned, Runs, OwnedRun
<1>2. ASSUME put, Answer \/ Fault("policy")
      PROVE  Console /\ id \in owned' \cup {None}
  <2>1. Console
    BY <1>1, <1>2, CreateConsole, UpdateConsole DEF IInv
  <2>2. id \in owned' \cup {None}
    BY <1>1, <1>2, <2>1, CreateType DEF Console, IInv
  <2> QED
    BY <2>1, <2>2
<1>3. ASSUME Refused("policy") \/ Gone(r.ours) \/ Clash(Policy(r.plan))
      PROVE  Console
  BY <1>3, QuietConsole DEF Refused, Gone, Clash, IInv
<1>4. ASSUME Console, Finish(p, r.result) \/ GiveUp(p)
      PROVE  Preserved
  BY <1>1, <1>4, PolicyRecorded, FinishAfter, GiveUpAfter DEF Console
<1>5. ASSUME Console, id \in owned' \cup {None},
             Finish(p, [r.result EXCEPT !.policy = id])
      PROVE  Preserved
  <2> HIDE DEF id
  <2> QED
    BY <1>1, <1>5, PolicyRecorded, FinishAfter DEF Console
<1>6. \/ put /\ Answer /\ Finish(p, [r.result EXCEPT !.policy = id])
      \/ put /\ Fault("policy") /\ (Finish(p, r.result) \/ GiveUp(p))
      \/ Refused("policy") /\ (Finish(p, r.result) \/ GiveUp(p))
      \/ Gone(r.ours) /\ Finish(p, r.result)
      \/ Clash(Policy(r.plan)) /\ Finish(p, r.result)
  BY DEF PutPolicy
<1> HIDE DEF put, id
<1> QED
  BY <1>2, <1>3, <1>4, <1>5, <1>6

LEMMA DropPolicySound ==
  ASSUME IInv, NEW p \in Syncs, DropPolicy(p)
  PROVE  Console /\ Preserved
<1> DEFINE r == run[p]
           dropped == [r.result EXCEPT !.policy = None]
           i == r.managed.policy
<1>1. r.pc # "idle" /\ i \in owned \cup {None}
  BY DEF DropPolicy, IInv, RememberedIsOwned, OwnedRun, Recorded
<1>2. ASSUME Delete(i), Answer \/ Fault("policy")
      PROVE  Console
  BY <1>1, <1>2, DeleteConsole DEF IInv
<1>3. ASSUME Refused("policy") \/ Gone(i)
      PROVE  Console
  BY <1>3, QuietConsole DEF Refused, Gone, IInv
<1>4. ASSUME Console, Finish(p, dropped) \/ GiveUp(p)
      PROVE  Preserved
  BY <1>1, <1>4, PolicyRecorded, FinishAfter, GiveUpAfter DEF Console
<1>5. \/ Delete(i) /\ Answer /\ Finish(p, dropped)
      \/ Delete(i) /\ Fault("policy") /\ (Finish(p, dropped) \/ GiveUp(p))
      \/ Refused("policy") /\ (Finish(p, dropped) \/ GiveUp(p))
      \/ Gone(i) /\ Finish(p, dropped)
  BY DEF DropPolicy
<1> HIDE DEF dropped, i
<1> QED
  BY <1>2, <1>3, <1>4, <1>5

LEMMA SyncSound ==
  ASSUME IInv, NEW p \in Syncs, Sync(p)
  PROVE  Console /\ Preserved
  BY ListSound, StepSound, FindPolicySound, PutPolicySound, DropPolicySound
     DEF Sync

-----------------------------------------------------------------------------
(* The actions of an unlink *)

LEMMA DropType ==
  ASSUME IInv, NEW row, Drop(row), owned \subseteq owned'
  PROVE  /\ link' \in Links \cup {None}
         /\ link' # None => Recorded(link'.managed) \subseteq owned' \cup {None}
  BY DEF Drop, IInv, TypeOK, RememberedIsOwned

\* What an unlink may leave in its locals.
Removing == /\ link' \in Links \cup {None}
            /\ link' # None
                 => Recorded(link'.managed) \subseteq owned' \cup {None}
            /\ un' \in Removals
            /\ Recorded(un'.managed) \cup un'.todo \subseteq owned' \cup {None}

LEMMA UnlinkingSound ==
  ASSUME IInv, owned \subseteq owned', NEW todo \in SUBSET Ids,
         todo \subseteq owned, Unlinking(todo)
  PROVE  Removing
<1>1. CASE todo = {}
  <2>1. un' = NoRemoval /\ Drop(un.row)
    BY <1>1 DEF Unlinking
  <2> QED
    BY <2>1, DropType, UnownedType, UnownedIsOwned
       DEF Removing, NoRemoval, Removals
<1>2. CASE todo # {}
  <2>1. un' = [un EXCEPT !.pc = "delete", !.todo = todo] /\ link' = link
    BY <1>2 DEF Unlinking
  <2>2. un \in Removals /\ Recorded(un.managed) \subseteq owned \cup {None}
    BY DEF IInv, TypeOK, RememberedIsOwned
  <2>3. un' \in Removals /\ un'.managed = un.managed /\ un'.todo = todo
    BY <2>1, <2>2 DEF Removals
  <2> QED
    BY <2>1, <2>2, <2>3 DEF Removing, IInv, TypeOK, RememberedIsOwned
<1> QED
  BY <1>1, <1>2

LEMMA ListOwnedSound ==
  ASSUME IInv, ListOwned
  PROVE  Console /\ Removing
<1>1. Removable(un.managed) \subseteq Ids
      /\ Removable(un.managed) \subseteq owned
  BY ConstantsAssumption DEF Removable, IsManagedRoute, Recorded, IInv, TypeOK,
     RememberedIsOwned, Removals, Managed
<1>2. CASE Unlinking(Removable(un.managed))
             /\ UNCHANGED <<obj, owned>> /\ Answer
  BY <1>1, <1>2, UnlinkingSound, QuietConsole DEF Answer, IInv
<1>3. CASE Refused("unlink") /\ Unlinking({})
  BY <1>3, UnlinkingSound, QuietConsole DEF Refused, IInv
<1> QED
  BY <1>2, <1>3 DEF ListOwned

LEMMA DeleteOwnedSound ==
  ASSUME IInv, DeleteOwned
  PROVE  Console /\ Removing
<1>1. PICK i \in un.todo :
        /\ \/ Delete(i) /\ (Answer \/ Fault("unlink"))
           \/ Refused("unlink")
           \/ Gone(i)
        /\ Unlinking(un.todo \ {i})
  BY DEF DeleteOwned
<1>2. un.todo \subseteq Ids /\ un.todo \subseteq owned
  BY ConstantsAssumption DEF IInv, TypeOK, RememberedIsOwned, Removals
<1>3. Console
  BY <1>1, <1>2, DeleteConsole, QuietConsole DEF Refused, Gone, IInv
<1>4. Removing
  BY <1>1, <1>2, <1>3, UnlinkingSound DEF Console
<1> QED
  BY <1>3, <1>4

-----------------------------------------------------------------------------
(* Every step keeps the invariant, and respects what is not owned *)

LEMMA InitInv == Init => IInv
<1> SUFFICES ASSUME Init PROVE IInv
  OBVIOUS
<1>1. Proper(Idle) /\ OwnedRun(Idle, owned)
  BY IdleType, IdleIsOwned
<1>2. run \in [Syncs -> Runs]
      /\ \A p \in Syncs : run[p].pc # "idle" => run[p].plan \in Plans
  BY <1>1 DEF Init, Proper
<1>3. un \in Removals
      /\ Recorded(un.managed) \cup un.todo \subseteq owned \cup {None}
  BY UnownedType, UnownedIsOwned DEF Init, NoRemoval, Removals
<1>4. /\ faults \in 0..MaxFaults /\ changes \in 0..MaxChanges
      /\ deletes \in 0..MaxDeletes /\ clicks \in 0..MaxClicks
  BY ConstantsAssumption DEF Init
<1>5. obj \in [Ids -> Objects \cup {None}]
  BY ConstantsAssumption DEF Init
<1>6. TypeOK
  BY <1>2, <1>3, <1>4, <1>5 DEF Init, TypeOK
<1> QED
  BY <1>1, <1>3, <1>6 DEF Init, IInv, RememberedIsOwned

LEMMA BeginSound ==
  ASSUME IInv, NEW p \in Syncs, link # None, plan # None, Begin(p),
         owned' = owned
  PROVE  /\ run' \in [Syncs -> Runs]
         /\ \A q \in Syncs : run'[q].pc # "idle" => run'[q].plan \in Plans
         /\ \A q \in Syncs : OwnedRun(run'[q], owned')
<1> DEFINE r == [Idle EXCEPT !.pc = "list", !.row = link.row, !.plan = plan,
                             !.managed = link.managed, !.result = link.managed]
<1>1. link \in Links /\ plan \in Plans
      /\ Recorded(link.managed) \subseteq owned \cup {None}
  BY DEF IInv, TypeOK, RememberedIsOwned
<1>2. r \in Runs /\ r.plan = plan /\ r.managed = link.managed
      /\ r.result = link.managed /\ r.todo = {} /\ r.ours = None
  BY <1>1, UnownedType DEF Idle, Runs, Links
<1>3. Proper(r) /\ OwnedRun(r, owned')
  BY <1>1, <1>2 DEF Proper, OwnedRun
<1>4. run' = [run EXCEPT ![p] = r]
  BY DEF Begin
<1> HIDE DEF r
<1> QED
  BY <1>3, <1>4, NewLocals

LEMMA TickInv == ASSUME IInv, Tick PROVE IInv'
<1>1. "pass" \in Syncs
  BY ConstantsAssumption
<1>2. /\ run' \in [Syncs -> Runs]
      /\ \A q \in Syncs : run'[q].pc # "idle" => run'[q].plan \in Plans
      /\ \A q \in Syncs : OwnedRun(run'[q], owned')
  <2>1. CASE link # None /\ plan # None
    BY <1>1, <2>1, BeginSound DEF Tick
  <2>2. CASE ~(link # None /\ plan # None)
    BY <2>2 DEF Tick, IInv, TypeOK, RememberedIsOwned, OwnedRun
  <2> QED
    BY <2>1, <2>2
<1>3. TypeOK'
  BY <1>2 DEF Tick, Noted, IInv, TypeOK
<1> QED
  BY <1>2, <1>3 DEF Tick, IInv, RememberedIsOwned

LEMMA SyncNowInv == ASSUME IInv, SyncNow PROVE IInv'
<1>1. /\ run' \in [Syncs -> Runs]
      /\ \A q \in Syncs : run'[q].pc # "idle" => run'[q].plan \in Plans
      /\ \A q \in Syncs : OwnedRun(run'[q], owned')
  BY BeginSound DEF SyncNow
<1>2. TypeOK'
  BY <1>1, ConstantsAssumption DEF SyncNow, IInv, TypeOK
<1> QED
  BY <1>1, <1>2 DEF SyncNow, IInv, RememberedIsOwned

LEMMA SyncInv ==
  ASSUME IInv, NEW p \in Syncs, Sync(p)
  PROVE  IInv' /\ Respects
<1>1. Console /\ Preserved
  BY SyncSound
<1>2. UNCHANGED <<plan, un, rows, changes, deletes, clicks>>
  BY DEF Sync, List, Step, FindPolicy, PutPolicy, DropPolicy
<1>3. TypeOK'
  <2>1. plan' \in Plans \cup {None} /\ un' \in Removals /\ rows' \in Nat
        /\ changes' \in 0..MaxChanges /\ deletes' \in 0..MaxDeletes
        /\ clicks' \in 0..MaxClicks
    BY <1>2 DEF IInv, TypeOK
  <2>2. /\ obj' \in [Ids -> Objects \cup {None}] /\ owned' \subseteq Ids
        /\ faults' \in 0..MaxFaults
    BY <1>1 DEF Console
  <2>3. /\ run' \in [Syncs -> Runs] /\ link' \in Links \cup {None}
        /\ seen' \in BOOLEAN
        /\ \A q \in Syncs : run'[q].pc # "idle" => run'[q].plan \in Plans
    BY <1>1 DEF Preserved
  <2> QED
    BY <2>1, <2>2, <2>3 DEF TypeOK
<1>4. RememberedIsOwned'
  <2>1. Recorded(un'.managed) \cup un'.todo \subseteq owned' \cup {None}
    BY <1>1, <1>2 DEF Console, IInv, RememberedIsOwned
  <2>2. /\ link' # None => Recorded(link'.managed) \subseteq owned' \cup {None}
        /\ \A q \in Syncs : OwnedRun(run'[q], owned')
    BY <1>1 DEF Preserved
  <2> QED
    BY <2>1, <2>2 DEF RememberedIsOwned
<1> QED
  BY <1>1, <1>3, <1>4 DEF Console, IInv

LEMMA SaveLinkInv == ASSUME IInv, SaveLink PROVE IInv'
<1>1. link' \in Links /\ Recorded(link'.managed) \subseteq {None}
  BY UnownedType, UnownedIsOwned DEF SaveLink, Links, IInv, TypeOK
<1>2. TypeOK'
  BY <1>1, ConstantsAssumption DEF SaveLink, IInv, TypeOK
<1> QED
  BY <1>1, <1>2 DEF SaveLink, IInv, RememberedIsOwned, OwnedRun

LEMMA UnlinkInv ==
  ASSUME IInv, NEW remove \in Unlinks, Unlink(remove)
  PROVE  IInv'
<1>1. link \in Links /\ un \in Removals
  BY DEF Unlink, IInv, TypeOK
<1>2. CASE remove
  <2>1. un' = [un EXCEPT !.pc = "list", !.row = link.row,
                         !.managed = link.managed] /\ link' = link
    BY <1>2 DEF Unlink
  <2>2. un' \in Removals /\ un'.managed = link.managed /\ un'.todo = un.todo
    BY <1>1, <2>1 DEF Removals, Links
  <2>3. TypeOK'
    BY <2>1, <2>2 DEF Unlink, IInv, TypeOK
  <2> QED
    BY <2>1, <2>2, <2>3 DEF Unlink, IInv, RememberedIsOwned, OwnedRun
<1>3. CASE ~remove
  <2>1. Drop(link.row) /\ un' = un /\ owned' = owned
    BY <1>3 DEF Unlink
  <2>2. /\ link' \in Links \cup {None}
        /\ link' # None => Recorded(link'.managed) \subseteq owned' \cup {None}
    BY <2>1, DropType
  <2>3. TypeOK'
    BY <2>1, <2>2 DEF Unlink, IInv, TypeOK
  <2> QED
    BY <2>1, <2>2, <2>3 DEF Unlink, IInv, RememberedIsOwned, OwnedRun
<1> QED
  BY <1>2, <1>3

LEMMA RemovalInv ==
  ASSUME IInv, ListOwned \/ DeleteOwned
  PROVE  IInv' /\ Respects
<1>1. Console /\ Removing
  BY ListOwnedSound, DeleteOwnedSound
<1>2. UNCHANGED <<plan, seen, run, rows, changes, deletes, clicks>>
  BY DEF ListOwned, DeleteOwned
<1>3. TypeOK'
  BY <1>1, <1>2 DEF Console, Removing, IInv, TypeOK
<1>4. RememberedIsOwned'
  BY <1>1, <1>2 DEF Console, Removing, IInv, RememberedIsOwned, OwnedRun
<1> QED
  BY <1>1, <1>3, <1>4 DEF Console, IInv

LEMMA ChangePlanInv == ASSUME IInv, ChangePlan PROVE IInv'
<1>1. plan' \in Plans \cup {None}
  BY DEF ChangePlan
<1>2. changes' \in 0..MaxChanges
  BY ConstantsAssumption DEF ChangePlan, IInv, TypeOK
<1>3. UNCHANGED <<obj, link, run, un, owned, rows, faults, deletes, clicks>>
      /\ seen' = FALSE
  BY DEF ChangePlan
<1>4. \A q \in Syncs : run'[q].pc # "idle" => run'[q].plan \in Plans
  BY <1>3 DEF IInv, TypeOK
<1>5. TypeOK'
  BY <1>1, <1>2, <1>3, <1>4 DEF IInv, TypeOK
<1> QED
  BY <1>5 DEF ChangePlan, IInv, RememberedIsOwned, OwnedRun

LEMMA AdminDeleteInv == ASSUME IInv, AdminDelete PROVE IInv'
<1>1. TypeOK'
  BY ConstantsAssumption DEF AdminDelete, IInv, TypeOK
<1> QED
  BY <1>1 DEF AdminDelete, IInv, RememberedIsOwned, OwnedRun

LEMMA StutterInv == ASSUME IInv, UNCHANGED vars PROVE IInv'
  BY DEF IInv, TypeOK, RememberedIsOwned, OwnedRun, vars

LEMMA NextInv == IInv /\ [Next]_vars => IInv'
  BY TickInv, SyncNowInv, SyncInv, SaveLinkInv, UnlinkInv, RemovalInv,
     ChangePlanInv, AdminDeleteInv, StutterInv DEF Next

LEMMA NextRespects ==
  ASSUME IInv, Next, run' # run \/ un' # un
  PROVE  Respects
<1>1. CASE Tick \/ SyncNow \/ SaveLink \/ ChangePlan \/ AdminDelete
           \/ \E remove \in Unlinks : Unlink(remove)
  BY <1>1 DEF Tick, SyncNow, SaveLink, ChangePlan, AdminDelete, Unlink,
     Respects
<1> QED
  BY <1>1, SyncInv, RemovalInv DEF Next

-----------------------------------------------------------------------------
(* The theorems *)

LEMMA Inductive == Spec => []IInv
  BY InitInv, NextInv, PTL DEF Spec

\* Types are kept, whatever fails and however the syncs overlap.
THEOREM TypeCorrect == Spec => []TypeOK
<1>1. IInv => TypeOK
  BY DEF IInv
<1> QED
  BY <1>1, Inductive, PTL

\* No sync and no unlink changes or deletes an object of the console that
\* OPNmesh neither created nor adopted when it was just as wanted: for any
\* console, any plans, any failures and any overlap of syncs and unlinks.
THEOREM TouchesOnlyItsOwn == Spec => OnlyOwn
<1>1. IInv /\ [Next]_vars =>
        [run' # run \/ un' # un =>
           \A i \in Ids : obj[i] # None /\ obj'[i] # obj[i]
                            => i \in owned]_vars
  BY NextRespects DEF Respects
<1> QED
  BY <1>1, Inductive, PTL DEF Spec, OnlyOwn


-----------------------------------------------------------------------------
(* The link to the console: whose certificate gets the key *)

Places == Hosts \union {NoCert}
Forms == [open : BOOLEAN, addr : Places, probed : Certs, public : BOOLEAN, identity : BOOLEAN,
          trusted : Certs, fresh : BOOLEAN]
Probes == [at : {"none", "sent", "trusted", "answered", "threw"}, addr : Places,
           trust : Certs, cert : Certs,
           identity : BOOLEAN, fresh : BOOLEAN]
SiteLinks == [addr : Places, pin : Certs, fresh : BOOLEAN]
Clients == [addr : Places, pin : Certs]

ConsoleTypes ==
    /\ shows \in [Hosts -> Certificates]
    /\ form \in Forms /\ (form.open => form.addr \in Hosts)
    /\ probing \in Probes /\ (probing # NoProbe => probing.addr \in Hosts)
    /\ siteLink \in SiteLinks /\ (siteLink # NoLink => siteLink.addr \in Hosts)
    /\ syncing \in Clients /\ (syncing # NoClient => syncing.addr \in Hosts)
    /\ gave \in Clients

\* What may be pinned: what was confirmed or found publicly trusted, or nothing.
Good == confirmed \union vouched \union {NoCert}

\* Wherever a certificate is kept to be trusted, it may be; a probe goes on with
\* one, and is answered with an identity, only if it may.
PinsAreGood ==
    /\ {form.trusted, siteLink.pin, syncing.pin, probing.trust} \subseteq Good
    /\ probing.at = "trusted" => Trusted(probing, probing.cert)
    /\ probing.identity => probing.at \in {"answered", "threw"} /\ Trusted(probing, probing.cert)
    /\ SystemTrusted(probing.cert, probing.addr) => probing.cert \in Good
    /\ form.identity => form.public \/ form.probed \in Good

\* A client with this pin connects, and another publicly trusted certificate in
\* place of one makes no difference to it.
Stays(pin, a) ==
    /\ a \in Hosts /\ Connects(pin, a)
    /\ pin # NoCert => ~SystemTrusted(pin, a)

ProbedPin(p) == IF SystemTrusted(p.cert, p.addr) THEN NoCert ELSE p.cert

FreshStays ==
    /\ siteLink.fresh => Stays(siteLink.pin, siteLink.addr)
    /\ form.fresh => Stays(PinToSave(form), form.addr)
    /\ probing.fresh => Stays(ProbedPin(probing), probing.addr)

GaveToGood == gave # NoClient =>
         gave.pin \in confirmed \union vouched \/ SystemTrusted(gave.pin, gave.addr)

ConsoleInv == ConsoleTypes /\ PinsAreGood /\ FreshStays /\ GaveToGood

CallsTypes ==
    /\ current \in [n : {0} \union CallNos, at : {"ok", "failed", "first login", "try",
                                                  "login", "retry"}]
    /\ straying \in [CallNos -> {0, 1}] /\ carriedOut \in [CallNos -> {0, 1}]

Untouched(n) == carriedOut[n] = 0 /\ straying[n] = 0

\* Which of a call's messages are under way, by where it stands; what was not yet
\* sent, or refused for want of a session, has changed nothing.
CallInFlight ==
    /\ Finished => wire = "nothing"
    /\ current.at = "first login" => current.n = 0
    /\ current.at \in {"login", "first login"} => wire \in {"login", "cookie", "no"}
    /\ current.at \in {"try", "retry"} => wire \in {"request", "401", "done", "bad"}
    /\ current.at \in {"login", "try", "retry"} => current.n # 0
    /\ current.at = "login" \/ wire \in {"request", "401"} => Untouched(current.n)
    /\ wire = "done" => carriedOut[current.n] = 1
    /\ current.at = "ok" /\ current.n # 0 => carriedOut[current.n] = 1
    /\ \A n \in CallNos : n > current.n => Untouched(n)
    /\ aborted => Finished

AtMostOnce == \A n \in CallNos : carriedOut[n] = 0 \/ straying[n] = 0

CallsInv == CallsTypes /\ CallInFlight /\ AtMostOnce

LEMMA NoneShapes ==
  /\ \A a : ~SystemTrusted(NoCert, a)
  /\ NoForm \in Forms /\ NoProbe \in Probes /\ NoLink \in SiteLinks /\ NoClient \in Clients
  /\ ~NoForm.open /\ ~NoForm.identity /\ ~NoForm.fresh /\ NoForm.trusted = NoCert
  /\ NoProbe.cert = NoCert /\ NoProbe.at = "none" /\ NoProbe.trust = NoCert /\
       ~NoProbe.identity /\ ~NoProbe.fresh
  /\ NoLink.pin = NoCert /\ ~NoLink.fresh /\ NoClient.pin = NoCert
  BY ConsoleAssumption
  DEF SystemTrusted, NoForm, NoProbe, NoLink, NoClient, Forms, Probes, SiteLinks, Clients, Places,
      Certs

LEMMA ConsoleTypesStep == ConsoleInv /\ [ConsoleNext]_consoleVars => ConsoleTypes'
<1> SUFFICES ASSUME ConsoleInv, [ConsoleNext]_consoleVars PROVE ConsoleTypes'
  OBVIOUS
<1> USE ConsoleAssumption, NoneShapes DEF ConsoleInv
<1>0. CASE UNCHANGED consoleVars
  BY <1>0 DEF consoleVars, ConsoleTypes
<1>1. ASSUME NEW a \in Hosts, OpenForm(a) PROVE ConsoleTypes'
  <2>1. form' \in Forms
    BY <1>1 DEF OpenForm, ConsoleTypes, Forms, SiteLinks, Probes, Places, Certs
  <2>2. form'.open => form'.addr \in Hosts
    BY <1>1 DEF OpenForm
  <2> QED
    BY <1>1, <2>1, <2>2 DEF OpenForm, ConsoleTypes
<1>2. ASSUME NEW a \in Hosts, EditAddress(a) PROVE ConsoleTypes'
  <2>1. form' \in Forms
    BY <1>2 DEF EditAddress, ConsoleTypes, Forms, SiteLinks, Probes, Places, Certs
  <2>2. form'.open => form'.addr \in Hosts
    BY <1>2 DEF EditAddress
  <2> QED
    BY <1>2, <2>1, <2>2 DEF EditAddress, ConsoleTypes
<1>3. ASSUME NEW a \in Hosts, NEW c \in Certificates, ConsoleChanges(a, c) PROVE ConsoleTypes'
  <2> DEFINE Still(x) == IF x.addr = a /\ ~(SystemTrusted(shows[a], a) /\
                                            SystemTrusted(c, a))
                                              THEN [x EXCEPT !.fresh = FALSE] ELSE x
  <2>1. /\ form' = Still(form) /\ probing' = Still(probing) /\ siteLink' = Still(siteLink)
        /\ shows' = [shows EXCEPT ![a] = c]
    BY <1>3 DEF ConsoleChanges
  <2>2. Still(form) \in Forms /\ Still(form).open = form.open /\ Still(form).addr = form.addr
    BY DEF ConsoleTypes, Forms
  <2>3. Still(probing) \in Probes /\ Still(probing).addr = probing.addr
    BY DEF ConsoleTypes, Probes
  <2>4. Still(siteLink) \in SiteLinks /\ Still(siteLink).addr = siteLink.addr
    BY DEF ConsoleTypes, SiteLinks
  <2>5. /\ (probing = NoProbe => Still(probing) = NoProbe)
        /\ (siteLink = NoLink => Still(siteLink) = NoLink)
    <3>1. \A p \in Probes : ~p.fresh => [p EXCEPT !.fresh = FALSE] = p
      BY DEF Probes
    <3>2. \A l \in SiteLinks : ~l.fresh => [l EXCEPT !.fresh = FALSE] = l
      BY DEF SiteLinks
    <3> QED
      BY <3>1, <3>2
  <2> HIDE DEF Still
  <2> QED
    BY <1>3, <2>1, <2>2, <2>3, <2>4, <2>5 DEF ConsoleChanges, ConsoleTypes
<1>4. CASE CancelForm
  BY <1>4 DEF CancelForm, ConsoleTypes
<1>5. CASE TestConnection
  <2>1. probing' \in Probes
    BY <1>5 DEF TestConnection, DoProbe, ConsoleTypes, Forms, Probes, Places, Certs
  <2>2. probing'.addr \in Hosts
    BY <1>5 DEF TestConnection, DoProbe, ConsoleTypes
  <2>3. gave' \in Clients
    BY <1>5 DEF TestConnection, DoProbe, ConsoleTypes
  <2> QED
    BY <1>5, <2>1, <2>2, <2>3 DEF TestConnection, DoProbe, ConsoleTypes
<1>6. CASE TrustCertificate
  <2>1. probing' \in Probes
    BY <1>6 DEF TrustCertificate, DoProbe, ConsoleTypes, Forms, Probes, Places, Certs
  <2>2. probing'.addr \in Hosts
    BY <1>6 DEF TrustCertificate, DoProbe, ConsoleTypes
  <2>3. gave' \in Clients
    BY <1>6 DEF TrustCertificate, DoProbe, ConsoleTypes
  <2> QED
    BY <1>6, <2>1, <2>2, <2>3 DEF TrustCertificate, DoProbe, ConsoleTypes
<1>7. CASE ProbeAnswered
  <2>1. form' = form \/ (/\ form.open /\ form'.open /\ form'.addr = form.addr /\ form' \in Forms)
    <3> DEFINE new == [form EXCEPT !.probed = probing.cert,
                       !.public = SystemTrusted(probing.cert, probing.addr),
                        !.identity = probing.identity,
                        !.trusted = IF SystemTrusted(probing.cert, probing.addr) \/
                          probing.trust = probing.cert THEN probing.cert ELSE @,
                        !.fresh = probing.fresh /\ probing.identity /\ probing.addr = form.addr]
    <3>1. form' = form \/ (form.open /\ form' = new)
      BY <1>7 DEF ProbeAnswered
    <3>2. /\ probing.cert \in Certs /\ probing.identity \in BOOLEAN
          /\ SystemTrusted(probing.cert, probing.addr) \in BOOLEAN
      BY DEF ConsoleTypes, Probes, SystemTrusted
    <3>3. new \in Forms /\ new.open = form.open /\ new.addr = form.addr
      BY <3>2 DEF ConsoleTypes, Forms
    <3> QED
      BY <3>1, <3>3
  <2> QED
    BY <1>7, <2>1 DEF ProbeAnswered, ConsoleTypes
<1>8. CASE ProbeLost
  BY <1>8 DEF ProbeLost, ConsoleTypes, Probes
<1>9. CASE FetchConsoleCertificate
  <2>1. probing' \in Probes
    BY <1>9 DEF FetchConsoleCertificate, ConsoleTypes, Forms, Probes, Places, Certs
  <2>2. probing'.addr \in Hosts
    BY <1>9 DEF FetchConsoleCertificate, ConsoleTypes
  <2>3. gave' \in Clients
    BY <1>9 DEF FetchConsoleCertificate, ConsoleTypes
  <2> QED
    BY <1>9, <2>1, <2>2, <2>3 DEF FetchConsoleCertificate, ConsoleTypes
<1>10. CASE CheckCredentials
  <2>1. probing' \in Probes
    BY <1>10 DEF CheckCredentials, Credentials, ConsoleTypes, Forms, Probes, Places, Certs
  <2>2. probing'.addr \in Hosts
    BY <1>10 DEF CheckCredentials, Credentials, ConsoleTypes, Forms, Probes
  <2>3. gave' \in Clients
    BY <1>10 DEF CheckCredentials, Credentials, ConsoleTypes, Clients, Places, Certs, Probes
  <2> QED
    BY <1>10, <2>1, <2>2, <2>3 DEF CheckCredentials, Credentials, ConsoleTypes
<1>11. CASE SaveForm
  <2>1. siteLink' \in SiteLinks /\ siteLink'.addr \in Hosts
    BY <1>11 DEF SaveForm, PinToSave, ConsoleTypes, Forms, SiteLinks
  <2> QED
    BY <1>11, <2>1 DEF SaveForm, ConsoleTypes
<1>12. CASE ClientFor
  BY <1>12 DEF ClientFor, ConsoleTypes, SiteLinks, Clients
<1>13. CASE SyncRequest
  BY <1>13 DEF SyncRequest, Credentials, ConsoleTypes, Clients, Certs
<1>14. CASE RemoveLink
  BY <1>14 DEF RemoveLink, ConsoleTypes
<1> QED
  BY <1>0, <1>1, <1>2, <1>3, <1>4, <1>5, <1>6, <1>7, <1>8, <1>9, <1>10, <1>11, <1>12, <1>13,
     <1>14
  DEF ConsoleNext

LEMMA PinsStep == ConsoleInv /\ [ConsoleNext]_consoleVars => PinsAreGood'
<1> SUFFICES ASSUME ConsoleInv, [ConsoleNext]_consoleVars PROVE PinsAreGood'
  OBVIOUS
<1> USE ConsoleAssumption, NoneShapes DEF ConsoleInv
<1>0. CASE UNCHANGED consoleVars
  BY <1>0 DEF consoleVars, PinsAreGood, Good
<1>1. ASSUME NEW a \in Hosts, OpenForm(a) PROVE PinsAreGood'
  BY <1>1 DEF OpenForm, PinsAreGood, Good
<1>2. ASSUME NEW a \in Hosts, EditAddress(a) PROVE PinsAreGood'
  BY <1>2 DEF EditAddress, PinsAreGood, Good
<1>3. ASSUME NEW a \in Hosts, NEW c \in Certificates, ConsoleChanges(a, c) PROVE PinsAreGood'
  BY <1>3 DEF ConsoleChanges, PinsAreGood, Good, Trusted
<1>4. CASE CancelForm
  BY <1>4 DEF CancelForm, PinsAreGood, Good
<1>5. CASE TestConnection
  BY <1>5 DEF TestConnection, DoProbe, PinsAreGood, Good
<1>6. CASE TrustCertificate
  BY <1>6 DEF TrustCertificate, DoProbe, PinsAreGood, Good
<1>7. CASE ProbeAnswered
  <2>1. form'.trusted \in Good
    <3>1. form'.trusted \in {form.trusted, probing.trust} \/
            (form'.trusted = probing.cert /\ SystemTrusted(probing.cert, probing.addr))
      BY <1>7 DEF ProbeAnswered
    <3> QED
      BY <1>7, <3>1 DEF PinsAreGood
  <2>2. form'.identity => form'.public \/ form'.probed \in Good
    BY <1>7 DEF ProbeAnswered, PinsAreGood, Trusted
  <2> QED
    BY <1>7, <2>1, <2>2 DEF ProbeAnswered, PinsAreGood, Good
<1>8. CASE ProbeLost
  BY <1>8 DEF ProbeLost, PinsAreGood, Good, Trusted
<1>9. CASE FetchConsoleCertificate
  <2> DEFINE cert == shows[probing.addr]
  <2>1. probing' = [probing EXCEPT !.cert = cert, !.fresh = TRUE,
                    !.at = IF Trusted(probing, cert) THEN "trusted" ELSE "answered"]
    BY <1>9 DEF FetchConsoleCertificate
  <2>2. /\ probing'.cert = cert /\ probing'.addr = probing.addr
        /\ probing'.trust = probing.trust /\ probing'.identity = probing.identity
        /\ (probing'.at = "trusted" => Trusted(probing, cert))
    BY <2>1 DEF ConsoleTypes, Probes
  <2>3. ~probing.identity
    BY <1>9 DEF FetchConsoleCertificate, PinsAreGood
  <2>4. Good \subseteq Good'
    BY <1>9 DEF FetchConsoleCertificate, Good
  <2>5. SystemTrusted(cert, probing.addr) => cert \in Good'
    BY <1>9 DEF FetchConsoleCertificate, Good
  <2> HIDE DEF cert
  <2> QED
    BY <1>9, <2>2, <2>3, <2>4, <2>5 DEF FetchConsoleCertificate, PinsAreGood, Trusted
<1>10. CASE CheckCredentials
  <2>1. UNCHANGED probing \/
          \E ok \in BOOLEAN : probing' = [probing EXCEPT !.at = "answered", !.identity = ok]
    BY <1>10 DEF CheckCredentials
  <2>2. UNCHANGED probing \/ (probing'.cert = probing.cert /\
                              probing'.addr = probing.addr /\
                                probing'.trust = probing.trust /\ probing'.at = "answered")
    BY <2>1 DEF ConsoleTypes, Probes
  <2>3. probing.at = "trusted" /\ UNCHANGED <<form, siteLink, syncing, confirmed, vouched>>
    BY <1>10 DEF CheckCredentials
  <2> QED
    BY <2>2, <2>3 DEF PinsAreGood, Trusted, Good
<1>11. CASE SaveForm
  BY <1>11 DEF SaveForm, PinsAreGood, Good, Verified, PinToSave
<1>12. CASE ClientFor
  BY <1>12 DEF ClientFor, PinsAreGood, Good
<1>13. CASE SyncRequest
  BY <1>13 DEF SyncRequest, PinsAreGood, Good
<1>14. CASE RemoveLink
  BY <1>14 DEF RemoveLink, PinsAreGood, Good
<1> QED
  BY <1>0, <1>1, <1>2, <1>3, <1>4, <1>5, <1>6, <1>7, <1>8, <1>9, <1>10, <1>11, <1>12, <1>13,
     <1>14
  DEF ConsoleNext

LEMMA FreshStep == ConsoleInv /\ [ConsoleNext]_consoleVars => FreshStays'
<1> SUFFICES ASSUME ConsoleInv, [ConsoleNext]_consoleVars PROVE FreshStays'
  OBVIOUS
<1> USE ConsoleAssumption, NoneShapes DEF ConsoleInv
<1>0. CASE UNCHANGED consoleVars
  BY <1>0 DEF consoleVars, FreshStays, Stays, Connects
<1>1. ASSUME NEW a \in Hosts, OpenForm(a) PROVE FreshStays'
  BY <1>1 DEF OpenForm, FreshStays, Stays, Connects
<1>2. ASSUME NEW a \in Hosts, EditAddress(a) PROVE FreshStays'
  BY <1>2 DEF EditAddress, FreshStays, Stays, Connects
<1>3. ASSUME NEW a \in Hosts, NEW c \in Certificates, ConsoleChanges(a, c) PROVE FreshStays'
  BY <1>3 DEF ConsoleChanges, FreshStays, Stays, Connects
<1>4. CASE CancelForm
  BY <1>4 DEF CancelForm, FreshStays, Stays, Connects
<1>5. CASE TestConnection
  BY <1>5 DEF TestConnection, DoProbe, FreshStays, Stays, Connects
<1>6. CASE TrustCertificate
  BY <1>6 DEF TrustCertificate, DoProbe, FreshStays, Stays, Connects
<1>7. CASE ProbeAnswered
  BY <1>7 DEF ProbeAnswered, FreshStays, Stays, ProbedPin, PinToSave, Connects, SiteLinks
<1>8. CASE ProbeLost
  BY <1>8 DEF ProbeLost, FreshStays, Stays, ProbedPin, Connects
<1>9. CASE FetchConsoleCertificate
  BY <1>9 DEF FetchConsoleCertificate, FreshStays, Stays, ProbedPin, Connects, ConsoleTypes
<1>10. CASE CheckCredentials
  BY <1>10
  DEF CheckCredentials, Credentials, FreshStays, Stays, ProbedPin, PinToSave, Connects,
      ConsoleTypes, Forms, Probes, SiteLinks, SystemTrusted
<1>11. CASE SaveForm
  BY <1>11 DEF SaveForm, FreshStays, Stays, Connects
<1>12. CASE ClientFor
  BY <1>12 DEF ClientFor, FreshStays, Stays, Connects
<1>13. CASE SyncRequest
  BY <1>13 DEF SyncRequest, FreshStays, Stays, Connects
<1>14. CASE RemoveLink
  BY <1>14 DEF RemoveLink, FreshStays, Stays, Connects
<1> QED
  BY <1>0, <1>1, <1>2, <1>3, <1>4, <1>5, <1>6, <1>7, <1>8, <1>9, <1>10, <1>11, <1>12, <1>13,
     <1>14
  DEF ConsoleNext

LEMMA GaveStep == ConsoleInv /\ [ConsoleNext]_consoleVars => GaveToGood'
<1> SUFFICES ASSUME ConsoleInv, [ConsoleNext]_consoleVars PROVE GaveToGood'
  OBVIOUS
<1> USE ConsoleAssumption, NoneShapes DEF ConsoleInv
<1>0. CASE UNCHANGED consoleVars
  BY <1>0 DEF consoleVars, GaveToGood
<1>1. ASSUME NEW a \in Hosts, OpenForm(a) PROVE GaveToGood'
  BY <1>1 DEF OpenForm, GaveToGood
<1>2. ASSUME NEW a \in Hosts, EditAddress(a) PROVE GaveToGood'
  BY <1>2 DEF EditAddress, GaveToGood
<1>3. ASSUME NEW a \in Hosts, NEW c \in Certificates, ConsoleChanges(a, c) PROVE GaveToGood'
  BY <1>3 DEF ConsoleChanges, GaveToGood
<1>4. CASE CancelForm
  BY <1>4 DEF CancelForm, GaveToGood
<1>5. CASE TestConnection
  BY <1>5 DEF TestConnection, DoProbe, GaveToGood
<1>6. CASE TrustCertificate
  BY <1>6 DEF TrustCertificate, DoProbe, GaveToGood
<1>7. CASE ProbeAnswered
  BY <1>7 DEF ProbeAnswered, GaveToGood
<1>8. CASE ProbeLost
  BY <1>8 DEF ProbeLost, GaveToGood
<1>9. CASE FetchConsoleCertificate
  BY <1>9 DEF FetchConsoleCertificate, GaveToGood
<1>10. CASE CheckCredentials
  BY <1>10
  DEF CheckCredentials, Credentials, GaveToGood, PinsAreGood, Good, Trusted, Connects,
      ConsoleTypes, Certs
<1>11. CASE SaveForm
  BY <1>11 DEF SaveForm, GaveToGood
<1>12. CASE ClientFor
  BY <1>12 DEF ClientFor, GaveToGood
<1>13. CASE SyncRequest
  BY <1>13 DEF SyncRequest, Credentials, GaveToGood, PinsAreGood, Good, Connects
<1>14. CASE RemoveLink
  BY <1>14 DEF RemoveLink, GaveToGood
<1> QED
  BY <1>0, <1>1, <1>2, <1>3, <1>4, <1>5, <1>6, <1>7, <1>8, <1>9, <1>10, <1>11, <1>12, <1>13,
     <1>14
  DEF ConsoleNext

\* However the form is typed in, tested, trusted and saved, and whatever a host
\* shows meanwhile, the API key goes to nobody but a certificate the administrator
\* trusted or one publicly trusted: for any hosts, names and certificates.
THEOREM TrustAlwaysKept == ConsoleSpec => []TrustIsKept
<1>1. ConsoleInit => ConsoleInv
  <2> SUFFICES ASSUME ConsoleInit PROVE ConsoleInv
    OBVIOUS
  <2>1. ConsoleTypes
    BY NoneShapes, ConsoleAssumption DEF ConsoleInit, ConsoleTypes
  <2> QED
    BY <2>1, NoneShapes DEF ConsoleInit, ConsoleInv, PinsAreGood, Good, FreshStays, GaveToGood
<1>2. ConsoleInv /\ [ConsoleNext]_consoleVars => ConsoleInv'
  BY ConsoleTypesStep, PinsStep, FreshStep, GaveStep DEF ConsoleInv
<1>3. ConsoleInv => TrustIsKept
  BY DEF ConsoleInv, FreshStays, Stays, GaveToGood, TrustIsKept
<1> QED
  BY <1>1, <1>2, <1>3, PTL DEF ConsoleSpec

LEMMA CallNumbers ==
  ASSUME CallsTypes
  PROVE  current.n \in Nat /\ (current.n # 0 => current.n \in CallNos) /\
           \A n \in CallNos : n \in Nat /\ n # 0
<1>1. \A n \in CallNos : n \in Nat /\ n # 0
  BY DEF CallNos
<1>2. current.n \in {0} \union CallNos
  BY DEF CallsTypes
<1> QED
  BY <1>1, <1>2

LEMMA CallsStart == CallsInit => CallsInv
  BY DEF CallsInit, CallsInv, CallsTypes, CallInFlight, AtMostOnce, Untouched

LEMMA AbandonKeeps ==
  ASSUME CallsInv, Abandon, UNCHANGED carriedOut, aborted' \in {aborted, TRUE}
  PROVE  CallsInv'
<1>0. CallsTypes /\ CallInFlight /\ AtMostOnce
  BY DEF CallsInv
<1>1. /\ wire' = "nothing" /\ current'.n = current.n /\ current'.at = "failed"
      /\ current' = [current EXCEPT !.at = "failed"]
  BY <1>0 DEF Abandon, Outcome
<1>2. straying' = straying \/ (/\ wire = "request" /\ current.n \in CallNos
                              /\ Untouched(current.n)
                              /\ straying' = [straying EXCEPT ![current.n] = @ + 1])
  BY <1>0 DEF Abandon, CallInFlight
<1>3. straying' = straying \/ (/\ current.n \in CallNos /\ Untouched(current.n)
                              /\ straying' = [straying EXCEPT ![current.n] = 1])
  BY <1>2 DEF Untouched
<1>4. CallsTypes'
  BY <1>0, <1>1, <1>3 DEF CallsTypes
<1>5. \A n \in CallNos : straying'[n] = straying[n] \/ (n = current.n /\ Untouched(n))
  BY <1>0, <1>3 DEF CallsTypes
<1>6. AtMostOnce'
  BY <1>0, <1>5 DEF AtMostOnce, Untouched
<1>7. CallInFlight'
  <2>1. \A n \in CallNos : n > current.n => n # current.n
    BY <1>0, CallNumbers
  <2>2. \A n \in CallNos : n > current.n => Untouched(n)'
    BY <1>0, <1>5, <2>1 DEF CallInFlight, Untouched
  <2> QED
    BY <1>1, <2>2 DEF CallInFlight, Finished
<1> QED
  BY <1>4, <1>6, <1>7 DEF CallsInv

LEMMA CallsStep == CallsInv /\ [CallsNext]_callVars => CallsInv'
<1> SUFFICES ASSUME CallsInv, [CallsNext]_callVars PROVE CallsInv'
  OBVIOUS
<1> USE DEF CallsInv
<1>0. CASE UNCHANGED callVars
  BY <1>0 DEF CallsTypes, CallInFlight, AtMostOnce, Untouched, Finished, callVars
<1>1. CASE Login
  <2>1. CallsTypes' /\ AtMostOnce'
    BY <1>1 DEF Login, Send, CallsTypes, AtMostOnce, Untouched, CallInFlight
  <2>2. CallInFlight'
    BY <1>1 DEF Login, Send, CallsTypes, CallInFlight, Untouched, Finished
  <2> QED
    BY <2>1, <2>2
<1>2. CASE NextChange
  <2>1. current.n + 1 \in CallNos
    <3>1. MaxCalls \in Nat /\ current.n < MaxCalls
      BY <1>2, CallsAssumption DEF NextChange
    <3>2. current.n \in Nat
      BY CallNumbers
    <3> QED
      BY <3>1, <3>2 DEF CallNos
  <2>2. /\ \/ aborted /\ current' = [n |-> current.n + 1, at |-> "failed"] /\ wire' = "nothing"
           \/ ~aborted /\ current' = [n |-> current.n + 1, at |-> "try"] /\ wire' = "request"
        /\ UNCHANGED <<straying, carriedOut, aborted>>
    BY <1>2 DEF NextChange, CallInFlight
  <2>3. CallsTypes'
    <3>1. [n |-> current.n + 1, at |-> "failed"] \in [n : {0} \union CallNos,
                                                      at : {"ok", "failed", "first login",
                                                            "try", "login", "retry"}]
      BY <2>1
    <3>2. [n |-> current.n + 1, at |-> "try"] \in [n : {0} \union CallNos,
                                                   at : {"ok", "failed", "first login",
                                                         "try", "login", "retry"}]
      BY <2>1
    <3> QED
      BY <2>2, <3>1, <3>2 DEF CallsTypes
  <2>11. AtMostOnce'
    BY <2>2 DEF AtMostOnce
  <2>4. \A n \in CallNos : n >= current.n + 1 => n > current.n
    BY CallNumbers
  <2>5. \A n \in CallNos : n >= current.n + 1 => Untouched(n)'
    BY <2>2, <2>4 DEF CallInFlight, Untouched
  <2>6. \A n \in CallNos : n > current.n + 1 => n >= current.n + 1
    BY CallNumbers
  <2>7. current.n + 1 >= current.n + 1 /\ current.n + 1 # 0
    BY CallNumbers
  <2>8. current'.n = current.n + 1
    BY <2>2
  <2>0. PICK m : m = current.n + 1
    OBVIOUS
  <2>9. current'.n = m /\ m # 0 /\ Untouched(m)' /\ \A n \in CallNos : n > m => Untouched(n)'
    BY <2>0, <2>1, <2>5, <2>6, <2>7, <2>8
  <2>12. /\ current'.at \in {"failed", "try"} /\ (current'.at = "failed" => wire' = "nothing")
         /\ (current'.at = "try" => wire' = "request" /\ ~aborted')
    BY <2>2
  <2>10. CallInFlight'
    BY <2>9, <2>12 DEF CallInFlight, Finished, Untouched
  <2> QED
    BY <2>3, <2>10, <2>11
<1>3. CASE RequestAnswered
  <2>1. CallsTypes' /\ AtMostOnce'
    BY <1>3
    DEF RequestAnswered, TryAgain, Send, Outcome, CallsTypes, AtMostOnce, Untouched,
        CallInFlight
  <2>2. CallInFlight'
    BY <1>3
    DEF RequestAnswered, TryAgain, Send, Outcome, CallsTypes, CallInFlight, Untouched, Finished
  <2> QED
    BY <2>1, <2>2
<1>4. CASE SignedIn
  <2>1. CallsTypes' /\ AtMostOnce'
    BY <1>4 DEF SignedIn, Send, Outcome, CallsTypes, AtMostOnce, Untouched, CallInFlight
  <2>2. CallInFlight'
    BY <1>4 DEF SignedIn, Send, Outcome, CallsTypes, CallInFlight, Untouched, Finished
  <2> QED
    BY <2>1, <2>2
<1>5. CASE PassEnds
  <2>1. CallsTypes' /\ AtMostOnce'
    BY <1>5 DEF PassEnds, NewPass, CallsTypes, AtMostOnce, Untouched, CallInFlight
  <2>2. CallInFlight'
    BY <1>5 DEF PassEnds, NewPass, CallsTypes, CallInFlight, Untouched, Finished
  <2> QED
    BY <2>1, <2>2
<1>6. CASE HandleRequest
  <2>1. current.n \in CallNos /\ Untouched(current.n) /\ UNCHANGED <<current, straying, aborted>>
    BY <1>6 DEF HandleRequest, CallInFlight, CallsTypes, Finished
  <2>2. \/ wire' \in {"401", "bad"} /\ carriedOut' = carriedOut
        \/ wire' \in {"done", "bad"} /\ carriedOut' = [carriedOut EXCEPT ![current.n] = 1]
    BY <1>6, <2>1 DEF HandleRequest, Untouched
  <2>3. CallsTypes'
    BY <2>1, <2>2 DEF CallsTypes
  <2>4. AtMostOnce'
    BY <2>1, <2>2 DEF CallsTypes, AtMostOnce, Untouched
  <2>5. \A n \in CallNos : n > current.n => n # current.n
    BY CallNumbers
  <2>6. \A n \in CallNos : n > current.n => Untouched(n)'
    BY <2>1, <2>2, <2>5 DEF CallInFlight, Untouched, CallsTypes
  <2>8. ~Finished /\ current.at \in {"try", "retry"} /\ current.n # 0
    BY <1>6 DEF HandleRequest, CallInFlight, CallsTypes, Finished
  <2>9. (wire' = "done" => carriedOut'[current.n] = 1) /\ (wire' = "401" => Untouched(current.n)')
    BY <2>1, <2>2 DEF CallsTypes, Untouched
  <2>7. CallInFlight'
    BY <2>1, <2>2, <2>6, <2>8, <2>9 DEF CallInFlight, Finished
  <2> QED
    BY <2>3, <2>4, <2>7
<1>7. CASE HandleLogin
  <2>1. CallsTypes' /\ AtMostOnce'
    BY <1>7 DEF HandleLogin, CallsTypes, AtMostOnce, Untouched, CallInFlight
  <2>2. CallInFlight'
    BY <1>7 DEF HandleLogin, CallsTypes, CallInFlight, Untouched, Finished
  <2> QED
    BY <2>1, <2>2
<1>8. CASE SessionEnds
  <2>1. CallsTypes' /\ AtMostOnce'
    BY <1>8 DEF SessionEnds, CallsTypes, AtMostOnce, Untouched, CallInFlight
  <2>2. CallInFlight'
    BY <1>8 DEF SessionEnds, CallsTypes, CallInFlight, Untouched, Finished
  <2> QED
    BY <2>1, <2>2
<1>9. ASSUME NEW n \in CallNos, HandleStray(n) PROVE CallsInv'
  <2>0. straying[n] \in {0, 1} /\ straying[n] > 0
    BY <1>9 DEF HandleStray, CallsTypes
  <2>1. straying[n] = 1 /\ carriedOut[n] = 0 /\ UNCHANGED <<current, wire, aborted>>
    BY <1>9, <2>0 DEF HandleStray, AtMostOnce
  <2>2. /\ straying' = [straying EXCEPT ![n] = 0]
        /\ carriedOut' \in {carriedOut, [carriedOut EXCEPT ![n] = 1]}
    BY <1>9, <2>1 DEF HandleStray
  <2>3. CallsTypes'
    BY <2>1, <2>2 DEF CallsTypes
  <2>4. \A m \in CallNos : m # n => carriedOut'[m] = carriedOut[m] /\ straying'[m] = straying[m]
    BY <2>2 DEF CallsTypes
  <2>5. straying'[n] = 0
    BY <2>2 DEF CallsTypes
  <2>6. AtMostOnce'
    BY <2>4, <2>5 DEF AtMostOnce
  <2>7. CallInFlight'
    <3>1. \A m \in CallNos : Untouched(m) => Untouched(m)'
      BY <2>1, <2>4 DEF Untouched
    <3>2. current.n # 0 => current.n \in CallNos
      BY CallNumbers
    <3>3. current.n # 0 /\ carriedOut[current.n] = 1 => carriedOut'[current.n] = 1
      BY <2>1, <2>4, <3>2
    <3>4. current.at = "login" \/ wire \in {"request", "401", "done"} => current.n # 0
      BY DEF CallsTypes, CallInFlight, Finished
    <3> QED
      BY <2>1, <3>1, <3>2, <3>3, <3>4 DEF CallInFlight, Finished
  <2> QED
    BY <2>3, <2>6, <2>7
<1>10. CASE GivenUp
  BY <1>10, AbandonKeeps DEF GivenUp
<1>11. CASE Abort
  <2>1. CASE Abandon
    BY <1>11, <2>1, AbandonKeeps DEF Abort
  <2>2. CASE Finished /\ UNCHANGED <<current, wire, straying>>
    BY <1>11, <2>2 DEF Abort, CallsTypes, CallInFlight, AtMostOnce, Untouched, Finished
  <2> QED
    BY <1>11, <2>1, <2>2 DEF Abort
<1> QED
  BY <1>0, <1>1, <1>2, <1>3, <1>4, <1>5, <1>6, <1>7, <1>8, <1>9, <1>10, <1>11 DEF CallsNext

\* However a call to the console is retried, answered late, cut off or given up, the
\* console carries out a change at most once for each call the controller makes.
THEOREM AlwaysCarriedOutOnce == CallsSpec => []CarriedOutOnce
<1>1. CallsInv => CarriedOutOnce
  <2> SUFFICES ASSUME CallsInv PROVE CarriedOutOnce
    OBVIOUS
  <2>1. \A n \in CallNos : carriedOut[n] + straying[n] <= 1
    <3>1. \A n \in CallNos : carriedOut[n] \in {0, 1} /\ straying[n] \in {0, 1}
      BY DEF CallsInv, CallsTypes
    <3>2. \A n \in CallNos : carriedOut[n] = 0 \/ straying[n] = 0
      BY DEF CallsInv, AtMostOnce
    <3> QED
      BY <3>1, <3>2
  <2>2. current.n > 0 => current.n # 0
    OBVIOUS
  <2> QED
    BY <2>1, <2>2 DEF CallsInv, CallInFlight, CarriedOutOnce, Finished
<1> QED
  BY <1>1, CallsStart, CallsStep, PTL DEF CallsSpec
=============================================================================
