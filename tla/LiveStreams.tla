---------------------------- MODULE LiveStreams ----------------------------
(***************************************************************************)
(* Open dashboards and what they hold in the controller: the event streams  *)
(* (app/api/admin/live), the polling a dashboard falls back to              *)
(* (ui/use-live.ts), the backup being downloaded (backup.ts), the           *)
(* background jobs (jobs.ts), and the stopping of it all (shutdown.ts).     *)
(*                                                                          *)
(* Sessions are reduced to what a stream sees of them: issued, valid, and   *)
(* at some moment no longer.  Connections break and are noticed late, so    *)
(* that a dashboard may be back before its old stream has ended; the        *)
(* process stops or is killed at any moment and starts again.               *)
(***************************************************************************)
EXTENDS Naturals, FiniteSets

CONSTANTS
    Tabs,            \* dashboard pages in browsers
    Streams,         \* places for streams the controller has open
    Tokens,          \* session tokens; random, so none is issued twice
    MaxPerSession,   \* MAX_STREAMS_PER_SESSION
    MaxStreams,      \* MAX_STREAMS
    MaxStops,        \* bound: ends of the process
    MaxOrphans,      \* bound: streams of a process whose first frame fails
    None             \* no tab, or no token

ASSUME StreamLimits == MaxPerSession \in Nat \ {0} /\ MaxStreams \in Nat \ {0}
                        /\ MaxStops \in Nat /\ MaxOrphans \in Nat
ASSUME NoTabOrToken == None \notin Tabs \union Tokens
ASSUME StreamsAreFinite == IsFiniteSet(Streams)

VARIABLES
    valid,           \* what sessionFromToken makes of each token
    tab,             \* the pages
    stream,          \* the closures of the streams not yet stopped
    open,            \* __opnmeshLiveStreams: open streams by session
    viewers,         \* liveState's count of dashboards that want reports every second
    listeners,       \* streams subscribed to liveState
    orphans,         \* subscriptions and timers of streams that were stopped before they had them
    process,         \* running, stopping after a signal, or gone
    hooks,           \* streams whose stop is to run when the process stops
    jobs,            \* are the timers of the background jobs set?
    backup,          \* __opnmeshBackupBusy, and how far the backup is
    copy,            \* is there a copy of the database in the temporary directory?
    stops            \* how often the process has ended

streamVars == <<valid, tab, stream, open, viewers, listeners, orphans, process, hooks, jobs, backup, copy, stops>>
served == <<stream, open, viewers, listeners, orphans, hooks>>
around == <<process, jobs, backup, copy, stops>>

Free == [token |-> None, tab |-> None, fast |-> FALSE]
ClosedTab == [page |-> "closed", token |-> None, fast |-> FALSE, failures |-> 0, polling |-> FALSE]

StreamInit ==
    /\ valid = [t \in Tokens |-> "new"]
    /\ tab = [b \in Tabs |-> ClosedTab]
    /\ stream = [x \in Streams |-> Free]
    /\ open = [t \in Tokens |-> 0]
    /\ viewers = 0
    /\ listeners = {}
    /\ orphans = 0
    /\ process = "up"
    /\ hooks = {}
    /\ jobs = TRUE
    /\ backup = "none"
    /\ copy = FALSE
    /\ stops = 0

---------------------------------------------------------------------------
(* Sessions, as far as a stream can tell *)

SignIn(t) ==
    /\ process # "down"
    /\ valid[t] = "new"
    /\ valid' = [valid EXCEPT ![t] = "yes"]
    /\ UNCHANGED <<tab, served, around>>

\* Sign-out, password change, expiry.
SessionEnds(t) ==
    /\ valid[t] = "yes"
    /\ valid' = [valid EXCEPT ![t] = "no"]
    /\ UNCHANGED <<tab, served, around>>

---------------------------------------------------------------------------
(* The controller's side of a stream *)

Running == {x \in Streams : stream[x].token # None}
Attached(b) == \E x \in Streams : stream[x].tab = b

\* (mutant: it reconnects for ever)
FailedNeverPolls(r) ==
    [r EXCEPT !.failures = IF r.failures < 3 THEN r.failures + 1 ELSE 3]

\* es.onerror: the third failure in a row starts the polling.
Failed(r) ==
    LET n == IF r.failures < 3 THEN r.failures + 1 ELSE 3 IN
    [r EXCEPT !.failures = n, !.polling = n >= 3]

\* The pages once the streams of X have ended under them.
TabsWithout(X) ==
    [b \in Tabs |-> IF \E x \in X : stream[x].tab = b THEN Failed(tab[b]) ELSE tab[b]]

\* How many streams of X are of session t, and how many ask for fast reports.
Of(X, t) == Cardinality({x \in X : stream[x].token = t})
Fast(X) == Cardinality({x \in X : stream[x].fast})

\* (mutant: abort and cancel both give the place back)
StopTwice(X) ==
    /\ stream' = [x \in Streams |-> IF x \in X THEN Free ELSE stream[x]]
    /\ \E n \in {1, 2} : open' = [t \in Tokens |-> IF open[t] > n * Of(X, t) THEN open[t] - n * Of(X, t) ELSE 0]
    /\ viewers' = viewers - Fast(X)
    /\ listeners' = listeners \ X
    /\ tab' = TabsWithout(X)

\* stop() of the streams of X.
Stop(X) ==
    /\ stream' = [x \in Streams |-> IF x \in X THEN Free ELSE stream[x]]
    /\ open' = [t \in Tokens |-> open[t] - Of(X, t)]
    /\ viewers' = viewers - Fast(X)
    /\ listeners' = listeners \ X
    /\ tab' = TabsWithout(X)

\* A page that has no stream asks for one, and may have one more.
Wanted(b) ==
    /\ tab[b].page = "dashboard" /\ ~tab[b].polling /\ ~Attached(b)
    /\ valid[tab[b].token] = "yes"
    /\ open[tab[b].token] < MaxPerSession
    /\ Cardinality(Running) < MaxStreams

\* GET: one step, for the stream is built without an await.
Connect(b, x) ==
    LET t == tab[b].token IN
    /\ process = "up"
    /\ Wanted(b)
    /\ stream[x].token = None
    /\ stream' = [stream EXCEPT ![x] = [token |-> t, tab |-> b, fast |-> tab[b].fast]]
    /\ open' = [open EXCEPT ![t] = @ + 1]
    /\ viewers' = IF tab[b].fast THEN viewers + 1 ELSE viewers
    /\ listeners' = listeners \union {x}
    /\ hooks' = hooks \union {x}
    /\ UNCHANGED <<valid, tab, orphans, around>>

\* The first frame cannot be built: stop() gives the places back, and then the
\* stream subscribes and sets its timer, which nothing stops any more.
FirstFrameFails(b) ==
    /\ process = "up"
    /\ Wanted(b)
    /\ orphans < MaxOrphans
    /\ orphans' = orphans + 1
    /\ tab' = [tab EXCEPT ![b] = Failed(@)]
    /\ UNCHANGED <<valid, stream, open, viewers, listeners, hooks, around>>

\* The state reaches the page: its failures are forgiven.
Frame(x) ==
    LET b == stream[x].tab IN
    /\ process = "up"
    /\ b # None
    /\ tab' = [tab EXCEPT ![b].failures = 0]
    /\ UNCHANGED <<valid, served, around>>

End(x) ==
    /\ process = "up"
    /\ x \in Running
    /\ Stop({x})
    /\ hooks' = hooks \ {x}
    /\ UNCHANGED <<valid, orphans, around>>

\* The timer's look at the session every five seconds.
SessionCheck(x) == x \in Running /\ valid[stream[x].token] # "yes" /\ End(x)

\* Fifteen minutes are over, or the state could not be built.
EndsItself(x) == End(x)

\* abort or cancel, whichever comes first: the browser is no longer there.
ClientGone(x) == stream[x].tab = None /\ End(x)

---------------------------------------------------------------------------
(* The browser's side *)

\* A page is rendered for a session that holds, the overview with ?fast=1.
OpenDashboard(b, t) ==
    /\ tab[b].page # "dashboard"
    /\ process = "up"
    /\ valid[t] = "yes"
    /\ \E fast \in BOOLEAN :
         tab' = [tab EXCEPT ![b] = [ClosedTab EXCEPT !.page = "dashboard", !.token = t, !.fast = fast]]
    /\ UNCHANGED <<valid, served, around>>

\* A refusal (signed out, too many connections, stopping) or no answer at all.
ConnectFails(b) ==
    /\ tab[b].page = "dashboard" /\ ~tab[b].polling /\ ~Attached(b)
    /\ tab' = [tab EXCEPT ![b] = Failed(@)]
    /\ UNCHANGED <<valid, served, around>>

\* The connection is lost, the page is left; the controller has not noticed.
Detach(b, r) ==
    /\ tab' = [tab EXCEPT ![b] = r]
    /\ stream' = [x \in Streams |-> IF stream[x].tab = b THEN [stream[x] EXCEPT !.tab = None]
                                    ELSE stream[x]]
    /\ UNCHANGED <<valid, open, viewers, listeners, orphans, hooks, around>>

ConnectionLost(b) == Attached(b) /\ Detach(b, Failed(tab[b]))

CloseTab(b) == tab[b].page # "closed" /\ Detach(b, ClosedTab)

\* fetch("/api/admin/state") is answered with 401: to the sign-in page.
PollRefused(b) ==
    /\ tab[b].page = "dashboard" /\ tab[b].polling
    /\ process = "up"
    /\ valid[tab[b].token] # "yes"
    /\ tab' = [tab EXCEPT ![b] = [ClosedTab EXCEPT !.page = "login"]]
    /\ UNCHANGED <<valid, served, around>>

---------------------------------------------------------------------------
(* A backup: copied to a temporary directory, opened, sent *)

BeginBackup ==
    /\ process = "up"
    /\ backup = "none"
    /\ backup' = "copying"
    /\ copy' = TRUE
    /\ UNCHANGED <<valid, tab, served, process, jobs, stops>>

\* The copy is open, or could not be opened; either way its directory goes.
CopyOpened ==
    /\ process # "down"
    /\ backup = "copying"
    /\ backup' \in {"sending", "none"}
    /\ copy' = FALSE
    /\ UNCHANGED <<valid, tab, served, process, jobs, stops>>

\* Downloaded, abandoned, or its log entry failed: the descriptor is closed.
BackupSent ==
    /\ process # "down"
    /\ backup = "sending"
    /\ backup' = "none"
    /\ UNCHANGED <<valid, tab, served, process, jobs, copy, stops>>

---------------------------------------------------------------------------
(* Stopping, being killed, and starting *)

\* beginShutdown: no new streams, and the hooks are run.
BeginShutdown ==
    /\ process = "up"
    /\ stops < MaxStops
    /\ process' = "stopping"
    /\ jobs' = FALSE
    /\ hooks' = {}
    /\ Stop(hooks)
    /\ UNCHANGED <<valid, orphans, backup, copy, stops>>

\* Everything is answered, or the deadline has passed, or a crash.
Exit ==
    /\ process # "down"
    /\ stops < MaxStops
    /\ process' = "down"
    /\ stops' = stops + 1
    /\ stream' = [x \in Streams |-> Free]
    /\ open' = [t \in Tokens |-> 0]
    /\ viewers' = 0
    /\ listeners' = {}
    /\ orphans' = 0
    /\ hooks' = {}
    /\ tab' = TabsWithout(Streams)
    /\ jobs' = FALSE
    /\ backup' = "none"
    /\ UNCHANGED <<valid, copy>>

\* (mutant: what a killed backup left is not looked for)
StartLeavesCopies ==
    /\ process = "down"
    /\ process' = "up"
    /\ jobs' = TRUE
    /\ UNCHANGED <<valid, tab, served, backup, copy, stops>>

\* startBackgroundJobs, before any request.
Start ==
    /\ process = "down"
    /\ process' = "up"
    /\ jobs' = TRUE
    /\ copy' = FALSE
    /\ UNCHANGED <<valid, tab, served, backup, stops>>

---------------------------------------------------------------------------
StreamNext ==
    \/ BeginBackup \/ CopyOpened \/ BackupSent
    \/ BeginShutdown \/ Exit \/ Start
    \/ \E t \in Tokens : SignIn(t) \/ SessionEnds(t)
    \/ \E x \in Streams : Frame(x) \/ SessionCheck(x) \/ EndsItself(x) \/ ClientGone(x)
    \/ \E b \in Tabs :
         \/ ConnectFails(b) \/ FirstFrameFails(b) \/ ConnectionLost(b) \/ CloseTab(b) \/ PollRefused(b)
         \/ \E t \in Tokens : OpenDashboard(b, t)
         \/ \E x \in Streams : Connect(b, x)

\* Timers fire, a page goes on trying, the container is started again.
StreamFairness ==
    /\ \A x \in Streams : WF_streamVars(SessionCheck(x)) /\ WF_streamVars(ClientGone(x))
    /\ \A b \in Tabs :
         /\ WF_streamVars(ConnectFails(b) \/ \E x \in Streams : Connect(b, x))
         /\ WF_streamVars(PollRefused(b))
    /\ WF_streamVars(process = "stopping" /\ Exit) /\ WF_streamVars(Start)

StreamSpec == StreamInit /\ [][StreamNext]_streamVars /\ StreamFairness

---------------------------------------------------------------------------
(* Properties *)

\* The counts a limit is held against are those of the streams there are: no
\* end of a stream, seen twice or from either side or in the middle of its
\* start, takes or leaves a place (live/route.ts:47-58, 79-81).  Orphans are
\* what such a start does leave.
CountsMatch ==
    /\ \A t \in Tokens : open[t] = Of(Streams, t) /\ open[t] <= MaxPerSession
    /\ viewers = Fast(Streams)
    /\ listeners = Running
    /\ process = "up" => hooks = Running

\* A stop or a crash leaves nothing behind: no stream outlives the stop or
\* begins after it (it would hold the process open until it is killed), no
\* timer is left, and once the process has started again the only copy of the
\* database outside the data directory is the one being made (shutdown.ts,
\* live/route.ts:31,105, backup.ts:38-46,60-83).
CleanStops ==
    /\ process # "up" => Running = {} /\ ~jobs
    /\ process = "up" /\ copy => backup = "copying"

\* A page whose session has ended stops showing the network: its stream is
\* ended, it fails to get another, polls, and is sent to sign in
\* (live/route.ts:91-94, use-live.ts:23-56).
PageLeaves ==
    \A b \in Tabs, t \in Tokens :
        (tab[b].page = "dashboard" /\ tab[b].token = t /\ valid[t] = "no")
          ~> ~(tab[b].page = "dashboard" /\ tab[b].token = t)
=============================================================================
