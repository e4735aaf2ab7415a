------------------------- MODULE LiveStreamsProofs -------------------------
(***************************************************************************)
(* Proofs about LiveStreams for any number of pages, streams and sessions,   *)
(* and, below, about Routes and Alerts for any routes, sites and outages.   *)
(*                                                                          *)
(* The counters the limits are held against are kept by hand, one up in the *)
(* start of a stream and one down in its end.  The invariant is that they   *)
(* count what there is and that, while the process is up, the stop hooks    *)
(* are those of the open streams: so a stop ends them all.                  *)
(***************************************************************************)
EXTENDS LiveStreams, Alerts, Routes, FiniteSetTheorems, WellFoundedInduction, TLAPS

StreamRow == [token : Tokens \union {None}, tab : Tabs \union {None}, fast : BOOLEAN]
TabRow == [page : {"closed", "login", "dashboard"}, token : Tokens \union {None}, fast : BOOLEAN,
           failures : 0..3, polling : BOOLEAN]

StreamTypes ==
    /\ stream \in [Streams -> StreamRow]
    /\ tab \in [Tabs -> TabRow]
    /\ open \in [Tokens -> Nat]
    /\ viewers \in Nat
    /\ listeners \subseteq Streams /\ hooks \subseteq Streams
    /\ process \in {"up", "stopping", "down"}

\* A page knows its session, and a closed stream asks for nothing.
Rows ==
    /\ \A b \in Tabs : tab[b].page = "dashboard" => tab[b].token \in Tokens
    /\ \A x \in Streams : stream[x].token = None => ~stream[x].fast

\* CleanStops, and what becomes of a copy while the process stops.
Clean ==
    /\ process # "up" => Running = {} /\ hooks = {} /\ ~jobs
    /\ process # "down" /\ copy => backup = "copying"

IInv == StreamTypes /\ Rows /\ CountsMatch /\ Clean

LEMMA CleanIsCleanStops == Clean => CleanStops
  BY DEF Clean, CleanStops

---------------------------------------------------------------------------
(* Counting *)

LEMMA OfSubset ==
  ASSUME NEW X \in SUBSET Streams, NEW t
  PROVE  /\ IsFiniteSet({x \in X : stream[x].token = t})
         /\ Of(X, t) \in Nat /\ Fast(X) \in Nat
<1>1. /\ {x \in X : stream[x].token = t} \in SUBSET Streams
      /\ {x \in X : stream[x].fast} \in SUBSET Streams
  OBVIOUS
<1>2. IsFiniteSet({x \in X : stream[x].token = t}) /\ IsFiniteSet({x \in X : stream[x].fast})
  BY <1>1, StreamsAreFinite, FS_Subset
<1> QED
  BY <1>2, FS_CardinalityType DEF Of, Fast

\* A subset less is its number of elements less.
LEMMA LessSubset ==
  ASSUME NEW S \in SUBSET Streams, NEW A \in SUBSET S
  PROVE  Cardinality(S \ A) = Cardinality(S) - Cardinality(A) /\ Cardinality(A) <= Cardinality(S)
<1>1. IsFiniteSet(S)
  BY StreamsAreFinite, FS_Subset
<1>2. S \intersect A = A
  OBVIOUS
<1> QED
  BY <1>1, <1>2, FS_Difference, FS_Subset

LEMMA PageRows ==
  ASSUME NEW r \in TabRow
  PROVE  Failed(r) \in TabRow /\ Failed(r).page = r.page /\ Failed(r).token = r.token
<1> DEFINE n == IF r.failures < 3 THEN r.failures + 1 ELSE 3
<1>1. n \in 0..3 /\ (n >= 3) \in BOOLEAN
  BY DEF TabRow
<1>2. Failed(r) = [r EXCEPT !.failures = n, !.polling = (n >= 3)]
  BY DEF Failed
<1> HIDE DEF n
<1>3. Failed(r) \in TabRow
  BY <1>1, <1>2, Zenon DEF TabRow
<1> QED
  BY <1>2, <1>3 DEF TabRow

LEMMA PagesWithout ==
  ASSUME StreamTypes, Rows, NEW X
  PROVE  /\ TabsWithout(X) \in [Tabs -> TabRow]
         /\ \A b \in Tabs : TabsWithout(X)[b].page = "dashboard" => TabsWithout(X)[b].token \in Tokens
<1>1. ASSUME NEW b \in Tabs
      PROVE  /\ TabsWithout(X)[b] \in TabRow
             /\ TabsWithout(X)[b].page = "dashboard" => TabsWithout(X)[b].token \in Tokens
  <2>1. tab[b] \in TabRow
    BY DEF StreamTypes
  <2> QED
    BY <2>1, PageRows DEF TabsWithout, Rows
<1> QED
  BY <1>1 DEF TabsWithout

\* The end of the streams of X, from either side.
LEMMA StopKeeps ==
  ASSUME IInv, NEW X \in SUBSET Running, Stop(X)
  PROVE  /\ stream' \in [Streams -> StreamRow] /\ tab' \in [Tabs -> TabRow]
         /\ open' \in [Tokens -> Nat] /\ viewers' \in Nat /\ listeners' \subseteq Streams
         /\ Rows'
         /\ Running' = Running \ X
         /\ \A t \in Tokens : open'[t] = Of(Streams, t)' /\ open'[t] <= MaxPerSession
         /\ viewers' = Fast(Streams)' /\ listeners' = Running'
<1>1. X \in SUBSET Streams
  BY DEF Running
<1>2. Free \in StreamRow /\ Free.token = None /\ Free.tab = None /\ ~Free.fast
  BY DEF Free, StreamRow
<1>3. /\ stream' \in [Streams -> StreamRow]
      /\ \A x \in Streams : IF x \in X THEN stream'[x] = Free ELSE stream'[x] = stream[x]
  BY <1>1, <1>2 DEF Stop, IInv, StreamTypes
<1>4. Rows' /\ tab' \in [Tabs -> TabRow]
  BY <1>2, <1>3, PagesWithout DEF IInv, Rows, Stop
<1>5. Running' = Running \ X
  BY <1>2, <1>3 DEF Running
<1>6. ASSUME NEW t \in Tokens
      PROVE  /\ open'[t] \in Nat /\ open'[t] = Of(Streams, t)' /\ open'[t] <= MaxPerSession
  <2> DEFINE S == {x \in Streams : stream[x].token = t}
  <2> DEFINE A == {x \in X : stream[x].token = t}
  <2>1. {x \in Streams : stream'[x].token = t} = S \ A
    BY <1>1, <1>2, <1>3, NoTabOrToken
  <2>2. S \in SUBSET Streams /\ A \in SUBSET S
    BY <1>1
  <2>3. /\ Cardinality(S \ A) = Cardinality(S) - Cardinality(A) /\ Cardinality(A) <= Cardinality(S)
        /\ Cardinality(S) \in Nat /\ Cardinality(A) \in Nat
    <3>1. Cardinality(S \ A) = Cardinality(S) - Cardinality(A) /\ Cardinality(A) <= Cardinality(S)
      BY <2>2, LessSubset
    <3>2. Of(Streams, t) \in Nat /\ Of(X, t) \in Nat
      BY <1>1, OfSubset
    <3> QED
      BY <3>1, <3>2 DEF Of
  <2>4. Of(Streams, t)' = Cardinality(S \ A) /\ open[t] = Cardinality(S) /\ open[t] <= MaxPerSession
        /\ open'[t] = open[t] - Cardinality(A)
    BY <2>1 DEF Of, IInv, CountsMatch, Stop
  <2> HIDE DEF S, A
  <2> QED
    BY <2>3, <2>4, StreamLimits
<1>7. viewers' \in Nat /\ viewers' = Fast(Streams)'
  <2> DEFINE S == {x \in Streams : stream[x].fast}
  <2> DEFINE A == {x \in X : stream[x].fast}
  <2>1. {x \in Streams : stream'[x].fast} = S \ A
    BY <1>1, <1>2, <1>3
  <2>2. S \in SUBSET Streams /\ A \in SUBSET S
    BY <1>1
  <2>3. /\ Cardinality(S \ A) = Cardinality(S) - Cardinality(A) /\ Cardinality(A) <= Cardinality(S)
        /\ Cardinality(S) \in Nat /\ Cardinality(A) \in Nat
    <3>1. Cardinality(S \ A) = Cardinality(S) - Cardinality(A) /\ Cardinality(A) <= Cardinality(S)
      BY <2>2, LessSubset
    <3>2. Fast(Streams) \in Nat /\ Fast(X) \in Nat
      BY <1>1, OfSubset
    <3> QED
      BY <3>1, <3>2 DEF Fast
  <2>4. Fast(Streams)' = Cardinality(S \ A) /\ viewers' = Cardinality(S) - Cardinality(A)
    BY <2>1 DEF Fast, IInv, CountsMatch, Stop
  <2> HIDE DEF S, A
  <2> QED
    BY <2>3, <2>4
<1>8. open' \in [Tokens -> Nat]
  BY <1>6 DEF Stop
<1>9. listeners' = Running' /\ listeners' \subseteq Streams
  BY <1>5 DEF Stop, IInv, CountsMatch, Running
<1> QED
  BY <1>3, <1>4, <1>5, <1>6, <1>7, <1>8, <1>9

---------------------------------------------------------------------------
(* Every step keeps the invariant *)

LEMMA ClosedRow == ClosedTab \in TabRow /\ ClosedTab.page = "closed"
<1>1. 0 \in 0..3
  OBVIOUS
<1> QED
  BY <1>1, Zenon DEF ClosedTab, TabRow

LEMMA InitIInv == StreamInit => IInv
<1> SUFFICES ASSUME StreamInit PROVE IInv
  OBVIOUS
<1>1. Free \in StreamRow /\ ClosedTab \in TabRow
  BY ClosedRow, Zenon DEF Free, StreamRow
<1>2. \A x \in Streams : stream[x].token = None /\ ~stream[x].fast
  BY DEF StreamInit, Free
<1>3. Running = {} /\ \A t \in Tokens : {x \in Streams : stream[x].token = t} = {}
  BY <1>2, NoTabOrToken DEF Running
<1>4. {x \in Streams : stream[x].fast} = {}
  BY <1>2
<1>5. \A t \in Tokens : Of(Streams, t) = 0
  BY <1>3, FS_EmptySet DEF Of
<1>6. Fast(Streams) = 0
  BY <1>4, FS_EmptySet DEF Fast
<1>7. StreamTypes
  BY <1>1 DEF StreamInit, StreamTypes
<1>8. Rows /\ Clean
  BY <1>2, <1>3 DEF StreamInit, Rows, Clean, ClosedTab
<1>9. CountsMatch
  BY <1>3, <1>5, <1>6, StreamLimits DEF StreamInit, CountsMatch
<1> QED
  BY <1>7, <1>8, <1>9 DEF IInv

\* A step after which the same streams are there, perhaps of no page any more.
LEMMA SameStreams ==
  ASSUME IInv, stream' \in [Streams -> StreamRow], tab' \in [Tabs -> TabRow],
         \A x \in Streams : stream'[x].token = stream[x].token /\ stream'[x].fast = stream[x].fast,
         \A b \in Tabs : tab'[b].page = "dashboard" => tab'[b].token \in Tokens,
         UNCHANGED <<open, viewers, listeners, hooks>>
  PROVE  /\ Running' = Running /\ Rows'
         /\ process' = process => StreamTypes' /\ CountsMatch'
<1>1. Running' = Running
  BY DEF Running
<1>2. \A t \in Tokens : Of(Streams, t)' = Of(Streams, t)
  BY DEF Of
<1>3. Fast(Streams)' = Fast(Streams)
  BY DEF Fast
<1>4. Rows'
  BY DEF IInv, Rows
<1>5. ASSUME process' = process PROVE StreamTypes' /\ CountsMatch'
  BY <1>1, <1>2, <1>3, <1>5 DEF IInv, StreamTypes, CountsMatch
<1> QED
  BY <1>1, <1>4, <1>5

\* A step of the pages, or of what is around the streams.
LEMMA OnlyTabs ==
  ASSUME IInv, tab' \in [Tabs -> TabRow], UNCHANGED <<served, around>>,
         \A b \in Tabs : tab'[b].page = "dashboard" => tab'[b].token \in Tokens
  PROVE  IInv'
<1>1. Running' = Running /\ Rows' /\ StreamTypes' /\ CountsMatch'
  BY SameStreams DEF IInv, StreamTypes, served, around
<1> QED
  BY <1>1 DEF IInv, Clean, around, served

\* One page changes, into one that knows its session.
LEMMA OneTab ==
  ASSUME IInv, NEW b \in Tabs, NEW r \in TabRow, r.page = "dashboard" => r.token \in Tokens,
         tab' = [tab EXCEPT ![b] = r]
  PROVE  /\ tab' \in [Tabs -> TabRow]
         /\ \A c \in Tabs : tab'[c].page = "dashboard" => tab'[c].token \in Tokens
<1>1. tab \in [Tabs -> TabRow]
  BY DEF IInv, StreamTypes
<1> QED
  BY <1>1 DEF IInv, Rows

LEMMA FailedTab ==
  ASSUME IInv, NEW b \in Tabs
  PROVE  Failed(tab[b]) \in TabRow /\ (Failed(tab[b]).page = "dashboard" => Failed(tab[b]).token \in Tokens)
  BY PageRows DEF IInv, StreamTypes, Rows

LEMMA EndKeeps == ASSUME IInv, NEW x \in Streams, End(x) PROVE IInv'
<1>1. {x} \in SUBSET Running /\ Stop({x})
  BY DEF End
<1>2. /\ stream' \in [Streams -> StreamRow] /\ tab' \in [Tabs -> TabRow]
      /\ open' \in [Tokens -> Nat] /\ viewers' \in Nat /\ listeners' \subseteq Streams
      /\ Rows' /\ Running' = Running \ {x}
      /\ \A t \in Tokens : open'[t] = Of(Streams, t)' /\ open'[t] <= MaxPerSession
      /\ viewers' = Fast(Streams)' /\ listeners' = Running'
  BY <1>1, StopKeeps
<1>3. StreamTypes'
  BY <1>2 DEF End, IInv, StreamTypes, around
<1>4. CountsMatch'
  BY <1>2 DEF End, IInv, CountsMatch, around
<1>5. Clean'
  BY <1>2 DEF End, IInv, Clean, around
<1> QED
  BY <1>2, <1>3, <1>4, <1>5 DEF IInv

LEMMA ConnectKeeps == ASSUME IInv, NEW b \in Tabs, NEW x \in Streams, Connect(b, x) PROVE IInv'
<1> DEFINE u == tab[b].token
<1> DEFINE mine == [token |-> u, tab |-> b, fast |-> tab[b].fast]
<1>1. u \in Tokens /\ open[u] < MaxPerSession /\ tab[b].fast \in BOOLEAN
  BY DEF Connect, Wanted, IInv, Rows, StreamTypes, TabRow
<1>2. mine \in StreamRow /\ mine.token = u /\ mine.fast = tab[b].fast
  BY <1>1, Zenon DEF StreamRow
<1>3. stream' = [stream EXCEPT ![x] = mine]
  BY DEF Connect
<1> HIDE DEF mine
<1>4. /\ stream' \in [Streams -> StreamRow] /\ stream'[x] = mine
      /\ \A y \in Streams : y # x => stream'[y] = stream[y]
  BY <1>2, <1>3 DEF IInv, StreamTypes
<1>5. stream[x].token = None /\ ~stream[x].fast /\ u # None
  BY <1>1, NoTabOrToken DEF Connect, IInv, Rows
<1>6. Running' = Running \union {x}
  BY <1>2, <1>4, <1>5 DEF Running
<1>7. ASSUME NEW t \in Tokens
      PROVE  open'[t] \in Nat /\ open'[t] = Of(Streams, t)' /\ open'[t] <= MaxPerSession
  <2> DEFINE S == {y \in Streams : stream[y].token = t}
  <2>1. IsFiniteSet(S) /\ Cardinality(S) = open[t] /\ open[t] <= MaxPerSession /\ open[t] \in Nat
    BY OfSubset DEF Of, IInv, CountsMatch, StreamTypes
  <2>2. CASE t = u
    <3>1. {y \in Streams : stream'[y].token = t} = S \union {x} /\ x \notin S
      BY <1>2, <1>4, <1>5, <2>2
    <3>2. Of(Streams, t)' = Cardinality(S) + 1
      BY <2>1, <3>1, FS_AddElement DEF Of
    <3>3. open'[t] = open[t] + 1
      BY <1>1, <2>2 DEF Connect, IInv, StreamTypes
    <3> QED
      BY <1>1, <2>1, <2>2, <3>2, <3>3, StreamLimits
  <2>3. CASE t # u
    <3>1. {y \in Streams : stream'[y].token = t} = S
      BY <1>2, <1>4, <1>5, <2>3, NoTabOrToken
    <3>2. open'[t] = open[t]
      BY <2>3 DEF Connect, IInv, StreamTypes
    <3> QED
      BY <2>1, <3>1, <3>2 DEF Of
  <2> QED
    BY <2>2, <2>3
<1>8. viewers' \in Nat /\ viewers' = Fast(Streams)'
  <2> DEFINE S == {y \in Streams : stream[y].fast}
  <2>1. IsFiniteSet(S)
    BY StreamsAreFinite, FS_Subset
  <2>2. viewers = Cardinality(S) /\ viewers \in Nat
    BY DEF Fast, IInv, CountsMatch, StreamTypes
  <2>3. CASE tab[b].fast
    <3>1. {y \in Streams : stream'[y].fast} = S \union {x} /\ x \notin S
      BY <1>2, <1>4, <1>5, <2>3
    <3>2. Fast(Streams)' = Cardinality(S) + 1
      BY <2>1, <3>1, FS_AddElement DEF Fast
    <3> QED
      BY <2>2, <2>3, <3>2 DEF Connect
  <2>4. CASE ~tab[b].fast
    <3>1. {y \in Streams : stream'[y].fast} = S
      BY <1>2, <1>4, <1>5, <2>4
    <3> QED
      BY <2>2, <2>4, <3>1 DEF Connect, Fast
  <2> QED
    BY <2>3, <2>4
<1>9. StreamTypes'
  <2>1. open' \in [Tokens -> Nat]
    BY <1>7 DEF Connect, IInv, StreamTypes
  <2> QED
    BY <1>4, <1>8, <2>1 DEF Connect, IInv, StreamTypes, around
<1>10. Rows'
  BY <1>2, <1>4, <1>5 DEF Connect, IInv, Rows
<1>11. CountsMatch'
  BY <1>6, <1>7, <1>8 DEF Connect, IInv, CountsMatch, around
<1>12. Clean'
  BY DEF Connect, IInv, Clean, around
<1> QED
  BY <1>9, <1>10, <1>11, <1>12 DEF IInv

LEMMA BeginShutdownKeeps == ASSUME IInv, BeginShutdown PROVE IInv'
<1>1. hooks = Running /\ Stop(Running)
  BY DEF BeginShutdown, IInv, CountsMatch
<1>2. /\ stream' \in [Streams -> StreamRow] /\ tab' \in [Tabs -> TabRow]
      /\ open' \in [Tokens -> Nat] /\ viewers' \in Nat /\ listeners' \subseteq Streams
      /\ Rows' /\ Running' = Running \ Running
      /\ \A t \in Tokens : open'[t] = Of(Streams, t)' /\ open'[t] <= MaxPerSession
      /\ viewers' = Fast(Streams)' /\ listeners' = Running'
  BY <1>1, StopKeeps
<1>3. StreamTypes' /\ CountsMatch' /\ Clean'
  BY <1>2 DEF BeginShutdown, IInv, StreamTypes, CountsMatch, Clean
<1> QED
  BY <1>2, <1>3 DEF IInv

LEMMA ExitKeeps == ASSUME IInv, Exit PROVE IInv'
<1>1. Free \in StreamRow /\ \A x \in Streams : stream'[x].token = None /\ ~stream'[x].fast
  <2>1. Free \in StreamRow
    BY Zenon DEF Free, StreamRow
  <2>2. stream' = [x \in Streams |-> Free] /\ Free.token = None /\ ~Free.fast
    BY DEF Exit, Free
  <2> QED
    BY <2>1, <2>2
<1>2. Running' = {} /\ \A t \in Tokens : {x \in Streams : stream'[x].token = t} = {}
  BY <1>1, NoTabOrToken DEF Running
<1>3. {x \in Streams : stream'[x].fast} = {}
  BY <1>1
<1>4. \A t \in Tokens : Of(Streams, t)' = 0
  BY <1>2, FS_EmptySet DEF Of
<1>5. Fast(Streams)' = 0
  BY <1>3, FS_EmptySet DEF Fast
<1>6. /\ tab' \in [Tabs -> TabRow]
      /\ \A b \in Tabs : tab'[b].page = "dashboard" => tab'[b].token \in Tokens
  BY PagesWithout DEF IInv, Exit
<1>7. StreamTypes'
  BY <1>1, <1>6 DEF Exit, StreamTypes
<1>8. Rows' /\ Clean'
  BY <1>1, <1>2, <1>6 DEF Exit, Rows, Clean
<1>9. CountsMatch'
  BY <1>2, <1>4, <1>5, StreamLimits DEF Exit, CountsMatch
<1> QED
  BY <1>7, <1>8, <1>9 DEF IInv

\* Only the background of the streams changes.
LEMMA AroundKeeps ==
  ASSUME IInv, UNCHANGED <<tab, served>>, process' \in {"up", "stopping", "down"}
  PROVE  /\ Running' = Running /\ Rows' /\ StreamTypes'
         /\ process' = process \/ (process' = "up" /\ Running = {} /\ hooks = {}) => CountsMatch'
<1>1. Running' = Running
  BY DEF Running, served
<1>2. (\A t \in Tokens : Of(Streams, t)' = Of(Streams, t)) /\ Fast(Streams)' = Fast(Streams)
  BY DEF Of, Fast, served
<1> QED
  BY <1>1, <1>2 DEF IInv, Rows, StreamTypes, CountsMatch, served

LEMMA NextIInv == IInv /\ [StreamNext]_streamVars => IInv'
<1> SUFFICES ASSUME IInv, [StreamNext]_streamVars PROVE IInv'
  OBVIOUS
<1>1. CASE BeginBackup \/ CopyOpened \/ BackupSent
  BY <1>1, AroundKeeps DEF BeginBackup, CopyOpened, BackupSent, IInv, StreamTypes, Clean, served
<1>2. CASE BeginShutdown
  BY <1>2, BeginShutdownKeeps
<1>3. CASE Exit
  BY <1>3, ExitKeeps
<1>4. CASE Start
  BY <1>4, AroundKeeps DEF Start, IInv, Clean, served
<1>5. ASSUME NEW t \in Tokens, SignIn(t) \/ SessionEnds(t) PROVE IInv'
  BY <1>5, OnlyTabs DEF SignIn, SessionEnds, IInv, StreamTypes, Rows
<1>6. ASSUME NEW x \in Streams, Frame(x) PROVE IInv'
  <2> DEFINE b == stream[x].tab
  <2>1. b \in Tabs /\ tab[b] \in TabRow
    BY <1>6 DEF Frame, IInv, StreamTypes, StreamRow
  <2>2. /\ [tab[b] EXCEPT !.failures = 0] \in TabRow
        /\ [tab[b] EXCEPT !.failures = 0].page = tab[b].page /\ [tab[b] EXCEPT !.failures = 0].token = tab[b].token
    <3>1. 0 \in 0..3
      OBVIOUS
    <3>2. [tab[b] EXCEPT !.failures = 0] \in TabRow
      BY <2>1, <3>1, Zenon DEF TabRow
    <3> QED
      BY <2>1, <3>2 DEF TabRow
  <2>3. tab' = [tab EXCEPT ![b] = [tab[b] EXCEPT !.failures = 0]]
    BY <1>6 DEF Frame
  <2> QED
    BY <1>6, <2>1, <2>2, <2>3, OneTab, OnlyTabs DEF Frame, IInv, Rows
<1>7. ASSUME NEW x \in Streams, SessionCheck(x) \/ EndsItself(x) \/ ClientGone(x) PROVE IInv'
  BY <1>7, EndKeeps DEF SessionCheck, EndsItself, ClientGone
<1>8. ASSUME NEW b \in Tabs, ConnectFails(b) PROVE IInv'
  BY <1>8, FailedTab, OneTab, OnlyTabs DEF ConnectFails
<1>9. ASSUME NEW b \in Tabs, FirstFrameFails(b) PROVE IInv'
  <2>1. /\ tab' \in [Tabs -> TabRow]
        /\ \A c \in Tabs : tab'[c].page = "dashboard" => tab'[c].token \in Tokens
    BY <1>9, FailedTab, OneTab DEF FirstFrameFails
  <2>2. Running' = Running /\ Rows' /\ StreamTypes' /\ CountsMatch'
    BY <1>9, <2>1, SameStreams DEF FirstFrameFails, IInv, StreamTypes, around
  <2> QED
    BY <1>9, <2>2 DEF FirstFrameFails, IInv, Clean, around
<1>10. ASSUME NEW b \in Tabs, NEW r \in TabRow, r.page = "dashboard" => r.token \in Tokens, Detach(b, r)
       PROVE  IInv'
  <2>1. /\ stream' \in [Streams -> StreamRow]
        /\ \A x \in Streams : stream'[x].token = stream[x].token /\ stream'[x].fast = stream[x].fast
    <3>1. ASSUME NEW x \in Streams
          PROVE  /\ stream'[x] \in StreamRow
                 /\ stream'[x].token = stream[x].token /\ stream'[x].fast = stream[x].fast
      <4>1. stream[x] \in StreamRow
        BY DEF IInv, StreamTypes
      <4>2. stream'[x] = stream[x] \/ stream'[x] = [stream[x] EXCEPT !.tab = None]
        BY <1>10 DEF Detach
      <4>3. [stream[x] EXCEPT !.tab = None] \in StreamRow
        BY <4>1, Zenon DEF StreamRow
      <4> QED
        BY <4>1, <4>2, <4>3 DEF StreamRow
    <3> QED
      BY <1>10, <3>1 DEF Detach
  <2>2. /\ tab' \in [Tabs -> TabRow]
        /\ \A c \in Tabs : tab'[c].page = "dashboard" => tab'[c].token \in Tokens
    BY <1>10, OneTab DEF Detach
  <2>3. Running' = Running /\ Rows' /\ StreamTypes' /\ CountsMatch'
    BY <1>10, <2>1, <2>2, SameStreams DEF Detach, around
  <2> QED
    BY <1>10, <2>3 DEF Detach, IInv, Clean, around
<1>11. ASSUME NEW b \in Tabs, ConnectionLost(b) \/ CloseTab(b) PROVE IInv'
  BY <1>10, <1>11, FailedTab, ClosedRow DEF ConnectionLost, CloseTab
<1>12. ASSUME NEW b \in Tabs, PollRefused(b) PROVE IInv'
  <2>1. /\ [ClosedTab EXCEPT !.page = "login"] \in TabRow
        /\ [ClosedTab EXCEPT !.page = "login"].page = "login"
    BY ClosedRow DEF TabRow
  <2> QED
    BY <1>12, <2>1, OneTab, OnlyTabs DEF PollRefused
<1>13. ASSUME NEW b \in Tabs, NEW t \in Tokens, OpenDashboard(b, t) PROVE IInv'
  <2>1. PICK fast \in BOOLEAN :
          tab' = [tab EXCEPT ![b] = [ClosedTab EXCEPT !.page = "dashboard", !.token = t, !.fast = fast]]
    BY <1>13 DEF OpenDashboard
  <2> DEFINE r == [ClosedTab EXCEPT !.page = "dashboard", !.token = t, !.fast = fast]
  <2>2. r \in TabRow /\ r.token = t
    <3>1. "dashboard" \in {"closed", "login", "dashboard"} /\ t \in Tokens \union {None}
      OBVIOUS
    <3>2. r \in TabRow
      BY <3>1, ClosedRow, Zenon DEF TabRow
    <3> QED
      BY <3>2, ClosedRow DEF TabRow
  <2> HIDE DEF r
  <2>3. tab' = [tab EXCEPT ![b] = r]
    BY <2>1 DEF r
  <2> QED
    BY <1>13, <2>2, <2>3, OneTab, OnlyTabs DEF OpenDashboard
<1>14. ASSUME NEW b \in Tabs, NEW x \in Streams, Connect(b, x) PROVE IInv'
  BY <1>14, ConnectKeeps
<1>15. CASE UNCHANGED streamVars
  BY <1>15, OnlyTabs DEF streamVars, served, around, IInv, StreamTypes, Rows
<1> QED
  BY <1>1, <1>2, <1>3, <1>4, <1>5, <1>6, <1>7, <1>8, <1>9, <1>11, <1>12, <1>13, <1>14, <1>15
  DEF StreamNext

LEMMA Invariant == StreamSpec => []IInv
  BY InitIInv, NextIInv, PTL DEF StreamSpec

\* Every end of a stream gives back the one place it took, whoever ends it and
\* when, so the limits are limits on what is open.
THEOREM CountsAlwaysMatch == StreamSpec => []CountsMatch
<1>1. IInv => CountsMatch
  BY DEF IInv
<1> QED
  BY <1>1, Invariant, PTL

\* A stop ends every stream and timer, and what a killed backup left is gone
\* once the process has started.
THEOREM StopsAreClean == StreamSpec => []CleanStops
<1>1. IInv => CleanStops
  BY CleanIsCleanStops DEF IInv
<1> QED
  BY <1>1, Invariant, PTL


-----------------------------------------------------------------------------
(* The routes of the tunnel interface *)

Listable == Prefixes \union {"default"}

RoutesTypes ==
    /\ conf \subseteq Prefixes /\ before \subseteq Prefixes /\ stage \in {"idle", "apply", "undo"}
    /\ plan \in [del : SUBSET Listable, add : SUBSET Listable, failed : BOOLEAN, listed : BOOLEAN]
    /\ routes \subseteq Listable

\* Once listed, a route is as the files say unless its command is still to come or
\* it is odd; nothing that is wanted is deleted, nothing added that is not.
OnlyLeftIsWrong ==
    /\ plan.del \intersect conf = {} /\ plan.add \subseteq conf
    /\ routes \ (odd \union plan.del) \subseteq conf
    /\ (conf \ Covered) \ (odd \union plan.add) \subseteq routes

RoutesInv ==
    /\ RoutesTypes
    /\ ~plan.listed => plan.del = {} /\ plan.add = {}
    /\ stage = "idle" => ~plan.listed
    /\ plan.listed \/ (stage = "idle" /\ result # "unlisted") => OnlyLeftIsWrong

LEMMA NoPlanTypes ==
    /\ NoPlan \in [del : SUBSET Listable, add : SUBSET Listable, failed : BOOLEAN, listed : BOOLEAN]
    /\ NoPlan.del = {} /\ NoPlan.add = {} /\ ~NoPlan.listed
  BY DEF NoPlan

LEMMA RoutesStart == RoutesInit => RoutesInv
<1> SUFFICES ASSUME RoutesInit PROVE RoutesInv
  OBVIOUS
<1>1. /\ conf \subseteq Prefixes /\ before = conf /\ routes = conf \ Covered /\ plan = NoPlan
      /\ stage = "idle"
  BY RoutesAssumption DEF RoutesInit
<1> QED
  BY <1>1, NoPlanTypes DEF RoutesInv, RoutesTypes, OnlyLeftIsWrong, Listable

\* The files of before are put back, or the apply is over: nothing is left to do.
LEMMA UndoStep ==
    ASSUME RoutesInv, Undo, UNCHANGED <<before, routes>>
    PROVE  RoutesInv'
  BY NoPlanTypes DEF Undo, RoutesInv, RoutesTypes

LEMMA RestStep ==
    ASSUME RoutesInv, NEW word, Rest(word), UNCHANGED <<before, routes>>,
           word # "unlisted" => OnlyLeftIsWrong /\ plan.del = {} /\ plan.add = {} /\ odd' = odd
    PROVE  RoutesInv'
<1>1. stage' = "idle" /\ result' = word /\ plan' = NoPlan /\ conf' = conf
  BY DEF Rest
<1>2. RoutesTypes'
  BY <1>1, NoPlanTypes DEF RoutesInv, RoutesTypes
<1>3. word # "unlisted" => OnlyLeftIsWrong'
  BY <1>1, NoPlanTypes DEF OnlyLeftIsWrong
<1> QED
  BY <1>1, <1>2, <1>3, NoPlanTypes DEF RoutesInv

LEMMA RoutesStep == RoutesInv /\ [RoutesNext]_routesVars => RoutesInv'
<1> SUFFICES ASSUME RoutesInv, [RoutesNext]_routesVars PROVE RoutesInv'
  OBVIOUS
<1>0. CASE UNCHANGED routesVars
  BY <1>0 DEF RoutesInv, RoutesTypes, OnlyLeftIsWrong, routesVars
<1>1. ASSUME NEW c \in Confs, BeginApply(c) PROVE RoutesInv'
  <2>1. c \subseteq Prefixes
    BY RoutesAssumption
  <2> QED
    BY <1>1, <2>1 DEF BeginApply, RoutesInv, RoutesTypes
<1>2. ASSUME NEW refused \in BOOLEAN, Command(refused) PROVE RoutesInv'
  <2> DEFINE deleting == plan.del # {}
  <2>1. PICK p \in (IF deleting THEN plan.del ELSE plan.add) :
          LET failed == refused \/ (deleting <=> p \notin routes) IN
          /\ routes' = IF failed THEN routes ELSE IF deleting THEN routes \ {p}
               ELSE routes \union {p}
          /\ odd' = IF failed THEN odd \union {p} ELSE odd
          /\ plan' = After(p, failed)
    BY <1>2 DEF Command
  <2>2. stage # "idle" /\ UNCHANGED <<conf, before, stage, result>>
    BY <1>2 DEF Command
  <2>3. plan.listed /\ OnlyLeftIsWrong
    BY <1>2 DEF Command, RoutesInv
  <2>4. p \in Listable
    BY <2>1 DEF RoutesInv, RoutesTypes
  <2>5. /\ plan'.del = plan.del \ {p} /\ plan'.add = (IF deleting THEN plan.add
                                                      ELSE plan.add \ {p})
        /\ plan'.listed
        /\ plan' \in [del : SUBSET Listable, add : SUBSET Listable, failed : BOOLEAN,
                      listed : BOOLEAN]
    BY <2>1, <2>3 DEF After, RoutesInv, RoutesTypes
  <2>6. RoutesTypes'
    BY <2>1, <2>2, <2>4, <2>5 DEF RoutesInv, RoutesTypes
  <2>7. OnlyLeftIsWrong'
    <3>1. CASE deleting
      <4>1. /\ plan'.del = plan.del \ {p} /\ plan'.add = plan.add /\ p \in plan.del /\
                 p \notin conf
        BY <2>1, <2>3, <2>5, <3>1 DEF OnlyLeftIsWrong
      <4>2. (routes' = routes /\ odd' = odd \union {p}) \/ (routes' = routes \ {p} /\ odd' = odd)
        BY <2>1, <3>1
      <4> QED
        BY <2>2, <2>3, <4>1, <4>2 DEF OnlyLeftIsWrong
    <3>2. CASE ~deleting
      <4>1. /\ plan'.del = {} /\ plan.del = {} /\ plan'.add = plan.add \ {p} /\ p \in plan.add
            /\ p \in conf
        BY <2>1, <2>3, <2>5, <3>2 DEF OnlyLeftIsWrong
      <4>2. (routes' = routes /\ odd' = odd \union {p}) \/
              (routes' = routes \union {p} /\ odd' = odd)
        BY <2>1, <3>2
      <4> QED
        BY <2>2, <2>3, <4>1, <4>2 DEF OnlyLeftIsWrong
    <3> QED
      BY <3>1, <3>2
  <2> QED
    BY <2>2, <2>5, <2>6, <2>7 DEF RoutesInv
<1>3. CASE List
  <2>1. stage # "idle" /\ odd' = {} /\ UNCHANGED <<before, routes>>
    BY <1>3 DEF List
  <2>2. CASE plan' = RoutePlan(conf) /\ UNCHANGED <<conf, stage, result>>
    <3>1. /\ plan'.del = routes \ conf /\ plan'.add = (conf \ routes) \ Covered /\ plan'.listed
          /\ plan'.failed = FALSE
      BY <2>2 DEF RoutePlan
    <3>2. plan' \in [del : SUBSET Listable, add : SUBSET Listable, failed : BOOLEAN,
                     listed : BOOLEAN]
      BY <2>2 DEF RoutePlan, RoutesInv, RoutesTypes, Listable
    <3>3. RoutesTypes'
      BY <2>1, <2>2, <3>2 DEF RoutesInv, RoutesTypes
    <3>4. OnlyLeftIsWrong'
      BY <2>1, <2>2, <3>1 DEF OnlyLeftIsWrong
    <3> QED
      BY <2>1, <2>2, <3>1, <3>3, <3>4 DEF RoutesInv
  <2>3. CASE Undo
    BY <2>1, <2>3, UndoStep
  <2>4. CASE Rest("unlisted")
    BY <2>1, <2>4, RestStep
  <2> QED
    BY <1>3, <2>2, <2>3, <2>4 DEF List
<1>4. CASE Finish
  <2>1. /\ plan.listed /\ plan.del = {} /\ plan.add = {} /\ OnlyLeftIsWrong
        /\ UNCHANGED <<before, routes, odd>>
    BY <1>4 DEF Finish, RoutesInv
  <2>2. CASE Undo
    BY <2>1, <2>2, UndoStep
  <2>3. ASSUME NEW word \in {"applied", "undone"}, Rest(word) PROVE RoutesInv'
    BY <2>1, <2>3, RestStep
  <2> QED
    BY <1>4, <2>2, <2>3 DEF Finish
<1>5. ASSUME NEW p \in Prefixes \union {"default"}, Meddle(p) PROVE RoutesInv'
  <2>1. odd' = odd \union {p} /\ UNCHANGED <<conf, before, plan, stage, result>>
    BY <1>5 DEF Meddle
  <2>2. routes' = routes \ {p} \/ routes' = routes \union {p}
    BY <1>5 DEF Meddle
  <2>3. RoutesTypes'
    BY <2>1, <2>2 DEF RoutesInv, RoutesTypes, Listable
  <2>4. OnlyLeftIsWrong => OnlyLeftIsWrong'
    BY <2>1, <2>2 DEF OnlyLeftIsWrong
  <2> QED
    BY <2>1, <2>3, <2>4 DEF RoutesInv
<1> QED
  BY <1>0, <1>1, <1>2, <1>3, <1>4, <1>5 DEF RoutesNext

\* After every apply and every undo that could list the routes, the interface has
\* those of the files in force, for any configurations, any number of commands that
\* fail, in any order, and any number of routes somebody adds or deletes.
THEOREM RoutesAlwaysRight == RoutesSpec => []RoutesRight
<1>1. RoutesInv => RoutesRight
  <2> SUFFICES ASSUME RoutesInv, stage = "idle", result # "unlisted"
               PROVE  routes \ odd \subseteq conf /\ (conf \ Covered) \ odd \subseteq routes
    BY DEF RoutesRight
  <2>1. plan.del = {} /\ plan.add = {} /\ OnlyLeftIsWrong
    BY DEF RoutesInv
  <2> QED
    BY <2>1 DEF OnlyLeftIsWrong
<1> QED
  BY <1>1, RoutesStart, RoutesStep, PTL DEF RoutesSpec


-----------------------------------------------------------------------------
(* The emails about outages *)

Outages == 1..MaxOutages
Healths == {"never", "online", "stale", "offline"}
Passes == [at : Sites \union {0}, kind : Kinds, seen : [Sites -> Healths],
           during : [Sites -> Nat],
           rows : [Sites -> Nat], was : [Sites -> Kinds \union {"none"}], grace : BOOLEAN]
Mails == [Sites -> [Outages -> [Kinds -> {0, 1}]]]

AlertTypes ==
    /\ health \in [Sites -> Healths] /\ outage \in [Sites -> Nat] /\ row \in [Sites -> Nat]
    /\ alert \in [Sites -> Kinds \union {"none"}] /\ grace \in BOOLEAN
    /\ pass \in Passes /\ mails \in Mails

\* No email about an outage that has not begun is delivered; nor is one about the
\* outage there is that may yet be claimed, or put back.
NotYetMailed(s, m) ==
    /\ \A o \in Outages, k \in Kinds : o > outage[s] => m[s][o][k] = 0
    /\ \A o \in Outages : o = outage[s] =>
         /\ health[s] = "offline" /\ alert[s] # "down" => m[s][o]["down"] = 0
         /\ health[s] = "offline" \/ alert[s] = "down" => m[s][o]["up"] = 0

\* What a pass p has seen of a site is how its gateway is, or was before it fell
\* silent or was replaced; emails about later outages are not yet delivered.
SeenBefore(s, p, m) ==
    /\ p.during[s] <= outage[s] /\ p.rows[s] <= row[s]
    /\ p.rows[s] = row[s] /\ p.seen[s] = "offline" => health[s] = "offline" /\
         p.during[s] = outage[s]
    /\ health[s] = "offline" /\ p.during[s] = outage[s] => p.rows[s] = row[s] /\
         p.seen[s] = "offline"
    /\ \A o \in Outages, k \in Kinds : o > p.during[s] => m[s][o][k] = 0

\* Nor is the email delivered that is due when the pass comes to the site.
DueIsNew(s, p, m) ==
    p.rows[s] = row[s] =>
      /\ alert[s] = p.was[s]
      /\ \A o \in Outages : o = p.during[s] =>
           /\ p.seen[s] = "offline" /\ p.was[s] # "down" => m[s][o]["down"] = 0
           /\ p.seen[s] = "online" /\ p.was[s] = "down" => m[s][o]["up"] = 0

\* The email under way is claimed, unless the gateway was replaced since, and has
\* not been delivered.
UnderWay(s, p, m) ==
    /\ p.rows[s] = row[s] => alert[s] = p.kind
    /\ p.rows[s] # row[s] => alert[s] = "none"
    /\ p.kind = "up" => p.seen[s] = "online" /\ p.was[s] = "down"
    /\ p.kind = "down" => p.was[s] # "down"
    /\ \A o \in Outages : o = p.during[s] => m[s][o][p.kind] = 0

AlertInv ==
    /\ AlertTypes
    /\ \A s \in Sites : NotYetMailed(s, mails)
    /\ \A s \in Sites : pass.at # 0 /\ pass.at <= s => SeenBefore(s, pass, mails)
    /\ \A s \in Sites : pass.at # 0 /\ pass.at < s => DueIsNew(s, pass, mails)
    /\ \A s \in Sites : pass.at = s => UnderWay(s, pass, mails)

LEMMA SitesAreNumbers ==
    Sites \subseteq Nat \ {0} /\ 0 \notin Sites /\ (\A s \in Sites : s \in Nat) /\
      MaxOutages \in Nat
  BY SitesAssumption, BoundsAssumption

LEMMA FirstOfSites ==
    ASSUME NEW S \in SUBSET Sites, S # {}
    PROVE  Min(S) \in S /\ \A s \in S : Min(S) <= s
<1>1. S \in SUBSET Nat
  BY SitesAreNumbers
<1>2. \E n \in S : \A m \in S : <<m, n>> \notin OpToRel(<, Nat)
  BY <1>1, NatLessThanWellFounded, WFMin
<1>3. PICK n \in S : \A m \in S : <<m, n>> \notin OpToRel(<, Nat)
  BY <1>2
<1>4. \A m \in S : n <= m
  <2>1. \A m \in S : ~(m < n)
    BY <1>1, <1>3 DEF OpToRel
  <2> QED
    BY <1>1, <2>1
<1> QED
  BY <1>4 DEF Min

LEMMA NoPassTypes == NoPass \in Passes /\ NoPass.at = 0
  BY DEF NoPass, Passes, Kinds, Healths

LEMMA AlertStart == AlertInit => AlertInv
<1> SUFFICES ASSUME AlertInit PROVE AlertInv
  OBVIOUS
<1>1. AlertTypes
  BY NoPassTypes DEF AlertInit, AlertTypes, Healths, Mails, Outages, Kinds
<1>2. \A s \in Sites, o \in Outages, k \in Kinds : mails[s][o][k] = 0
  BY DEF AlertInit, Outages
<1>3. pass.at = 0
  BY NoPassTypes DEF AlertInit
<1>4. "up" \in Kinds /\ "down" \in Kinds
  BY DEF Kinds
<1> QED
  BY <1>1, <1>2, <1>3, <1>4, SitesAreNumbers DEF AlertInv, NotYetMailed

\* From sites none of whose due emails is delivered the pass claims the first that
\* is due, or ends.
LEMMA ProceedStep ==
    ASSUME AlertTypes, NEW p \in Passes, NEW m \in Mails, NEW S \in SUBSET Sites, Proceed(p, S),
           mails' = m, UNCHANGED <<health, outage, row, grace>>,
           \A s \in Sites : NotYetMailed(s, m),
           \A s \in S : SeenBefore(s, p, m) /\ DueIsNew(s, p, m),
           \A s \in S, t \in Sites : s <= t => t \in S
    PROVE  AlertInv'
<1> DEFINE due == {s \in S : DueKinds(p, s) # {} /\ Claimable(p, s)}
<1>0. "up" \in Kinds /\ "down" \in Kinds
  BY DEF Kinds
<1>1. CASE due = {}
  <2>1. pass' = NoPass /\ alert' = alert
    BY <1>1 DEF Proceed
  <2>2. AlertTypes'
    BY <2>1, NoPassTypes DEF AlertTypes
  <2>3. \A s \in Sites : NotYetMailed(s, mails)'
    BY <2>1 DEF NotYetMailed
  <2> QED
    BY <2>1, <2>2, <2>3, NoPassTypes, SitesAreNumbers DEF AlertInv
<1>2. CASE due # {}
  <2>1. PICK k \in DueKinds(p, Min(due)) :
          pass' = [p EXCEPT !.at = Min(due), !.kind = k] /\
            alert' = [alert EXCEPT ![Min(due)] = k]
    BY <1>2 DEF Proceed
  <2>2. Min(due) \in due /\ Min(due) \in S /\ Min(due) \in Sites
    BY <1>2, FirstOfSites
  <2>3. PICK s \in Sites : s = Min(due)
    BY <2>2
  <2>4. s \in S /\ Claimable(p, s) /\ k \in DueKinds(p, s)
    BY <2>1, <2>2, <2>3
  <2> HIDE DEF due
  <2>5. k \in Kinds /\ s \in Nat /\ s # 0
    BY <2>4, SitesAreNumbers DEF DueKinds
  <2>6. /\ pass' \in Passes /\ pass'.at = s /\ pass'.kind = k /\ pass'.seen = p.seen
        /\ pass'.during = p.during
        /\ pass'.rows = p.rows /\ pass'.was = p.was
    BY <2>1, <2>3, <2>5 DEF Passes
  <2>7. alert' = [alert EXCEPT ![s] = k] /\ p.rows[s] = row[s] /\ alert[s] = p.was[s]
    BY <2>1, <2>3, <2>4 DEF Claimable
  <2>8. /\ k = "down" => p.seen[s] = "offline" /\ p.was[s] # "down"
        /\ k = "up" => p.seen[s] = "online" /\ p.was[s] = "down"
    BY <2>4 DEF DueKinds
  <2>9. SeenBefore(s, p, m) /\ DueIsNew(s, p, m)
    BY <2>4
  <2>10. AlertTypes'
    BY <2>5, <2>6, <2>7 DEF AlertTypes
  <2>11. \A t \in Sites : t # s => alert'[t] = alert[t]
    BY <2>7 DEF AlertTypes
  <2>12. alert'[s] = k
    BY <2>7 DEF AlertTypes
  <2>13. ASSUME NEW t \in Sites PROVE NotYetMailed(t, mails)'
    <3>1. NotYetMailed(t, m)
      OBVIOUS
    <3>2. CASE t # s
      BY <2>11, <3>1, <3>2 DEF NotYetMailed
    <3>3. CASE t = s /\ k = "down"
      <4>1. health[s] = "offline"
        BY <2>7, <2>8, <2>9, <3>3 DEF SeenBefore
      <4> QED
        BY <2>12, <3>1, <3>3, <4>1 DEF NotYetMailed
    <3>4. CASE t = s /\ k = "up"
      <4>1. health[s] = "offline" => p.during[s] # outage[s]
        BY <2>8, <2>9, <3>4 DEF SeenBefore
      <4>2. p.during[s] <= outage[s] /\ p.during[s] \in Nat /\ outage[s] \in Nat
        BY <2>9 DEF SeenBefore, Passes, AlertTypes
      <4>3. health[s] = "offline" => \A o \in Outages : o = outage[s] => m[s][o]["down"] = 0
        BY <1>0, <2>9, <4>1, <4>2 DEF SeenBefore
      <4> QED
        BY <2>12, <3>1, <3>4, <4>3 DEF NotYetMailed
    <3> QED
      BY <2>5, <3>2, <3>3, <3>4 DEF Kinds
  <2>14. ASSUME NEW t \in Sites, s <= t PROVE SeenBefore(t, pass, mails)'
    <3>1. SeenBefore(t, p, m)
      BY <2>4, <2>14
    <3> QED
      BY <2>6, <3>1 DEF SeenBefore
  <2>15. ASSUME NEW t \in Sites, s < t PROVE DueIsNew(t, pass, mails)'
    <3>1. DueIsNew(t, p, m) /\ t # s
      BY <2>4, <2>5, <2>15, SitesAreNumbers
    <3> QED
      BY <2>6, <2>11, <3>1 DEF DueIsNew
  <2>16. UnderWay(s, pass, mails)'
    BY <2>5, <2>6, <2>7, <2>8, <2>9, <2>12 DEF UnderWay, DueIsNew, Kinds
  <2> QED
    BY <2>6, <2>10, <2>13, <2>14, <2>15, <2>16 DEF AlertInv
<1> QED
  BY <1>1, <1>2
\* One more email delivered about outage d.
Delivered(m, s, d,
          k) == [m EXCEPT ![s] = [m[s] EXCEPT ![d] = [m[s][d] EXCEPT ![k] = m[s][d][k] + 1]]]

LEMMA MailsStep ==
    ASSUME NEW m \in Mails, NEW s \in Sites, NEW d \in Nat, NEW k \in Kinds,
             d \in Outages => m[s][d][k] = 0
    PROVE  /\ Delivered(m, s, d, k) \in Mails
           /\ \A t \in Sites : t # s => Delivered(m, s, d, k)[t] = m[t]
           /\ \A o \in Outages, j \in Kinds :
                ~(o = d /\ j = k) => Delivered(m, s, d, k)[s][o][j] = m[s][o][j]
<1>1. CASE d \in Outages
  <2>1. [m[s][d] EXCEPT ![k] = 1] \in [Kinds -> {0, 1}]
    BY <1>1 DEF Mails
  <2>2. [m[s] EXCEPT ![d] = [m[s][d] EXCEPT ![k] = 1]] \in [Outages -> [Kinds -> {0, 1}]]
    BY <1>1, <2>1 DEF Mails
  <2>3. m[s][d][k] + 1 = 1
    BY <1>1
  <2>4. Delivered(m, s, d, k) = [m EXCEPT ![s] = [m[s] EXCEPT ![d] = [m[s][d] EXCEPT ![k] = 1]]]
    BY <2>3 DEF Delivered
  <2> QED
    BY <1>1, <2>1, <2>2, <2>4 DEF Mails
<1>2. CASE d \notin Outages
  <2>1. Delivered(m, s, d, k) = m
    BY <1>2 DEF Mails, Delivered
  <2> QED
    BY <2>1
<1> QED
  BY <1>1, <1>2

LEMMA AlertStep == AlertInv /\ [AlertNext]_alertVars => AlertInv'
<1> SUFFICES ASSUME AlertInv, [AlertNext]_alertVars PROVE AlertInv'
  OBVIOUS
<1>t. AlertTypes /\ "up" \in Kinds /\ "down" \in Kinds
  BY DEF AlertInv, Kinds
<1>0. CASE UNCHANGED alertVars
  <2>1. UNCHANGED <<health, outage, row, alert, pass, grace, mails>>
    BY <1>0 DEF alertVars
  <2>2. AlertTypes'
    BY <1>t, <2>1 DEF AlertTypes
  <2>3. \A s \in Sites : NotYetMailed(s, mails) => NotYetMailed(s, mails)'
    BY <2>1 DEF NotYetMailed
  <2>4. \A s \in Sites : SeenBefore(s, pass, mails) => SeenBefore(s, pass, mails)'
    BY <2>1 DEF SeenBefore
  <2>5. \A s \in Sites : DueIsNew(s, pass, mails) => DueIsNew(s, pass, mails)'
    BY <2>1 DEF DueIsNew
  <2>6. \A s \in Sites : UnderWay(s, pass, mails) => UnderWay(s, pass, mails)'
    BY <2>1 DEF UnderWay
  <2> QED
    BY <2>1, <2>2, <2>3, <2>4, <2>5, <2>6 DEF AlertInv
<1>1. ASSUME NEW s \in Sites, Report(s) PROVE AlertInv'
  <2>1. /\ health' = [health EXCEPT ![s] = "online"]
        /\ UNCHANGED <<outage, row, alert, grace, mails>>
        /\ pass' = IF pass.at # 0 /\ pass.rows[s] = row[s]
                   THEN [pass EXCEPT !.seen[s] = "online", !.during[s] = outage[s]] ELSE pass
    BY <1>1 DEF Report
  <2>2. /\ pass' \in Passes /\ pass'.at = pass.at /\ pass'.kind = pass.kind
        /\ pass'.rows = pass.rows
        /\ pass'.was = pass.was
        /\ \A t \in Sites : t # s => pass'.seen[t] = pass.seen[t] /\
             pass'.during[t] = pass.during[t]
        /\ pass.at # 0 /\ pass.rows[s] = row[s] => pass'.seen[s] = "online" /\
             pass'.during[s] = outage[s]
        /\ ~(pass.at # 0 /\ pass.rows[s] = row[s]) => pass' = pass
    BY <1>t, <2>1 DEF AlertTypes, Passes, Healths
  <2>3. AlertTypes'
    BY <1>t, <2>1, <2>2 DEF AlertTypes, Healths
  <2>4. health'[s] = "online" /\ \A t \in Sites : t # s => health'[t] = health[t]
    BY <1>t, <2>1 DEF AlertTypes
  <2>5. ASSUME NEW t \in Sites PROVE NotYetMailed(t, mails)'
    <3>1. NotYetMailed(t, mails)
      BY DEF AlertInv
    <3> QED
      BY <2>1, <2>4, <3>1 DEF NotYetMailed
  <2>6. ASSUME NEW t \in Sites, pass.at # 0, pass.at <= t PROVE SeenBefore(t, pass, mails)'
    <3>1. SeenBefore(t, pass, mails) /\ NotYetMailed(t, mails)
      BY <2>6 DEF AlertInv
    <3>2. CASE t # s
      BY <2>1, <2>2, <2>4, <3>1, <3>2 DEF SeenBefore
    <3>3. CASE t = s /\ pass.rows[s] = row[s]
      <4>1. outage[s] \in Nat /\ pass'.seen[s] = "online" /\ pass'.during[s] = outage[s]
        BY <1>t, <2>2, <2>6, <3>3 DEF AlertTypes
      <4> QED
        BY <2>1, <2>2, <2>4, <3>1, <3>3, <4>1 DEF SeenBefore, NotYetMailed
    <3>4. CASE t = s /\ pass.rows[s] # row[s]
      BY <2>1, <2>2, <2>4, <3>1, <3>4 DEF SeenBefore
    <3> QED
      BY <3>2, <3>3, <3>4
  <2>7. ASSUME NEW t \in Sites, pass.at # 0, pass.at < t PROVE DueIsNew(t, pass, mails)'
    <3>1. DueIsNew(t, pass, mails) /\ NotYetMailed(t, mails)
      BY <2>7 DEF AlertInv
    <3>2. CASE t # s \/ pass.rows[s] # row[s]
      BY <2>1, <2>2, <3>1, <3>2 DEF DueIsNew
    <3>3. CASE t = s /\ pass.rows[s] = row[s]
      BY <2>1, <2>2, <2>7, <3>1, <3>3 DEF DueIsNew, NotYetMailed
    <3> QED
      BY <3>2, <3>3
  <2>8. ASSUME NEW t \in Sites, pass.at = t PROVE UnderWay(t, pass, mails)'
    <3>1. t \in Nat /\ t # 0 /\ pass.kind \in Kinds
      BY <1>t, SitesAreNumbers DEF AlertTypes, Passes
    <3>2. UnderWay(t, pass, mails) /\ SeenBefore(t, pass, mails)
      BY <2>8, <3>1 DEF AlertInv
    <3>3. CASE t = s /\ pass.rows[s] = row[s]
      <4>1. outage[s] \in Nat /\ pass.during[s] \in Nat
        BY <1>t DEF AlertTypes, Passes
      <4>2. \A o \in Outages : o = outage[s] => mails[s][o][pass.kind] = 0
        BY <3>1, <3>2, <3>3, <4>1 DEF UnderWay, SeenBefore
      <4>3. pass'.seen[s] = "online" /\ pass'.during[s] = outage[s]
        BY <2>2, <2>8, <3>1, <3>3
      <4>4. pass'.kind = pass.kind /\ pass'.rows = pass.rows /\ pass'.was = pass.was
        BY <2>2
      <4>5. UnderWay(s, pass, mails)
        BY <3>2, <3>3
      <4>6. \A o \in Outages : o = pass'.during[s] => mails'[s][o][pass'.kind] = 0
        BY <2>1, <4>2, <4>3, <4>4
      <4>7. UnderWay(s, pass, mails)'
        BY <2>1, <4>3, <4>4, <4>5, <4>6 DEF UnderWay
      <4> QED
        BY <3>3, <4>7
    <3>4. CASE t = s /\ pass.rows[s] # row[s]
      BY <2>1, <2>2, <3>2, <3>4 DEF UnderWay
    <3>5. CASE t # s
      BY <2>1, <2>2, <3>2, <3>5 DEF UnderWay
    <3> QED
      BY <3>3, <3>4, <3>5
  <2> QED
    <3>1. pass'.at = pass.at
      BY <2>2
    <3> QED
      BY <2>3, <2>5, <2>6, <2>7, <2>8, <3>1 DEF AlertInv
\* A gateway that is no longer answering, or a new one in its place: nothing of the
\* pass and no email changes.
<1>2. ASSUME NEW s \in Sites, FallsSilent(s) PROVE AlertInv'
  <2>1. UNCHANGED <<row, alert, grace, pass, mails>>
    BY <1>2 DEF FallsSilent
  <2>2. /\ health[s] # "offline" /\ \A t \in Sites : t # s => health'[t] = health[t] /\
             outage'[t] = outage[t]
        /\ (health'[s] # "offline" /\ outage'[s] = outage[s]) \/ outage'[s] = outage[s] + 1
        /\ health' \in [Sites -> Healths] /\ outage' \in [Sites -> Nat]
    <3>1. CASE health[s] = "online" /\ health' = [health EXCEPT ![s] = "stale"] /\
                 outage' = outage
      BY <1>t, <3>1 DEF AlertTypes, Healths
    <3>2. CASE /\ health[s] = "stale" /\ health' = [health EXCEPT ![s] = "offline"]
               /\ outage' = [outage EXCEPT ![s] = @ + 1]
      BY <1>t, <3>2 DEF AlertTypes, Healths
    <3> QED
      BY <1>2, <3>1, <3>2 DEF FallsSilent
  <2>n. \A t \in Sites : outage[t] \in Nat /\ pass.during[t] \in Nat /\
          pass.rows[t] \in Nat /\ row[t] \in Nat
    BY <1>t DEF AlertTypes, Passes
  <2>3. AlertTypes'
    BY <1>t, <2>1, <2>2 DEF AlertTypes
  <2>4. ASSUME NEW t \in Sites PROVE NotYetMailed(t, mails)'
    <3>1. NotYetMailed(t, mails)
      BY DEF AlertInv
    <3>2. CASE t # s
      BY <2>1, <2>2, <3>1, <3>2 DEF NotYetMailed
    <3>3. CASE t = s /\ outage'[s] = outage[s] /\ health'[s] # "offline"
      BY <2>1, <3>1, <3>3 DEF NotYetMailed
    <3>4. CASE t = s /\ outage'[s] = outage[s] + 1
      <4>1. \A o \in Outages, k \in Kinds : o >= outage'[s] => mails[s][o][k] = 0
        BY <2>n, <3>1, <3>4 DEF NotYetMailed, Outages
      <4> QED
        BY <1>t, <2>1, <2>2, <2>n, <3>4, <4>1 DEF NotYetMailed, Outages
    <3> QED
      BY <2>2, <3>2, <3>3, <3>4
  <2>5. ASSUME NEW t \in Sites, pass.at # 0, pass.at <= t PROVE SeenBefore(t, pass, mails)'
    <3>1. SeenBefore(t, pass, mails)
      BY <2>5 DEF AlertInv
    <3>2. CASE t # s
      BY <2>1, <2>2, <3>1, <3>2 DEF SeenBefore
    <3>3. CASE t = s
      BY <2>1, <2>2, <2>n, <3>1, <3>3 DEF SeenBefore
    <3> QED
      BY <3>2, <3>3
  <2>6. \A t \in Sites : DueIsNew(t, pass, mails) => DueIsNew(t, pass, mails)'
    BY <2>1 DEF DueIsNew
  <2>7. \A t \in Sites : UnderWay(t, pass, mails) => UnderWay(t, pass, mails)'
    BY <2>1 DEF UnderWay
  <2> QED
    BY <2>1, <2>3, <2>4, <2>5, <2>6, <2>7 DEF AlertInv
<1>3. ASSUME NEW s \in Sites, Replace(s) PROVE AlertInv'
  <2>1. UNCHANGED <<outage, grace, pass, mails>>
    BY <1>3 DEF Replace
  <2>2. /\ row'[s] = row[s] + 1 /\ health'[s] = "never" /\ alert'[s] = "none"
        /\ \A t \in Sites : t # s => health'[t] = health[t] /\ row'[t] = row[t] /\
             alert'[t] = alert[t]
        /\ health' \in [Sites -> Healths] /\ row' \in [Sites -> Nat] /\
             alert' \in [Sites -> Kinds \union {"none"}]
    <3>1. /\ row' = [row EXCEPT ![s] = @ + 1] /\ health' = [health EXCEPT ![s] = "never"]
          /\ alert' = [alert EXCEPT ![s] = "none"]
      BY <1>3 DEF Replace
    <3> QED
      BY <1>t, <3>1 DEF AlertTypes, Healths
  <2>n. \A t \in Sites : outage[t] \in Nat /\ pass.during[t] \in Nat /\
          pass.rows[t] \in Nat /\ row[t] \in Nat
    BY <1>t DEF AlertTypes, Passes
  <2>3. AlertTypes'
    BY <1>t, <2>1, <2>2 DEF AlertTypes
  <2>4. ASSUME NEW t \in Sites PROVE NotYetMailed(t, mails)'
    <3>1. NotYetMailed(t, mails)
      BY DEF AlertInv
    <3> QED
      BY <2>1, <2>2, <3>1 DEF NotYetMailed
  <2>6. ASSUME pass.at # 0, pass.at <= s PROVE pass.rows[s] <= row'[s] /\ pass.rows[s] # row'[s]
    <3>1. pass.rows[s] <= row[s]
      BY <2>6 DEF AlertInv, SeenBefore
    <3> QED
      BY <2>2, <2>n, <3>1
  <2>5. ASSUME NEW t \in Sites, pass.at # 0, pass.at <= t PROVE SeenBefore(t, pass, mails)'
    <3>1. SeenBefore(t, pass, mails)
      BY <2>5 DEF AlertInv
    <3>2. CASE t # s
      BY <2>1, <2>2, <3>1, <3>2 DEF SeenBefore
    <3>3. CASE t = s
      BY <2>1, <2>2, <2>5, <2>6, <3>1, <3>3 DEF SeenBefore
    <3> QED
      BY <3>2, <3>3
  <2>7. ASSUME NEW t \in Sites, pass.at # 0, pass.at < t PROVE DueIsNew(t, pass, mails)'
    <3>1. DueIsNew(t, pass, mails)
      BY <2>7 DEF AlertInv
    <3>4. pass.at <= t
      <4>1. pass.at \in Sites \union {0}
        BY <1>t DEF AlertTypes, Passes
      <4> QED
        <5>1. pass.at \in Nat /\ t \in Nat
          BY <2>7, <4>1, SitesAreNumbers
        <5> QED
          BY <2>7, <5>1
    <3>2. CASE t # s
      BY <2>1, <2>2, <3>1, <3>2 DEF DueIsNew
    <3>3. CASE t = s
      BY <2>1, <2>6, <2>7, <3>3, <3>4 DEF DueIsNew
    <3> QED
      BY <3>2, <3>3
  <2>8. ASSUME NEW t \in Sites, pass.at = t PROVE UnderWay(t, pass, mails)'
    <3>1. UnderWay(t, pass, mails) /\ pass.at # 0 /\ pass.at <= t
      BY <2>8, SitesAreNumbers DEF AlertInv
    <3>2. CASE t # s
      BY <2>1, <2>2, <3>1, <3>2 DEF UnderWay
    <3>3. CASE t = s
      <4>1. pass'.rows[s] # row'[s]
        BY <2>1, <2>6, <3>1, <3>3
      <4> QED
        BY <2>1, <2>2, <3>1, <3>3, <4>1 DEF UnderWay
    <3> QED
      BY <3>2, <3>3
  <2> QED
    BY <2>1, <2>3, <2>4, <2>5, <2>7, <2>8 DEF AlertInv
<1>4. CASE CheckGatewayAlerts
  <2> DEFINE p == [NoPass EXCEPT !.seen = health, !.during = outage, !.rows = row,
                   !.was = alert, !.grace = grace]
  <2>1. Proceed(p, Sites) /\ UNCHANGED <<health, outage, row, grace, mails>>
    BY <1>4 DEF CheckGatewayAlerts
  <2>2. p \in Passes /\ p.seen = health /\ p.during = outage /\ p.rows = row /\ p.was = alert
    BY <1>t, NoPassTypes DEF AlertTypes, Passes
  <2> HIDE DEF p
  <2>3. \A s \in Sites : NotYetMailed(s, mails)
    BY DEF AlertInv
  <2>n. \A s \in Sites : outage[s] \in Nat /\ row[s] \in Nat
    BY <1>t DEF AlertTypes
  <2>4. ASSUME NEW s \in Sites PROVE SeenBefore(s, p, mails)
    BY <2>2, <2>3, <2>n DEF SeenBefore, NotYetMailed
  <2>5. ASSUME NEW s \in Sites PROVE DueIsNew(s, p, mails)
    BY <2>2, <2>3 DEF DueIsNew, NotYetMailed
  <2>6. mails \in Mails
    BY <1>t DEF AlertTypes
  <2> QED
    BY <1>t, <2>1, <2>2, <2>3, <2>4, <2>5, <2>6, ProceedStep
<1>5. CASE Sent
  <2>1. PICK s \in Sites : pass.at = s
    BY <1>5, <1>t DEF Sent, AlertTypes, Passes
  <2>2. PICK m : m = mails'
    OBVIOUS
  <2> DEFINE d == pass.during[s]
             k == pass.kind
  <2>3. /\ m = [mails EXCEPT ![s][d][k] = @ + 1] /\ Proceed(pass, {t \in Sites : t > s})
        /\ UNCHANGED <<health, outage, row, grace>>
    BY <1>5, <2>1, <2>2 DEF Sent
  <2>4. d \in Nat /\ k \in Kinds /\ mails \in Mails /\ pass \in Passes
    BY <1>t DEF AlertTypes, Passes
  <2>5. s \in Nat /\ s # 0 /\ s <= s
    BY SitesAreNumbers
  <2>6. UnderWay(s, pass, mails) /\ SeenBefore(s, pass, mails)
    BY <2>1, <2>5 DEF AlertInv
  <2>7. /\ m \in Mails
        /\ \A t \in Sites : t # s => m[t] = mails[t]
        /\ \A o \in Outages, j \in Kinds : ~(o = d /\ j = k) => m[s][o][j] = mails[s][o][j]
    <3>1. d \in Outages => mails[s][d][k] = 0
      BY <2>6 DEF UnderWay
    <3> HIDE DEF d, k
    <3> QED
      <4>1. m = Delivered(mails, s, d, k)
        BY <2>3 DEF Delivered
      <4>2. d \in Nat /\ k \in Kinds /\ mails \in Mails
        BY <2>4
      <4> QED
        BY <3>1, <4>1, <4>2, MailsStep
  <2>n. \A t \in Sites : outage[t] \in Nat /\ pass.during[t] \in Nat /\
          alert[t] \in Kinds \union {"none"}
    BY <1>t DEF AlertTypes, Passes
  <2>8. ASSUME NEW t \in Sites PROVE NotYetMailed(t, m)
    <3>1. NotYetMailed(t, mails)
      BY DEF AlertInv
    <3>2. CASE t # s
      BY <2>7, <3>1, <3>2 DEF NotYetMailed
    <3>3. CASE t = s
      <4>1. \A o \in Outages, j \in Kinds : o > outage[s] => m[s][o][j] = 0
        <5>1. d <= outage[s]
          BY <2>6 DEF SeenBefore
        <5>2. \A o \in Outages : o > outage[s] => o # d
          BY <2>4, <2>n, <5>1
        <5> QED
          BY <2>7, <3>1, <3>3, <5>2 DEF NotYetMailed
      <4>2. ASSUME NEW o \in Outages, o = outage[s], health[s] = "offline", alert[s] # "down"
            PROVE  m[s][o]["down"] = 0
        <5>1. ~(o = d /\ "down" = k)
          BY <2>6, <4>2 DEF UnderWay, SeenBefore
        <5> QED
          BY <1>t, <2>7, <3>1, <3>3, <4>2, <5>1 DEF NotYetMailed
      <4>3. ASSUME NEW o \in Outages, o = outage[s], health[s] = "offline" \/ alert[s] = "down"
            PROVE  m[s][o]["up"] = 0
        <5>1. ~(o = d /\ "up" = k)
          <6>1. CASE health[s] = "offline"
            BY <2>6, <4>3, <6>1 DEF UnderWay, SeenBefore
          <6>2. CASE alert[s] = "down"
            BY <2>6, <6>2 DEF UnderWay
          <6> QED
            BY <4>3, <6>1, <6>2
        <5> QED
          BY <1>t, <2>7, <3>1, <3>3, <4>3, <5>1 DEF NotYetMailed
      <4> QED
        BY <3>3, <4>1, <4>2, <4>3 DEF NotYetMailed
    <3> QED
      BY <3>2, <3>3
  <2> DEFINE S == {t \in Sites : t > s}
  <2>9. ASSUME NEW t \in S PROVE SeenBefore(t, pass, m) /\ DueIsNew(t, pass, m)
    <3>1. t \in Sites /\ t # s /\ s <= t /\ s < t
      BY <2>5, SitesAreNumbers
    <3>2. SeenBefore(t, pass, mails) /\ DueIsNew(t, pass, mails)
      BY <2>1, <2>5, <3>1 DEF AlertInv
    <3> QED
      BY <2>7, <3>1, <3>2 DEF SeenBefore, DueIsNew
  <2>10. \A t \in S, u \in Sites : t <= u => u \in S
    BY <2>5, SitesAreNumbers
  <2>11. S \in SUBSET Sites /\ Proceed(pass, S) /\ mails' = m
    BY <2>2, <2>3
  <2> HIDE DEF S
  <2> QED
    BY <1>t, <2>3, <2>4, <2>7, <2>8, <2>9, <2>10, <2>11, ProceedStep
<1>6. CASE NotSent
  <2>1. PICK s \in Sites : pass.at = s
    BY <1>6, <1>t DEF NotSent, AlertTypes, Passes
  <2>2. /\ pass' = NoPass /\ UNCHANGED <<health, outage, row, grace, mails>>
        /\ alert' = IF row[s] = pass.rows[s] /\ alert[s] = pass.kind
             THEN [alert EXCEPT ![s] = pass.was[s]] ELSE alert
    BY <1>6, <2>1 DEF NotSent
  <2>3. /\ pass.was[s] \in Kinds \union {"none"} /\ pass.kind \in Kinds
        /\ pass.during[s] \in Nat /\ outage[s] \in Nat
    BY <1>t DEF AlertTypes, Passes
  <2>4. UnderWay(s, pass, mails) /\ SeenBefore(s, pass, mails)
    BY <2>1, SitesAreNumbers DEF AlertInv
  <2>5. AlertTypes'
    BY <1>t, <2>2, <2>3, NoPassTypes DEF AlertTypes
  <2>6. ASSUME NEW t \in Sites PROVE NotYetMailed(t, mails)'
    <3>1. NotYetMailed(t, mails)
      BY DEF AlertInv
    <3>2. CASE alert'[t] = alert[t]
      BY <2>2, <3>1, <3>2 DEF NotYetMailed
    <3>3. CASE alert'[t] # alert[t]
      <4>1. t = s /\ alert'[s] = pass.was[s]
        BY <1>t, <2>2, <3>3 DEF AlertTypes
      <4>2. \A o \in Outages : o = outage[s] => mails[s][o][pass.kind] = 0
        <5>1. \A o \in Outages : o = pass.during[s] \/ o > pass.during[s] =>
                mails[s][o][pass.kind] = 0
          BY <2>3, <2>4 DEF UnderWay, SeenBefore
        <5>2. pass.during[s] <= outage[s]
          BY <2>4 DEF SeenBefore
        <5> QED
          BY <2>3, <5>1, <5>2
      <4>3. CASE pass.kind = "down"
        BY <2>2, <2>4, <3>1, <4>1, <4>2, <4>3 DEF UnderWay, NotYetMailed
      <4>4. CASE pass.kind = "up"
        BY <2>2, <2>4, <3>1, <4>1, <4>2, <4>4 DEF UnderWay, NotYetMailed
      <4> QED
        BY <2>3, <4>3, <4>4 DEF Kinds
    <3> QED
      BY <3>2, <3>3
  <2> QED
    BY <2>2, <2>5, <2>6, NoPassTypes, SitesAreNumbers DEF AlertInv
<1>7. CASE RetryDue \/ GraceEnds
  <2>1. UNCHANGED <<health, outage, row, alert, pass, mails>> /\ grace' \in BOOLEAN
    BY <1>7, <1>t DEF RetryDue, GraceEnds, AlertTypes
  <2>2. AlertTypes'
    BY <1>t, <2>1 DEF AlertTypes
  <2>3. \A s \in Sites : NotYetMailed(s, mails) => NotYetMailed(s, mails)'
    BY <2>1 DEF NotYetMailed
  <2>4. \A s \in Sites : SeenBefore(s, pass, mails) => SeenBefore(s, pass, mails)'
    BY <2>1 DEF SeenBefore
  <2>5. \A s \in Sites : DueIsNew(s, pass, mails) => DueIsNew(s, pass, mails)'
    BY <2>1 DEF DueIsNew
  <2>6. \A s \in Sites : UnderWay(s, pass, mails) => UnderWay(s, pass, mails)'
    BY <2>1 DEF UnderWay
  <2> QED
    BY <2>1, <2>2, <2>3, <2>4, <2>5, <2>6 DEF AlertInv
<1>8. CASE Restart
  <2>1. pass' = NoPass /\ grace' = TRUE /\ UNCHANGED <<health, outage, row, alert, mails>>
    BY <1>8 DEF Restart
  <2>2. AlertTypes'
    BY <1>t, <2>1, NoPassTypes DEF AlertTypes
  <2>3. \A s \in Sites : NotYetMailed(s, mails) => NotYetMailed(s, mails)'
    BY <2>1 DEF NotYetMailed
  <2> QED
    BY <2>1, <2>2, <2>3, NoPassTypes, SitesAreNumbers DEF AlertInv
<1> QED
  BY <1>0, <1>1, <1>2, <1>3, <1>4, <1>5, <1>6, <1>7, <1>8 DEF AlertNext

\* However gateways flap and are replaced, emails fail and the controller restarts,
\* an outage and its end are announced at most once each, for any number of sites,
\* outages, replacements, failures and restarts.
THEOREM NeverResent == AlertSpec => []NoResend
<1>1. AlertInv => NoResend
  <2> SUFFICES ASSUME AlertInv, NEW s \in Sites, NEW o \in Outages, NEW k \in Kinds
                        PROVE mails[s][o][k] <= 1
    BY DEF NoResend, Outages
  <2>1. mails[s][o][k] \in {0, 1}
    BY DEF AlertInv, AlertTypes, Mails
  <2> QED
    BY <2>1
<1> QED
  BY <1>1, AlertStart, AlertStep, PTL DEF AlertSpec
====
