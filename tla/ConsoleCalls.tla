---------------------------- MODULE ConsoleCalls ----------------------------
(***************************************************************************)
(* The calls a pass makes to a UniFi console (src/server/unifi/client.ts):  *)
(* one request each, or with a local account three when its session has     *)
(* run out: the request, a sign-in, the request again.  Everything a pass   *)
(* changes on a console is such a call.                                     *)
(*                                                                          *)
(* A request that is given up (the time it may take, silence, a connection  *)
(* reset, an answer that is too long, the pass's own limit) may have been   *)
(* carried out, or still be on its way and be carried out later.            *)
(***************************************************************************)
EXTENDS Naturals

CONSTANTS
    MaxCalls,       \* bound: changes of one pass
    MaxExpired      \* bound: how often its session ends on the console

ASSUME CallsAssumption == MaxCalls \in Nat \ {0} /\ MaxExpired \in Nat

VARIABLES
    auth,        \* "password" or "api_key"
    cookie,      \* has the client signed in?
    session,     \* does the console accept what it sends, cookie or key?
    current,     \* which call it is, where it stands, and its outcome
    wire,        \* its request, or the answer to it
    straying,    \* requests given up and still on their way, by call
    carriedOut,  \* how often each call's change was
    aborted,     \* the pass's time is up
    runOut       \* how often its session has ended

callVars == <<auth, cookie, session, current, wire, straying, carriedOut, aborted, runOut>>

CallNos == 1..MaxCalls

\* A new client, with a session to open or a key.
NewPass ==
    /\ cookie' = FALSE
    /\ session' = (auth' = "api_key")
    /\ current' = [n |-> 0, at |-> "ok"]
    /\ wire' = "nothing"
    /\ straying' = [n \in CallNos |-> 0]
    /\ carriedOut' = [n \in CallNos |-> 0]
    /\ aborted' = FALSE /\ runOut' = 0

CallsInit ==
    /\ auth \in {"password", "api_key"}
    /\ cookie = FALSE
    /\ session = (auth = "api_key")
    /\ current = [n |-> 0, at |-> "ok"]
    /\ wire = "nothing"
    /\ straying = [n \in CallNos |-> 0]
    /\ carriedOut = [n \in CallNos |-> 0]
    /\ aborted = FALSE /\ runOut = 0

Finished == current.at \in {"ok", "failed"}

Outcome(at) == current' = [current EXCEPT !.at = at] /\ wire' = "nothing"
Send(at, what) == current' = [current EXCEPT !.at = at] /\ wire' = what

---------------------------------------------------------------------------
(* The client *)

\* A pass first signs in, with a local account, and does nothing more if that fails.
Login ==
    /\ auth = "password" /\ ~cookie /\ current.n = 0 /\ current.at = "ok" /\ ~aborted
    /\ Send("first login", "login")
    /\ UNCHANGED <<auth, cookie, session, straying, carriedOut, aborted, runOut>>

\* The next change, whether the one before it went well or not (reconcile.ts
\* goes on after one that failed).  When the pass's time is up it fails unsent.
NextChange ==
    /\ Finished /\ current.n < MaxCalls
    /\ auth = "password" => cookie
    /\ IF aborted THEN current' = [n |-> current.n + 1, at |-> "failed"] /\ UNCHANGED wire
       ELSE current' = [n |-> current.n + 1, at |-> "try"] /\ wire' = "request"
    /\ UNCHANGED <<auth, cookie, session, straying, carriedOut, aborted, runOut>>

\* (mutant: after a sign-in, whatever went wrong)
TryAgainAnyway == auth = "password" /\ current.at = "try" /\ wire \in {"401", "bad"}

\* Once, after a sign-in, and only if the console says it did nothing.
TryAgain == auth = "password" /\ current.at = "try" /\ wire = "401"

\* The answer to a request.
RequestAnswered ==
    /\ wire \in {"401", "done", "bad"}
    /\ IF TryAgain THEN Send("login", "login")
       ELSE Outcome(IF wire = "done" THEN "ok" ELSE "failed")
    /\ UNCHANGED <<auth, cookie, session, straying, carriedOut, aborted, runOut>>

\* The answer to a sign-in.
SignedIn ==
    /\ wire \in {"cookie", "no"}
    /\ cookie' = (cookie \/ wire = "cookie")
    /\ IF wire = "no" THEN Outcome("failed")
       ELSE IF current.at = "login" THEN Send("retry", "request") ELSE Outcome("ok")
    /\ UNCHANGED <<auth, session, straying, carriedOut, aborted, runOut>>

\* What was sent is still on its way, or is not.
Abandon ==
    /\ ~Finished
    /\ Outcome("failed")
    /\ straying' \in {straying} \union
         {f \in {[straying EXCEPT ![n] = @ + 1] : n \in CallNos \intersect {current.n}} : wire = "request"}

\* giveUp, at any time.
GivenUp ==
    /\ Abandon
    /\ UNCHANGED <<auth, cookie, session, carriedOut, aborted, runOut>>

\* The pass's limit gives up what is in flight.
Abort ==
    /\ ~aborted /\ aborted' = TRUE
    /\ Abandon \/ (Finished /\ UNCHANGED <<current, wire, straying>>)
    /\ UNCHANGED <<auth, cookie, session, carriedOut, runOut>>

\* Nothing is on its way any more: the next pass.
PassEnds ==
    /\ Finished /\ \A n \in CallNos : straying[n] = 0
    /\ UNCHANGED auth
    /\ NewPass

---------------------------------------------------------------------------
(* The console *)

\* Without a session nothing is done.  With one the change is made, or refused;
\* the answer may be an error although it was made.
HandleRequest ==
    /\ wire = "request"
    /\ IF ~session THEN wire' = "401" /\ UNCHANGED carriedOut
       ELSE \/ wire' \in {"done", "bad"} /\ carriedOut' = [carriedOut EXCEPT ![current.n] = @ + 1]
            \/ wire' = "bad" /\ UNCHANGED carriedOut
    /\ UNCHANGED <<auth, cookie, session, current, straying, aborted, runOut>>

HandleLogin ==
    /\ wire = "login"
    /\ \/ wire' = "cookie" /\ session' = TRUE
       \/ wire' = "no" /\ UNCHANGED session
    /\ UNCHANGED <<auth, cookie, current, straying, carriedOut, aborted, runOut>>

\* One that was given up arrives.
HandleStray(n) ==
    /\ straying[n] > 0
    /\ straying' = [straying EXCEPT ![n] = @ - 1]
    /\ carriedOut' \in {carriedOut, [carriedOut EXCEPT ![n] = @ + 1]}
    /\ UNCHANGED <<auth, cookie, session, current, wire, aborted, runOut>>

\* The session runs out, or the key is withdrawn.
SessionEnds ==
    /\ session /\ runOut < MaxExpired
    /\ session' = FALSE /\ runOut' = runOut + 1
    /\ UNCHANGED <<auth, cookie, current, wire, straying, carriedOut, aborted>>

CallsNext ==
    \/ Login \/ NextChange \/ RequestAnswered \/ SignedIn \/ GivenUp \/ Abort \/ PassEnds
    \/ HandleRequest \/ HandleLogin \/ SessionEnds
    \/ \E n \in CallNos : HandleStray(n)

CallsSpec == CallsInit /\ [][CallsNext]_callVars

---------------------------------------------------------------------------
(* Properties *)

\* A change asked for once is carried out at most once, whatever is given up,
\* signed in again or answered with an error; what a call says was done has
\* been; and once the pass's time is up nothing more is sent for it
\* (client.ts:44, 359-374; index.ts:231-239).
CarriedOutOnce ==
    /\ \A n \in CallNos : carriedOut[n] + straying[n] <= 1
    /\ current.at = "ok" /\ current.n > 0 => carriedOut[current.n] = 1
    /\ aborted => wire = "nothing"
=============================================================================
