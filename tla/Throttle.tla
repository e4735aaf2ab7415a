------------------------------ MODULE Throttle ------------------------------
(***************************************************************************)
(* Counting failed sign-ins (src/server/auth.ts).                           *)
(*                                                                          *)
(* An attempt is charged to its bucket before the password is checked and   *)
(* the charge is given back when the password proves right; the check is an *)
(* await, so attempts overlap each other, the end of a window, and the      *)
(* pruning of a table that many addresses fill.  A bucket is kept per       *)
(* address, per device cookie, and per account or address for changing the  *)
(* password and first-run setup; addresses also count towards a global cap. *)
(*                                                                          *)
(* The table is a Map: a bucket whose window has run out is put back at its *)
(* end, so its order is that of the windows.  Time is reduced to which      *)
(* windows have run out.                                                    *)
(***************************************************************************)
EXTENDS Naturals, FiniteSets

CONSTANTS
    Sources,       \* who attempts are charged to
    Addresses,     \* the keys that also count towards the global cap
    Attempts,      \* attempts whose check is awaited at once
    PerSource,     \* PER_SOURCE_MAX
    GlobalMax,     \* GLOBAL_MAX
    MaxTracked,    \* MAX_TRACKED
    PruneTo,       \* nine tenths of it
    Nobody         \* no key

ASSUME ThrottleAssumption ==
    /\ Addresses \subseteq Sources /\ Nobody \notin Sources
    /\ PerSource \in Nat \ {0} /\ GlobalMax \in Nat \ {0}
    /\ PruneTo \in Nat \ {0} /\ MaxTracked \in Nat /\ PruneTo <= MaxTracked

VARIABLES
    buckets,     \* the table of buckets, by key
    older,       \* its order: pairs of keys, the first one's window began before
    global,      \* the global bucket
    attempt,     \* the attempts being checked
    watched,     \* history: the bucket whose attempts are counted, Nobody for the global one
    wrong,       \* history: attempts charged to its window and not (yet) proved right
    lent         \* history: charges it gave back that an earlier window had taken

throttleVars == <<buckets, older, global, attempt, watched, wrong, lent>>

\* carried: the watched bucket's window is no longer the one it was charged to.
NoAttempt == [key |-> Nobody, carried |-> FALSE]

ThrottleInit ==
    /\ buckets = <<>> /\ older = {}
    /\ global = [failures |-> 0, over |-> FALSE]
    /\ attempt = [n \in Attempts |-> NoAttempt]
    /\ watched \in Sources \union {Nobody}
    /\ wrong = 0
    /\ lent = 0

---------------------------------------------------------------------------
(* The table *)

Failures(b, k) == IF k \in DOMAIN b THEN b[k].failures ELSE 0

Renewed(k) == k \in DOMAIN buckets => buckets[k].over

\* The order once k is put at the end.
WithLast(k) ==
    {p \in older : p[1] # k /\ p[2] # k} \union ((DOMAIN buckets \ {k}) \X {k})

\* pruneBuckets: finished windows first, then the oldest.
Pruned(b, order) ==
    IF Cardinality(DOMAIN b) <= MaxTracked THEN b
    ELSE LET unfinished == {k \in DOMAIN b : ~b[k].over}
             newer(k) == {j \in unfinished : <<k, j>> \in order}
         IN  [k \in {j \in unfinished : Cardinality(newer(j)) < PruneTo} |-> b[k]]

\* bucket(key): a fresh one for a key that has none or whose window is over.
WithBucket(k) ==
    IF Renewed(k)
    THEN Pruned([j \in DOMAIN buckets \union {k} |->
                   IF j = k THEN [failures |-> 0, over |-> FALSE] ELSE buckets[j]], WithLast(k))
    ELSE buckets

\* The order of what is left in the table b.
OrderIn(b, k) ==
    {p \in IF Renewed(k) THEN WithLast(k) ELSE older : {p[1], p[2]} \subseteq DOMAIN b}

FreshGlobal == IF global.over THEN [failures |-> 0, over |-> FALSE] ELSE global

With(b, k, n) == [b EXCEPT ![k].failures = n]

Throttled(b, glob, k) == Failures(b, k) >= PerSource \/ (k \in Addresses /\ glob.failures >= GlobalMax)

\* When attempt k is looked at and the table becomes b: has the watched window
\* ended, what remains of what was counted in it, and who was charged to it.
WindowEnds(b, k) == IF watched = Nobody THEN global.over
                    ELSE watched \notin DOMAIN b \/ (watched = k /\ Renewed(k))
Kept(n, b, k) == IF WindowEnds(b, k) THEN 0 ELSE n
ChargedTo(k) == watched = k \/ (watched = Nobody /\ k \in Addresses)
Carried(b, k) ==
    [n \in Attempts |-> [attempt[n] EXCEPT !.carried = @ \/ (attempt[n].key # Nobody /\ ChargedTo(attempt[n].key)
                                                             /\ WindowEnds(b, k))]]
One(p) == IF p THEN 1 ELSE 0

---------------------------------------------------------------------------
Minus(n) == IF n = 0 THEN 0 ELSE n - 1

\* An attempt begins to be checked (charged), unless there were too many.
Look(n, k, b, charged) ==
    /\ attempt[n].key = Nobody
    /\ attempt' = IF charged THEN [Carried(b, k) EXCEPT ![n] = [NoAttempt EXCEPT !.key = k]] ELSE Carried(b, k)
    /\ wrong' = Kept(wrong, b, k) + One(charged /\ ChargedTo(k))
    /\ lent' = Kept(lent, b, k)
    /\ older' = OrderIn(b, k)
    /\ UNCHANGED watched

\* (mutant: throttled now, charged once the password has proved wrong)
ChargeLater(n, k) ==
    LET b == WithBucket(k) IN
    /\ Look(n, k, b, ~Throttled(b, FreshGlobal, k))
    /\ buckets' = b
    /\ global' = FreshGlobal

\* throttled, then charge, in one go.
Charge(n, k) ==
    LET b == WithBucket(k)
        charged == ~Throttled(b, FreshGlobal, k)
    IN
    /\ Look(n, k, b, charged)
    /\ buckets' = IF charged THEN With(b, k, Failures(b, k) + 1) ELSE b
    /\ global' = [FreshGlobal EXCEPT !.failures = @ + One(charged /\ k \in Addresses)]

\* The password was right: the charge is given back, to whichever window is
\* the key's by now.
Refund(n) ==
    LET k == attempt[n].key
        b == WithBucket(k)
        carried == Carried(b, k)[n].carried
    IN
    /\ k # Nobody
    /\ buckets' = With(b, k, Minus(Failures(b, k)))
    /\ global' = IF k \in Addresses THEN [FreshGlobal EXCEPT !.failures = Minus(@)] ELSE FreshGlobal
    /\ attempt' = [Carried(b, k) EXCEPT ![n] = NoAttempt]
    /\ wrong' = Kept(wrong, b, k) - One(ChargedTo(k) /\ ~carried)
    /\ lent' = Kept(lent, b, k) + One(ChargedTo(k) /\ carried)
    /\ older' = OrderIn(b, k)
    /\ UNCHANGED watched

\* It was wrong: the charge stays.
Keep(n) ==
    /\ attempt[n].key # Nobody
    /\ attempt' = [attempt EXCEPT ![n] = NoAttempt]
    /\ UNCHANGED <<buckets, older, global, watched, wrong, lent>>

\* Windows run out in the order they began, the global one among them.
WindowsEnd ==
    \/ \E k \in DOMAIN buckets :
         /\ ~buckets[k].over
         /\ buckets' = [j \in DOMAIN buckets |->
                           [buckets[j] EXCEPT !.over = @ \/ j = k \/ <<j, k>> \in older]]
         /\ UNCHANGED <<older, global, attempt, watched, wrong, lent>>
    \/ /\ ~global.over
       /\ global' = [global EXCEPT !.over = TRUE]
       /\ UNCHANGED <<buckets, older, attempt, watched, wrong, lent>>

ThrottleNext ==
    \/ WindowsEnd
    \/ \E n \in Attempts : Refund(n) \/ Keep(n) \/ \E k \in Sources : Charge(n, k)

ThrottleSpec == ThrottleInit /\ [][ThrottleNext]_throttleVars

---------------------------------------------------------------------------
(* Properties *)

\* However guesses overlap, a window admits no more wrong ones than its limit
\* and the right ones whose charge it returned although an earlier window had
\* taken it (auth.ts:32-34: "concurrent guesses cannot overrun the limit").
LimitHolds == wrong <= lent + (IF watched = Nobody THEN GlobalMax ELSE PerSource)
=============================================================================
