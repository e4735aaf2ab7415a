------------------------------ MODULE OneShot ------------------------------
(***************************************************************************)
(* What a one-time secret promises: the link that hands out a client's      *)
(* configuration (Invites) and the token that enrols a gateway (Fleet) are  *)
(* two of them.  A secret is issued once; while it is good it can be spent, *)
(* once, for one result; after that, or once it has been withdrawn, nothing *)
(* makes it good again.                                                     *)
(***************************************************************************)
EXTENDS Naturals

CONSTANT Secrets

VARIABLES
    good,     \* secrets that can be spent
    over,     \* secrets that have been issued and no longer can
    uses      \* how often each gave its result

shotVars == <<good, over, uses>>

ShotInit == good = {} /\ over = {} /\ uses = [s \in Secrets |-> 0]

\* Issuing one may withdraw others.
Issue(s, gone) ==
    /\ s \notin good \union over
    /\ gone \subseteq good
    /\ good' = (good \ gone) \union {s}
    /\ over' = over \union gone
    /\ UNCHANGED uses

Withdraw(gone) ==
    /\ gone \subseteq good
    /\ good' = good \ gone
    /\ over' = over \union gone
    /\ UNCHANGED uses

\* Spending one may withdraw others too.
Spend(s, gone) ==
    /\ s \in good
    /\ gone \subseteq good
    /\ good' = good \ ({s} \union gone)
    /\ over' = over \union {s} \union gone
    /\ uses' = [uses EXCEPT ![s] = @ + 1]

ShotNext ==
    \/ \E s \in Secrets : \E gone \in SUBSET good : Issue(s, gone) \/ Spend(s, gone)
    \/ \E gone \in SUBSET good : Withdraw(gone)

ShotSpec == ShotInit /\ [][ShotNext]_shotVars
=============================================================================
