----------------------------- MODULE FailClosed -----------------------------
(***************************************************************************)
(* What a host that fails closed promises, whatever happens to it and to    *)
(* the programs on it: a ruleset on disk is whole or not there, the kernel  *)
(* only ever gets the one on disk, and one thing at a time is opened, when  *)
(* the kernel has the very ruleset that is on disk.  Closing is always      *)
(* possible; a ruleset may be lost to the kernel at any time, and what is   *)
(* open stays open, but nothing more is opened until it is back.            *)
(***************************************************************************)
CONSTANTS
    Rulesets,
    Interfaces,
    None

VARIABLES
    ruleset,     \* what is on disk
    loaded,      \* what the kernel has
    forwarding,
    up           \* the interfaces that are there

hostVars == <<ruleset, loaded, forwarding, up>>

HostInit == ruleset = None /\ loaded = None /\ forwarding = FALSE /\ up = {}

Replace ==
    /\ ruleset' \in Rulesets \union {None}
    /\ UNCHANGED <<loaded, forwarding, up>>

Install ==
    /\ ruleset # None
    /\ loaded' = ruleset
    /\ UNCHANGED <<ruleset, forwarding, up>>

Protected == loaded # None /\ loaded = ruleset

Forwards ==
    /\ Protected
    /\ forwarding' = TRUE
    /\ UNCHANGED <<ruleset, loaded, up>>

Connect(i) ==
    /\ Protected
    /\ up' = up \union {i}
    /\ UNCHANGED <<ruleset, loaded, forwarding>>

Disconnect(i) ==
    /\ up' = up \ {i}
    /\ UNCHANGED <<ruleset, loaded, forwarding>>

Lose ==
    /\ loaded' = None
    /\ UNCHANGED <<ruleset, forwarding, up>>

PowerLoss ==
    /\ loaded' = None /\ forwarding' = FALSE /\ up' = {}
    /\ UNCHANGED ruleset

HostNext ==
    \/ Replace \/ Install \/ Forwards \/ Lose \/ PowerLoss
    \/ \E i \in Interfaces : Connect(i) \/ Disconnect(i)

HostSpec == HostInit /\ [][HostNext]_hostVars
=============================================================================
