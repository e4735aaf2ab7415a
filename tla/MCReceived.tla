------------------------------ MODULE MCReceived ------------------------------
(* A network typed with a leading zero, which no test writes, among others. *)
EXTENDS Received

Typed == {[bits |-> 16, host |-> FALSE, zeros |-> b] : b \in BOOLEAN}

Plain == [masquerade |-> FALSE, self |-> TRUE, remote |-> TRUE, relayed |-> FALSE,
          open |-> TRUE, restricted |-> FALSE, inbound |-> FALSE, outbound |-> FALSE]

OneShape == {Plain}
=============================================================================
