--------------------------- MODULE MCOutboxRelay ---------------------------
(* Two relays over one row, or one relay over two rows, the last invalid.   *)
EXTENDS OutboxRelay

CONSTANTS r1, r2, w1, w2

TwoRelays == [relays |-> {r1, r2}, events |-> {1}, maxInflight |-> 1]
TwoEvents == [relays |-> {r1}, events |-> {1, 2}, maxInflight |-> 2]
EitherDeployment == {TwoRelays, TwoEvents}

\* For the finding: one relay over three rows.
ThreeEvents == {[relays |-> {r1}, events |-> {1, 2, 3}, maxInflight |-> 2]}
=============================================================================
