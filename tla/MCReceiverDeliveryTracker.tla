--------------------- MODULE MCReceiverDeliveryTracker ---------------------
(* A tracker with two users and two message ids in both delivery domains,    *)
(* and limits small enough that each of them is reached, those of one         *)
(* recipient before those of all.                                            *)
EXTENDS ReceiverDeliveryTracker, TLC

CONSTANTS m1, m2, u1, u2, d1, d2, d3

Interchangeable ==
    Permutations({m1, m2}) \cup Permutations({u1, u2}) \cup Permutations({d1, d2, d3})

\* The attempts on record at a time, of all entries together.
Within == attempt_sequences <= 4
=============================================================================
