------------------------- MODULE MCPrivateDelivery -------------------------
(* Two Gateways, one message, a few sends, logins and faults.               *)
EXTENDS PrivateDelivery, TLC

CONSTANTS ga, gb

GatewaySymmetry == Permutations(Gateways)

\* Joint bound: a receiver that logs in again meets one send, no fault and at
\* most three attempts.
Within == conns <= 1 \/ (sends <= 1 /\ faults = 0 /\ nextD <= 4)
=============================================================================
