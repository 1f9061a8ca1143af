SPECIFICATION Spec
CONSTANTS
    ga = ga
    gb = gb
    Gateways = {ga}
    NoGateway = NoGateway
    NoConn = NoConn
    Recovery = FALSE
    MaxAttempts = 2
    MaxAttemptSequences = 3
    MaxSends = 1
    MaxConns = 1
    MaxFaults = 0
INVARIANTS
    DeliveredMeansDurablyConfirmed
CHECK_DEADLOCK FALSE
