SPECIFICATION FairSpec
CONSTANTS
    ga = ga
    gb = gb
    Gateways = {ga}
    NoGateway = NoGateway
    NoConn = NoConn
    Recovery = TRUE
    MaxAttempts = 1
    MaxAttemptSequences = 1
    MaxSends = 1
    MaxConns = 2
    MaxFaults = 1
PROPERTIES
    AcceptedConverges
CHECK_DEADLOCK FALSE
