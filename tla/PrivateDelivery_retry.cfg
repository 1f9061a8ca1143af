SPECIFICATION Spec
CONSTANTS
    ga = ga
    gb = gb
    Gateways = {ga, gb}
    NoGateway = NoGateway
    NoConn = NoConn
    Recovery = FALSE
    MaxAttempts = 2
    MaxAttemptSequences = 3
    MaxSends = 2
    MaxConns = 2
    MaxFaults = 1
SYMMETRY GatewaySymmetry
INVARIANTS
    WireAttemptsKnown
    OwnershipHeldByLane
PROPERTIES
    ImplementsContract
CONSTRAINT Within
CHECK_DEADLOCK FALSE
