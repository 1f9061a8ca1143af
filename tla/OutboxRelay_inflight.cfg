SPECIFICATION Spec
CONSTANTS
    r1 = r1
    r2 = r2
    w1 = w1
    w2 = w2
    NoToken = NoToken
    Relays = {r1}
    Workers = {w1, w2}
    Events = {1, 2, 3}
    Invalid = {}
    BatchSize = 1
    PublishBatchSize = 1
    Deployments <- ThreeEvents
    MaxFaults = 0
    MaxLost = 1
    MaxStops = 0
    MaxTrouble = 2
INVARIANTS
    ClaimsWithinMaxInflight
CHECK_DEADLOCK FALSE
