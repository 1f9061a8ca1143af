SPECIFICATION FanoutSpec
CONSTANTS
    Events <- MCEvents
    Receivers = {2, 3}
    Peers = {4, 5}
    Workers = {w1, w2}
    MutexCount = 2
    Projections <- MCProjections
    Nobody = nobody
    Instances = {i1, i2}
    Registrations <- MCRegistrations
    NoLease = noLease
    Forwards = {"c1", "c2", "g1", "o1"}
    GroupForwards = {"g1"}
    Oversized = {"o1"}
    Addresses = {"a1", "a2"}
    MaxRetries = 1
    MaxMoves = 1
    Traffics <- MCTraffics
    None = none
    g1 = g1
    g2 = g2
    Gateways = {g1, g2}
    Messages = {1, 2}
    BatchSize = 2
    Tokens = {1, 2, 3, 4, 5}
    Scenes <- MovementScenes
    NoToken = 0
    Nowhere = nowhere
PROPERTIES GroupReceived
CHECK_DEADLOCK FALSE
