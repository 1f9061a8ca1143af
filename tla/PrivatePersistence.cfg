SPECIFICATION FairSpec
CONSTANTS
    w1 = w1
    w2 = w2
    w3 = w3
    c1 = c1
    c2 = c2
    b1 = b1
    b2 = b2
    NoBody = NoBody
    Workers = {w1, w2}
    Cids = {c1, c2}
    Bodies = {b1, b2}
    PoolSize = 2
    MaxBatch = 2
    MaxFaults = 2
INVARIANTS
    OneEventPerMessage
    AnswersTrue
PROPERTIES
    EveryRequestAnswered
CHECK_DEADLOCK FALSE
