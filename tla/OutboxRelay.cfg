SPECIFICATION FairSpec
CONSTANTS
    r1 = r1
    r2 = r2
    w1 = w1
    w2 = w2
    NoToken = NoToken
    Relays = {r1, r2}
    Workers = {w1}
    Events = {1, 2}
    Invalid = {2}
    BatchSize = 1
    PublishBatchSize = 2
    Deployments <- EitherDeployment
    MaxFaults = 1
    MaxLost = 1
    MaxStops = 1
    MaxTrouble = 2
INVARIANTS
    NothingLost
    CleanStopReleasesAll
PROPERTIES
    LiveClaimFenced
    EventsSettle
CHECK_DEADLOCK FALSE
