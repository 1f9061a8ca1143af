SPECIFICATION FairSpec
CONSTANTS
    Users = {1, 2}
    w1 = w1
    w2 = w2
    Workers = {w1, w2}
    Progress = p
    Threads = {w1, w2, p}
    Deployments <- MCDeployments
    MaxCalls = 2
    IdRange = 2
    ReadIds = 10
    None = None
    Deleted = Deleted
INVARIANTS AnsweredDurable CountersExact EventNeverLost
PROPERTIES EventsSettle
CHECK_DEADLOCK FALSE
