SPECIFICATION RuntimeSpec
CONSTANTS
    a = a
    b = b
    s = s
    NoKey = NoKey
    Workers = {w1, w2}
    Keys = {a, b}
    Stripes = {s}
    StripeOf <- OneStripe
    MaxPending = 2
    PerStripe = 2
    Workloads <- MCWorkloads
    Requests = {1, 2, 3, 4}
    Senders = {0, 1}
    Shards = {1, 2}
    Capacity = 2
    Batch = 2
    Callers = {1, 2, 3, 4}
    Queued = 3
    Failure = Failure
INVARIANTS
    KeyOrder
    StopIsQuiet
    SchedulerExact
    SenderOrder
    OwnResult
PROPERTIES
    AcceptedTasksEnd
    EveryCallReturns
CHECK_DEADLOCK FALSE
