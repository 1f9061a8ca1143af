SPECIFICATION FairSpec
CONSTANTS
    Users = {1, 2}
    g1 = g1
    g2 = g2
    c1 = c1
    c2 = c2
    c3 = c3
    Gateways = {g1, g2}
    Conns = {c1, c2, c3}
    Home <- MCHome
    None = None
    Deployments <- MCDeployments
    MaxLeases = 4
    MaxActiveReplays = 1
INVARIANTS SessionsMatch ReplayOwed
PROPERTIES OfflineSparesServed PresenceConverges PendingDelivered
CHECK_DEADLOCK FALSE
