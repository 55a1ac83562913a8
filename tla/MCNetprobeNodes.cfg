SPECIFICATION FairSpec
CONSTANTS
    a = a
    b = b
    p1 = p1
    p2 = p2
    p3 = p3
    online = online
    offline = offline
    t1 = t1
    Nodes <- MCNodes
    Ips <- MCIps
    NodeOf <- MCNodeOf
    Groups <- MCGroups
    MaxIn <- MCMaxIn
    MaxOut <- MCMaxOut
    States <- MCStates
    Times <- MCTimes
    MaxRequests = 2
INVARIANT OverfullOnlyWithoutIn
PROPERTIES NoFallback LatestPublished
CHECK_DEADLOCK FALSE
