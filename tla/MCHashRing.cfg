SPECIFICATION Spec
CONSTANTS
    a = a
    b = b
    c = c
    s1 = s1
    s2 = s2
    s3 = s3
    Nodes <- MCNodes
    Streams <- MCStreams
    Length = 10
    Spots <- MCSpots
    HashOf <- MCHashOf
    Ips <- MCIps
    ByRatio = TRUE
    Sort <- MCSort
    Numbered <- MCNumbered
    Lists <- MCLists
    MaxAdds = 2
INVARIANTS HashAnswersMember FairShare
PROPERTY OnlyNeighbours
CHECK_DEADLOCK FALSE
