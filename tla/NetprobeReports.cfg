\* Two requests are enough for the races between handlers and with Run; two
\* streams of one bucket for requests that meet in a stream or in the bucket
\* only, and for the shared key of a node.
SPECIFICATION FairSpec
CONSTANTS
    Nodes = {n1, n2}
    Buckets = {b1}
    Names = {s1, s2}
    Requests = {r1, r2}
    MaxFailures = 1
INVARIANTS NoMixedReport AcknowledgedKept
PROPERTY CurrentPublished
CHECK_DEADLOCK FALSE
