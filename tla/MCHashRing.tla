----------------------------- MODULE MCHashRing -----------------------------
(* HashRing for TLC: a ring of ten spots where a and b share one.          *)
EXTENDS HashRing, SequencesExt

CONSTANTS a, b, c, s1, s2, s3

MCNodes == {a, b, c}
MCStreams == {s1, s2, s3}
MCSpots(n) == CASE n = a -> {1, 7} [] n = b -> {4, 7} [] n = c -> {2, 8}
MCHashOf(s) == CASE s = s1 -> 3 [] s = s2 -> 7 [] s = s3 -> 9
Ip(m, o) == [max |-> m, out |-> o]
Free == <<Ip(50, 20)>>
Full == <<Ip(50, 60)>>
Two == <<Ip(40, 0), Ip(20, 30)>>
MCSort(s) == SortSeq(s, LAMBDA p, q : Weight(p) > Weight(q))
MCIps == {<<>>, Free, Full, Two}
MCNumbered == <<c, a>>
MCLists ==
    {<<[node |-> a, ips |-> Free]>>,
     <<[node |-> a, ips |-> Full], [node |-> NoNode, ips |-> Free]>>,
     <<[node |-> b, ips |-> Two], [node |-> c, ips |-> Free], [node |-> b, ips |-> Full]>>}
=============================================================================
