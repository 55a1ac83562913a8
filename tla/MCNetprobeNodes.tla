-------------------------- MODULE MCNetprobeNodes ---------------------------
(* NetprobeNodes for TLC: a node with two ips, one of them without inbound *)
(* bandwidth, and a node with one ip without outbound bandwidth.           *)
EXTENDS NetprobeNodes

CONSTANTS a, b, p1, p2, p3, online, offline, t1

MCNodes == {a, b}
MCIps == {p1, p2, p3}
MCNodeOf(p) == IF p = p3 THEN b ELSE a
MCGroups == {{p1, p3}, {p2}}
MCMaxIn(p) == IF p = p2 THEN 0 ELSE 10
MCMaxOut(p) == IF p = p3 THEN 0 ELSE 20
MCStates == {online, offline}
MCTimes == {t1}
=============================================================================
