-------------------------- MODULE MCConcurrentTools --------------------------
(* Values for ConcurrentTools: of each kind of line, message or option one *)
(* representative, alone and in the orders that a search tells apart.      *)
EXTENDS ConcurrentTools

Upto(n, S) == UNION {[1..k -> S] : k \in 0..n}

L(k, t, s, o) == [kind |-> k, ts |-> t, sess |-> s, ok |-> o]
SipLogs == {
    <<>>, <<L("invite", 2, 1, FALSE)>>, <<L("invite", 2, 1, TRUE)>>,
    <<L("200", 1, 1, TRUE), L("invite", 2, 1, TRUE), L("status", 3, 1, TRUE),
      L("offline", 3, 2, TRUE)>>,
    <<L("invite", 1, 1, TRUE), L("invite", 3, 2, TRUE), L("200", 4, 2, TRUE),
      L("offline", 4, 2, TRUE)>>}
RtpLines == {
    L("create", 0, 0, TRUE), L("create", 2, 0, TRUE), L("create", 3, 0, TRUE),
    L("create", 2, 0, FALSE), L("h265", 3, 0, TRUE), L("udp", 4, 0, TRUE)}
MCToolsLogs == [sip : SipLogs, rtp : Upto(3, RtpLines)]

MCDbgInputs == [home : BOOLEAN, default : BOOLEAN, responses : 0..2, nodes : 0..1, undated : BOOLEAN]

D(f, t) == [fmt |-> f, t |-> t]
MCPullInputs ==
    [conf : {{}, {"path"}, {"fail", "sip"}, {"srv"}, {"bye"}, {"node"}},
     sid : {"none", "device", "channel"}, alias : BOOLEAN]
MCDeleteLogs ==
    [split : BOOLEAN,
     lines : Upto(2, {D("slash", 0), D("dash", 0), D("dash", 2), D("slash", 2), D("none", 0)})]

MCDeviceInputs ==
    [script : {<<>>, <<"ok", "catalog", "catalog">>, <<"catalog", "message", "catalog">>,
               <<"kept", "catalog", "ok">>}]

MCKubeInputs ==
    [notReady : {1..3, 1..2}, known : {1..3, {1, 3}}, public : {1..3, 2..3},
     serve : SUBSET (1..3)]

MCNsAtStart == {<<1, 2, 3>>, <<2, 1>>, <<>>}
MCStreamsAtStart == {<<SubSeq(<<1, 2, 3, 4>>, 1, k), <<1, 2>>, <<3>>>> : k \in 0..4}

MCDumps ==
    LET Bodies == {
            <<>>, <<{0}, {1}, {0}>>, <<{0}, {2}, {0}, {1}, {0}>>,
            <<{1}, {0}, {2}, {1}, {0}, {1}>>, <<{0}, {1, 2}, {0}, {1}, {2}, {0}>>}
    IN  {<<[name |-> n, lines |-> a], [name |-> "x", lines |-> b]>> :
             n \in {"x", "y"}, a \in Bodies, b \in Bodies}

Net(f, i) == [fields |-> f, ip |-> i]
Pt(o, s, m, u, b) == [ok |-> o, stream |-> s, method |-> m, uid |-> u, bps |-> b]
NetstatLines == {Net(6, i) : i \in {"127.0.0.1", "private", "a", "b"}} \cup {Net(4, "a"), Net(3, "a")}
PointLines == {Pt(TRUE, 1, "publish", 1, <<3, 5>>), Pt(TRUE, 2, "play", 1, <<7>>),
               Pt(TRUE, 1, "other", 2, <<>>), Pt(FALSE, 1, "play", 1, <<1>>)}
MCTableLogs == [kind : {"netstat"}, lines : Upto(3, NetstatLines)]
               \cup [kind : {"points"}, lines : Upto(3, PointLines)]
MCTableNodes == <<{"a"}, {"a", "private"}>>

Acc(t, i) == [t |-> t, is |-> i]
AccessLines == {Acc(1, "request"), Acc(3, "request"), Acc(5, "request"), Acc(2, "other"),
                Acc(2, "invalid"), Acc(2, "panics"), Acc(2, "too long")}
MCListingInputs ==
    [devices : 0..5, found : {1..5, {2, 3, 5}, {}}, log : {<<>>}]
    \cup [devices : {0}, found : {{}}, log : Upto(3, AccessLines)]
=============================================================================
