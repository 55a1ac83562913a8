---------------------------- MODULE MCBatchTools ----------------------------
(* The tools that go over data, count and report, one of which is run: its *)
(* state is in the variables pc, args, world and mem that all of them have,*)
(* and for the node monitor, which keeps files, in its own.                *)
EXTENDS Integers, Sequences

VARIABLES tool, pc, args, world, mem,
    today, files, touched, file, up, polls, allNodes, todo, info, polled, before, lost

run == <<args, world, mem>>
monitor == <<today, files, touched, file, up, polls, allNodes, todo, info, polled, before,
             lost>>
vars == <<tool, pc, run, monitor>>

Upto(n, S) == UNION {[1..k -> S] : k \in 0..n}

-----------------------------------------------------------------------------
Ports(b) == [runtime |-> "Serving", ip |-> TRUE, ports |-> b]

Monitor == INSTANCE NodeMonitor WITH
    Nodes <- {"m", "n"}, Dirs <- {"node_info", "/tmp/nodes"}, Dir <- "node_info",
    RawDir <- "/tmp/nodes", Monitored <- "m",
    Statuses <- {Ports(TRUE), Ports(FALSE)}, KeepDays <- 8, MaxDay <- 1, MaxPolls <- 3

Bad == [bad |-> TRUE]
RecordStatuses == {Ports(TRUE), Ports(FALSE), [Ports(FALSE) EXCEPT !.runtime = "Offline"],
                   [Ports(TRUE) EXCEPT !.ip = FALSE]}
FileOf(k) ==
    [there : {TRUE}, lines : Upto(k, [node : {"m", "n"}, status : RecordStatuses] \cup {Bad})]
NoFile == [there |-> FALSE, lines |-> <<>>]

Report == INSTANCE NodeReport WITH
    Nodes <- {"m", "n"}, Statuses <- RecordStatuses,
    Histories <- {<<f>> : f \in FileOf(4)} \cup
                 {<<f, g>> : f \in FileOf(2) \cup {NoFile}, g \in FileOf(2) \cup {NoFile}}

-----------------------------------------------------------------------------
Base == {"dynamic", "serving", "normal", "ability", "service", "ports"}
GoodIp == {"below 80%", "below 93%", "at most 93%", "probed", "speed"}
NodeOks ==
    {Base} \cup {Base \ {t} : t \in {"dynamic", "serving", "ability", "ports"}} \cup
    {Base \cup {"nat1"}, Base \cup {"schedules"}, Base \cup {"ban", "dedicated"},
     Base \cup {"schedules", "scheduled now", "aggregation"}}
IpSets ==
    {GoodIp, GoodIp \cup {"v6"}, GoodIp \cup {"private"}, GoodIp \cup {"forbidden"},
     GoodIp \ {"below 80%"}, GoodIp \ {"probed"}, GoodIp \ {"speed"},
     (GoodIp \ {"speed"}) \cup {"8 or 6"},
     {"at most 93%", "probed", "speed", "93% or more", "more 20"},
     {"more 20", "more 32", "probed", "speed", "93% or more"}}
FunnelNodes ==
    [ok : NodeOks, place : {"p"},
     ips : {<<>>} \cup {<<i>> : i \in IpSets} \cup {<<GoodIp, i>> : i \in IpSets}]
At(places) == [ok : {Base}, ips : {<<>>}, place : places]

Funnels == INSTANCE NodeFunnels WITH
    Inputs <- {<<n>> : n \in FunnelNodes \cup At({"x"})} \cup [1..5 -> At({"", "p", "q", "r"})]
              \cup {<<a, b>> : a \in {n \in FunnelNodes : Len(n.ips) = 1},
                               b \in {n \in FunnelNodes : n.ok = Base /\ Len(n.ips) < 2}},
    PerPlace <- 2, Every <- 2, Dropped <- 1, NoPlace <- "", Excluded <- "x"

-----------------------------------------------------------------------------
NodeOk == {"serving", "ports", "live can", "live service"}
IpOk == {"not forbidden", "not private", "probed", "speed", "dns", "v4"}
Ip(ok, isp, p, out) == [ok |-> ok, isp |-> isp, prov |-> p, out |-> out, max |-> 20]
CoverIps ==
    {Ip(IpOk, "a", "p", 5), Ip(IpOk, "a", "q", 17), Ip(IpOk, "b", "p", 0),
     Ip(IpOk, "a", "", 3), Ip(IpOk, "a", "x", 3), Ip(IpOk, "b", "r", 18),
     Ip(IpOk \ {"dns"}, "b", "p", 0)}
CoverNodes ==
    [ok : {NodeOk}, ips : {<<>>} \cup {<<i>> : i \in CoverIps}
                          \cup {<<i, j>> : i, j \in CoverIps}]
    \cup {[ok |-> NodeOk \ {"ports"}, ips |-> <<Ip(IpOk, "a", "p", 5)>>]}
User(p, n, o) == [prov |-> p, users |-> n, ok |-> o]
CoverUsers ==
    {[i \in {"a", "b"} |-> <<User("p", 3, TRUE), User("q", 2, TRUE), User("p", 1, TRUE),
                             User("none", 1, TRUE)>>],
     [i \in {"a", "b"} |-> IF i = "a" THEN <<User("p", 1, TRUE)>>
                                      ELSE <<User("r", 1, FALSE)>>]}
ProvinceAreaRelation(p) ==
    CASE p \in {"p", "q"} -> "north" [] p = "r" -> "south" [] OTHER -> ""
NeedOf(i) == IF i = "a" THEN 1500 ELSE 100

Cover == INSTANCE AreaCover WITH
    Inputs <- [nodes : {<<a, b>> : a \in {n \in CoverNodes : Len(n.ips) < 2},
                                   b \in CoverNodes},
               users : CoverUsers],
    Isps <- <<"a", "b">>, AreaOf <- ProvinceAreaRelation, Need <- NeedOf

-----------------------------------------------------------------------------
S(k, m, o, r, src, p, h) ==
    [key |-> k, mine |-> m, online |-> o, relay |-> r, source |-> src, pusher |-> p,
     hls |-> h]
Good == {"report", "fresh", "not nat1", "dynamic", "serving", "usable", "ports"}
StreamNodes ==
    [ok : {Good, Good \cup {"root"}, Good \ {"not nat1"}, Good \ {"dynamic"},
           Good \ {"serving"}, Good \ {"fresh"}},
     place : {<<"a", "n">>, <<"a", "s">>, <<"b", "n">>, <<>>},
     streams : {<<S(1, TRUE, 2, 1, TRUE, 5, 3)>>,
                <<S(1, TRUE, 1, 1, FALSE, 0, 0), S(2, TRUE, 1, 1, TRUE, 2, 1)>>,
                <<S(1, TRUE, 1, 1, TRUE, 3, 0), S(1, TRUE, 4, 2, TRUE, 2, 1),
                  S(1, FALSE, 1, 1, TRUE, 0, 0)>>,
                <<S(1, TRUE, 1, 1, TRUE, 0, 2)>>}]

Streams == INSTANCE StreamReports WITH
    Inputs <- {<<a, b>> : a \in StreamNodes,
                          b \in {n \in StreamNodes : n.place = <<"a", "s">>}},
    Keys <- {1, 2}, NoPlace <- <<>>, Window <- 2, MaxPolls <- 3

-----------------------------------------------------------------------------
Extinf(d) == [kind |-> "extinf", ok |-> TRUE, d |-> d, s |-> 0, e |-> 0]
Ts(s, e) == [kind |-> "ts", ok |-> TRUE, d |-> 0, s |-> s, e |-> e]
Other == [kind |-> "other", ok |-> TRUE, d |-> 0, s |-> 0, e |-> 0]
Lines ==
    {Extinf(2), Extinf(1), Extinf(0), Ts(1, 3), Ts(3, 5), Ts(4, 5), Ts(2, 4), Ts(0, 2),
     Other, [Other EXCEPT !.kind = "panics", !.ok = FALSE], [Extinf(0) EXCEPT !.ok = FALSE], [Ts(4, 5) EXCEPT !.ok = FALSE],
     [Other EXCEPT !.kind = "ts without times", !.ok = FALSE]}

Hls == INSTANCE HlsTools WITH
    Playlists <- (Upto(3, Lines) \ {<<>>}) \cup
                 {<<Extinf(2), Ts(1, 3), Extinf(2), Ts(3, 5), Extinf(2), t>> :
                      t \in {Ts(7, 9), Ts(4, 6)}},
    Live <- <<[seq |-> 0, n |-> 2], [seq |-> 1, n |-> 3], [seq |-> 2, n |-> 3],
              [seq |-> 3, n |-> 2], [seq |-> 0, n |-> 2]>>,
    NoFrames <- {1}

-----------------------------------------------------------------------------
PcdnInput(c, T, b) == [cmd : {c}, turns : T, bucket : b]
Answer(a, i, p, v) == [answer |-> a, isp |-> i, province |-> p, v6 |-> v]

Pcdn == INSTANCE PcdnChecks WITH
    Inputs <-
        PcdnInput("LoopPlaycheck",
                  Upto(3, {Answer("none", TRUE, TRUE, FALSE), Answer("bad", TRUE, TRUE, FALSE),
                           Answer("ok", TRUE, TRUE, TRUE), Answer("ok", FALSE, TRUE, FALSE),
                           Answer("ok", TRUE, FALSE, FALSE)}), {""}) \cup
        PcdnInput("Pcdns", Upto(3, [ok : BOOLEAN, area : BOOLEAN, isp : BOOLEAN]),
                  {""}) \cup
        PcdnInput("LoopPcdn", Upto(3, [ip : BOOLEAN]), {"dycold", "live"}) \cup
        PcdnInput("getPcdnFromSchedAPI",
                  Upto(2, [reports : BOOLEAN, root : BOOLEAN,
                           ips : {{"v6"}, {"private"}, {"private", "public"}, {"public"}}]),
                  {""})

R(p, i, t, e, d) == [place |-> p, isp |-> i, type |-> t, enabled |-> e, idc |-> d]
DnsLines ==
    {R("a", "x", "A", TRUE, "i"), R("a", "x", "A", TRUE, "j"), R("a", "x", "AAAA", TRUE, "i"),
     R("a", "x", "A", FALSE, "i"), R("a", "y", "A", TRUE, ""), R("a", "", "A", TRUE, "i"),
     R("province", "x", "CNAME", TRUE, "i"), R("b", "x", "CNAME", TRUE, "i")}

Dns == INSTANCE DnsRecords WITH
    Inputs <- [cmd : {"Res"}, records : Upto(3, DnsLines), ids : {<<>>}] \cup
              [cmd : {"DnsRecords"}, records : Upto(2, DnsLines), ids : {<<>>}] \cup
              [cmd : {"DelDns"}, ids : Upto(3, 0..2),
               records : {<<R("a", "x", "A", TRUE, "i"), R("a", "y", "A", TRUE, "")>>}],
    Areas <- {"a", "b"}, Isps <- {"x", "y"}, NeedBw <- 5, IpBw <- 3,
    IdcBw <- [i |-> 5, j |-> 9]

-----------------------------------------------------------------------------
NoMonitor ==
    /\ today = 0 /\ files = 0 /\ touched = 0 /\ file = 0 /\ up = 0 /\ polls = 0
    /\ allNodes = 0 /\ todo = 0 /\ info = 0 /\ polled = 0 /\ before = 0 /\ lost = 0

Init ==
    \/ tool = "nodemonitor" /\ Monitor!Init /\ args = 0 /\ world = 0 /\ mem = 0
    \/ /\ NoMonitor
       /\ \/ tool = "report" /\ Report!Init
          \/ tool = "funnels" /\ Funnels!Init
          \/ tool = "area-not-cover" /\ Cover!Init
          \/ tool = "streams" /\ Streams!Init
          \/ tool = "hls" /\ Hls!Init
          \/ tool = "pcdn" /\ Pcdn!Init
          \/ tool = "dns" /\ Dns!Init

Is(name) == tool = name /\ UNCHANGED <<tool, monitor>>

Next ==
    \/ tool = "nodemonitor" /\ Monitor!Next /\ UNCHANGED <<tool, run>>
    \/ Is("report") /\ Report!Next
    \/ Is("funnels") /\ Funnels!Next
    \/ Is("area-not-cover") /\ Cover!Next
    \/ Is("streams") /\ Streams!Next
    \/ Is("hls") /\ Hls!Next
    \/ Is("pcdn") /\ Pcdn!Next
    \/ Is("dns") /\ Dns!Next

Spec == Init /\ [][Next]_vars

-----------------------------------------------------------------------------
(* The records of the two node monitors say what the polls saw, and the    *)
(* reader reports the first records of their pairs.                        *)
RecordsTold ==
    /\ tool = "nodemonitor" => Monitor!RunLengthEncoded /\ Monitor!EveryPollWritten
    /\ tool = "report" => Report!PairsReported

(* The counters of a report reconcile: with each other, with those of an   *)
(* other report on the same data, and with the data.                       *)
CountsReconcile ==
    /\ tool = "funnels" => Funnels!ReportsCompare
    /\ tool = "area-not-cover" => Cover!RowsReconcile /\ Cover!CountedPerIsp
    /\ tool = "dns" => Dns!EachLineOnce
    /\ tool = "pcdn" => Pcdn!PcdnChecked

(* The tables of the streams agree, whichever way they add them up.        *)
TablesAgree == tool = "streams" => Streams!TablesAgree

(* What is measured over time is of the last polls, each once, of all the  *)
(* gaps between the files of a recording, and of all the segments of the   *)
(* live playlists that were taken, once for each that has them.            *)
OverTime ==
    /\ tool = "streams" => Streams!WindowExact
    /\ tool = "hls" => Hls!GapsAddUp /\ Hls!SegmentsShown

(* A tool works on, and changes, no other data than it was told to: a      *)
(* sample of the right size, the records up to the first error.            *)
NothingElse ==
    /\ tool = "funnels" => Funnels!SampleSound
    /\ tool = "dns" => Dns!DeletesPrefix
=============================================================================
