----------------------------- MODULE NodeFunnels ----------------------------
(***************************************************************************)
(* miku-tools: the reports that pass all nodes, and then the ips of each,  *)
(* through a list of tests and count what each test lets through and turns *)
(* away, those of staging and the two that nodeMonitor makes at each poll; *)
(* and GenNodes, which takes some of the nodes as a sample.                *)
(* A node, and an ip, is the set of the plain tests that it passes.        *)
(***************************************************************************)
EXTENDS Naturals, Sequences, FiniteSetsExt

CONSTANTS
    Inputs,     \* sequences of nodes: [ok, ips, place]
    PerPlace,   \* 2 nodes of an isp and a province
    Every,      \* 3: one in three places is kept
    Dropped,    \* 8 of which are dropped
    NoPlace,    \* where the isp or the province is not known
    Excluded    \* "电信_北京"

VARIABLES pc, args,
    world,   \* the file of GenNodes, or <<>>
    mem      \* report; at: nodes done; counts; busy: the nodes of Load;
             \* sample: place -> its nodes, of GenNodes

vars == <<pc, args, world, mem>>

-----------------------------------------------------------------------------
(* What the tests of the code are made of: facts of node n and ip i.       *)
Not(t, facts) == IF t \in facts THEN {} ELSE {"not " \o t}
If(fact, cond) == IF cond THEN {fact} ELSE {}

(* Mutant of CanSchedule: only within one of the schedules.                *)
CanScheduleNow(facts) == If("can schedule", "scheduled now" \in facts)

(* CheckCanScheduleOfTimeLimit: without schedules, or within one of them.  *)
CanSchedule(facts) ==
    If("can schedule", "scheduled now" \in facts \/ "schedules" \notin facts)

(* CheckDynamicNodesPort and its copy in DumpNodes.                        *)
CheckPorts(facts) == If("reachable", {"nat1", "ports"} \cap facts # {})

(* CheckNodeUsable, of which LowBw has a copy.                             *)
Usable(facts) == If("usable", {"ability", "service"} \subseteq facts)

(* An ip is slow below 12 at best and 10 at worst ("speed" is of one that  *)
(* is not), but for CalcTotalBw below 8 and 6.                             *)
Facts(n, i) ==
    LET raw == n.ok \cup i
    IN  raw \cup {"any"} \cup CanSchedule(raw) \cup CheckPorts(raw) \cup Usable(raw)
        \cup UNION {Not(t, raw) : t \in {"private", "nat1", "ban", "v6", "schedules",
                                         "forbidden", "normal", "serving"}}
        \cup If("has ip", n.ips # <<>>)
        \cup If("has v6", \E k \in DOMAIN n.ips : "v6" \in n.ips[k])
        \cup If("fits", {"private", "at most 93%"} \cap raw # {})
        \cup If("speed 8", {"speed", "8 or 6"} \cap raw # {})

(* A test that turns away, and one that only counts; "" is not counted.    *)
F(test, no, yes) == [test |-> test, no |-> no, yes |-> yes, stop |-> TRUE]
C(test, yes) == [test |-> test, no |-> "", yes |-> yes, stop |-> FALSE]

DumpNodes == [
    node |-> <<F("dynamic", "staicNode", "afterSetp1"),
               F("serving", "notServing", "afterSetp2"),
               F("has ip", "noIps", "afterSetp3"),
               F("ability", "abilityChk", "afterSetp4"),
               F("service", "servicesChk", "afterSetp5"),
               F("reachable", "portsChk", "afterSetp6"),
               F("not schedules", "SchedulesChk", "afterSetp7")>>,
    ip |-> <<C("any", "ipCnt"),
             F("not forbidden", "ipForbidden", "afterSetp8"),
             F("below 93%", "ipBwOverflow", "afterSetp9"),
             F("not private", "IsPrivateIP", "afterSetp10"),
             F("not nat1", "nat1", "afterSetp11"),
             F("not ban", "IsBanTransProv", "afterSetp12"),
             F("not v6", "IsIPv6", "afterSetp13")>>]

(* The status that LowBw asks for is "Normal"; all statuses are lower case.*)
LowBw == [
    node |-> <<F("dynamic", "", ""), C("nat1", "nat1Cnt"), C("any", "notNormalCnt"),
               F("serving", "notServingCnt", ""), F("has ip", "", ""),
               F("ability", "", ""), F("service", "", ""),
               C("dedicated", "dedicatedCnt"), C("aggregation", "aggregationCnt")>>,
    ip |-> <<C("any", "servingCnt"), F("not private", "", ""),
             C("dedicated", "dedicatedIpCnt"), C("aggregation", "aggregationIpCnt"),
             C("more 32", "more32IpCnt"), C("nat1", "nat1IpCnt"),
             C("more 20", "more20IpCnt"), C("any", "ipCnt")>>]

LowBw2 == [
    node |-> <<F("dynamic", "", ""), F("usable", "CheckNodeUsable", "step1"),
               F("reachable", "checkDynamicNodesPort", "step2"),
               F("can schedule", "checkCanScheduleOfTimeLimit", "step3")>>,
    ip |-> <<C("any", "step4"), F("not forbidden", "Forbidden", ""),
             F("fits", "bwOverflow", "step5")>>]

Load == [
    node |-> <<F("serving", "", ""), F("usable", "", ""), F("ports", "", "")>>,
    ip |-> <<F("not private", "", ""), F("probed", "", ""), F("speed", "", ""),
             C("93% or more", "cnt"), C("any", "total")>>]

DumpNodes2 == [
    node |-> <<F("dynamic", "", "dynamic"), F("not ban", "", ""),
               F("has v6", "", "can leave"), F("serving", "notServingIds", "serving"),
               F("ability", "", "abilities ok"), F("service", "", "services ok")>>,
    ip |-> <<>>]

(* Bandwidths are added up where here their ips are counted.               *)
CalcTotalBw == [
    node |-> <<F("dynamic", "", "totalDynNodeCnt"),
               F("usable", "nodeUnavailableCnt", ""),
               F("reachable", "nodeNoPortsCnt", "availableDynNodeCnt"),
               F("can schedule", "timeLimitNodeCnt",
                 "availableDynNodeAfterTimeLimitCnt"),
               C("ban", "banTransProvNodeCnt")>>,
    ip |-> <<F("not private", "privateIpCnt", "rawTotal"),
             F("not v6", "ipV6Cnt", "rawTotalAferIpv6"),
             F("probed", "netProbeStateErrIpCnt", "rawTotalAferProbeState"),
             F("speed 8", "netProbeSpeedErrIpCnt", "availableIpCnt"),
             C("special", "specialNodes")>>]

(* What nodeMonitor makes of a node's ips (checkIp turns away the first    *)
(* two, and an ip without an address): a node has an available ip if one   *)
(* passes, and the others are listed; and the counts of DynIpMonitor.      *)
BuildNodeInfo == [
    node |-> <<F("dynamic", "", "")>>,
    ip |-> <<F("not private", "", ""), F("not v6", "", ""), F("probed", "errIps", ""),
             F("speed", "errIps", ""), F("below 80%", "errIps", ""),
             F("not forbidden", "errIps", "availabeIpCnt")>>]

FillIpStatus == [
    node |-> <<F("dynamic", "", "")>>,
    ip |-> <<F("not private", "", ""), F("not v6", "", ""), F("serving", "Offline", ""),
             F("not ban", "BanProv", ""), F("ports", "noPorts", ""),
             F("not forbidden", "IpForbidden", ""), F("probed", "StreamProbeStateFail", ""),
             F("speed", "StreamProbeSpeedFail", ""), F("below 80%", "BwLimit", "")>>]

(* The functions by their names, as Staging, the command table and the     *)
(* node monitor call them.                                                 *)
Table == [DumpNodes |-> DumpNodes, LowBw |-> LowBw, LowBw2 |-> LowBw2, Load |-> Load,
          dumpNodes2 |-> DumpNodes2, CalcTotalBw |-> CalcTotalBw,
          buildNodeInfo |-> BuildNodeInfo, fillIpStatus |-> FillIpStatus]

-----------------------------------------------------------------------------
Away(tests, facts) ==
    {k \in DOMAIN tests : tests[k].stop /\ tests[k].test \notin facts}
Passes(tests, facts) == Away(tests, facts) = {}

(* The counters that a pass through the tests increments.                  *)
Counted(tests, facts) ==
    LET away == Away(tests, facts)
        last == IF away = {} THEN Len(tests) ELSE Min(away)
    IN  {tests[k].yes : k \in {k \in 1..last : tests[k].test \in facts}}
        \cup (IF away = {} THEN {} ELSE {tests[last].no})

Counters(r) == LET all(tests) == {tests[k].yes : k \in DOMAIN tests}
                                 \cup {tests[k].no : k \in DOMAIN tests}
               IN  (all(Table[r].node) \cup all(Table[r].ip)) \ {""}

(* The ips of n whose pass increments counter c of r.                      *)
IpsAt(r, n, c) ==
    IF Passes(Table[r].node, Facts(n, {}))
    THEN {k \in DOMAIN n.ips : c \in Counted(Table[r].ip, Facts(n, n.ips[k]))}
    ELSE {}

Init ==
    /\ args \in Inputs
    /\ world = <<>>
    /\ \/ \E r \in DOMAIN Table :
           /\ pc = "report"
           /\ mem = [report |-> r, at |-> 0, counts |-> [c \in Counters(r) |-> 0],
                     busy |-> {}, sample |-> <<>>]
       \/ /\ pc = "sample"
          /\ mem = [report |-> "GenNodes", at |-> 0, counts |-> <<>>,
                    busy |-> {}, sample |-> <<>>]

AtEnd == mem.at = Len(args)

(* The maps of the nodes have no order; here it is that of args.           *)
CountNode ==
    /\ pc = "report" /\ ~AtEnd
    /\ LET n == args[mem.at + 1]
           node == Counted(Table[mem.report].node, Facts(n, {}))
           one(c) == IF c \in node THEN 1 ELSE 0
       IN  mem' = [mem EXCEPT
             !.at = @ + 1,
             !.counts = [c \in DOMAIN @ |->
                            @[c] + one(c) + Cardinality(IpsAt(mem.report, n, c))],
             !.busy = IF mem.report = "Load" /\ IpsAt("Load", n, "cnt") # {}
                      THEN @ \cup {mem.at + 1} ELSE @]
    /\ UNCHANGED <<pc, args, world>>

Printed == pc = "report" /\ AtEnd /\ pc' = "printed" /\ UNCHANGED <<args, world, mem>>

-----------------------------------------------------------------------------
Sampled(n) ==
    /\ {"dynamic", "serving", "normal", "ports"} \subseteq n.ok
    /\ {"nat1", "schedules"} \cap n.ok = {}
    /\ n.place # NoPlace

Of(place) == IF place \in DOMAIN mem.sample THEN mem.sample[place] ELSE {}

(* Mutant of SampleNode: one node too many of a place.                     *)
SampleNodeMore ==
    /\ pc = "sample" /\ ~AtEnd
    /\ LET n == args[mem.at + 1]
           keep == Sampled(n) /\ Cardinality(Of(n.place)) <= PerPlace
       IN  mem' = [mem EXCEPT !.at = @ + 1,
             !.sample = IF ~keep THEN @
                        ELSE [p \in DOMAIN @ \cup {n.place} |->
                                 Of(p) \cup (IF p = n.place THEN {mem.at + 1} ELSE {})]]
    /\ UNCHANGED <<pc, args, world>>

SampleNode ==
    /\ pc = "sample" /\ ~AtEnd
    /\ LET n == args[mem.at + 1]
           keep == Sampled(n) /\ Cardinality(Of(n.place)) < PerPlace
       IN  mem' = [mem EXCEPT !.at = @ + 1,
             !.sample = IF ~keep THEN @
                        ELSE [p \in DOMAIN @ \cup {n.place} |->
                                 Of(p) \cup (IF p = n.place THEN {mem.at + 1} ELSE {})]]
    /\ UNCHANGED <<pc, args, world>>

(* One in Every of the places, in whatever order, and without the first of *)
(* those in another order.                                                 *)
WriteSample ==
    /\ pc = "sample" /\ AtEnd
    /\ LET places == DOMAIN mem.sample \ {Excluded}
           thinned == (Cardinality(places) + Every - 1) \div Every
           left == IF thinned > Dropped THEN thinned - Dropped ELSE 0
       IN  \E kept \in kSubset(left, places) :
               world' = [p \in kept |-> mem.sample[p]]
    /\ pc' = "written" /\ UNCHANGED <<args, mem>>

Next == CountNode \/ Printed \/ SampleNode \/ WriteSample

Spec == Init /\ [][Next]_vars

-----------------------------------------------------------------------------
(* The numbers of two reports on the same nodes can be compared: every ip  *)
(* that DumpNodes lets through its bandwidth test is among the serving ips *)
(* of LowBw2, every ip of LowBw is dedicated or aggregation or neither and *)
(* large ones are among the middle ones, Load has no more busy nodes than  *)
(* busy ips, and no more of those than ips, the ips of CalcTotalBw are     *)
(* those that LowBw2 counts before it looks at them, and what nodeMonitor  *)
(* counts as bad of nodes that are good are the ips its records call bad.  *)
ReportsCompare ==
    pc = "printed" =>
        LET c == mem.counts
            among(S, r, k) == FoldFunctionOnSet(+, 0,
                [n \in DOMAIN args |-> Cardinality(IpsAt(r, args[n], k))], S)
            of(r, k) == among(DOMAIN args, r, k)
            good == {n \in DOMAIN args : {"serving", "ports"} \subseteq args[n].ok
                                        /\ "ban" \notin args[n].ok}
        IN  CASE mem.report = "LowBw2" ->
                     c["step5"] >= of("DumpNodes", "afterSetp9")
              [] mem.report = "LowBw" ->
                     /\ c["dedicatedIpCnt"] + c["aggregationIpCnt"] <= c["ipCnt"]
                     /\ c["more32IpCnt"] <= c["more20IpCnt"]
              [] mem.report = "Load" ->
                     Cardinality(mem.busy) <= c["cnt"] /\ c["cnt"] <= c["total"]
              [] mem.report = "CalcTotalBw" ->
                     c["availableIpCnt"] + c["ipV6Cnt"] + c["netProbeStateErrIpCnt"]
                         + c["netProbeSpeedErrIpCnt"] + c["privateIpCnt"]
                     = of("LowBw2", "step4")
              [] mem.report = "fillIpStatus" ->
                     c["IpForbidden"] + c["StreamProbeStateFail"]
                         + c["StreamProbeSpeedFail"] + c["BwLimit"]
                     = among(good, "buildNodeInfo", "errIps")
              [] OTHER -> TRUE

(* What GenNodes writes are nodes that could serve, at most PerPlace of a  *)
(* place, none of the excluded one; and nothing at all unless the nodes    *)
(* are in more than Every times Dropped places.                            *)
SampleSound ==
    pc = "written" =>
        /\ \A p \in DOMAIN world :
              /\ p # Excluded /\ Cardinality(world[p]) \in 1..PerPlace
              /\ \A k \in world[p] : Sampled(args[k]) /\ args[k].place = p
        /\ world # <<>> =>
              Cardinality({args[k].place : k \in DOMAIN args} \ {NoPlace, Excluded})
                  > Every * Dropped
=============================================================================
