------------------------------ MODULE AreaCover -----------------------------
(***************************************************************************)
(* area-not-cover: which areas of which isp need more bandwidth for the    *)
(* users that they have.  The nodes are gone through once for each isp;    *)
(* then the users of the isp are read, and a row is written for each area  *)
(* that has any.                                                           *)
(***************************************************************************)
EXTENDS Integers, Sequences, FiniteSetsExt

CONSTANTS
    Inputs,      \* [nodes: sequence of [ok, ips], users: isp -> sequence of
                 \*  [prov, users, ok: there are three columns, a number];
                 \*  an ip is [ok, isp, prov, out, max]
    Isps,        \* their sequence
    AreaOf(_),   \* ProvinceAreaRelation, "" for what is no province
    Need(_)      \* bandwidth that the users of an isp need, in hundredths

VARIABLES pc, args, world,   \* the file that is written, or None
    mem          \* isp, at: in Isps and in nodes; away: test -> how many it
                 \* turned away; all, total: allIpCount, totalIpCount;
                 \* nodeData, ipData, bwData: by isp, by area, by province

vars == <<pc, args, world, mem>>

None == {}
NodeTests == <<"serving", "ports", "live can", "live service">>
IpTests == <<"not forbidden", "not private", "probed", "speed", "free", "dns", "v4">>
Elements(s) == {s[k] : k \in DOMAIN s}

Get(f, key) == IF key \in DOMAIN f THEN f[key] ELSE 0
Plus(f, keys, n) == [k \in DOMAIN f \cup keys |-> Get(f, k) + IF k \in keys THEN n ELSE 0]

Init ==
    /\ pc = "fetch" /\ args \in Inputs /\ world = None
    /\ mem = [isp |-> 1, at |-> 1, away |-> <<>>, all |-> 0, total |-> 0,
              nodeData |-> <<>>, ipData |-> <<>>, bwData |-> <<>>, rows |-> {}]

-----------------------------------------------------------------------------
(* getDnsRecord, getNodesData: the dns records or the nodes cannot be had; *)
(* nodes that cannot be read are none.                                     *)
Fetch ==
    /\ pc = "fetch"
    /\ pc' \in {"nodes", "users", "dead"}
    /\ UNCHANGED <<args, world, mem>>

(* check, checkNode: the first test that fails, "" if none does.  Too full *)
(* is an ip of 90%, whatever the rest.                                     *)
Passed(ip) ==
    ip.ok \cup (IF ip.out * 10 >= ip.max * 9 THEN {} ELSE {"free"})
FirstFailed(tests, ok) ==
    LET failed == {k \in DOMAIN tests : tests[k] \notin ok}
    IN  IF failed = {} THEN "" ELSE tests[Min(failed)]

Isp == Isps[mem.isp]
Node == args.nodes[mem.at]

(* The ips of a usable node that are counted for the isp.                  *)
Accepted(node, isp) ==
    {k \in DOMAIN node.ips : /\ FirstFailed(IpTests, Passed(node.ips[k])) = ""
                             /\ node.ips[k].isp = isp}

Keys(isp, prov) == {<<isp>>, <<isp, AreaOf(prov)>>, <<isp, AreaOf(prov), prov>>}

(* getNodeIpData, getBw: the free bandwidth is counted up to 85%.          *)
CountIps(node, isp, m) ==
    LET ips == Accepted(node, isp)
        count(f, key, n(_)) ==
            Get(f, key) + FoldFunctionOnSet(+, 0,
                [k \in ips |-> IF key \in Keys(isp, node.ips[k].prov)
                               THEN n(node.ips[k]) ELSE 0], ips)
        keys == UNION {Keys(isp, node.ips[k].prov) : k \in ips}
        one(ip) == 1
        free(ip) == ip.max * 85 - ip.out * 100
    IN  [m EXCEPT
          !.ipData = [k \in DOMAIN @ \cup keys |-> count(m.ipData, k, one)],
          !.bwData = [k \in DOMAIN @ \cup keys |-> count(m.bwData, k, free)],
          !.total = @ + Cardinality(ips)]

(* Mutant of NodeProvince: that of the first ip, accepted or not.          *)
NodeProvinceOfFirst(node, isp) ==
    IF node.ips = <<>> THEN "" ELSE node.ips[1].prov

(* The node is counted where its last accepted ip is.                      *)
NodeProvince(node, isp) ==
    LET ips == Accepted(node, isp) IN IF ips = {} THEN "" ELSE node.ips[Max(ips)].prov

(* calcData, for one node.                                                 *)
CalcNode ==
    /\ pc = "nodes" /\ mem.at <= Len(args.nodes)
    /\ LET failed == FirstFailed(NodeTests, Node.ok)
           tests == {FirstFailed(IpTests, Passed(Node.ips[k])) : k \in DOMAIN Node.ips} \ {""}
           away(t) == Cardinality({k \in DOMAIN Node.ips :
                          FirstFailed(IpTests, Passed(Node.ips[k])) = t})
           prov == NodeProvince(Node, Isp)
           counted == CountIps(Node, Isp, mem)
       IN  IF failed # ""
           THEN mem' = [mem EXCEPT !.at = @ + 1, !.away = Plus(@, {failed}, 1)]
           ELSE mem' = [counted EXCEPT
                  !.at = @ + 1, !.all = @ + Len(Node.ips),
                  !.away = [t \in DOMAIN @ \cup tests |-> Get(@, t) + away(t)],
                  !.nodeData = IF prov = "" THEN @ ELSE Plus(@, Keys(Isp, prov), 1)]
    /\ UNCHANGED <<pc, args, world>>

(* getProvinceName: an ip that the database does not know.                 *)
UnknownIp ==
    /\ pc = "nodes" /\ mem.at <= Len(args.nodes)
    /\ FirstFailed(NodeTests, Node.ok) = "" /\ Accepted(Node, Isp) # {}
    /\ pc' = "dead" /\ UNCHANGED <<args, world, mem>>

NextIsp(next) ==
    IF mem.isp < Len(Isps)
    THEN mem' = [mem EXCEPT !.isp = @ + 1, !.at = 1] /\ UNCHANGED pc
    ELSE mem' = [mem EXCEPT !.isp = 1, !.at = 1] /\ pc' = next

EndOfNodes ==
    /\ pc = "nodes" /\ mem.at > Len(args.nodes)
    /\ NextIsp("users") /\ UNCHANGED <<args, world>>

-----------------------------------------------------------------------------
(* parseIspUserDistribution: a province counts once, the first time.       *)
Users(isp) ==
    LET file == args.users[isp]
        taken == {k \in DOMAIN file :
                     /\ AreaOf(file[k].prov) # ""
                     /\ \A j \in 1..(k - 1) : file[j].prov # file[k].prov}
        areas == {AreaOf(file[k].prov) : k \in taken}
    IN  [a \in areas |-> FoldFunctionOnSet(+, 0,
            [k \in taken |-> IF AreaOf(file[k].prov) = a THEN file[k].users ELSE 0], taken)]

(* dumpISP: the need of an isp is divided as its ips are; with no ip at all*)
(* the share is 0/0, which is not more than anything.                      *)
NeedAdd(isp, area) ==
    LET ips == Get(mem.ipData, <<isp, area>>)
        all == Get(mem.ipData, <<isp>>)
    IN  all # 0 /\ Need(isp) * ips > Get(mem.bwData, <<isp, area>>) * all

(* calcUserPercentInArea, mergeData, dumpISP for one isp: the percentages  *)
(* are of these numbers.                                                   *)
WriteIsp ==
    /\ pc = "users" /\ mem.isp <= Len(Isps)
    /\ \A k \in DOMAIN args.users[Isp] : args.users[Isp][k].ok
    /\ LET m == [mem EXCEPT !.rows = @ \cup
               {[isp |-> Isp, area |-> a, users |-> Users(Isp)[a],
                 nodes |-> Get(mem.nodeData, <<Isp, a>>),
                 ips |-> Get(mem.ipData, <<Isp, a>>),
                 free |-> Get(mem.bwData, <<Isp, a>>),
                 need |-> NeedAdd(Isp, a)] : a \in DOMAIN Users(Isp)}]
       IN  /\ mem' = [m EXCEPT !.isp = @ + 1]
           /\ world' = IF mem.isp = Len(Isps) THEN m.rows ELSE world
           /\ pc' = IF mem.isp = Len(Isps) THEN "written" ELSE pc
    /\ UNCHANGED args

(* No file, or a line that is not as it should be.                         *)
BadUsers ==
    /\ pc = "users" /\ mem.isp <= Len(Isps)
    /\ \E k \in DOMAIN args.users[Isp] : ~args.users[Isp][k].ok
    /\ pc' = "dead" /\ UNCHANGED <<args, world, mem>>

Next == Fetch \/ CalcNode \/ UnknownIp \/ EndOfNodes \/ WriteIsp \/ BadUsers

Spec == Init /\ [][Next]_vars

-----------------------------------------------------------------------------
(* What a row says of an isp and an area: an ip is counted in one row at   *)
(* most, a node for an isp once and only where it has an accepted ip, so   *)
(* there are never more nodes than ips; more bandwidth is only asked for   *)
(* where there are ips; and if every area has users nothing is left out.   *)
Usable == {k \in DOMAIN args.nodes :
              FirstFailed(NodeTests, args.nodes[k].ok) = ""}
SumOf(f(_), S) == FoldFunctionOnSet(+, 0, [x \in S |-> f(x)], S)

RowsReconcile ==
    pc = "written" =>
        /\ \A r \in world :
              /\ r.nodes <= r.ips
              /\ r.need => r.ips > 0
              /\ r.ips > 0 =>
                    r.ips = SumOf(LAMBDA n : Cardinality(
                        {k \in Accepted(args.nodes[n], r.isp) :
                            AreaOf(args.nodes[n].ips[k].prov) = r.area}), Usable)
        /\ SumOf(LAMBDA r : r.ips, world) <= mem.total
        /\ mem.total <= SumOf(LAMBDA n : Len(args.nodes[n].ips), Usable)

(* The counts of what was turned away, and of all ips, count every node    *)
(* and ip once for each isp, the count of accepted ips once only.          *)
CountedPerIsp ==
    pc = "users" /\ mem.isp = 1 /\ mem.total > 0 =>
        LET ips == SumOf(LAMBDA n : Len(args.nodes[n].ips), Usable)
            ipsAway == SumOf(LAMBDA t : mem.away[t], DOMAIN mem.away \cap Elements(IpTests))
        IN  /\ mem.all = Len(Isps) * ips
            /\ ipsAway <= Len(Isps) * (ips - mem.total)
            /\ ipsAway % Len(Isps) = 0
=============================================================================
