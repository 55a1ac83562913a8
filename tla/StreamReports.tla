---------------------------- MODULE StreamReports ---------------------------
(***************************************************************************)
(* miku-tools streams, stream and hlschk: what the nodes report of their   *)
(* streams, added up by stream, isp and area (dumpStreams and              *)
(* BuildBucketStreamsInfo), the nodes that fetch a stream from its source  *)
(* (dumpStream), and the mean of the hls bytes of the last polls (HlsChk). *)
(***************************************************************************)
EXTENDS Naturals, Sequences, SequencesExt, FiniteSetsExt

CONSTANTS
    Inputs,     \* sequences of nodes: [ok: the tests passed, place: isp and
                \*  area or NoPlace, streams: sequence of [key, mine, online,
                \*  relay, source, pusher: when it started, or 0, hls]]
    Keys,       \* the streams
    NoPlace,
    Window,     \* 20 polls
    MaxPolls    \* bound

VARIABLES pc, args,
    world,   \* the csv files, or what was last printed
    mem      \* roots: AllRootNodesMapByNodeId; at: node that is visited;
             \* detail; sched: the sched infos; history: totals of the polls
             \* in the window; polled: (history) all totals; max

vars == <<pc, args, world, mem>>

Types == {"root", "edge", "offline", "static"}
NewDetail == [online |-> 0, relay |-> 0, origin |-> [t \in Types |-> 0]]

Init ==
    /\ pc \in {"roots", "bucket", "stream", "hls"}
    /\ args \in Inputs
    /\ world = <<>>
    /\ mem = [roots |-> {}, at |-> 1, detail |-> <<>>, sched |-> <<>>,
              history |-> <<>>, polled |-> <<>>, max |-> 0]

Node == args[mem.at]
Nodes == DOMAIN args
AtEnd == mem.at > Len(args)

(* buildRootNodesMap: the map it fills is its own, and mem.roots is empty. *)
BuildRootNodesMap == pc = "roots" /\ pc' = "streams" /\ UNCHANGED <<args, world, mem>>

RootsFail == pc = "roots" /\ pc' = "dead" /\ UNCHANGED <<args, world, mem>>

-----------------------------------------------------------------------------
(* getNodeType.                                                            *)
NodeType(n) ==
    CASE "dynamic" \notin args[n].ok -> "static"
      [] "dynamic" \in args[n].ok /\ "serving" \notin args[n].ok -> "offline"
      [] OTHER -> IF n \in mem.roots THEN "root" ELSE "edge"

(* One entry of a node's report is added to the detail of its place; what  *)
(* it fetches only if it comes from the source (RelayType 2).              *)
AddEntry(detail, n, s, typed) ==
    LET key == <<s.key, args[n].place>>
        old == IF key \in DOMAIN detail THEN detail[key] ELSE NewDetail
        new == [old EXCEPT
                 !.online = @ + s.online,
                 !.relay = @ + IF s.source THEN s.relay ELSE 0,
                 !.origin[NodeType(n)] = @ + IF s.source /\ typed THEN 1 ELSE 0]
    IN  [k \in DOMAIN detail \cup {key} |-> IF k = key THEN new ELSE detail[k]]

(* Mutant of AddNode: an entry that comes from no source ends the report.  *)
AddNodeBreaks(n, typed) ==
    LET streams == args[n].streams
        relayed == {i \in DOMAIN streams : streams[i].mine /\ ~streams[i].source}
    IN  FoldLeft(LAMBDA d, s : IF s.mine THEN AddEntry(d, n, s, typed) ELSE d, mem.detail,
                 IF relayed = {} THEN streams ELSE SubSeq(streams, 1, Min(relayed)))

AddNode(n, typed) ==
    FoldLeft(LAMBDA d, s : IF s.mine THEN AddEntry(d, n, s, typed) ELSE d,
             mem.detail, args[n].streams)

(* dumpStreams: a report, not too old, of a node whose place is known.     *)
Shown(n) == {"report", "fresh", "not nat1"} \subseteq args[n].ok
            /\ args[n].place # NoPlace

DumpStreams ==
    /\ pc = "streams" /\ ~AtEnd
    /\ mem' = [mem EXCEPT !.at = @ + 1,
                 !.detail = IF Shown(mem.at) THEN AddNode(mem.at, TRUE) ELSE @]
    /\ UNCHANGED <<pc, args, world>>

(* check, checkNode of BuildBucketStreamsInfo.                             *)
Checked(n) == {"report", "fresh", "dynamic", "serving", "usable", "ports"}
                  \subseteq args[n].ok /\ args[n].place # NoPlace

BuildBucketStreamsInfo ==
    /\ pc = "bucket" /\ ~AtEnd
    /\ mem' = [mem EXCEPT !.at = @ + 1,
                 !.detail = IF Checked(mem.at) THEN AddNode(mem.at, FALSE) ELSE @]
    /\ UNCHANGED <<pc, args, world>>

BucketDone ==
    pc = "bucket" /\ AtEnd /\ pc' = "counted" /\ UNCHANGED <<args, world, mem>>

(* dumpCsv: the rows of the areas, of the isps, and of the streams.        *)
Places(key) == {k[2] : k \in {k \in DOMAIN mem.detail : k[1] = key}}
Sum(field(_), key, places) ==
    FoldFunctionOnSet(+, 0, [p \in places |-> field(mem.detail[<<key, p>>])], places)
Leaf(d) == d.origin["edge"]
Root(d) == d.origin["root"]
Online(d) == d.online
Static(d) == d.origin["static"]

DumpCsv ==
    /\ pc = "streams" /\ AtEnd
    /\ world' = [key \in {k[1] : k \in DOMAIN mem.detail} |->
          [area |-> {[place |-> p, online |-> mem.detail[<<key, p>>].online,
                      leaf |-> Leaf(mem.detail[<<key, p>>]),
                      root |-> Root(mem.detail[<<key, p>>])] : p \in Places(key)},
           isp |-> {LET places == {p \in Places(key) : p[1] = i}
                    IN  [isp |-> i, online |-> Sum(Online, key, places),
                         leaf |-> Sum(Leaf, key, places),
                         root |-> Sum(Root, key, places)] : i \in {p[1] : p \in Places(key)}},
           static |-> [online |-> Sum(Online, key, Places(key)),
                       nodes |-> Sum(Static, key, Places(key))]]]
    /\ pc' = "dumped" /\ UNCHANGED <<args, mem>>

-----------------------------------------------------------------------------
Wanted == CHOOSE k \in Keys : TRUE

(* getStreamSourceNodeMap, GetStreamSchedInfos: a serving node once for    *)
(* each entry of the stream; a missing pusher is a panic.                  *)
Fetches(n) ==
    IF {"report", "serving"} \subseteq args[n].ok
    THEN SelectSeq(args[n].streams,
                   LAMBDA s : s.mine /\ s.key = Wanted /\ s.source /\ s.relay > 0)
    ELSE <<>>

(* GetStreamInfo: the first entry of that name, of whatever bucket.        *)
StreamInfo(n) == SelectSeq(args[n].streams, LAMBDA s : s.key = Wanted)[1]

SchedInfos ==
    /\ pc = "stream" /\ ~AtEnd
    /\ LET entries == Fetches(mem.at) IN
       IF entries # <<>> /\ StreamInfo(mem.at).pusher = 0
       THEN pc' = "dead" /\ UNCHANGED mem
       ELSE /\ pc' = pc
            /\ mem' = [mem EXCEPT !.at = @ + 1,
                 !.sched = @ \o [k \in DOMAIN entries |->
                     [node |-> mem.at, start |-> StreamInfo(mem.at).pusher]]]
    /\ UNCHANGED <<args, world>>

(* SaveStreamSchedInfosToCsv, SaveNodesStatusDetailToCsv: by start.        *)
SaveCsv ==
    /\ pc = "stream" /\ AtEnd
    /\ world' = SortSeq(mem.sched, LAMBDA a, b : a.start < b.start)
    /\ pc' = "saved" /\ UNCHANGED <<args, mem>>

-----------------------------------------------------------------------------
(* HlsChk: what the static nodes have sent, as far as their report is new. *)
HlsBytes(fresh) ==
    LET sent(n) == FoldLeft(LAMBDA b, s : b + s.hls, 0, args[n].streams)
    IN  FoldFunctionOnSet(+, 0, [n \in fresh |-> sent(n)], fresh)

(* Mutant of PushTotal: a full window loses its last total.                *)
PushTotalDropsLast(history, total) ==
    Append(IF Len(history) = Window THEN Front(history) ELSE history, total)

PushTotal(history, total) ==
    Append(IF Len(history) = Window THEN Tail(history) ELSE history, total)

(* A report of a node that is not in the list read before: a panic.        *)
HlsUnknownNode == pc = "hls" /\ pc' = "dead" /\ UNCHANGED <<args, world, mem>>

HlsPoll ==
    /\ pc = "hls" /\ Len(mem.polled) < MaxPolls
    /\ \E fresh \in SUBSET {n \in Nodes : "report" \in args[n].ok
                                          /\ "dynamic" \notin args[n].ok} :
           LET one(n) == Max({0} \cup {s.hls : s \in ToSet(args[n].streams)}) IN
           mem' = [mem EXCEPT !.history = PushTotal(@, HlsBytes(fresh)),
                              !.polled = Append(@, HlsBytes(fresh)),
                              !.max = Max({@} \cup {one(n) : n \in fresh})]
    /\ world' = FoldLeft(+, 0, mem'.history)
    /\ UNCHANGED <<pc, args>>

Next ==
    \/ BuildRootNodesMap \/ RootsFail \/ DumpStreams \/ DumpCsv
    \/ BuildBucketStreamsInfo \/ BucketDone
    \/ SchedInfos \/ SaveCsv \/ HlsPoll \/ HlsUnknownNode

Spec == Init /\ [][Next]_vars

-----------------------------------------------------------------------------
(* The three tables of a stream agree with each other and with the reports *)
(* of the nodes: nobody online is lost or counted twice, and every entry   *)
(* that comes from the source is of one node, in the column of its type    *)
(* (which of a serving node's two columns is not said here).               *)
OnlineAt(n, key) ==
    FoldLeft(LAMBDA o, s : o + IF s.mine /\ s.key = key THEN s.online ELSE 0,
             0, args[n].streams)
Total(f(_), S) == FoldFunctionOnSet(+, 0, [x \in S |-> f(x)], S)

TablesAgree ==
    /\ pc = "dumped" =>
          \A key \in DOMAIN world :
              LET t == world[key]
                  shown == {n \in Nodes : Shown(n)}
                  static == {n \in shown : "dynamic" \notin args[n].ok}
                  serving == {n \in shown \ static : "serving" \in args[n].ok}
                  entries(n) == Len(SelectSeq(args[n].streams,
                                    LAMBDA s : s.mine /\ s.source /\ s.key = key))
                  fetching(r) == r.leaf + r.root
              IN  /\ t.static.online = Total(LAMBDA n : OnlineAt(n, key), shown)
                  /\ t.static.online = Total(LAMBDA r : r.online, t.isp)
                  /\ t.static.nodes = Total(entries, static)
                  /\ Total(fetching, t.area) = Total(entries, serving)
                  /\ Total(fetching, t.isp) = Total(entries, serving)
    /\ pc = "counted" =>
          \A key \in Keys :
              Sum(Online, key, Places(key)) =
                  Total(LAMBDA n : OnlineAt(n, key), {n \in Nodes : Checked(n)})

(* The mean is of the totals of the last polls, Window of them at most.    *)
WindowExact ==
    pc = "hls" /\ mem.polled # <<>> =>
        LET last == SubSeq(mem.polled, Max({1, Len(mem.polled) - Window + 1}),
                           Len(mem.polled))
        IN  world = FoldLeft(+, 0, last) /\ mem.history = last
=============================================================================
