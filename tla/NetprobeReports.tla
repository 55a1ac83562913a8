--------------------------- MODULE NetprobeReports --------------------------
(***************************************************************************)
(* Stream reports in mock-netprobe-srv: net/http runs StreamReport in a    *)
(* goroutine per request, Run walks streamReportMap every 10 seconds and   *)
(* writes one redis key per node, and nothing locks the maps.  They are    *)
(* bucket -> stream -> node -> ips; the innermost one (ip -> online        *)
(* number) is never changed after it was stored, so a node's entry is the  *)
(* request that reported it.  The map of a bucket and the map of a stream  *)
(* are named after the request that made them.                             *)
(***************************************************************************)
EXTENDS Naturals, FiniteSets

CONSTANTS
    Nodes, Buckets, Names,
    Requests,       \* the /streamreport requests of a run
    MaxFailures     \* bound: redis writes that fail

ASSUME FailuresAssumption == MaxFailures \in Nat

None == "none"
ASSUME NoneAssumption == None \notin Requests

Streams == Buckets \X Names
BucketOf(s) == s[1]

VARIABLES
    req,       \* control point of each request's handler
    stream,    \* its bucket and stream
    body,      \* the nodes in its body
    bad,       \* its body is not the expected JSON
    left,      \* the nodes it has still to store
    top,       \* streamReportMap: the map of each bucket
    inner,     \* the maps of the buckets: the map of each of their streams
    heap,      \* the maps of the streams: node -> entry
    loop,      \* control point of Run
    buckets,   \* the buckets its pass has still to visit
    bmap,      \* the bucket's map it ranges over
    todo,      \* the streams of that map it has still to visit
    at,        \* the stream it visits
    map,       \* the map of that stream it ranges over
    due,       \* the nodes of that map it has still to visit
    node, val, \* the entry it is about to write
    redis,     \* stream_report_<node>: <<stream, request>>, or <<>>
    failures,  \* failed redis writes so far
    shared,    \* streams with a map that two handlers may both have made
    crashed    \* the runtime killed the process

reqVars == <<req, stream, body, bad, left>>
maps == <<top, inner, heap>>
loopVars == <<loop, buckets, bmap, todo, at, map, due, node, val, redis, failures>>
vars == <<reqVars, maps, loopVars, shared, crashed>>

Init ==
    /\ req = [r \in Requests |-> "idle"]
    /\ stream = [r \in Requests |-> <<>>]
    /\ body = [r \in Requests |-> {}]
    /\ bad = [r \in Requests |-> FALSE]
    /\ left = [r \in Requests |-> {}]
    /\ top = [b \in Buckets |-> None]
    /\ inner = [r \in Requests |-> [s \in Streams |-> None]]
    /\ heap = [r \in Requests |-> [n \in Nodes |-> None]]
    /\ loop = "tick"
    /\ buckets = {} /\ bmap = None
    /\ todo = {} /\ at = <<>> /\ map = None
    /\ due = {} /\ node = None /\ val = None
    /\ redis = [n \in Nodes |-> <<>>]
    /\ failures = 0
    /\ shared = {}
    /\ crashed = FALSE

-----------------------------------------------------------------------------
Busy == {"bucket", "makeBucket", "stream", "makeStream", "parse", "store"}

(* The other requests that are being handled for bucket b, for stream s.   *)
InBucket(r, b) ==
    {q \in Requests \ {r} : req[q] \in Busy /\ BucketOf(stream[q]) = b}
OnStream(r, s) == {q \in Requests \ {r} : req[q] \in Busy /\ stream[q] = s}

(* What streamReportMap[bucket][stream] and ...[node] give: reading a map  *)
(* that is not there gives the zero value.                                 *)
MapOfStream(s) ==
    IF top[BucketOf(s)] = None THEN None ELSE inner[top[BucketOf(s)]][s]
Entry(s, n) == IF MapOfStream(s) = None THEN None ELSE heap[MapOfStream(s)][n]

Goto(r, l) == req' = [req EXCEPT ![r] = l]

(* The streams a request for s shares with another handler, when it comes  *)
(* while the map of the bucket, or of the stream, is still to be made.     *)
SharedBy(r, s) ==
    {t \in Streams : /\ BucketOf(t) = BucketOf(s)
                     /\ top[BucketOf(s)] = None
                     /\ InBucket(r, BucketOf(s)) # {}}
    \cup {t \in {s} : MapOfStream(s) = None /\ OnStream(r, s) # {}}

(* net/http starts a handler; commonHandler reads the parameters.          *)
Arrive(r) ==
    /\ ~crashed
    /\ req[r] = "idle"
    /\ Goto(r, "bucket")
    /\ \E s \in Streams, ns \in SUBSET Nodes, b \in BOOLEAN :
           /\ b => ns = Nodes   \* which nodes a bad body names makes no difference
           /\ stream' = [stream EXCEPT ![r] = s]
           /\ body' = [body EXCEPT ![r] = ns]
           /\ left' = [left EXCEPT ![r] = ns]
           /\ bad' = [bad EXCEPT ![r] = b]
           /\ shared' = shared \cup SharedBy(r, s)
    /\ UNCHANGED <<maps, loopVars, crashed>>

(* Mutant of CheckBucket: the map of the bucket is made anew every time.   *)
CheckNoBucket(r) ==
    /\ ~crashed
    /\ req[r] = "bucket"
    /\ Goto(r, "makeBucket")
    /\ UNCHANGED <<stream, body, bad, left, maps, loopVars, shared, crashed>>

(* StreamReport: is there a map for the bucket?                            *)
CheckBucket(r) ==
    /\ ~crashed
    /\ req[r] = "bucket"
    /\ Goto(r, IF top[BucketOf(stream[r])] = None THEN "makeBucket" ELSE "stream")
    /\ UNCHANGED <<stream, body, bad, left, maps, loopVars, shared, crashed>>

(* StreamReport: make one, in place of whatever is there by now, with the  *)
(* maps of all its streams.                                                *)
MakeBucket(r) ==
    /\ ~crashed
    /\ req[r] = "makeBucket"
    /\ Goto(r, "stream")
    /\ top' = [top EXCEPT ![BucketOf(stream[r])] = r]
    /\ UNCHANGED <<stream, body, bad, left, inner, heap, loopVars, shared, crashed>>

(* StreamReport: is there a map for the stream?                            *)
CheckStream(r) ==
    /\ ~crashed
    /\ req[r] = "stream"
    /\ Goto(r, IF MapOfStream(stream[r]) = None THEN "makeStream" ELSE "parse")
    /\ UNCHANGED <<stream, body, bad, left, maps, loopVars, shared, crashed>>

(* StreamReport: make one, in the map the bucket has by now.               *)
MakeStream(r) ==
    /\ ~crashed
    /\ req[r] = "makeStream"
    /\ Goto(r, "parse")
    /\ inner' = [inner EXCEPT ![top[BucketOf(stream[r])]][stream[r]] = r]
    /\ UNCHANGED <<stream, body, bad, left, top, heap, loopVars, shared, crashed>>

(* Mutant of Parse: an error does not end the handler.                     *)
ParseIgnoresError(r) ==
    /\ ~crashed
    /\ req[r] = "parse"
    /\ Goto(r, IF body[r] = {} THEN "success" ELSE "store")
    /\ UNCHANGED <<stream, body, bad, left, maps, loopVars, shared, crashed>>

(* StreamReport: json.Unmarshal; an error is the reply.                    *)
Parse(r) ==
    /\ ~crashed
    /\ req[r] = "parse"
    /\ Goto(r, CASE bad[r] -> "error"
                 [] ~bad[r] /\ body[r] = {} -> "success"
                 [] OTHER -> "store")
    /\ UNCHANGED <<stream, body, bad, left, maps, loopVars, shared, crashed>>

(* StreamReport: store the entry of the next node of the body, in any      *)
(* order; reply "success" after the last.                                  *)
Store(r, n) ==
    /\ ~crashed
    /\ req[r] = "store"
    /\ n \in left[r]
    /\ MapOfStream(stream[r]) # None
    /\ left' = [left EXCEPT ![r] = @ \ {n}]
    /\ heap' = [heap EXCEPT ![MapOfStream(stream[r])][n] = r]
    /\ Goto(r, IF left[r] = {n} THEN "success" ELSE "store")
    /\ UNCHANGED <<stream, body, bad, top, inner, loopVars, shared, crashed>>

(* StreamReport: another handler made the bucket anew and the stream has   *)
(* no map any more: "assignment to entry in nil map".  net/http recovers   *)
(* the panic; the request gets no reply.                                   *)
StorePanics(r) ==
    /\ ~crashed
    /\ req[r] = "store"
    /\ MapOfStream(stream[r]) = None
    /\ Goto(r, "panicked")
    /\ UNCHANGED <<stream, body, bad, left, maps, loopVars, shared, crashed>>

-----------------------------------------------------------------------------
(* Run: a tick; the pass ranges over the buckets there are.  (An entry     *)
(* added to a map while it is ranged over may be skipped.)                 *)
Tick ==
    /\ ~crashed
    /\ loop = "tick"
    /\ loop' = "buckets"
    /\ buckets' = {b \in Buckets : top[b] # None}
    /\ UNCHANGED <<reqVars, maps, bmap, todo, at, map, due, node, val, redis,
                   failures, shared, crashed>>

(* Run: range yields a bucket and its map.                                 *)
VisitBucket(b) ==
    /\ ~crashed
    /\ loop = "buckets"
    /\ b \in buckets
    /\ buckets' = buckets \ {b}
    /\ loop' = "streams"
    /\ bmap' = top[b]
    /\ todo' = {s \in Streams : BucketOf(s) = b /\ inner[top[b]][s] # None}
    /\ UNCHANGED <<reqVars, maps, at, map, due, node, val, redis, failures,
                   shared, crashed>>

(* Run: range yields a stream and its map.                                 *)
VisitStream(s) ==
    /\ ~crashed
    /\ loop = "streams"
    /\ s \in todo
    /\ todo' = todo \ {s}
    /\ loop' = "nodes"
    /\ at' = s
    /\ map' = inner[bmap][s]
    /\ due' = {n \in Nodes : heap[inner[bmap][s]][n] # None}
    /\ UNCHANGED <<reqVars, maps, buckets, bmap, node, val, redis, failures,
                   shared, crashed>>

(* Run: range yields a node and its entry.                                 *)
VisitNode(n) ==
    /\ ~crashed
    /\ loop = "nodes"
    /\ n \in due
    /\ due' = due \ {n}
    /\ loop' = "set"
    /\ node' = n
    /\ val' = heap[map][n]
    /\ UNCHANGED <<reqVars, maps, buckets, bmap, todo, at, map, redis, failures,
                   shared, crashed>>

(* Run: Set "stream_report_"+nodeId to this ONE stream of the node.        *)
Publish ==
    /\ ~crashed
    /\ loop = "set"
    /\ redis' = [redis EXCEPT ![node] = <<at, val>>]
    /\ loop' = "nodes"
    /\ node' = None /\ val' = None
    /\ UNCHANGED <<reqVars, maps, buckets, bmap, todo, at, map, due, failures,
                   shared, crashed>>

(* Mutant of PublishFails: Run returns on the error.                       *)
PublishFailsStops ==
    /\ ~crashed
    /\ loop = "set"
    /\ failures < MaxFailures
    /\ failures' = failures + 1
    /\ loop' = "stopped"
    /\ UNCHANGED <<reqVars, maps, buckets, bmap, todo, at, map, due, node, val,
                   redis, shared, crashed>>

(* Run: redis returns an error; it is logged.                              *)
PublishFails ==
    /\ ~crashed
    /\ loop = "set"
    /\ failures < MaxFailures
    /\ failures' = failures + 1
    /\ loop' = "nodes"
    /\ node' = None /\ val' = None
    /\ UNCHANGED <<reqVars, maps, buckets, bmap, todo, at, map, due, redis,
                   shared, crashed>>

(* Run: the ranges end.                                                    *)
EndStream ==
    /\ ~crashed
    /\ loop = "nodes" /\ due = {}
    /\ loop' = "streams"
    /\ at' = <<>> /\ map' = None
    /\ UNCHANGED <<reqVars, maps, buckets, bmap, todo, due, node, val, redis,
                   failures, shared, crashed>>

EndBucket ==
    /\ ~crashed
    /\ loop = "streams" /\ todo = {}
    /\ loop' = "buckets"
    /\ bmap' = None
    /\ UNCHANGED <<reqVars, maps, buckets, todo, at, map, due, node, val, redis,
                   failures, shared, crashed>>

EndPass ==
    /\ ~crashed
    /\ loop = "buckets" /\ buckets = {}
    /\ loop' = "tick"
    /\ UNCHANGED <<reqVars, maps, buckets, bmap, todo, at, map, due, node, val,
                   redis, failures, shared, crashed>>

-----------------------------------------------------------------------------
(* Request r is about to write a map that Run ranges over or that another  *)
(* handler reads or writes.                                                *)
Races(r) ==
    LET inMaps == Busy \ {"parse"}
    IN  \/ /\ req[r] = "makeBucket"
           /\ \/ loop # "tick"
              \/ \E q \in Requests \ {r} : req[q] \in inMaps
        \/ /\ req[r] = "makeStream"
           /\ \/ loop \in {"streams", "nodes", "set"} /\ bmap = top[BucketOf(stream[r])]
              \/ \E q \in InBucket(r, BucketOf(stream[r])) :
                     req[q] \in {"stream", "makeStream", "store"}
        \/ /\ req[r] = "store"
           /\ \/ loop \in {"nodes", "set"} /\ map = MapOfStream(stream[r])
              \/ \E q \in OnStream(r, stream[r]) : req[q] = "store"

(* When the two accesses overlap, the runtime may notice it: "fatal error: *)
(* concurrent map iteration and map write" (or "map writes").              *)
Fatal ==
    /\ ~crashed
    /\ \E r \in Requests : Races(r)
    /\ crashed' = TRUE
    /\ UNCHANGED <<reqVars, maps, loopVars, shared>>

Handler(r) ==
    \/ CheckBucket(r) \/ MakeBucket(r) \/ CheckStream(r) \/ MakeStream(r)
    \/ Parse(r) \/ StorePanics(r)
    \/ \E n \in Nodes : Store(r, n)

Run ==
    \/ Tick \/ EndStream \/ EndBucket \/ EndPass \/ Publish \/ PublishFails
    \/ \E b \in Buckets : VisitBucket(b)
    \/ \E s \in Streams : VisitStream(s)
    \/ \E n \in Nodes : VisitNode(n)

Next ==
    \/ \E r \in Requests : Arrive(r) \/ Handler(r)
    \/ Run
    \/ Fatal

Spec == Init /\ [][Next]_vars

(* The ticker keeps ticking and started handlers go on; requests need not  *)
(* arrive.                                                                 *)
FairSpec == Spec /\ WF_vars(Run) /\ \A r \in Requests : WF_vars(Handler(r))

-----------------------------------------------------------------------------
(* What redis says of a node was reported by one well-formed request: the  *)
(* stream, the node and the online numbers of a record belong together,    *)
(* although Run reads the maps while handlers write them.                  *)
NoMixedReport ==
    \A n \in Nodes : redis[n] # <<>> =>
        LET r == redis[n][2]
        IN  redis[n][1] = stream[r] /\ n \in body[r] /\ ~bad[r]

(* A report that was answered "success" stays in the maps (until a later   *)
(* one replaces it), unless a second handler came while the map of its     *)
(* bucket or of its stream was still missing: then both may make that map, *)
(* and the one that is dropped takes acknowledged reports with it, those   *)
(* of OTHER streams of the bucket included.                                *)
AcknowledgedKept ==
    \A r \in Requests : req[r] = "success" /\ stream[r] \notin shared =>
        \A n \in body[r] : Entry(stream[r], n) # None

(* When no more requests come, redis ends up with a current entry of every *)
(* reported node, whatever was stale or failed in between.  A node with    *)
(* entries in two streams shows one of them only: they share its key.      *)
CurrentPublished ==
    <>[](crashed \/
         \A n \in Nodes :
            (\E s \in Streams : Entry(s, n) # None) =>
                \E s \in Streams :
                    Entry(s, n) # None /\ redis[n] = <<s, Entry(s, n)>>)
=============================================================================
