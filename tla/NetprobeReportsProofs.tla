------------------------ MODULE NetprobeReportsProofs -----------------------
(***************************************************************************)
(* Proofs about NetprobeReports for any number of requests, streams, nodes *)
(* and failed writes: what the unlocked maps and redis hold.               *)
(***************************************************************************)
EXTENDS NetprobeReports, TLAPS

TypeOK ==
    /\ req \in [Requests -> {"idle", "error", "success", "panicked"} \cup Busy]
    /\ stream \in [Requests -> Streams \cup {<<>>}]
    /\ body \in [Requests -> SUBSET Nodes]
    /\ bad \in [Requests -> BOOLEAN]
    /\ left \in [Requests -> SUBSET Nodes]
    /\ top \in [Buckets -> Requests \cup {None}]
    /\ inner \in [Requests -> [Streams -> Requests \cup {None}]]
    /\ heap \in [Requests -> [Nodes -> Requests \cup {None}]]
    /\ loop \in {"tick", "buckets", "streams", "nodes", "set"}
    /\ redis \in [Nodes -> {<<>>} \cup (Streams \X Requests)]
    /\ shared \subseteq Streams

(* Request q was well formed and reported node n for stream s.             *)
Reported(q, s, n) ==
    /\ q \in Requests
    /\ stream[q] = s /\ n \in body[q] /\ ~bad[q]
    /\ req[q] \in {"store", "success", "panicked"}

(* m is a map of stream s: it is named after a request for s that arrived. *)
MapOf(m, s) == m \in Requests /\ s \in Streams /\ stream[m] = s /\ req[m] # "idle"

(* What a handler has done when it gets to a control point.                *)
HandlerOK ==
    \A r \in Requests :
        /\ req[r] # "idle" => stream[r] \in Streams
        /\ req[r] \in {"stream", "makeStream", "parse", "store", "success"} =>
               top[BucketOf(stream[r])] # None
        /\ req[r] \in Busy \ {"store"} => left[r] = body[r]
        /\ left[r] \subseteq body[r]
        /\ req[r] = "store" => ~bad[r]
        /\ req[r] = "success" => ~bad[r] /\ left[r] = {}

(* The map of a bucket leads to maps of its streams, and a map of a stream *)
(* holds reports of that stream only.                                      *)
MapsOK ==
    /\ \A m \in Requests, s \in Streams :
           inner[m][s] # None => MapOf(inner[m][s], s)
    /\ \A m \in Requests, n \in Nodes :
           heap[m][n] # None => req[m] # "idle" /\ Reported(heap[m][n], stream[m], n)

(* Run: the maps it ranges over may have been replaced since it read them, *)
(* but they still are maps of the bucket and the stream Run visits.        *)
LoopOK ==
    /\ buckets \subseteq {b \in Buckets : top[b] # None}
    /\ loop \in {"streams", "nodes", "set"} =>
           /\ bmap \in Requests
           /\ todo \subseteq {s \in Streams : inner[bmap][s] # None}
    /\ loop \in {"nodes", "set"} =>
           /\ MapOf(map, at)
           /\ due \subseteq {n \in Nodes : heap[map][n] # None}
    /\ loop = "set" => node \in Nodes /\ Reported(val, at, node)

RedisOK ==
    \A n \in Nodes : redis[n] # <<>> => Reported(redis[n][2], redis[n][1], n)

(* The inductive invariant of NoMixedReport.                               *)
MixInv == TypeOK /\ HandlerOK /\ MapsOK /\ LoopOK /\ RedisOK

(* As long as the map of the bucket of a stream that is not shared is      *)
(* missing, the bucket has one handler at a time, and the one that found   *)
(* no map is the one that makes it; likewise for the map of the stream.    *)
AloneOK ==
    \A s \in Streams \ shared, r \in Requests :
        req[r] \in Busy /\ BucketOf(stream[r]) = BucketOf(s) =>
            /\ top[BucketOf(s)] = None => InBucket(r, BucketOf(s)) = {}
            /\ req[r] = "makeBucket" => top[BucketOf(s)] = None
            /\ stream[r] = s =>
                   /\ MapOfStream(s) = None => OnStream(r, s) = {}
                   /\ req[r] = "makeStream" => MapOfStream(s) = None

StoredOK ==
    \A r \in Requests :
        req[r] \in {"parse", "store", "success"} /\ stream[r] \notin shared =>
            /\ MapOfStream(stream[r]) # None
            /\ \A n \in body[r] \ left[r] : Entry(stream[r], n) # None

(* The inductive invariant of AcknowledgedKept.                            *)
KeptInv == MixInv /\ AloneOK /\ StoredOK

LEMMA BucketOfType == \A s \in Streams : BucketOf(s) \in Buckets
BY DEF Streams, BucketOf

-----------------------------------------------------------------------------
LEMMA InitKeptInv == Init => KeptInv
<1> SUFFICES ASSUME Init PROVE KeptInv
  OBVIOUS
<1> USE DEF Init
<1>1. TypeOK
  BY DEF TypeOK
<1>2. HandlerOK /\ MapsOK /\ LoopOK /\ RedisOK
  BY DEF HandlerOK, MapsOK, LoopOK, RedisOK
<1>3. AloneOK /\ StoredOK
  BY DEF AloneOK, StoredOK, Busy
<1>4. QED
  BY <1>1, <1>2, <1>3 DEF KeptInv, MixInv

(* A request that arrived keeps its parameters, and one that has begun to  *)
(* store goes on to "success".                                             *)
LEMMA RequestsGoOn ==
    ASSUME TypeOK, [Next]_vars
    PROVE  \A r \in Requests : req[r] # "idle" =>
              /\ stream'[r] = stream[r] /\ body'[r] = body[r] /\ bad'[r] = bad[r]
              /\ req'[r] # "idle"
              /\ req[r] \in {"store", "success", "panicked"} =>
                     req'[r] \in {"store", "success", "panicked"}
<1> USE DEF TypeOK
<1>1. CASE UNCHANGED vars
  BY <1>1 DEF vars, reqVars
<1>2. ASSUME NEW q \in Requests, Arrive(q)
      PROVE  \A r \in Requests : r # q =>
                /\ stream'[r] = stream[r] /\ body'[r] = body[r] /\ bad'[r] = bad[r]
                /\ req'[r] = req[r]
  BY <1>2 DEF Arrive, Goto
<1>3. ASSUME NEW q \in Requests, Arrive(q)
      PROVE  req[q] = "idle"
  BY <1>3 DEF Arrive
<1>4. ASSUME NEW q \in Requests, Handler(q)
      PROVE  /\ UNCHANGED <<stream, body, bad>>
             /\ req[q] \in Busy
             /\ \E l \in {"error", "success", "panicked"} \cup Busy :
                   /\ req' = [req EXCEPT ![q] = l]
                   /\ req[q] = "store" => l \in {"store", "success", "panicked"}
  <2>1. CASE CheckBucket(q) \/ CheckStream(q)
    BY <2>1 DEF CheckBucket, CheckStream, Goto, Busy
  <2>2. CASE MakeBucket(q) \/ MakeStream(q) \/ StorePanics(q)
    BY <2>2 DEF MakeBucket, MakeStream, StorePanics, Goto, Busy
  <2>3. CASE Parse(q)
    <3>1. PICK l \in {"error", "success", "store"} : req' = [req EXCEPT ![q] = l]
      BY <2>3 DEF Parse, Goto
    <3>2. QED
      BY <2>3, <3>1 DEF Parse, Busy
  <2>4. ASSUME NEW n \in Nodes, Store(q, n)
        PROVE  /\ UNCHANGED <<stream, body, bad>>
               /\ req[q] = "store"
               /\ \E l \in {"store", "success"} : req' = [req EXCEPT ![q] = l]
    BY <2>4 DEF Store, Goto
  <2>5. QED
    BY <1>4, <2>1, <2>2, <2>3, <2>4 DEF Handler, Busy
<1>5. CASE Run
  BY <1>5 DEF Run, Tick, EndStream, EndBucket, EndPass, Publish, PublishFails,
              VisitBucket, VisitStream, VisitNode, reqVars
<1>6. CASE Fatal
  BY <1>6 DEF Fatal, reqVars
<1>7. QED
  BY <1>1, <1>2, <1>3, <1>4, <1>5, <1>6 DEF Next, Busy
(* So what was reported stays reported, and a map stays a map of its       *)
(* stream.                                                                 *)
LEMMA ReportsStay ==
    ASSUME TypeOK, [Next]_vars
    PROVE  /\ \A q, s, n : Reported(q, s, n) => Reported(q, s, n)'
           /\ \A m, s : MapOf(m, s) => MapOf(m, s)'
BY RequestsGoOn DEF Reported, MapOf

(* Handlers replace maps and entries and never take one away.              *)
LEMMA MapsGrow ==
    ASSUME MixInv, [Next]_vars
    PROVE  /\ \A b \in Buckets : top[b] # None => top'[b] # None
           /\ \A m \in Requests, s \in Streams : inner[m][s] # None => inner'[m][s] # None
           /\ \A m \in Requests, n \in Nodes : heap[m][n] # None => heap'[m][n] # None
<1> USE NoneAssumption DEF MixInv, TypeOK
<1>1. CASE UNCHANGED maps
  BY <1>1 DEF maps
<1>2. ASSUME NEW r \in Requests, MakeBucket(r)
      PROVE  /\ UNCHANGED <<inner, heap>>
             /\ \A b \in Buckets : top[b] # None => top'[b] # None
  BY <1>2 DEF MakeBucket
<1>3. ASSUME NEW r \in Requests, MakeStream(r)
      PROVE  /\ UNCHANGED <<top, heap>>
             /\ \A m \in Requests, s \in Streams :
                    inner[m][s] # None => inner'[m][s] # None
  BY <1>3 DEF MakeStream
<1>4. ASSUME NEW r \in Requests, NEW k \in Nodes, Store(r, k)
      PROVE  /\ UNCHANGED <<top, inner>>
             /\ \A m \in Requests, n \in Nodes :
                    heap[m][n] # None => heap'[m][n] # None
  BY <1>4 DEF Store
<1>5. CASE Run \/ Fatal \/ UNCHANGED vars
  BY <1>1, <1>5 DEF Run, Tick, EndStream, EndBucket, EndPass, Publish, PublishFails,
                    VisitBucket, VisitStream, VisitNode, Fatal, vars
<1>6. ASSUME NEW r \in Requests,
             Arrive(r) \/ CheckBucket(r) \/ CheckStream(r) \/ Parse(r) \/ StorePanics(r)
      PROVE  UNCHANGED maps
  BY <1>6 DEF Arrive, CheckBucket, CheckStream, Parse, StorePanics
<1>7. QED
  BY <1>1, <1>2, <1>3, <1>4, <1>5, <1>6 DEF Next, Handler

(* What Run holds and what redis says survive the handlers.                *)
LEMMA HandlersKeepRun ==
    ASSUME MixInv, [Next]_vars, UNCHANGED loopVars
    PROVE  LoopOK' /\ RedisOK'
<1> USE DEF MixInv, loopVars
<1>1. \A q, s, n : Reported(q, s, n) => Reported(q, s, n)'
  BY ReportsStay
<1>2. \A m, s : MapOf(m, s) => MapOf(m, s)'
  BY ReportsStay
<1>3. RedisOK'
  BY <1>1 DEF RedisOK, Reported
<1>4. /\ buckets' \subseteq {b \in Buckets : top'[b] # None}
      /\ loop' \in {"streams", "nodes", "set"} =>
            /\ bmap' \in Requests
            /\ todo' \subseteq {s \in Streams : inner'[bmap'][s] # None}
  BY MapsGrow DEF LoopOK
<1>5. ASSUME loop' \in {"nodes", "set"}
      PROVE  /\ MapOf(map, at)'
             /\ due' \subseteq {n \in Nodes : heap'[map'][n] # None}
  <2>1. MapOf(map, at)
    BY <1>5 DEF LoopOK
  <2>2. QED
    BY <1>2, <1>5, <2>1, MapsGrow DEF LoopOK, MapOf
<1>6. loop' = "set" => node' \in Nodes /\ Reported(val, at, node)'
  BY <1>1 DEF LoopOK, Reported
<1>7. QED
  BY <1>3, <1>4, <1>5, <1>6 DEF LoopOK

(* A request arrives: it is not in any map yet.                            *)
LEMMA ArriveKeeps ==
    ASSUME MixInv, NEW r \in Requests, Arrive(r)
    PROVE  TypeOK' /\ HandlerOK' /\ MapsOK'
<1> USE NoneAssumption DEF MixInv, TypeOK
<1>1. PICK s \in Streams, ns \in SUBSET Nodes, b \in BOOLEAN :
         /\ stream' = [stream EXCEPT ![r] = s]
         /\ body' = [body EXCEPT ![r] = ns]
         /\ left' = [left EXCEPT ![r] = ns]
         /\ bad' = [bad EXCEPT ![r] = b]
         /\ shared' = shared \cup SharedBy(r, s)
  BY DEF Arrive
<1>2. /\ req[r] = "idle" /\ req' = [req EXCEPT ![r] = "bucket"]
      /\ UNCHANGED <<top, inner, heap, loopVars>>
  BY DEF Arrive, Goto, maps
<1>3. TypeOK'
  <2>1. SharedBy(r, s) \subseteq Streams
    BY DEF SharedBy
  <2>2. QED
    BY <1>1, <1>2, <2>1 DEF Busy, loopVars
<1>4. HandlerOK'
  BY <1>1, <1>2 DEF HandlerOK, Busy
<1>5. \A q, t, n : Reported(q, t, n) => q # r /\ Reported(q, t, n)'
  BY <1>1, <1>2 DEF Reported
<1>6. \A m, t : MapOf(m, t) => m # r /\ MapOf(m, t)'
  BY <1>1, <1>2 DEF MapOf
<1>7. MapsOK'
  <2>1. (\A m \in Requests, t \in Streams : inner[m][t] # None => MapOf(inner[m][t], t))'
    BY <1>2, <1>6 DEF MapsOK, MapOf
  <2>2. ASSUME NEW m \in Requests, NEW n \in Nodes, heap'[m][n] # None
        PROVE  req'[m] # "idle" /\ Reported(heap[m][n], stream[m], n)'
    <3>1. req[m] # "idle" /\ Reported(heap[m][n], stream[m], n) /\ m # r
      BY <1>2, <2>2 DEF MapsOK
    <3>2. QED
      BY <1>1, <1>2, <1>5, <3>1 DEF Reported
  <2>3. QED
    BY <2>1, <2>2 DEF MapsOK
<1>8. QED
  BY <1>3, <1>4, <1>7
(* StreamReport up to the first entry it stores, or the panic.             *)
Begins(r) ==
    \/ CheckBucket(r) \/ MakeBucket(r) \/ CheckStream(r) \/ MakeStream(r)
    \/ Parse(r) \/ StorePanics(r)

LEMMA BeginStep ==
    ASSUME MixInv, NEW r \in Requests, Begins(r)
    PROVE  /\ UNCHANGED <<stream, body, bad, left, heap, loopVars, shared>>
           /\ stream[r] \in Streams /\ BucketOf(stream[r]) \in Buckets
           /\ req[r] \in Busy
           /\ top' \in {top, [top EXCEPT ![BucketOf(stream[r])] = r]}
           /\ \/ inner' = inner
              \/ /\ top[BucketOf(stream[r])] \in Requests
                 /\ inner' = [inner EXCEPT ![top[BucketOf(stream[r])]][stream[r]] = r]
           /\ \E l \in {"makeBucket", "stream", "makeStream", "parse", "store",
                         "error", "success", "panicked"} :
                  /\ req' = [req EXCEPT ![r] = l]
                  /\ l \in {"stream", "makeStream", "parse", "store", "success"} =>
                         top'[BucketOf(stream[r])] # None
                  /\ l \in Busy \ {"store"} => req[r] \in Busy \ {"store"}
                  /\ l = "success" => ~bad[r] /\ left[r] = {}
                  /\ l = "store" => ~bad[r]
                  /\ l # "panicked" => req[r] # "store"
<1> USE NoneAssumption DEF MixInv, TypeOK
<1>1. stream[r] \in Streams /\ BucketOf(stream[r]) \in Buckets /\ req[r] \in Busy
  BY BucketOfType DEF Begins, CheckBucket, MakeBucket, CheckStream, MakeStream,
     Parse, StorePanics, HandlerOK, Busy
<1>2. CASE CheckBucket(r) \/ CheckStream(r) \/ StorePanics(r)
  BY <1>1, <1>2 DEF CheckBucket, CheckStream, StorePanics, Goto, HandlerOK, maps, Busy
<1>3. CASE MakeBucket(r) \/ MakeStream(r)
  BY <1>1, <1>3 DEF MakeBucket, MakeStream, Goto, HandlerOK, Busy
<1>4. CASE Parse(r)
  BY <1>1, <1>4 DEF Parse, Goto, HandlerOK, maps, Busy
<1>5. QED
  BY <1>2, <1>3, <1>4 DEF Begins

LEMMA BeginKeeps ==
    ASSUME MixInv, NEW r \in Requests, Begins(r)
    PROVE  TypeOK' /\ HandlerOK' /\ MapsOK'
<1> USE NoneAssumption DEF MixInv, TypeOK
<1>1. [Next]_vars
  BY DEF Next, Handler, Begins
<1>2. /\ UNCHANGED <<stream, body, bad, left, heap, loopVars, shared>>
      /\ stream[r] \in Streams /\ BucketOf(stream[r]) \in Buckets
      /\ top' \in {top, [top EXCEPT ![BucketOf(stream[r])] = r]}
      /\ \/ inner' = inner
         \/ /\ top[BucketOf(stream[r])] \in Requests
            /\ inner' = [inner EXCEPT ![top[BucketOf(stream[r])]][stream[r]] = r]
  BY BeginStep
<1>3. PICK l \in {"makeBucket", "stream", "makeStream", "parse", "store",
                  "error", "success", "panicked"} :
         /\ req' = [req EXCEPT ![r] = l]
         /\ l \in {"stream", "makeStream", "parse", "store", "success"} =>
                top'[BucketOf(stream[r])] # None
         /\ l \in Busy \ {"store"} => req[r] \in Busy \ {"store"}
         /\ l = "success" => ~bad[r] /\ left[r] = {}
         /\ l = "store" => ~bad[r]
         /\ l # "panicked" => req[r] # "store"
  BY BeginStep
<1>4. TypeOK'
  <2>1. req' \in [Requests -> {"idle", "error", "success", "panicked"} \cup Busy]
    BY <1>3 DEF Busy
  <2>2. top' \in [Buckets -> Requests \cup {None}]
    BY <1>2
  <2>3. inner' \in [Requests -> [Streams -> Requests \cup {None}]]
    <3> DEFINE m0 == top[BucketOf(stream[r])]
    <3>1. CASE inner' = inner
      BY <3>1
    <3>2. CASE m0 \in Requests /\ inner' = [inner EXCEPT ![m0][stream[r]] = r]
      <4> HIDE DEF m0
      <4>1. QED
        BY <1>2, <3>2
    <3>3. QED
      BY <1>2, <3>1, <3>2
  <2>4. QED
    BY <1>2, <2>1, <2>2, <2>3 DEF loopVars
<1>5. HandlerOK'
  <2>1. \A b \in Buckets : top[b] # None => top'[b] # None
    BY <1>1, MapsGrow
  <2>2. QED
    BY <1>2, <1>3, <2>1, BucketOfType DEF HandlerOK, Busy
<1>6. MapsOK'
  <2>1. req[r] # "idle" /\ req'[r] # "idle"
    BY <1>3, BeginStep DEF Busy
  <2>2. (\A m \in Requests, s \in Streams : inner[m][s] # None => MapOf(inner[m][s], s))'
    <3>1. \A m, s : MapOf(m, s) => MapOf(m, s)'
      BY <1>1, ReportsStay
    <3>2. MapOf(r, stream[r])'
      BY <1>2, <2>1 DEF MapOf
    <3>3. CASE inner' = inner
      BY <3>1, <3>3 DEF MapsOK, MapOf
    <3>4. CASE inner' # inner
      <4> DEFINE m0 == top[BucketOf(stream[r])]
      <4>1. m0 \in Requests /\ inner' = [inner EXCEPT ![m0][stream[r]] = r]
        BY <1>2, <3>4
      <4> HIDE DEF m0
      <4> SUFFICES ASSUME NEW m \in Requests, NEW s \in Streams, inner'[m][s] # None
                   PROVE  MapOf(inner[m][s], s)'
        OBVIOUS
      <4>2. CASE m = m0 /\ s = stream[r]
        <5>1. inner'[m][s] = r
          BY <1>2, <4>1, <4>2
        <5>2. QED
          BY <1>2, <3>2, <4>2, <5>1 DEF MapOf
      <4>3. CASE m # m0 \/ s # stream[r]
        <5>1. inner'[m][s] = inner[m][s]
          BY <1>2, <4>1, <4>3
        <5>2. QED
          BY <3>1, <5>1 DEF MapsOK, MapOf
      <4>4. QED
        BY <4>2, <4>3
    <3>5. QED
      BY <3>3, <3>4
  <2>3. \A q, s, n : Reported(q, s, n) => Reported(q, s, n)'
    BY <1>1, ReportsStay
  <2>4. (\A m \in Requests, n \in Nodes :
            heap[m][n] # None => req[m] # "idle" /\ Reported(heap[m][n], stream[m], n))'
    BY <1>2, <1>3, <2>1, <2>3 DEF MapsOK, Reported
  <2>5. QED
    BY <2>2, <2>4 DEF MapsOK
<1>7. QED
  BY <1>4, <1>5, <1>6

(* StreamReport stores an entry in the map that the stream has by now.     *)
LEMMA StoreKeeps ==
    ASSUME MixInv, NEW r \in Requests, NEW k \in Nodes, Store(r, k)
    PROVE  TypeOK' /\ HandlerOK' /\ MapsOK'
<1> USE NoneAssumption DEF MixInv, TypeOK
<1> DEFINE m0 == MapOfStream(stream[r])
<1>1. /\ req[r] = "store" /\ k \in left[r]
      /\ left' = [left EXCEPT ![r] = @ \ {k}]
      /\ heap' = [heap EXCEPT ![m0][k] = r]
      /\ req' = [req EXCEPT ![r] = IF left[r] = {k} THEN "success" ELSE "store"]
      /\ UNCHANGED <<stream, body, bad, top, inner, loopVars, shared>>
  BY DEF Store, Goto
<1>2. MapOf(m0, stream[r]) /\ k \in body[r] /\ ~bad[r]
  <2>1. m0 # None /\ stream[r] \in Streams /\ BucketOf(stream[r]) \in Buckets
    BY <1>1, BucketOfType DEF Store, HandlerOK
  <2>2. QED
    BY <1>1, <2>1 DEF HandlerOK, MapsOK, MapOfStream
<1> HIDE DEF m0
<1>3. TypeOK'
  BY <1>1, <1>2 DEF Busy, loopVars, MapOf
<1>4. HandlerOK'
  BY <1>1 DEF HandlerOK, Busy
<1>5. (\A m \in Requests, s \in Streams : inner[m][s] # None => MapOf(inner[m][s], s))'
  BY <1>1 DEF MapsOK, MapOf
<1>6. ASSUME NEW m \in Requests, NEW n \in Nodes, heap'[m][n] # None
      PROVE  (req[m] # "idle" /\ Reported(heap[m][n], stream[m], n))'
  <2>1. CASE m = m0 /\ n = k
    <3>1. heap'[m][n] = r
      BY <1>1, <2>1
    <3>2. QED
      BY <1>1, <1>2, <2>1, <3>1 DEF Reported, MapOf
  <2>2. CASE m # m0 \/ n # k
    <3>1. heap'[m][n] = heap[m][n]
      BY <1>1, <2>2
    <3>2. QED
      BY <1>1, <1>6, <3>1 DEF Reported, MapsOK
  <2>3. QED
    BY <2>1, <2>2
<1>7. QED
  BY <1>3, <1>4, <1>5, <1>6 DEF MapsOK

(* Run reads the maps and never changes them.                              *)
LEMMA RunKeeps ==
    ASSUME MixInv, Run
    PROVE  MixInv'
<1> USE NoneAssumption DEF MixInv
<1>1. UNCHANGED <<reqVars, top, inner, heap, shared>>
  BY DEF Run, Tick, EndStream, EndBucket, EndPass, Publish, PublishFails,
         VisitBucket, VisitStream, VisitNode, maps
<1>2. HandlerOK' /\ MapsOK'
  BY <1>1 DEF HandlerOK, MapsOK, MapOf, Reported, reqVars
<1>3. TypeOK' /\ LoopOK' /\ RedisOK'
  <2> USE DEF TypeOK, LoopOK, RedisOK, reqVars
  <2>1. CASE Tick \/ EndStream \/ EndBucket \/ EndPass \/ PublishFails
    BY <1>1, <2>1 DEF Tick, EndStream, EndBucket, EndPass, PublishFails, MapOf, Reported
  <2>2. CASE Publish
    <3>1. /\ loop = "set" /\ loop' = "nodes"
          /\ redis' = [redis EXCEPT ![node] = <<at, val>>]
          /\ UNCHANGED <<buckets, bmap, todo, at, map, due>>
      BY <2>2 DEF Publish
    <3>2. node \in Nodes /\ Reported(val, at, node) /\ at \in Streams /\ val \in Requests
      BY <3>1 DEF MapOf, Reported
    <3>3. TypeOK'
      BY <1>1, <3>1, <3>2
    <3>4. LoopOK'
      BY <1>1, <3>1 DEF MapOf
    <3>5. ASSUME NEW n \in Nodes, redis'[n] # <<>>
          PROVE  Reported(redis[n][2], redis[n][1], n)'
      <4>1. CASE n = node
        <5>1. redis'[n] = <<at, val>>
          BY <3>1, <3>2, <4>1
        <5>2. QED
          BY <1>1, <3>2, <4>1, <5>1 DEF Reported
      <4>2. CASE n # node
        <5>1. redis'[n] = redis[n]
          BY <3>1, <3>2, <4>2
        <5>2. QED
          BY <1>1, <3>5, <5>1 DEF Reported
      <4>3. QED
        BY <4>1, <4>2
    <3>6. QED
      BY <3>3, <3>4, <3>5
  <2>3. ASSUME NEW s \in Streams, VisitStream(s)
        PROVE  TypeOK' /\ LoopOK' /\ RedisOK'
    BY <1>1, <2>3 DEF VisitStream, MapsOK, MapOf, Reported
  <2>4. ASSUME NEW n \in Nodes, VisitNode(n)
        PROVE  TypeOK' /\ LoopOK' /\ RedisOK'
    BY <1>1, <2>4 DEF VisitNode, MapsOK, MapOf, Reported
  <2>5. ASSUME NEW b \in Buckets, VisitBucket(b)
        PROVE  TypeOK' /\ LoopOK' /\ RedisOK'
    BY <1>1, <2>5 DEF VisitBucket, MapsOK, MapOf, Reported
  <2>6. QED
    BY <2>1, <2>2, <2>3, <2>4, <2>5 DEF Run
<1>4. QED
  BY <1>2, <1>3

LEMMA NextMixInv ==
    ASSUME MixInv, [Next]_vars
    PROVE  MixInv'
<1>1. CASE UNCHANGED vars \/ Fatal
  <2>1. UNCHANGED <<reqVars, maps, loopVars, shared>>
    BY <1>1 DEF vars, Fatal
  <2>2. QED
    BY <2>1 DEF MixInv, TypeOK, HandlerOK, MapsOK, LoopOK, RedisOK, MapOf,
                Reported, reqVars, maps, loopVars
<1>2. ASSUME NEW r \in Requests, Arrive(r)
      PROVE  MixInv'
  <2>1. UNCHANGED loopVars
    BY <1>2 DEF Arrive
  <2>2. QED
    BY <1>2, <2>1, ArriveKeeps, HandlersKeepRun DEF MixInv
<1>3. ASSUME NEW r \in Requests, Handler(r)
      PROVE  MixInv'
  <2>1. Begins(r) \/ \E k \in Nodes : Store(r, k)
    BY <1>3 DEF Handler, Begins
  <2>2. UNCHANGED loopVars
    BY <2>1, BeginStep DEF Store, MixInv
  <2>3. TypeOK' /\ HandlerOK' /\ MapsOK'
    BY <2>1, BeginKeeps, StoreKeeps
  <2>4. QED
    BY <1>3, <2>2, <2>3, HandlersKeepRun DEF MixInv
<1>4. QED
  BY <1>1, <1>2, <1>3, RunKeeps DEF Next
-----------------------------------------------------------------------------
(* A step that changes neither a control point nor a map keeps what is     *)
(* known of the streams that are not shared.                               *)
LEMMA IdleKeepsAlone ==
    ASSUME KeptInv, UNCHANGED <<reqVars, maps, shared>>
    PROVE  AloneOK' /\ StoredOK'
BY DEF KeptInv, AloneOK, StoredOK, InBucket, OnStream, MapOfStream, Entry,
       reqVars, maps

(* A handler makes the map of a bucket with a stream that is not shared    *)
(* only if there is none, and when no other handler is at work in it.      *)
LEMMA MakeBucketAlone ==
    ASSUME KeptInv, NEW r \in Requests, MakeBucket(r), NEW s \in Streams \ shared,
           BucketOf(stream[r]) = BucketOf(s)
    PROVE  top[BucketOf(s)] = None /\ InBucket(r, BucketOf(s)) = {}
BY DEF KeptInv, AloneOK, MakeBucket, Busy

LEMMA MakeStreamAlone ==
    ASSUME KeptInv, NEW r \in Requests, MakeStream(r), stream[r] \notin shared
    PROVE  MapOfStream(stream[r]) = None /\ OnStream(r, stream[r]) = {}
BY DEF KeptInv, MixInv, HandlerOK, AloneOK, MakeStream, Busy

(* So the map of a stream that is not shared is never replaced, ...        *)
LEMMA StreamMapStays ==
    ASSUME KeptInv, [Next]_vars, NEW s \in Streams \ shared, MapOfStream(s) # None
    PROVE  MapOfStream(s)' = MapOfStream(s)
<1> USE NoneAssumption DEF KeptInv, MixInv, TypeOK
<1>1. CASE UNCHANGED maps
  BY <1>1 DEF maps, MapOfStream
<1>2. BucketOf(s) \in Buckets /\ top[BucketOf(s)] \in Requests
  BY BucketOfType DEF MapOfStream
<1>3. ASSUME NEW r \in Requests, MakeBucket(r)
      PROVE  MapOfStream(s)' = MapOfStream(s)
  <2>1. BucketOf(stream[r]) # BucketOf(s)
    BY <1>2, <1>3, MakeBucketAlone
  <2>2. QED
    BY <1>2, <1>3, <2>1 DEF MakeBucket, MapOfStream
<1>4. ASSUME NEW r \in Requests, MakeStream(r)
      PROVE  MapOfStream(s)' = MapOfStream(s)
  <2>1. stream[r] # s
    BY <1>4, MakeStreamAlone
  <2>2. /\ top[BucketOf(stream[r])] \in Requests
        /\ inner' = [inner EXCEPT ![top[BucketOf(stream[r])]][stream[r]] = r]
        /\ top' = top
    BY <1>4, BucketOfType DEF MakeStream, HandlerOK
  <2>3. inner'[top[BucketOf(s)]][s] = inner[top[BucketOf(s)]][s]
    BY <1>2, <2>1, <2>2
  <2>4. QED
    BY <2>2, <2>3 DEF MapOfStream
<1>5. ASSUME NEW r \in Requests, NEW k \in Nodes, Store(r, k)
      PROVE  MapOfStream(s)' = MapOfStream(s)
  BY <1>5 DEF Store, MapOfStream
<1>6. CASE Run \/ Fatal \/ UNCHANGED vars
  BY <1>1, <1>6 DEF Run, Tick, EndStream, EndBucket, EndPass, Publish, PublishFails,
                    VisitBucket, VisitStream, VisitNode, Fatal, vars
<1>7. ASSUME NEW r \in Requests,
             Arrive(r) \/ CheckBucket(r) \/ CheckStream(r) \/ Parse(r) \/ StorePanics(r)
      PROVE  UNCHANGED maps
  BY <1>7 DEF Arrive, CheckBucket, CheckStream, Parse, StorePanics
<1>8. QED
  BY <1>1, <1>3, <1>4, <1>5, <1>6, <1>7 DEF Next, Handler

(* ... and its entries stay.                                               *)
LEMMA EntriesStay ==
    ASSUME KeptInv, [Next]_vars, NEW s \in Streams \ shared, NEW n \in Nodes,
           Entry(s, n) # None
    PROVE  Entry(s, n)' # None
<1>1. MapOfStream(s) # None /\ heap[MapOfStream(s)][n] # None
  BY DEF Entry
<1>2. MapOfStream(s)' = MapOfStream(s)
  BY <1>1, StreamMapStays
<1>3. MapOfStream(s) \in Requests
  BY <1>1, BucketOfType DEF MapOfStream, KeptInv, MixInv, TypeOK
<1>4. heap'[MapOfStream(s)][n] # None
  BY <1>1, <1>3, MapsGrow DEF KeptInv
<1>5. QED
  BY <1>1, <1>2, <1>4 DEF Entry

(* A request that arrives while a map is missing makes the streams of that *)
(* map shared ones.                                                        *)
LEMMA ArriveKeepsAlone ==
    ASSUME KeptInv, NEW r \in Requests, Arrive(r)
    PROVE  AloneOK' /\ StoredOK'
<1> USE DEF KeptInv, MixInv, TypeOK
<1>1. PICK t \in Streams :
         /\ stream' = [stream EXCEPT ![r] = t]
         /\ shared' = shared \cup SharedBy(r, t)
  BY DEF Arrive
<1>2. /\ req[r] = "idle" /\ req' = [req EXCEPT ![r] = "bucket"]
      /\ \A q \in Requests \ {r} : body'[q] = body[q] /\ left'[q] = left[q]
      /\ UNCHANGED <<top, inner, heap>>
  BY DEF Arrive, Goto, maps
<1>3. \A s : MapOfStream(s)' = MapOfStream(s)
  BY <1>2 DEF MapOfStream
<1>4. AloneOK'
  <2> SUFFICES ASSUME NEW s \in Streams \ shared', NEW q \in Requests, req'[q] \in Busy,
                      BucketOf(stream'[q]) = BucketOf(s)
               PROVE  /\ top[BucketOf(s)] = None => InBucket(q, BucketOf(s))' = {}
                      /\ req'[q] = "makeBucket" => top[BucketOf(s)] = None
                      /\ stream'[q] = s =>
                            /\ MapOfStream(s) = None => OnStream(q, s)' = {}
                            /\ req'[q] = "makeStream" => MapOfStream(s) = None
    BY <1>2, <1>3 DEF AloneOK
  <2>1. CASE q = r
    <3>1. \A p \in Requests \ {r} : req'[p] = req[p] /\ stream'[p] = stream[p]
      BY <1>1, <1>2
    <3>2. stream'[r] = t /\ req'[r] = "bucket"
      BY <1>1, <1>2
    <3>3. InBucket(r, BucketOf(t))' = InBucket(r, BucketOf(t))
      BY <3>1 DEF InBucket
    <3>4. OnStream(r, t)' = OnStream(r, t)
      BY <3>1 DEF OnStream
    <3>5. s \notin SharedBy(r, t)
      BY <1>1
    <3>6. top[BucketOf(s)] = None => InBucket(r, BucketOf(s)) = {}
      BY <2>1, <3>2, <3>5 DEF SharedBy
    <3>7. stream'[r] = s /\ MapOfStream(s) = None => OnStream(r, s) = {}
      BY <3>2, <3>5 DEF SharedBy
    <3>8. QED
      BY <2>1, <3>2, <3>3, <3>4, <3>6, <3>7
  <2>2. CASE q # r
    <3>1. req[q] \in Busy /\ stream'[q] = stream[q] /\ req'[q] = req[q]
      BY <1>1, <1>2, <2>2
    <3>2. s \in Streams \ shared /\ s \notin SharedBy(r, t)
      BY <1>1
    <3>3. ASSUME top[BucketOf(s)] = None
          PROVE  InBucket(q, BucketOf(s))' = {}
      <4>1. InBucket(q, BucketOf(s)) = {}
        BY <3>1, <3>2, <3>3 DEF AloneOK
      <4>2. BucketOf(t) # BucketOf(s)
        <5>1. q \in InBucket(r, BucketOf(s))
          BY <2>2, <3>1 DEF InBucket
        <5>2. QED
          BY <3>2, <3>3, <5>1 DEF SharedBy
      <4>3. QED
        BY <1>1, <1>2, <4>1, <4>2 DEF InBucket
    <3>4. ASSUME stream[q] = s, MapOfStream(s) = None
          PROVE  OnStream(q, s)' = {}
      <4>1. OnStream(q, s) = {}
        BY <3>1, <3>2, <3>4 DEF AloneOK
      <4>2. t # s
        <5>1. q \in OnStream(r, s)
          BY <2>2, <3>1, <3>4 DEF OnStream
        <5>2. QED
          BY <3>2, <3>4, <5>1 DEF SharedBy
      <4>3. QED
        BY <1>1, <1>2, <4>1, <4>2 DEF OnStream
    <3>5. QED
      BY <3>1, <3>2, <3>3, <3>4 DEF AloneOK
  <2>3. QED
    BY <2>1, <2>2
<1>5. StoredOK'
  BY <1>1, <1>2, <1>3 DEF StoredOK, Entry
<1>6. QED
  BY <1>4, <1>5

(* Going on from one control point to the next takes a handler out of the  *)
(* others' way, or leaves it in the same place.                            *)
LEMMA HandlersThin ==
    ASSUME TypeOK, NEW r \in Requests, UNCHANGED stream, req[r] \in Busy,
           \A q \in Requests \ {r} : req'[q] = req[q]
    PROVE  /\ \A q \in Requests : req'[q] \in Busy => req[q] \in Busy
           /\ \A q \in Requests : \A b : InBucket(q, b)' \subseteq InBucket(q, b)
           /\ \A q \in Requests : \A s : OnStream(q, s)' \subseteq OnStream(q, s)
<1>1. \A q \in Requests : req'[q] \in Busy => req[q] \in Busy
  OBVIOUS
<1>2. QED
  BY <1>1 DEF InBucket, OnStream

LEMMA HandlerKeepsAlone ==
    ASSUME KeptInv, NEW r \in Requests, Handler(r)
    PROVE  AloneOK'
<1> USE NoneAssumption DEF KeptInv, MixInv, TypeOK
<1>1. Begins(r) \/ \E k \in Nodes : Store(r, k)
  BY DEF Handler, Begins
<1>2. /\ UNCHANGED <<stream, shared>>
      /\ req[r] \in Busy
      /\ \A q \in Requests \ {r} : req'[q] = req[q]
  <2>1. CASE Begins(r)
    <3>1. UNCHANGED <<stream, shared>> /\ req[r] \in Busy
      BY <2>1, BeginStep
    <3>2. \E l : req' = [req EXCEPT ![r] = l]
      BY <2>1, BeginStep
    <3>3. QED
      BY <3>1, <3>2
  <2>2. ASSUME NEW k \in Nodes, Store(r, k)
        PROVE  /\ UNCHANGED <<stream, shared>>
               /\ req[r] \in Busy
               /\ \A q \in Requests \ {r} : req'[q] = req[q]
    BY <2>2 DEF Store, Goto, Busy
  <2>3. QED
    BY <1>1, <2>1, <2>2
<1>3. /\ \A q \in Requests : req'[q] \in Busy => req[q] \in Busy
      /\ \A q \in Requests : \A b : InBucket(q, b)' \subseteq InBucket(q, b)
      /\ \A q \in Requests : \A s : OnStream(q, s)' \subseteq OnStream(q, s)
  BY <1>2, HandlersThin
<1>4. [Next]_vars
  BY DEF Next
<1> SUFFICES ASSUME NEW s \in Streams \ shared, NEW q \in Requests, req'[q] \in Busy,
                    BucketOf(stream[q]) = BucketOf(s)
             PROVE  /\ top'[BucketOf(s)] = None => InBucket(q, BucketOf(s))' = {}
                    /\ req'[q] = "makeBucket" => top'[BucketOf(s)] = None
                    /\ stream[q] = s =>
                          /\ MapOfStream(s)' = None => OnStream(q, s)' = {}
                          /\ req'[q] = "makeStream" => MapOfStream(s)' = None
  BY <1>2 DEF AloneOK
<1>5. req[q] \in Busy /\ BucketOf(s) \in Buckets
  BY <1>3, BucketOfType
<1>6. /\ top[BucketOf(s)] = None => InBucket(q, BucketOf(s)) = {}
      /\ req[q] = "makeBucket" => top[BucketOf(s)] = None
      /\ stream[q] = s =>
            /\ MapOfStream(s) = None => OnStream(q, s) = {}
            /\ req[q] = "makeStream" => MapOfStream(s) = None
  BY <1>5 DEF AloneOK
<1>7. top'[BucketOf(s)] = None => InBucket(q, BucketOf(s))' = {}
  BY <1>3, <1>4, <1>5, <1>6, MapsGrow
<1>8. MapOfStream(s)' = None => MapOfStream(s) = None
  BY <1>4, StreamMapStays
<1>9. ASSUME req'[q] = "makeBucket"
      PROVE  top'[BucketOf(s)] = None
  <2>1. CASE q = r
    <3>1. CheckBucket(r) /\ top[BucketOf(s)] = None
      BY <1>1, <1>9, <2>1 DEF Begins, CheckBucket, MakeBucket, CheckStream,
         MakeStream, Parse, StorePanics, Store, Goto
    <3>2. QED
      BY <3>1 DEF CheckBucket, maps
  <2>2. CASE q # r
    <3>1. req[q] = "makeBucket" /\ top[BucketOf(s)] = None
      BY <1>2, <1>6, <1>9, <2>2
    <3>2. CASE MakeBucket(r) /\ BucketOf(stream[r]) = BucketOf(s)
      <4>1. InBucket(r, BucketOf(s)) = {}
        BY <3>2, MakeBucketAlone
      <4>2. QED
        BY <1>5, <2>2, <4>1 DEF InBucket
    <3>3. CASE MakeBucket(r) /\ BucketOf(stream[r]) # BucketOf(s)
      BY <1>5, <3>1, <3>3 DEF MakeBucket
    <3>4. CASE ~MakeBucket(r)
      BY <1>1, <3>1, <3>4 DEF Begins, CheckBucket, CheckStream, MakeStream, Parse,
         StorePanics, Store, maps
    <3>5. QED
      BY <3>2, <3>3, <3>4
  <2>3. QED
    BY <2>1, <2>2
<1>10. ASSUME stream[q] = s, req'[q] = "makeStream"
       PROVE  MapOfStream(s)' = None
  <2>1. CASE q = r
    <3>1. CheckStream(r) /\ MapOfStream(s) = None
      BY <1>1, <1>10, <2>1 DEF Begins, CheckBucket, MakeBucket, CheckStream,
         MakeStream, Parse, StorePanics, Store, Goto
    <3>2. QED
      BY <3>1 DEF CheckStream, maps, MapOfStream
  <2>2. CASE q # r
    <3>1. req[q] = "makeStream" /\ MapOfStream(s) = None
      BY <1>2, <1>6, <1>10, <2>2
    <3>2. top[BucketOf(s)] \in Requests
      BY <1>5, <1>10, <3>1 DEF HandlerOK
    <3>3. CASE MakeBucket(r)
      <4>1. BucketOf(stream[r]) # BucketOf(s)
        BY <3>2, <3>3, MakeBucketAlone
      <4>2. QED
        BY <1>5, <3>1, <3>3, <4>1 DEF MakeBucket, MapOfStream
    <3>4. CASE MakeStream(r)
      <4>1. stream[r] # s
        <5>1. ASSUME stream[r] = s PROVE FALSE
          <6>1. OnStream(r, s) = {}
            BY <3>4, <5>1, MakeStreamAlone
          <6>2. QED
            BY <1>5, <1>10, <2>2, <6>1 DEF OnStream
        <5>2. QED
          BY <5>1
      <4>2. /\ top[BucketOf(stream[r])] \in Requests
            /\ inner' = [inner EXCEPT ![top[BucketOf(stream[r])]][stream[r]] = r]
            /\ top' = top
        BY <3>4, BucketOfType DEF MakeStream, HandlerOK
      <4>3. inner'[top[BucketOf(s)]][s] = inner[top[BucketOf(s)]][s]
        BY <3>2, <4>1, <4>2
      <4>4. QED
        BY <3>1, <4>2, <4>3 DEF MapOfStream
    <3>5. CASE ~MakeBucket(r) /\ ~MakeStream(r)
      BY <1>1, <3>1, <3>5 DEF Begins, CheckBucket, CheckStream, Parse,
         StorePanics, Store, maps, MapOfStream
    <3>6. QED
      BY <3>3, <3>4, <3>5
  <2>3. QED
    BY <2>1, <2>2
<1>11. stream[q] = s /\ MapOfStream(s)' = None => OnStream(q, s)' = {}
  BY <1>3, <1>6, <1>8
<1>12. QED
  BY <1>7, <1>9, <1>10, <1>11

(* A handler that parses has seen or made the map of its stream, and what  *)
(* is stored is there.                                                     *)
LEMMA HandlerKeepsStored ==
    ASSUME KeptInv, NEW r \in Requests, Handler(r)
    PROVE  StoredOK'
<1> USE NoneAssumption DEF KeptInv, MixInv, TypeOK
<1>1. Begins(r) \/ \E k \in Nodes : Store(r, k)
  BY DEF Handler, Begins
<1>2. /\ UNCHANGED <<stream, body, shared>>
      /\ req[r] \in Busy /\ stream[r] \in Streams
      /\ \A q \in Requests \ {r} : req'[q] = req[q] /\ left'[q] = left[q]
  <2>1. CASE Begins(r)
    <3>1. UNCHANGED <<stream, body, left, shared>> /\ req[r] \in Busy /\ stream[r] \in Streams
      BY <2>1, BeginStep
    <3>2. \E l : req' = [req EXCEPT ![r] = l]
      BY <2>1, BeginStep
    <3>3. QED
      BY <3>1, <3>2
  <2>2. ASSUME NEW k \in Nodes, Store(r, k)
        PROVE  /\ UNCHANGED <<stream, body, shared>>
               /\ req[r] \in Busy /\ stream[r] \in Streams
               /\ \A q \in Requests \ {r} : req'[q] = req[q] /\ left'[q] = left[q]
    BY <2>2 DEF Store, Goto, Busy, HandlerOK
  <2>3. QED
    BY <1>1, <2>1, <2>2
<1>3. [Next]_vars
  BY DEF Next
<1> SUFFICES ASSUME NEW q \in Requests, req'[q] \in {"parse", "store", "success"},
                    stream[q] \notin shared
             PROVE  /\ MapOfStream(stream[q])' # None
                    /\ \A n \in body[q] \ left'[q] : Entry(stream[q], n)' # None
  BY <1>2 DEF StoredOK, Entry, MapOfStream
<1>4. ASSUME req[q] \in {"parse", "store", "success"}
      PROVE  /\ stream[q] \in Streams \ shared
             /\ MapOfStream(stream[q])' = MapOfStream(stream[q])
             /\ MapOfStream(stream[q]) # None
             /\ \A n \in body[q] \ left[q] : Entry(stream[q], n)' # None
  <2>1. stream[q] \in Streams \ shared /\ body[q] \subseteq Nodes
    BY <1>4 DEF HandlerOK
  <2>2. /\ MapOfStream(stream[q]) # None
        /\ \A n \in body[q] \ left[q] : Entry(stream[q], n) # None
    BY <1>4 DEF StoredOK
  <2>3. MapOfStream(stream[q])' = MapOfStream(stream[q])
    BY <1>2, <1>3, <2>1, <2>2, StreamMapStays DEF MapOfStream
  <2>4. \A n \in body[q] \ left[q] : Entry(stream[q], n)' # None
    BY <1>2, <1>3, <2>1, <2>2, EntriesStay DEF Entry, MapOfStream
  <2>5. QED
    BY <2>1, <2>2, <2>3, <2>4
<1>5. CASE q # r
  BY <1>2, <1>4, <1>5
<1>6. CASE q = r /\ Begins(r)
  <2>1. left' = left /\ body[r] \ left[r] = {}
    BY <1>6, BeginStep DEF Begins, CheckBucket, MakeBucket, CheckStream, MakeStream,
       Parse, StorePanics, Goto, HandlerOK, Busy
  <2>2. CASE Parse(r)
    BY <1>4, <1>6, <2>1, <2>2 DEF Parse
  <2>3. CASE CheckStream(r)
    BY <1>6, <2>1, <2>3 DEF CheckStream, Goto, MapOfStream, maps
  <2>4. CASE MakeStream(r)
    <3>1. top[BucketOf(stream[r])] \in Requests /\ BucketOf(stream[r]) \in Buckets
      BY <1>2, <2>4, BucketOfType DEF MakeStream, HandlerOK
    <3>2. inner'[top[BucketOf(stream[r])]][stream[r]] = r /\ top' = top
      BY <1>2, <2>4, <3>1 DEF MakeStream
    <3>3. QED
      BY <1>2, <1>6, <2>1, <3>1, <3>2 DEF MapOfStream
  <2>5. CASE CheckBucket(r) \/ MakeBucket(r) \/ StorePanics(r)
    BY <1>6, <2>5 DEF CheckBucket, MakeBucket, StorePanics, Goto
  <2>6. QED
    BY <1>6, <2>2, <2>3, <2>4, <2>5 DEF Begins
<1>7. ASSUME q = r, NEW k \in Nodes, Store(r, k)
      PROVE  /\ MapOfStream(stream[q])' # None
             /\ \A n \in body[q] \ left'[q] : Entry(stream[q], n)' # None
  <2> DEFINE m0 == MapOfStream(stream[r])
  <2>1. req[q] = "store"
    BY <1>7 DEF Store
  <2>2. m0 \in Requests /\ m0 # None /\ MapOfStream(stream[q])' = m0
    BY <1>2, <1>4, <1>7, <2>1, BucketOfType DEF MapOfStream, HandlerOK
  <2>3. /\ left' = [left EXCEPT ![r] = @ \ {k}]
        /\ heap' = [heap EXCEPT ![m0][k] = r]
    BY <1>7 DEF Store
  <2> HIDE DEF m0
  <2>4. Entry(stream[q], k)' # None
    <3>1. heap'[m0][k] = r
      BY <2>2, <2>3
    <3>2. QED
      BY <2>2, <3>1, <1>2 DEF Entry, MapOfStream
  <2>5. body[q] \ left'[q] \subseteq (body[q] \ left[q]) \cup {k}
    BY <1>7, <2>3
  <2>6. QED
    BY <1>4, <2>1, <2>2, <2>4, <2>5
<1>8. QED
  BY <1>1, <1>5, <1>6, <1>7

LEMMA NextKeptInv ==
    ASSUME KeptInv, [Next]_vars
    PROVE  KeptInv'
<1>1. MixInv'
  BY NextMixInv DEF KeptInv
<1>2. CASE UNCHANGED vars \/ Fatal \/ Run
  <2>1. UNCHANGED <<reqVars, maps, shared>>
    BY <1>2 DEF vars, Fatal, Run, Tick, EndStream, EndBucket, EndPass, Publish,
                PublishFails, VisitBucket, VisitStream, VisitNode
  <2>2. QED
    BY <1>1, <2>1, IdleKeepsAlone DEF KeptInv
<1>3. ASSUME NEW r \in Requests, Arrive(r) \/ Handler(r)
      PROVE  KeptInv'
  BY <1>1, <1>3, ArriveKeepsAlone, HandlerKeepsAlone, HandlerKeepsStored DEF KeptInv
<1>4. QED
  BY <1>2, <1>3 DEF Next

THEOREM SpecKeptInv == Spec => []KeptInv
<1>1. Init => KeptInv
  BY InitKeptInv
<1>2. KeptInv /\ [Next]_vars => KeptInv'
  BY NextKeptInv
<1>3. QED
  BY <1>1, <1>2, PTL DEF Spec

-----------------------------------------------------------------------------
(* A record in redis was reported as a whole by one well-formed request,   *)
(* although Run holds maps that handlers replace and write.                *)
THEOREM NoMixedReportHolds == Spec => []NoMixedReport
<1>1. KeptInv => NoMixedReport
  BY DEF KeptInv, MixInv, RedisOK, Reported, NoMixedReport
<1>2. QED
  BY <1>1, SpecKeptInv, PTL

(* An acknowledged report stays in the maps, unless a second handler came  *)
(* while the map of its bucket or of its stream was still to be made.      *)
THEOREM AcknowledgedKeptHolds == Spec => []AcknowledgedKept
<1>1. KeptInv => AcknowledgedKept
  BY DEF KeptInv, MixInv, HandlerOK, StoredOK, AcknowledgedKept
<1>2. QED
  BY <1>1, SpecKeptInv, PTL

(* Nothing of a stream that is not shared is forgotten: an entry may be    *)
(* replaced by a later request of the stream but never goes away, whatever *)
(* happens to the other streams of its bucket.                             *)
NothingForgotten ==
    \A s \in Streams \ shared, n \in Nodes :
        Entry(s, n) # None => Entry(s, n)' # None

THEOREM NothingIsForgotten == Spec => [][NothingForgotten]_vars
<1>1. KeptInv /\ [Next]_vars => [NothingForgotten]_vars
  BY EntriesStay DEF NothingForgotten
<1>2. QED
  BY <1>1, SpecKeptInv, PTL DEF Spec
=============================================================================
