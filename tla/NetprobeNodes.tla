---------------------------- MODULE NetprobeNodes ---------------------------
(***************************************************************************)
(* The mocked nodes of mock-netprobe-srv: the http handlers change their   *)
(* bandwidths, runtime states and low-threshold times in memory, and Run   *)
(* writes every node to redis on each tick.  Handlers and Run go through   *)
(* the ips of a node one by one and no lock is held.  Bandwidths are whole *)
(* MBps and the configured maxima multiples of 10, so 0.9 * max is exact.  *)
(***************************************************************************)
EXTENDS Naturals, FiniteSets

CONSTANTS
    Nodes, Ips,
    NodeOf(_),      \* the node an ip belongs to
    Groups,         \* the sets of ips of one area+isp, or of one isp
    MaxIn(_),       \* MaxInMBps of each ip
    MaxOut(_),      \* MaxOutMBps of each ip in the nodes file
    States,         \* runtime states
    Times,          \* low-threshold times that requests set
    MaxRequests     \* bound: requests of a run

ASSUME RequestsAssumption == MaxRequests \in Nat
ASSUME MaximaAssumption ==
    \A p \in Ips : /\ NodeOf(p) \in Nodes
                   /\ MaxIn(p) \in Nat /\ MaxIn(p) % 10 = 0
                   /\ MaxOut(p) \in Nat /\ MaxOut(p) % 10 = 0
ASSUME GroupsAssumption == Groups \subseteq SUBSET Ips

Default == "now-3h"     \* time.Now().Unix() - 3*3600
NoExtra == "none"
ASSUME TimesAssumption == {Default, NoExtra} \cap Times = {}

VARIABLES
    in, out, maxOut,  \* InMBps, OutMBps, MaxOutMBps of each ip
    low,              \* LowThresholdTime of each ip
    state,            \* RuntimeStatus of each node
    extra,            \* nodeExtras: the time set for a node
    jobs,             \* handlers at work: what they do, to which ips
    requests,         \* requests so far
    run,              \* control point of Run
    cur,              \* the node it works on
    rest,             \* the ips of that node it has still to visit
    undone,           \* the nodes it has still to visit on this tick
    bytes,            \* the marshalled node
    redis,            \* NetprobeRtNodesMap, per ip
    crashed           \* the runtime killed the process

memVars == <<in, out, maxOut, low, state, extra>>
runVars == <<run, cur, rest, undone, bytes>>
vars == <<memVars, jobs, requests, runVars, redis, crashed>>

IpsOf(n) == {p \in Ips : NodeOf(p) = n}
LowTimes == Times \cup {Default}
Ops == {"fillIn", "fillOut", "fillArea", "fillIsp", "clear"}

(* What Run publishes of an ip.                                            *)
Record == [in : Nat, out : Nat, low : LowTimes, state : States]

TypeOK ==
    /\ in \in [Ips -> Nat] /\ out \in [Ips -> Nat] /\ maxOut \in [Ips -> Nat]
    /\ low \in [Ips -> LowTimes]
    /\ state \in [Nodes -> States]
    /\ extra \in [Nodes -> Times \cup {NoExtra}]
    /\ jobs \subseteq [id : Nat, op : Ops, ips : SUBSET Ips]
    /\ requests \in 0..MaxRequests
    /\ run \in {"tick", "node", "low", "marshal"}
    /\ Nodes # {} => cur \in Nodes
    /\ rest \subseteq Ips /\ undone \subseteq Nodes
    /\ \A p \in DOMAIN bytes : bytes[p] \in Record
    /\ \A p \in DOMAIN redis : redis[p] \in Record
    /\ crashed \in BOOLEAN

Init ==
    /\ in = [p \in Ips |-> 0]
    /\ out = [p \in Ips |-> 0]
    /\ maxOut = [p \in Ips |-> MaxOut(p)]
    /\ low = [p \in Ips |-> Default]
    /\ state \in {[n \in Nodes |-> s] : s \in States}
    /\ extra = [n \in Nodes |-> NoExtra]
    /\ jobs = {}
    /\ requests = 0
    /\ run = "tick"
    /\ cur = (CHOOSE n \in Nodes : TRUE)
    /\ rest = {} /\ undone = {}
    /\ bytes = <<>>
    /\ redis = <<>>
    /\ crashed = FALSE

-----------------------------------------------------------------------------
(* A request that goes over the ips of one node (FillBw, ClearBw) or of    *)
(* all nodes (FillAreaBw, FillIspBw) starts.                               *)
Arrive(op, ips) ==
    /\ requests < MaxRequests
    /\ requests' = requests + 1
    /\ jobs' = jobs \cup {[id |-> requests, op |-> op, ips |-> ips]}
    /\ UNCHANGED <<memVars, runVars, redis, crashed>>

ArriveAny ==
    \/ \E n \in Nodes, op \in {"fillIn", "fillOut", "clear"} : Arrive(op, IpsOf(n))
    \/ \E g \in Groups, op \in {"fillArea", "fillIsp"} : Arrive(op, g)

(* SetNodeRuntimeState, in one assignment.                                 *)
SetNodeRuntimeState(n, s) ==
    /\ requests < MaxRequests
    /\ requests' = requests + 1
    /\ state' = [state EXCEPT ![n] = s]
    /\ UNCHANGED <<in, out, maxOut, low, extra, jobs, runVars, redis, crashed>>

(* SetLowThresholdTime: set or replace the node's extra.  A new key written*)
(* while Run looks one up may end in "fatal error: concurrent map read and *)
(* map write".                                                             *)
SetLowThresholdTime(n, t) ==
    /\ crashed' \in IF extra[n] = NoExtra /\ run = "low" THEN BOOLEAN ELSE {FALSE}
    /\ requests < MaxRequests
    /\ requests' = requests + 1
    /\ extra' = [extra EXCEPT ![n] = t]
    /\ UNCHANGED <<in, out, maxOut, low, state, jobs, runVars, redis>>

(* Mutant of FillIsp: every ip of the isp gets the fixed maximum.          *)
FillIspAll(p) ==
    /\ out' = [out EXCEPT ![p] = maxOut[p]]
    /\ maxOut' = [maxOut EXCEPT ![p] = 10]
    /\ UNCHANGED in

(* FillIspBw reads the ip from a copy, so the OutMBps it stores is the old *)
(* MaxOutMBps even when it has just set MaxOutMBps to 10.                  *)
FillIsp(p) ==
    /\ out' = [out EXCEPT ![p] = maxOut[p]]
    /\ maxOut' = IF MaxIn(p) = 0 THEN [maxOut EXCEPT ![p] = 10] ELSE maxOut
    /\ UNCHANGED in

(* What each handler does to the next of its ips.                          *)
Effect(op, p) ==
    \/ /\ op = "fillIn"
       /\ in' = IF MaxIn(p) = 0 THEN in ELSE [in EXCEPT ![p] = 9 * (MaxIn(p) \div 10)]
       /\ UNCHANGED <<out, maxOut>>
    \/ /\ op = "fillOut"
       /\ out' = IF maxOut[p] = 0 THEN out
                                  ELSE [out EXCEPT ![p] = 9 * (maxOut[p] \div 10)]
       /\ UNCHANGED <<in, maxOut>>
    \/ /\ op = "fillArea"
       /\ out' = [out EXCEPT ![p] = maxOut[p]]
       /\ UNCHANGED <<in, maxOut>>
    \/ /\ op = "fillIsp"
       /\ FillIsp(p)
    \/ /\ op = "clear"
       /\ out' = [out EXCEPT ![p] = 0]
       /\ in' = [in EXCEPT ![p] = 0]
       /\ UNCHANGED maxOut

(* A handler goes on to one of its ips; after the last it replies.         *)
HandlerStep(j) ==
    \E p \in j.ips :
        /\ Effect(j.op, p)
        /\ jobs' = (jobs \ {j}) \cup
                   (IF j.ips = {p} THEN {} ELSE {[j EXCEPT !.ips = @ \ {p}]})
        /\ UNCHANGED <<low, state, extra, requests, runVars, redis, crashed>>

-----------------------------------------------------------------------------
(* Run: the 10 s ticker.                                                   *)
Tick ==
    /\ run = "tick"
    /\ run' = "node"
    /\ undone' = Nodes
    /\ UNCHANGED <<memVars, jobs, requests, cur, rest, bytes, redis, crashed>>

NextNode(n) ==
    /\ run = "node"
    /\ n \in undone
    /\ undone' = undone \ {n}
    /\ cur' = n
    /\ rest' = IpsOf(n)
    /\ run' = IF IpsOf(n) = {} THEN "marshal" ELSE "low"
    /\ UNCHANGED <<memVars, jobs, requests, bytes, redis, crashed>>

EndTick ==
    /\ run = "node"
    /\ undone = {}
    /\ run' = "tick"
    /\ UNCHANGED <<memVars, jobs, requests, cur, rest, undone, bytes, redis, crashed>>

(* Mutant of SetLow: the extra that was found is used up.                  *)
SetLowOnce(p) ==
    /\ run = "low"
    /\ p \in rest
    /\ low' = [low EXCEPT ![p] = IF extra[cur] = NoExtra THEN Default
                                                         ELSE extra[cur]]
    /\ extra' = [extra EXCEPT ![cur] = NoExtra]
    /\ rest' = IF rest = {p} THEN IpsOf(cur) ELSE rest \ {p}
    /\ run' = IF rest = {p} THEN "marshal" ELSE "low"
    /\ UNCHANGED <<in, out, maxOut, state, jobs, requests, cur, undone,
                   bytes, redis, crashed>>

(* Run: an ip of the node gets the default time, and the node's extra over *)
(* it if there is one.                                                     *)
SetLow(p) ==
    /\ run = "low"
    /\ p \in rest
    /\ low' = [low EXCEPT ![p] = IF extra[cur] = NoExtra THEN Default
                                                         ELSE extra[cur]]
    /\ rest' = IF rest = {p} THEN IpsOf(cur) ELSE rest \ {p}
    /\ run' = IF rest = {p} THEN "marshal" ELSE "low"
    /\ UNCHANGED <<in, out, maxOut, state, extra, jobs, requests, cur, undone,
                   bytes, redis, crashed>>

(* Mutant of Marshal: the ips are marshalled before their time is set.     *)
MarshalDefault(p) ==
    /\ run = "marshal"
    /\ p \in rest
    /\ rest' = rest \ {p}
    /\ bytes' = [q \in DOMAIN bytes \cup {p} |->
                    IF q = p THEN [in |-> in[p], out |-> out[p], low |-> Default,
                                   state |-> state[cur]]
                             ELSE bytes[q]]
    /\ UNCHANGED <<memVars, jobs, requests, run, cur, undone, redis, crashed>>

(* Run: json.Marshal(node) reads one ip after the other, while handlers may*)
(* change the next one.                                                    *)
Marshal(p) ==
    /\ run = "marshal"
    /\ p \in rest
    /\ rest' = rest \ {p}
    /\ bytes' = [q \in DOMAIN bytes \cup {p} |->
                    IF q = p THEN [in |-> in[p], out |-> out[p], low |-> low[p],
                                   state |-> state[cur]]
                             ELSE bytes[q]]
    /\ UNCHANGED <<memVars, jobs, requests, run, cur, undone, redis, crashed>>

(* Run: the node has been written, or redis returned an error, which is    *)
(* logged; the loop goes on to the next node.                              *)
Written ==
    /\ run = "marshal"
    /\ rest = {}
    /\ bytes' = <<>>
    /\ run' = "node"
    /\ UNCHANGED <<memVars, jobs, requests, cur, rest, undone, crashed>>

HSet ==
    /\ Written
    /\ redis' = [p \in DOMAIN redis \cup DOMAIN bytes |->
                   IF p \in DOMAIN bytes THEN bytes[p] ELSE redis[p]]

HSetFails == Written /\ UNCHANGED redis

Request ==
    \/ ArriveAny
    \/ \E n \in Nodes, s \in States : SetNodeRuntimeState(n, s)
    \/ \E n \in Nodes, t \in Times : SetLowThresholdTime(n, t)

Run ==
    \/ Tick \/ EndTick \/ HSet \/ HSetFails
    \/ \E n \in Nodes : NextNode(n)
    \/ \E p \in Ips : SetLow(p) \/ Marshal(p)

Handler == \E j \in jobs : HandlerStep(j)

Next == ~crashed /\ (Request \/ Handler \/ Run)

Spec == Init /\ [][Next]_vars

(* The ticker ticks, started handlers go on, and the write of each node    *)
(* succeeds again and again; requests need not come.                       *)
FairSpec == Spec /\ WF_vars(~crashed /\ Run) /\ WF_vars(~crashed /\ Handler)
                 /\ \A n \in Nodes : SF_vars(~crashed /\ cur = n /\ HSet)

-----------------------------------------------------------------------------
(* Once redis shows a time that a request set, it never again shows the    *)
(* default, although Run resets every ip to the default on every tick.     *)
NoFallback ==
    [][\A p \in DOMAIN redis :
           redis[p].low # Default => redis'[p].low # Default]_vars

(* An ip can be more than full (OutMBps above MaxOutMBps) only if it has   *)
(* no MaxInMBps: FillIspBw, which tests MaxInMBps and changes MaxOutMBps,  *)
(* is the one way to get there, in whatever order the handlers run.        *)
OverfullOnlyWithoutIn ==
    \A p \in Ips : out[p] > maxOut[p] => MaxIn(p) = 0

(* When no more requests come, redis ends up with the bandwidths, state    *)
(* and time that memory has, for every ip, in spite of snapshots that were *)
(* half old and of failed writes.                                          *)
LatestPublished ==
    <>[](crashed \/
         \A p \in Ips :
            /\ p \in DOMAIN redis
            /\ redis[p] = [in |-> in[p], out |-> out[p],
                            low |-> IF extra[NodeOf(p)] = NoExtra
                                    THEN Default ELSE extra[NodeOf(p)],
                            state |-> state[NodeOf(p)]])
=============================================================================
