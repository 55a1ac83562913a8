------------------------- MODULE NetprobeNodesProofs ------------------------
(***************************************************************************)
(* Proofs about NetprobeNodes for any number of nodes, ips, groups, times  *)
(* and requests: bandwidths, and the low-threshold times redis shows.      *)
(***************************************************************************)
EXTENDS NetprobeNodes, TLAPS

(* An ip with inbound bandwidth keeps its configured maximum and is never  *)
(* more than full.                                                         *)
FullAtMost ==
    \A p \in Ips : MaxIn(p) # 0 => maxOut[p] = MaxOut(p) /\ out[p] <= maxOut[p]

(* Run works on the ips of one node, and what it has marshalled of them is *)
(* what they still have: only Run changes a time.                          *)
PassOK ==
    /\ run \in {"low", "marshal"} => cur \in Nodes /\ rest \subseteq IpsOf(cur)
    /\ \A p \in DOMAIN bytes :
           run = "marshal" /\ p \in Ips /\ bytes[p].low = low[p]

(* A time that redis shows is in memory too, and one that is in memory was *)
(* set for the ip's node, whose extra is never taken away.                 *)
TimesOK ==
    /\ \A p \in Ips : low[p] # Default => extra[NodeOf(p)] # NoExtra
    /\ \A p \in DOMAIN redis : /\ p \in Ips
                               /\ redis[p].low # Default => low[p] # Default

(* The inductive invariant.                                                *)
NInv == TypeOK /\ FullAtMost /\ PassOK /\ TimesOK
-----------------------------------------------------------------------------
(* Nine tenths of a bandwidth are no more than all of it.                  *)
LEMMA NineTenths ==
    ASSUME NEW x \in Nat
    PROVE  9 * (x \div 10) \in Nat /\ 9 * (x \div 10) <= x
OBVIOUS

LEMMA InitNInv == Init => NInv
<1> SUFFICES ASSUME Init PROVE NInv
  OBVIOUS
<1> USE MaximaAssumption, RequestsAssumption, TimesAssumption DEF Init
<1>1. DOMAIN bytes = {} /\ DOMAIN redis = {}
  OBVIOUS
<1>2. TypeOK
  <2>1. /\ in \in [Ips -> Nat] /\ out \in [Ips -> Nat] /\ maxOut \in [Ips -> Nat]
        /\ low \in [Ips -> LowTimes]
        /\ state \in [Nodes -> States]
        /\ extra \in [Nodes -> Times \cup {NoExtra}]
    BY DEF LowTimes
  <2>2. Nodes # {} => cur \in Nodes
    OBVIOUS
  <2>3. /\ jobs \subseteq [id : Nat, op : Ops, ips : SUBSET Ips]
        /\ requests \in 0..MaxRequests
        /\ run \in {"tick", "node", "low", "marshal"}
        /\ rest \subseteq Ips /\ undone \subseteq Nodes
    OBVIOUS
  <2>4. crashed \in BOOLEAN
    OBVIOUS
  <2>5. (\A p \in DOMAIN bytes : bytes[p] \in Record)
        /\ (\A p \in DOMAIN redis : redis[p] \in Record)
    BY <1>1
  <2> HIDE DEF Init
  <2>6. QED
    BY <2>1, <2>2, <2>3, <2>4, <2>5 DEF TypeOK
<1>3. FullAtMost
  BY DEF FullAtMost
<1>4. PassOK /\ TimesOK
  BY <1>1 DEF PassOK, TimesOK
<1>5. QED
  BY <1>2, <1>3, <1>4 DEF NInv

(* A request arrives, or changes a state or a time at once.                *)
LEMMA RequestKeeps ==
    ASSUME NInv, Request
    PROVE  NInv'
<1> USE RequestsAssumption, TimesAssumption DEF NInv, TypeOK
<1>1. ASSUME NEW op \in Ops, NEW ips \in SUBSET Ips, Arrive(op, ips)
      PROVE  NInv'
  <2>1. jobs' \subseteq [id : Nat, op : Ops, ips : SUBSET Ips]
    <3>1. [id |-> requests, op |-> op, ips |-> ips]
            \in [id : Nat, op : Ops, ips : SUBSET Ips]
      OBVIOUS
    <3>2. QED
      BY <1>1, <3>1 DEF Arrive
  <2>2. QED
    BY <1>1, <2>1 DEF Arrive, memVars, runVars, FullAtMost, PassOK, TimesOK
<1>2. ASSUME NEW n \in Nodes, NEW s \in States, SetNodeRuntimeState(n, s)
      PROVE  NInv'
  BY <1>2 DEF SetNodeRuntimeState, runVars, FullAtMost, PassOK, TimesOK
<1>3. ASSUME NEW n \in Nodes, NEW t \in Times, SetLowThresholdTime(n, t)
      PROVE  NInv'
  <2>1. /\ extra' = [extra EXCEPT ![n] = t]
        /\ requests' \in 0..MaxRequests
        /\ UNCHANGED <<in, out, maxOut, low, state, jobs, runVars, redis>>
    BY <1>3 DEF SetLowThresholdTime
  <2>2. TypeOK'
    <3>1. crashed' \in BOOLEAN
      BY <1>3 DEF SetLowThresholdTime
    <3>2. extra' \in [Nodes -> Times \cup {NoExtra}]
      BY <2>1
    <3>3. QED
      BY <2>1, <3>1, <3>2 DEF runVars
  <2>3. TimesOK'
    BY <2>1, MaximaAssumption DEF TimesOK
  <2>4. QED
    BY <2>1, <2>2, <2>3 DEF runVars, FullAtMost, PassOK
<1>4. CASE ArriveAny
  <2>1. ASSUME NEW n \in Nodes
        PROVE  IpsOf(n) \in SUBSET Ips
    BY DEF IpsOf
  <2>2. {"fillIn", "fillOut", "clear", "fillArea", "fillIsp"} \subseteq Ops
    BY DEF Ops
  <2>3. QED
    BY <1>1, <1>4, <2>1, <2>2, GroupsAssumption DEF ArriveAny
<1>5. QED
  BY <1>2, <1>3, <1>4 DEF Request

(* Whatever a handler does to an ip, only FillIspBw changes a maximum, and *)
(* only that of an ip without inbound bandwidth.                           *)
LEMMA EffectKeeps ==
    ASSUME NInv, NEW op \in Ops, NEW p \in Ips, Effect(op, p)
    PROVE  /\ in' \in [Ips -> Nat] /\ out' \in [Ips -> Nat] /\ maxOut' \in [Ips -> Nat]
           /\ FullAtMost'
<1> USE MaximaAssumption DEF NInv, TypeOK
<1>1. /\ 9 * (MaxIn(p) \div 10) \in Nat
      /\ 9 * (maxOut[p] \div 10) \in Nat
      /\ 9 * (maxOut[p] \div 10) <= maxOut[p]
  BY NineTenths
<1>2. CASE op = "fillIn"
  BY <1>1, <1>2 DEF Effect, FullAtMost
<1>3. CASE op = "fillOut"
  BY <1>1, <1>3 DEF Effect, FullAtMost
<1>4. CASE op = "fillArea"
  BY <1>4 DEF Effect, FullAtMost
<1>5. CASE op = "fillIsp"
  BY <1>5 DEF Effect, FillIsp, FullAtMost
<1>6. CASE op = "clear"
  BY <1>6 DEF Effect, FullAtMost
<1>7. QED
  BY <1>2, <1>3, <1>4, <1>5, <1>6 DEF Effect

LEMMA HandlerKeeps ==
    ASSUME NInv, NEW j \in jobs, HandlerStep(j)
    PROVE  NInv'
<1> DEFINE Jobs == [id : Nat, op : Ops, ips : SUBSET Ips]
<1>1. j \in Jobs /\ jobs \subseteq Jobs
  BY DEF NInv, TypeOK
<1>2. PICK p \in j.ips :
         /\ Effect(j.op, p)
         /\ jobs' = (jobs \ {j}) \cup
                    (IF j.ips = {p} THEN {} ELSE {[j EXCEPT !.ips = @ \ {p}]})
         /\ UNCHANGED <<low, state, extra, requests, runVars, redis, crashed>>
  BY DEF HandlerStep
<1>3. p \in Ips /\ j.op \in Ops
  BY <1>1
<1>4. [j EXCEPT !.ips = @ \ {p}] \in Jobs
  BY <1>1
<1>5. jobs' \subseteq Jobs
  BY <1>1, <1>2, <1>4
<1>6. /\ in' \in [Ips -> Nat] /\ out' \in [Ips -> Nat] /\ maxOut' \in [Ips -> Nat]
      /\ FullAtMost'
  BY <1>2, <1>3, EffectKeeps
<1>7. TypeOK'
  BY <1>2, <1>5, <1>6 DEF NInv, TypeOK, runVars
<1>8. PassOK' /\ TimesOK'
  BY <1>2 DEF NInv, PassOK, TimesOK, runVars
<1>9. QED
  BY <1>6, <1>7, <1>8 DEF NInv
(* Run gives an ip the default or its node's extra: an ip that had a time  *)
(* has a node with an extra, so it never falls back to the default.        *)
LEMMA SetLowKeeps ==
    ASSUME NInv, NEW p \in Ips, SetLow(p)
    PROVE  NInv'
<1> USE TimesAssumption DEF NInv, TypeOK
<1>1. /\ run = "low" /\ p \in rest
      /\ low' = [low EXCEPT ![p] = IF extra[cur] = NoExtra THEN Default
                                                           ELSE extra[cur]]
      /\ rest' = IF rest = {p} THEN IpsOf(cur) ELSE rest \ {p}
      /\ run' = IF rest = {p} THEN "marshal" ELSE "low"
      /\ UNCHANGED <<in, out, maxOut, state, extra, jobs, requests, cur, undone,
                     bytes, redis, crashed>>
  BY DEF SetLow
<1>2. cur \in Nodes /\ NodeOf(p) = cur /\ rest \subseteq IpsOf(cur)
  BY <1>1 DEF PassOK, IpsOf
<1>3. IpsOf(cur) \subseteq Ips
  BY DEF IpsOf
<1>4. low' \in [Ips -> LowTimes]
  BY <1>1, <1>2 DEF LowTimes
<1>5. TypeOK'
  BY <1>1, <1>3, <1>4
<1>6. FullAtMost'
  BY <1>1 DEF FullAtMost
<1>7. PassOK'
  <2>1. DOMAIN bytes = {}
    BY <1>1 DEF PassOK
  <2>2. rest' \subseteq IpsOf(cur)
    BY <1>1, <1>2
  <2>3. IpsOf(cur)' = IpsOf(cur)
    BY <1>1 DEF IpsOf
  <2>4. QED
    BY <1>1, <1>2, <2>1, <2>2, <2>3 DEF PassOK
<1>8. TimesOK'
  <2>1. \A q \in Ips : low'[q] # Default => extra'[NodeOf(q)] # NoExtra
    BY <1>1, <1>2 DEF TimesOK
  <2>2. low[p] # Default => low'[p] # Default
    BY <1>1, <1>2 DEF TimesOK
  <2>3. \A q \in Ips : low[q] # Default => low'[q] # Default
    BY <1>1, <2>2
  <2>4. QED
    BY <1>1, <2>1, <2>3 DEF TimesOK
<1>9. QED
  BY <1>5, <1>6, <1>7, <1>8

(* Run marshals an ip.                                                     *)
LEMMA MarshalKeeps ==
    ASSUME NInv, NEW p \in Ips, Marshal(p)
    PROVE  NInv'
<1> USE DEF NInv, TypeOK
<1> DEFINE rec == [in |-> in[p], out |-> out[p], low |-> low[p], state |-> state[cur]]
<1>1. /\ run = "marshal" /\ p \in rest
      /\ rest' = rest \ {p}
      /\ bytes' = [q \in DOMAIN bytes \cup {p} |-> IF q = p THEN rec ELSE bytes[q]]
      /\ UNCHANGED <<in, out, maxOut, low, state, extra, jobs, requests, run,
                     cur, undone, redis, crashed>>
  BY DEF Marshal, memVars
<1>2. cur \in Nodes
  BY <1>1 DEF PassOK
<1>3. rec \in Record /\ rec.low = low[p]
  BY <1>2 DEF Record
<1> HIDE DEF rec
<1>4. \A q \in DOMAIN bytes' : bytes'[q] \in Record
  BY <1>1, <1>3
<1>5. TypeOK'
  BY <1>1, <1>4
<1>6. FullAtMost' /\ TimesOK'
  BY <1>1 DEF FullAtMost, TimesOK
<1>7. PassOK'
  BY <1>1, <1>3 DEF PassOK, IpsOf
<1>8. QED
  BY <1>5, <1>6, <1>7

(* What HSet writes to redis has the times that memory has.                *)
LEMMA WrittenKeeps ==
    ASSUME NInv, HSet \/ HSetFails
    PROVE  /\ NInv'
           /\ \A p \in DOMAIN redis : redis[p].low # Default => redis'[p].low # Default
<1> USE DEF NInv, TypeOK
<1>1. /\ run = "marshal" /\ run' = "node" /\ bytes' = <<>>
      /\ UNCHANGED <<in, out, maxOut, low, state, extra, jobs, requests, cur,
                     rest, undone, crashed>>
  BY DEF HSet, HSetFails, Written, memVars
<1>2. DOMAIN bytes' = {}
  BY <1>1
<1>3. \/ redis' = redis
      \/ redis' = [p \in DOMAIN redis \cup DOMAIN bytes |->
                      IF p \in DOMAIN bytes THEN bytes[p] ELSE redis[p]]
  BY DEF HSet, HSetFails
<1>4. \A p \in DOMAIN redis' :
         \/ p \in DOMAIN bytes /\ redis'[p] = bytes[p]
         \/ p \in DOMAIN redis /\ redis'[p] = redis[p]
  BY <1>3
<1>5. TypeOK'
  BY <1>1, <1>2, <1>4
<1>6. FullAtMost' /\ PassOK'
  BY <1>1, <1>2 DEF FullAtMost, PassOK
<1>7. TimesOK'
  BY <1>1, <1>4 DEF TimesOK, PassOK
<1>8. \A p \in DOMAIN redis : redis[p].low # Default => redis'[p].low # Default
  BY <1>3, <1>4 DEF TimesOK, PassOK
<1>9. QED
  BY <1>5, <1>6, <1>7, <1>8

LEMMA RunKeeps ==
    ASSUME NInv, Run
    PROVE  NInv'
<1>1. CASE Tick \/ EndTick
  BY <1>1 DEF Tick, EndTick, memVars, NInv, TypeOK, FullAtMost, PassOK, TimesOK
<1>2. ASSUME NEW n \in Nodes, NextNode(n)
      PROVE  NInv'
  <2>1. IpsOf(n) \subseteq Ips
    BY DEF IpsOf
  <2>2. DOMAIN bytes = {}
    BY <1>2 DEF NextNode, NInv, PassOK
  <2>3. PassOK'
    BY <1>2, <2>2 DEF NextNode, NInv, PassOK, IpsOf
  <2>4. TypeOK' /\ FullAtMost' /\ TimesOK'
    BY <1>2, <2>1 DEF NextNode, memVars, NInv, TypeOK, FullAtMost, TimesOK
  <2>5. QED
    BY <2>3, <2>4 DEF NInv
<1>3. QED
  BY <1>1, <1>2, SetLowKeeps, MarshalKeeps, WrittenKeeps DEF Run

LEMMA NextNInv ==
    ASSUME NInv, [Next]_vars
    PROVE  NInv'
<1>1. CASE UNCHANGED vars
  BY <1>1 DEF vars, memVars, runVars, NInv, TypeOK, FullAtMost, PassOK, TimesOK, IpsOf
<1>2. QED
  BY <1>1, RequestKeeps, HandlerKeeps, RunKeeps DEF Next, Handler

THEOREM SpecNInv == Spec => []NInv
<1>1. Init => NInv
  BY InitNInv
<1>2. NInv /\ [Next]_vars => NInv'
  BY NextNInv
<1>3. QED
  BY <1>1, <1>2, PTL DEF Spec

-----------------------------------------------------------------------------
(* Memory and redis stay well formed, snapshots taken between the steps of *)
(* handlers included.                                                      *)
THEOREM TypeCorrect == Spec => []TypeOK
<1>1. NInv => TypeOK
  BY DEF NInv
<1>2. QED
  BY <1>1, SpecNInv, PTL

(* An ip is more than full only if it has no inbound bandwidth.            *)
THEOREM OverfullHolds == Spec => []OverfullOnlyWithoutIn
<1>1. NInv => OverfullOnlyWithoutIn
  BY DEF NInv, TypeOK, FullAtMost, OverfullOnlyWithoutIn
<1>2. QED
  BY <1>1, SpecNInv, PTL

(* A time that a request set is never shown as the default again.          *)
THEOREM NoFallbackHolds == Spec => NoFallback
<1> DEFINE Stays == \A p \in DOMAIN redis :
                        redis[p].low # Default => redis'[p].low # Default
<1>1. ASSUME NInv, [Next]_vars
      PROVE  [Stays]_vars
  <2>1. CASE redis' = redis
    BY <2>1
  <2>2. CASE HSet \/ HSetFails
    BY <1>1, <2>2, WrittenKeeps
  <2>3. [Next]_vars => redis' = redis \/ HSet \/ HSetFails
    BY DEF Next, Request, ArriveAny, Arrive, SetNodeRuntimeState,
           SetLowThresholdTime, Handler, HandlerStep, Run, Tick, EndTick,
           NextNode, SetLow, Marshal, vars
  <2>4. QED
    BY <1>1, <2>1, <2>2, <2>3
<1>2. QED
  BY <1>1, SpecNInv, PTL DEF Spec, NoFallback
=============================================================================
