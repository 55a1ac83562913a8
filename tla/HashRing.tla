------------------------------ MODULE HashRing ------------------------------
(***************************************************************************)
(* The HashRing of miku-tools/staging: nodes are put on a ring of spots,   *)
(* and a stream goes to the node of the first spot at or after its hash;   *)
(* or a node is drawn with a probability that is its share of the free     *)
(* bandwidth.  The ring is made anew by every operation that changes the   *)
(* nodes; the weights are made by AddNodes only.                           *)
(***************************************************************************)
EXTENDS Integers, Sequences, FiniteSets

CONSTANTS
    Nodes, Streams,
    Length,          \* HashRingLength (4096)
    Spots(_),        \* FnvHash(node:1), FnvHash(node:2) ... % Length
    HashOf(_),       \* FnvHash(stream) % Length
    Ips,             \* the lists of ips that pairs come with: [max, out]
    ByRatio,         \* sortType is constBwSortByRemainRatio
    Sort(_),         \* sort.Sort with the order of the missing model package
    Lists,           \* what AddNodes is called with
    Numbered,        \* node0, node1 ...
    MaxAdds          \* bound: calls of AddNodes

NoNode == "nil"
ASSUME LengthAssumption == Length \in Nat \ {0} /\ MaxAdds \in Nat
ASSUME NodeAssumption == NoNode \notin Nodes
ASSUME SpotsAssumption ==
    \A n \in Nodes : Spots(n) \subseteq 0..(Length - 1) /\ Spots(n) # {}
ASSUME HashAssumption == \A s \in Streams : HashOf(s) \in 0..(Length - 1)

Pair == [node : Nodes \cup {NoNode}, ips : Ips]
ASSUME IpsAssumption == Ips \subseteq Seq([max : Int, out : Int])
ASSUME ListsAssumption == Lists \subseteq Seq(Pair) /\ Numbered \in Seq(Nodes)

VARIABLES
    originNodes,   \* the nodes that were added, and the pair of each
    ring,          \* nodes: the occupied spots, and the node listed first
    rawPairList,   \* all pairs AddNodes ever got
    weightList, totalWeight,
    adds,          \* (history) calls of AddNodes
    early          \* (history) a node was drawn before the first of them

vars == <<originNodes, ring, rawPairList, weightList, totalWeight, adds, early>>

Init ==
    /\ originNodes = <<>> /\ ring = <<>>
    /\ rawPairList = <<>> /\ weightList = <<>>
    /\ totalWeight = 0 /\ adds = 0 /\ early = FALSE

-----------------------------------------------------------------------------
(* AddNodes, AddNode: such a pair is left out of the ring.                 *)
Unusable(p) == p.node = NoNode \/ Len(p.ips) = 0

Occupied(ns) == UNION {Spots(n) : n \in ns}

(* generate: of two nodes on one spot either may be first: the nodes come  *)
(* from a map and the sort is not stable.                                  *)
Generated(r, ns) ==
    DOMAIN r = Occupied(ns) /\ \A x \in DOMAIN r : r[x] \in ns /\ x \in Spots(r[x])

Rings(ns) == {r \in [Occupied(ns) -> Nodes] : Generated(r, ns)}

(* sortPairList: the free bandwidth of an ip, and the weight of a pair in  *)
(* hundredths of what it has, or in units of 10 MBps.                      *)
Remain(ip) == IF ip.max > ip.out THEN ip.max - ip.out ELSE 0

Total(f, n) == LET t[i \in 0..n] == IF i = 0 THEN 0 ELSE t[i - 1] + f[i] IN t[n]

Weight(p) ==
    LET remain == Total([i \in DOMAIN p.ips |-> Remain(p.ips[i])], Len(p.ips))
        max == Total([i \in DOMAIN p.ips |-> p.ips[i].max], Len(p.ips))
    IN  IF ~ByRatio THEN remain \div 10
        ELSE IF max > 0 THEN (100 * remain) \div max ELSE 0

(* AddNodes.  totalWeight adds up over calls, although each call weighs    *)
(* the whole list.                                                         *)
AddNodes(list) ==
    /\ adds < MaxAdds
    /\ adds' = adds + 1
    /\ LET kept == {i \in DOMAIN list : ~Unusable(list[i])}
           new == {list[i].node : i \in kept}
           last(n) == CHOOSE i \in kept :
                          /\ list[i].node = n
                          /\ \A j \in kept : list[j].node = n => j <= i
       IN  originNodes' = [n \in DOMAIN originNodes \cup new |->
                              IF n \in new THEN list[last(n)] ELSE originNodes[n]]
    /\ rawPairList' = Sort(rawPairList \o list)
    /\ weightList' = [i \in DOMAIN rawPairList' |-> Weight(rawPairList'[i])]
    /\ LET sum == totalWeight + Total(weightList', Len(weightList'))
       IN  totalWeight' = IF sum <= 0 THEN 1 ELSE sum
    /\ ring' \in Rings(DOMAIN originNodes')
    /\ UNCHANGED early

(* HashRingMap: many pairs without an ip.                                  *)
HashRingMap ==
    AddNodes([i \in DOMAIN Numbered |-> [node |-> Numbered[i], ips |-> <<>>]])

AddNode(p) ==
    /\ ~Unusable(p)
    /\ originNodes' = [n \in DOMAIN originNodes \cup {p.node} |->
                          IF n = p.node THEN p ELSE originNodes[n]]
    /\ ring' \in Rings(DOMAIN originNodes')
    /\ UNCHANGED <<rawPairList, weightList, totalWeight, adds, early>>

(* Mutant of RemoveNode: the ring is not made anew.                        *)
RemoveNodeOnly(n) ==
    /\ originNodes' = [m \in DOMAIN originNodes \ {n} |-> originNodes[m]]
    /\ UNCHANGED <<ring, rawPairList, weightList, totalWeight, adds, early>>

RemoveNode(n) ==
    /\ originNodes' = [m \in DOMAIN originNodes \ {n} |-> originNodes[m]]
    /\ ring' \in Rings(DOMAIN originNodes')
    /\ UNCHANGED <<rawPairList, weightList, totalWeight, adds, early>>

(* GetNodeByBwFairShare on a ring without a weight: the total becomes 1,   *)
(* which AddNodes will add to.  (A draw from a ring with one changes       *)
(* nothing; what it gives is GetNodeByBwFairShare below.)                  *)
DrawWithoutWeight ==
    /\ totalWeight <= 0
    /\ totalWeight' = 1
    /\ early' = TRUE
    /\ UNCHANGED <<originNodes, ring, rawPairList, weightList, adds>>

Next ==
    \/ DrawWithoutWeight
    \/ \E list \in Lists : AddNodes(list)
    \/ HashRingMap
    \/ \E p \in Pair : AddNode(p)
    \/ \E n \in Nodes : RemoveNode(n)

Spec == Init /\ [][Next]_vars

-----------------------------------------------------------------------------
Least(S) == CHOOSE x \in S : \A y \in S : x <= y

(* Mutant of Spot: the hash is taken modulo the number of spots.           *)
SpotModulo(h, r) ==
    CHOOSE x \in DOMAIN r :
        Cardinality({y \in DOMAIN r : y < x}) = h % Cardinality(DOMAIN r)

(* GetNodeKey: sort.Search, and from the last spot on to the first.        *)
Spot(h, r) ==
    LET after == {x \in DOMAIN r : x >= h}
    IN  IF after # {} THEN Least(after) ELSE Least(DOMAIN r)

Key(h, r) == IF DOMAIN r = {} THEN NoNode ELSE r[Spot(h, r)]

GetNodeKey(s) == Key(HashOf(s), ring)

(* GetNodeByConsistentHash: the pair of the key, or nil.                   *)
GetNodeByConsistentHash(s) ==
    IF GetNodeKey(s) \in DOMAIN originNodes THEN originNodes[GetNodeKey(s)] ELSE <<>>

(* Mutant of PreSum: the sum before the element is taken.                  *)
PreSumBefore(i) == Total(weightList, i - 1)

(* calPreSum.                                                              *)
PreSum(i) == Total(weightList, i)

(* GetNodeByBwFairShare for a draw of 1..totalWeight: sort.SearchInts; an  *)
(* index behind the list is nil, here 0.                                   *)
GetNodeByBwFairShare(random) ==
    LET found == {i \in DOMAIN rawPairList : PreSum(i) >= random}
    IN  IF found = {} THEN 0 ELSE Least(found)

(* GetNode: every algorithm but the one is taken for the hash.             *)
GetNode(algorithm, s, random) ==
    IF algorithm # "bwShare" THEN GetNodeByConsistentHash(s)
    ELSE IF GetNodeByBwFairShare(random) = 0 THEN <<>>
         ELSE rawPairList[GetNodeByBwFairShare(random)]

-----------------------------------------------------------------------------
(* A stream gets a node as long as there is one, and it is one that was    *)
(* added and not removed since, whatever was added and removed before.     *)
HashAnswersMember ==
    \A s \in Streams :
        IF DOMAIN originNodes = {} THEN GetNodeByConsistentHash(s) = <<>>
        ELSE /\ GetNodeKey(s) \in DOMAIN originNodes
             /\ GetNodeByConsistentHash(s) = originNodes[GetNodeKey(s)]

(* What the ring is for: when nodes are added, a stream moves only to one  *)
(* of them, when nodes are removed, only from one of them; unless its spot *)
(* belongs to two nodes, which may change places.                          *)
Moves(s) ==
    LET was == GetNodeKey(s)
        is == Key(HashOf(s), ring')
    IN  was # is =>
          \/ was \notin DOMAIN originNodes'
          \/ is \notin DOMAIN originNodes
          \/ \E n, m \in DOMAIN originNodes :
                n # m /\ Spot(HashOf(s), ring) \in Spots(n) \cap Spots(m)

OnlyNeighbours == [][\A s \in Streams : Moves(s)]_vars

(* Each pair is drawn by as many numbers as it has weight, so in the long  *)
(* run by its share.  When AddNodes was called once and there is free      *)
(* bandwidth, every number draws a pair; but if a node was drawn before    *)
(* that call, the last number draws nothing ever after.  (A second call    *)
(* counts the first list again, and the surplus draws nothing.)            *)
FairShare ==
    LET drawn(i) == {r \in 1..totalWeight : GetNodeByBwFairShare(r) = i}
    IN  /\ \A i \in DOMAIN rawPairList :
              Cardinality(drawn(i)) = Weight(rawPairList[i])
        /\ adds = 1 /\ (\E i \in DOMAIN weightList : weightList[i] > 0) =>
              drawn(0) = IF early THEN {totalWeight} ELSE {}
=============================================================================
