--------------------------- MODULE HashRingProofs ---------------------------
(***************************************************************************)
(* Proofs about HashRing for any ring length, any nodes and any number of  *)
(* virtual spots.                                                          *)
(***************************************************************************)
EXTENDS HashRing, FiniteSetTheorems, SequenceTheorems, TLAPS

(* The inductive invariant: the ring is one that generate can make of the  *)
(* nodes there are.                                                        *)
RingOK == DOMAIN originNodes \subseteq Nodes /\ ring \in Rings(DOMAIN originNodes)

LEMMA LeastIsLeast ==
    ASSUME NEW S, S \subseteq Nat, S # {}
    PROVE  Least(S) \in S /\ \A y \in S : Least(S) <= y
<1>1. PICK x \in S : \A y \in S : ~(<<y, x>> \in OpToRel(<, Nat))
  BY NatLessThanWellFounded, WFMin
<1>2. \A y \in S : ~(y < x)
  BY <1>1 DEF OpToRel
<1>3. \A y \in S : x <= y
  BY <1>2
<1>4. QED
  BY <1>3 DEF Least

LEMMA OccupiedOnRing ==
    ASSUME NEW ns, ns \subseteq Nodes
    PROVE  Occupied(ns) \subseteq Nat
BY LengthAssumption, SpotsAssumption DEF Occupied

(* sort.Search with the wrap-around ends on a spot of the ring, which is   *)
(* the least one at or after the hash, or the least of all.                *)
LEMMA SpotFound ==
    ASSUME NEW h, NEW r, DOMAIN r \subseteq Nat, DOMAIN r # {}
    PROVE  LET after == {x \in DOMAIN r : x >= h} IN
           /\ Spot(h, r) \in DOMAIN r
           /\ after # {} => Spot(h, r) >= h /\ \A y \in after : Spot(h, r) <= y
           /\ after = {} => \A y \in DOMAIN r : Spot(h, r) <= y
<1> DEFINE after == {x \in DOMAIN r : x >= h}
<1>1. CASE after # {}
  <2>1. after \subseteq Nat
    OBVIOUS
  <2>2. Least(after) \in after /\ \A y \in after : Least(after) <= y
    BY <1>1, <2>1, LeastIsLeast
  <2>3. Spot(h, r) = Least(after)
    BY <1>1 DEF Spot
  <2>4. QED
    BY <1>1, <2>2, <2>3
<1>2. CASE after = {}
  <2>1. Least(DOMAIN r) \in DOMAIN r /\ \A y \in DOMAIN r : Least(DOMAIN r) <= y
    BY LeastIsLeast
  <2>2. Spot(h, r) = Least(DOMAIN r)
    BY <1>2 DEF Spot
  <2>3. QED
    BY <1>2, <2>1, <2>2
<1>3. QED
  BY <1>1, <1>2

(* Two rings that have each other's spot for a hash have the same spot.    *)
LEMMA SameSpot ==
    ASSUME NEW h \in Nat, NEW r, NEW q,
           DOMAIN r \subseteq Nat, DOMAIN q \subseteq Nat,
           DOMAIN r # {}, DOMAIN q # {},
           Spot(h, r) \in DOMAIN q, Spot(h, q) \in DOMAIN r
    PROVE  Spot(h, r) = Spot(h, q)
<1>1. /\ Spot(h, r) \in DOMAIN r
      /\ {x \in DOMAIN r : x >= h} # {} =>
            /\ Spot(h, r) >= h
            /\ \A y \in {x \in DOMAIN r : x >= h} : Spot(h, r) <= y
      /\ {x \in DOMAIN r : x >= h} = {} => \A y \in DOMAIN r : Spot(h, r) <= y
  BY SpotFound
<1>2. /\ Spot(h, q) \in DOMAIN q
      /\ {x \in DOMAIN q : x >= h} # {} =>
            /\ Spot(h, q) >= h
            /\ \A y \in {x \in DOMAIN q : x >= h} : Spot(h, q) <= y
      /\ {x \in DOMAIN q : x >= h} = {} => \A y \in DOMAIN q : Spot(h, q) <= y
  BY SpotFound
<1> DEFINE a == Spot(h, r)
           b == Spot(h, q)
<1>3. a \in Nat /\ b \in Nat /\ a \in DOMAIN q /\ b \in DOMAIN r
  BY <1>1, <1>2
<1> HIDE DEF a, b
<1>4. a <= b
  BY <1>1, <1>2, <1>3 DEF a, b
<1>5. b <= a
  BY <1>1, <1>2, <1>3 DEF a, b
<1>6. QED
  BY <1>3, <1>4, <1>5 DEF a, b

-----------------------------------------------------------------------------
LEMMA RingInit == Init => RingOK
BY DEF Init, RingOK, Rings, Generated, Occupied

LEMMA RingStep == RingOK /\ [Next]_vars => RingOK'
<1> SUFFICES ASSUME RingOK, [Next]_vars PROVE RingOK'
  OBVIOUS
<1> USE DEF RingOK
<1>1. ASSUME NEW list, \A i \in DOMAIN list : list[i].node \in Nodes \cup {NoNode},
             AddNodes(list)
      PROVE  RingOK'
  <2> DEFINE kept == {i \in DOMAIN list : ~Unusable(list[i])}
             new == {list[i].node : i \in kept}
  <2>1. new \subseteq Nodes
    BY <1>1 DEF Unusable
  <2>2. DOMAIN originNodes' = DOMAIN originNodes \cup new
    BY <1>1 DEF AddNodes
  <2>3. ring' \in Rings(DOMAIN originNodes')
    BY <1>1 DEF AddNodes
  <2>4. QED
    BY <2>1, <2>2, <2>3
<1>2. ASSUME NEW p \in Pair, AddNode(p) PROVE RingOK'
  BY <1>2 DEF AddNode, Unusable, Pair
<1>3. ASSUME NEW n \in Nodes, RemoveNode(n) PROVE RingOK'
  BY <1>3 DEF RemoveNode
<1>4. CASE UNCHANGED vars
  BY <1>4 DEF vars, Rings, Generated
<1>5. ASSUME NEW list \in Lists, AddNodes(list) PROVE RingOK'
  <2>1. \A i \in DOMAIN list : list[i] \in Pair
    BY ListsAssumption
  <2>2. \A i \in DOMAIN list : list[i].node \in Nodes \cup {NoNode}
    BY <2>1 DEF Pair
  <2>3. QED
    BY <1>1, <1>5, <2>2
<1>6. ASSUME HashRingMap PROVE RingOK'
  <2> DEFINE list == [i \in DOMAIN Numbered |-> [node |-> Numbered[i], ips |-> <<>>]]
  <2>1. \A i \in DOMAIN list : list[i].node \in Nodes \cup {NoNode}
    BY ListsAssumption
  <2>2. AddNodes(list)
    BY <1>6 DEF HashRingMap
  <2> HIDE DEF list
  <2>3. QED
    BY <1>1, <2>1, <2>2
<1>7. CASE DrawWithoutWeight
  BY <1>7 DEF DrawWithoutWeight, Rings, Generated
<1>8. QED
  BY <1>2, <1>3, <1>4, <1>5, <1>6, <1>7 DEF Next

(* For any ring: the ring is at every time one of its nodes.               *)
THEOREM RingInvariance == Spec => []RingOK
<1>1. QED
  BY RingInit, RingStep, PTL DEF Spec

(* A stream gets a node as long as there is one, whatever was added and    *)
(* removed, for any number of nodes and spots.                             *)
THEOREM AnswersMember == Spec => []HashAnswersMember
<1>1. RingOK => HashAnswersMember
  <2> SUFFICES ASSUME RingOK, NEW s \in Streams
               PROVE  IF DOMAIN originNodes = {} THEN GetNodeByConsistentHash(s) = <<>>
                      ELSE /\ GetNodeKey(s) \in DOMAIN originNodes
                           /\ GetNodeByConsistentHash(s) = originNodes[GetNodeKey(s)]
    BY DEF HashAnswersMember
  <2>1. CASE DOMAIN originNodes = {}
    BY <2>1 DEF GetNodeByConsistentHash
  <2>2. CASE DOMAIN originNodes # {}
    <3>1. DOMAIN ring \subseteq Nat /\ DOMAIN ring = Occupied(DOMAIN originNodes)
      BY OccupiedOnRing DEF RingOK, Rings, Generated
    <3>2. DOMAIN ring # {}
      BY <2>2, <3>1, SpotsAssumption DEF RingOK, Occupied
    <3>3. Spot(HashOf(s), ring) \in DOMAIN ring
      BY <3>1, <3>2, SpotFound
    <3>4. GetNodeKey(s) = ring[Spot(HashOf(s), ring)]
      BY <3>2 DEF GetNodeKey, Key
    <3>5. GetNodeKey(s) \in DOMAIN originNodes
      BY <3>3, <3>4 DEF RingOK, Rings, Generated
    <3>6. QED
      BY <2>2, <3>5 DEF GetNodeByConsistentHash
  <2>3. QED
    BY <2>1, <2>2
<1>2. QED
  BY <1>1, RingInvariance, PTL

(* Consistency: no stream moves between two nodes that were there before   *)
(* and are there after, unless they share its spot.                        *)
THEOREM MovesToNeighbours == Spec => OnlyNeighbours
<1>1. RingOK /\ RingOK' => \A s \in Streams : Moves(s)
  <2> SUFFICES ASSUME RingOK, RingOK', NEW s \in Streams,
                      GetNodeKey(s) # Key(HashOf(s), ring'),
                      GetNodeKey(s) \in DOMAIN originNodes',
                      Key(HashOf(s), ring') \in DOMAIN originNodes
               PROVE  \E n, m \in DOMAIN originNodes :
                         n # m /\ Spot(HashOf(s), ring) \in Spots(n) \cap Spots(m)
    BY DEF Moves
  <2> DEFINE h == HashOf(s)
             was == GetNodeKey(s)
             is == Key(h, ring')
  <2>1. /\ DOMAIN ring \subseteq Nat /\ DOMAIN ring = Occupied(DOMAIN originNodes)
        /\ DOMAIN ring' \subseteq Nat /\ DOMAIN ring' = Occupied(DOMAIN originNodes')
    BY OccupiedOnRing DEF RingOK, Rings, Generated
  <2>2. was \in Nodes /\ is \in Nodes
    BY DEF RingOK
  <2>3. DOMAIN ring # {} /\ DOMAIN ring' # {}
    BY <2>2, NodeAssumption DEF GetNodeKey, Key
  <2>4. was = ring[Spot(h, ring)] /\ is = ring'[Spot(h, ring')]
    BY <2>3 DEF GetNodeKey, Key
  <2>5. Spot(h, ring) \in DOMAIN ring /\ Spot(h, ring') \in DOMAIN ring'
    BY <2>1, <2>3, SpotFound
  <2>6. Spot(h, ring) \in Spots(was) /\ was \in DOMAIN originNodes
    BY <2>4, <2>5 DEF RingOK, Rings, Generated
  <2>7. Spot(h, ring') \in Spots(is) /\ is \in DOMAIN originNodes'
    BY <2>4, <2>5 DEF RingOK, Rings, Generated
  <2>8. Spot(h, ring) \in DOMAIN ring' /\ Spot(h, ring') \in DOMAIN ring
    BY <2>1, <2>6, <2>7 DEF Occupied
  <2>9. h \in Nat
    BY HashAssumption, LengthAssumption
  <2>10. Spot(h, ring) = Spot(h, ring')
    BY <2>1, <2>3, <2>8, <2>9, SameSpot
  <2>11. QED
    BY <2>6, <2>7, <2>10
<1>2. QED
  BY <1>1, RingInvariance, PTL DEF Spec, OnlyNeighbours

-----------------------------------------------------------------------------
(* Induction, as a fact about sets of naturals.                            *)
LEMMA SetInduction ==
    ASSUME NEW S, 0 \in S, \A n \in Nat : n \in S => n + 1 \in S
    PROVE  Nat \subseteq S
<1> SUFFICES ASSUME Nat \ S # {} PROVE FALSE
  OBVIOUS
<1>1. PICK x \in Nat \ S : \A y \in Nat \ S : ~(<<y, x>> \in OpToRel(<, Nat))
  <2> DEFINE T == Nat \ S
  <2>1. T \subseteq Nat /\ T # {}
    OBVIOUS
  <2> HIDE DEF T
  <2>2. \E x \in T : \A y \in T : ~(<<y, x>> \in OpToRel(<, Nat))
    BY <2>1, NatLessThanWellFounded, WFMin
  <2>3. QED
    BY <2>2 DEF T
<1>2. \A y \in Nat \ S : ~(y < x)
  BY <1>1 DEF OpToRel
<1>3. x # 0 /\ x - 1 \in Nat
  OBVIOUS
<1>4. x - 1 \in S
  BY <1>2, <1>3
<1>5. (x - 1) + 1 \in S
  BY <1>3, <1>4
<1>6. QED
  BY <1>5

(* t holds the sums of the first elements of f, up to the n-th.            *)
Sums(t, f, n) ==
    t = [i \in 0..n |-> IF i = 0 THEN 0 ELSE t[i - 1] + f[i]]

LEMMA SumsExist ==
    ASSUME NEW f, NEW m \in Nat, \A i \in 1..m : f[i] \in Int
    PROVE  \A n \in 0..m : \E t \in [0..n -> Int] : Sums(t, f, n)
<1> DEFINE S == {n \in Nat : n <= m => \E t \in [0..n -> Int] : Sums(t, f, n)}
<1>1. 0 \in S
  <2>1. [i \in 0..0 |-> 0] \in [0..0 -> Int] /\ Sums([i \in 0..0 |-> 0], f, 0)
    BY DEF Sums
  <2>2. QED
    BY <2>1
<1>2. ASSUME NEW n \in Nat, n \in S
      PROVE  n + 1 \in S
  <2> SUFFICES ASSUME n + 1 <= m
               PROVE  \E t \in [0..(n + 1) -> Int] : Sums(t, f, n + 1)
    OBVIOUS
  <2>1. PICK t \in [0..n -> Int] : Sums(t, f, n)
    BY <1>2
  <2> DEFINE u == [i \in 0..(n + 1) |-> IF i = n + 1 THEN t[n] + f[n + 1] ELSE t[i]]
  <2>2. f[n + 1] \in Int
    OBVIOUS
  <2>3. u \in [0..(n + 1) -> Int]
    BY <2>1, <2>2
  <2>4. ASSUME NEW i \in 0..(n + 1)
        PROVE  u[i] = IF i = 0 THEN 0 ELSE u[i - 1] + f[i]
    <3>1. CASE i = n + 1
      BY <3>1, <2>1
    <3>2. CASE i # n + 1
      <4>1. i \in 0..n /\ u[i] = t[i]
        BY <3>2
      <4>2. t[i] = IF i = 0 THEN 0 ELSE t[i - 1] + f[i]
        BY <2>1, <4>1 DEF Sums
      <4>3. QED
        BY <4>1, <4>2
    <3>3. QED
      BY <3>1, <3>2
  <2>5. Sums(u, f, n + 1)
    BY <2>4 DEF Sums
  <2>6. QED
    BY <2>3, <2>5
<1>3. Nat \subseteq S
  <2> HIDE DEF S
  <2> QED
    BY <1>1, <1>2, SetInduction
<1>4. QED
  BY <1>3

LEMMA SumsAgree ==
    ASSUME NEW f, NEW m \in Nat, NEW n \in 0..m, NEW t, NEW u,
           Sums(t, f, m), Sums(u, f, n)
    PROVE  \A i \in 0..n : t[i] = u[i]
<1> DEFINE S == {i \in Nat : i <= n => t[i] = u[i]}
<1>1. 0 \in S
  BY DEF Sums
<1>2. ASSUME NEW i \in Nat, i \in S
      PROVE  i + 1 \in S
  <2> SUFFICES ASSUME i + 1 <= n
               PROVE  t[i + 1] = u[i + 1]
    OBVIOUS
  <2>1. t[i] = u[i]
    BY <1>2
  <2>2. t[i + 1] = t[i] + f[i + 1]
    BY DEF Sums
  <2>3. u[i + 1] = u[i] + f[i + 1]
    BY DEF Sums
  <2>4. QED
    BY <2>1, <2>2, <2>3
<1>3. Nat \subseteq S
  <2> HIDE DEF S
  <2> QED
    BY <1>1, <1>2, SetInduction
<1>4. QED
  BY <1>3

(* Total is the sum that its definition says it is.                        *)
LEMMA TotalRec ==
    ASSUME NEW f, NEW m \in Nat, \A i \in 1..m : f[i] \in Int
    PROVE  /\ Total(f, 0) = 0
           /\ \A n \in 0..m : Total(f, n) \in Int
           /\ \A n \in 1..m : Total(f, n) = Total(f, n - 1) + f[n]
<1> DEFINE T(n) == CHOOSE t : Sums(t, f, n)
<1>1. ASSUME NEW n \in 0..m
      PROVE  Sums(T(n), f, n) /\ Total(f, n) = T(n)[n] /\ T(n)[n] \in Int
  <2>1. PICK t \in [0..n -> Int] : Sums(t, f, n)
    BY SumsExist
  <2>2. Sums(T(n), f, n)
    BY <2>1
  <2>3. Total(f, n) = T(n)[n]
    BY DEF Total, Sums
  <2>4. T(n)[n] = t[n]
    <3> HIDE DEF T
    <3> QED
      BY <2>1, <2>2, SumsAgree
  <2>5. QED
    BY <2>1, <2>2, <2>3, <2>4
<1>2. ASSUME NEW n \in 1..m
      PROVE  Total(f, n) = Total(f, n - 1) + f[n]
  <2>1. n \in 0..m /\ n - 1 \in 0..m
    OBVIOUS
  <2>2. Sums(T(n), f, n) /\ Sums(T(n - 1), f, n - 1)
    BY <1>1, <2>1
  <2>3. T(n)[n - 1] = T(n - 1)[n - 1]
    <3> HIDE DEF T
    <3> QED
      BY <2>1, <2>2, SumsAgree
  <2>4. T(n)[n] = T(n)[n - 1] + f[n]
    <3> HIDE DEF T
    <3> QED
      BY <2>2 DEF Sums
  <2>5. Total(f, n) = T(n)[n] /\ Total(f, n - 1) = T(n - 1)[n - 1]
    BY <1>1, <2>1
  <2>6. QED
    BY <2>3, <2>4, <2>5
<1>3. Total(f, 0) = 0
  <2>1. Sums(T(0), f, 0) /\ Total(f, 0) = T(0)[0]
    BY <1>1
  <2> HIDE DEF T
  <2> QED
    BY <2>1 DEF Sums
<1>4. QED
  BY <1>1, <1>2, <1>3

LEMMA TotalGrows ==
    ASSUME NEW f, NEW m \in Nat, \A i \in 1..m : f[i] \in Nat
    PROVE  \A i \in 0..m, j \in 0..m :
              /\ Total(f, i) \in Nat
              /\ i <= j => Total(f, i) <= Total(f, j)
<1> DEFINE S == {j \in Nat : j <= m =>
                    \A i \in 0..j : Total(f, i) \in Nat /\ Total(f, i) <= Total(f, j)}
<1>1. 0 \in S
  BY TotalRec
<1>2. ASSUME NEW j \in Nat, j \in S
      PROVE  j + 1 \in S
  <2> SUFFICES ASSUME j + 1 <= m, NEW i \in 0..(j + 1)
               PROVE  Total(f, i) \in Nat /\ Total(f, i) <= Total(f, j + 1)
    OBVIOUS
  <2>1. j + 1 \in 1..m /\ f[j + 1] \in Nat
    OBVIOUS
  <2>2. Total(f, j + 1) = Total(f, j) + f[j + 1]
    <3>1. Total(f, j + 1) = Total(f, (j + 1) - 1) + f[j + 1]
      BY <2>1, TotalRec
    <3>2. (j + 1) - 1 = j
      OBVIOUS
    <3>3. QED
      BY <3>1, <3>2
  <2>3. Total(f, j) \in Nat
    BY <1>2
  <2>4. CASE i = j + 1
    BY <2>1, <2>2, <2>3, <2>4
  <2>5. CASE i # j + 1
    <3>1. Total(f, i) \in Nat /\ Total(f, i) <= Total(f, j)
      BY <1>2, <2>5
    <3>2. QED
      BY <2>1, <2>2, <2>3, <3>1
  <2>6. QED
    BY <2>4, <2>5
<1>3. Nat \subseteq S
  <2> HIDE DEF S
  <2> QED
    BY <1>1, <1>2, SetInduction
<1>4. QED
  BY <1>3

-----------------------------------------------------------------------------
(* Pairs whose ips have integers for their bandwidths; a sort of such pairs*)
(* has such pairs.                                                         *)
Weighed == [node : Nodes \cup {NoNode}, ips : Seq([max : Int, out : Int])]
SortKeepsPairs == \A s \in Seq(Weighed) : Sort(s) \in Seq(Weighed)

(* The weights are those of the pairs, and what is drawn from is the sum of*)
(* the weights, or more: after a second call of AddNodes.                  *)
WeightInv ==
    /\ rawPairList \in Seq(Weighed)
    /\ weightList = [i \in DOMAIN rawPairList |-> Weight(rawPairList[i])]
    /\ adds \in Nat /\ totalWeight \in Nat
    /\ early \in BOOLEAN
    /\ adds = 0 => totalWeight = IF early THEN 1 ELSE 0
    /\ adds # 0 => totalWeight > 0
    /\ Total(weightList, Len(weightList)) <= totalWeight
    /\ adds = 1 /\ (\E i \in DOMAIN weightList : weightList[i] > 0) =>
          totalWeight = Total(weightList, Len(weightList)) + IF early THEN 1 ELSE 0

LEMMA WeightIsNat ==
    ASSUME NEW p \in Weighed
    PROVE  Weight(p) \in Nat
<1> DEFINE free == [i \in DOMAIN p.ips |-> Remain(p.ips[i])]
           most == [i \in DOMAIN p.ips |-> p.ips[i].max]
           n == Len(p.ips)
<1>1. p.ips \in Seq([max : Int, out : Int])
  BY DEF Weighed
<1>2. n \in Nat /\ DOMAIN p.ips = 1..n
  BY <1>1
<1>3. \A i \in 1..n : p.ips[i] \in [max : Int, out : Int]
  BY <1>1, ElementOfSeq
<1>4. \A i \in 1..n : free[i] \in Nat
  BY <1>2, <1>3 DEF Remain
<1>5. \A i \in 1..n : most[i] \in Int
  BY <1>2, <1>3
<1>6. Total(free, n) \in Nat
  <2> HIDE DEF free, n
  <2>1. n \in 0..n
    BY <1>2
  <2>2. QED
    BY <1>2, <1>4, <2>1, TotalGrows
<1>7. Total(most, n) \in Int
  <2> HIDE DEF most, n
  <2>1. n \in 0..n
    BY <1>2
  <2>2. QED
    BY <1>2, <1>5, <2>1, TotalRec
<1>8. Weight(p) = IF ~ByRatio THEN Total(free, n) \div 10
                  ELSE IF Total(most, n) > 0
                       THEN (100 * Total(free, n)) \div Total(most, n) ELSE 0
  BY DEF Weight
<1> HIDE DEF free, most
<1>9. \A x \in Nat : x \div 10 \in Nat
  OBVIOUS
<1>10. \A x \in Nat, y \in Int : y > 0 => (100 * x) \div y \in Nat
  OBVIOUS
<1>11. QED
  BY <1>6, <1>7, <1>8, <1>9, <1>10

LEMMA WeightsAreNat ==
    ASSUME NEW s \in Seq(Weighed),
           NEW w, w = [i \in DOMAIN s |-> Weight(s[i])]
    PROVE  Len(w) = Len(s) /\ DOMAIN w = 1..Len(s) /\ \A i \in 1..Len(w) : w[i] \in Nat
<1>1. DOMAIN s = 1..Len(s) /\ Len(s) \in Nat
  OBVIOUS
<1>2. \A i \in 1..Len(s) : s[i] \in Weighed
  OBVIOUS
<1>3. \A i \in 1..Len(s) : w[i] \in Nat
  BY <1>1, <1>2, WeightIsNat
<1>4. w \in Seq(Nat) /\ Len(w) = Len(s)
  BY <1>1, <1>3
<1>5. QED
  BY <1>1, <1>3, <1>4

LEMMA AddedWeights ==
    ASSUME SortKeepsPairs, WeightInv, NEW list \in Seq(Weighed), AddNodes(list)
    PROVE  WeightInv'
<1> DEFINE total == Total(weightList', Len(weightList'))
<1>1. rawPairList \o list \in Seq(Weighed)
  BY DEF WeightInv
<1>2. rawPairList' \in Seq(Weighed)
  BY <1>1 DEF SortKeepsPairs, AddNodes
<1>3. weightList' = [i \in DOMAIN rawPairList' |-> Weight(rawPairList'[i])]
  BY DEF AddNodes
<1>4. /\ Len(weightList') \in Nat
      /\ DOMAIN weightList' = 1..Len(weightList')
      /\ \A i \in 1..Len(weightList') : weightList'[i] \in Nat
  <2>1. Len(rawPairList') \in Nat
    BY <1>2
  <2>2. QED
    BY <1>2, <1>3, <2>1, WeightsAreNat
<1>5. total \in Nat
  <2>1. Len(weightList') \in 0..Len(weightList')
    BY <1>4
  <2>2. QED
    BY <1>4, <2>1, TotalGrows
<1>6. ASSUME NEW i \in DOMAIN weightList', weightList'[i] > 0
      PROVE  total > 0
  <2>1. /\ i \in 1..Len(weightList') /\ i \in 0..Len(weightList')
        /\ i - 1 \in 0..Len(weightList')
        /\ Len(weightList') \in 0..Len(weightList') /\ i <= Len(weightList')
        /\ \A j \in 1..Len(weightList') : weightList'[j] \in Int
    BY <1>4
  <2>2. Total(weightList', i) = Total(weightList', i - 1) + weightList'[i]
    BY <1>4, <2>1, TotalRec
  <2>3. /\ Total(weightList', i - 1) \in Nat
        /\ Total(weightList', i) <= Total(weightList', Len(weightList'))
    BY <1>4, <2>1, TotalGrows
  <2>4. QED
    BY <1>4, <1>5, <1>6, <2>1, <2>2, <2>3
<1>7. totalWeight' = IF totalWeight + total <= 0 THEN 1 ELSE totalWeight + total
  BY DEF AddNodes
<1>8. adds' = adds + 1
  BY DEF AddNodes
<1>9. /\ adds \in Nat /\ totalWeight \in Nat /\ early' = early /\ early \in BOOLEAN
      /\ adds = 0 => totalWeight = IF early THEN 1 ELSE 0
  BY DEF WeightInv, AddNodes
<1>10. totalWeight' \in Nat /\ total <= totalWeight' /\ totalWeight' > 0
  BY <1>5, <1>7, <1>9
<1>11. adds' = 1 /\ (\E i \in DOMAIN weightList' : weightList'[i] > 0) =>
           totalWeight' = total + IF early' THEN 1 ELSE 0
  BY <1>5, <1>6, <1>7, <1>8, <1>9
<1>12. QED
  BY <1>2, <1>3, <1>8, <1>9, <1>10, <1>11 DEF WeightInv

LEMMA WeightInvStep == ASSUME SortKeepsPairs, WeightInv, [Next]_vars PROVE WeightInv'
<1>1. ASSUME NEW list \in Lists, AddNodes(list)
      PROVE  WeightInv'
  <2>1. list \in Seq(Pair) /\ Pair \subseteq Weighed
    BY ListsAssumption, IpsAssumption DEF Pair, Weighed
  <2>2. list \in Seq(Weighed)
    BY <2>1
  <2>3. QED
    BY <1>1, <2>2, AddedWeights
<1>2. CASE HashRingMap
  <2> DEFINE list == [i \in DOMAIN Numbered |-> [node |-> Numbered[i], ips |-> <<>>]]
  <2>1. Numbered \in Seq(Nodes)
    BY ListsAssumption
  <2>2. <<>> \in Seq([max : Int, out : Int])
    OBVIOUS
  <2>3. \A i \in 1..Len(Numbered) : [node |-> Numbered[i], ips |-> <<>>] \in Weighed
    BY <2>1, <2>2 DEF Weighed
  <2>4. list \in Seq(Weighed)
    BY <2>1, <2>3
  <2>5. AddNodes(list)
    BY <1>2 DEF HashRingMap
  <2> HIDE DEF list
  <2>6. QED
    BY <2>4, <2>5, AddedWeights
<1>3. CASE UNCHANGED <<rawPairList, weightList, totalWeight, adds, early>>
  BY <1>3 DEF WeightInv
<1>4. CASE DrawWithoutWeight
  <2>1. adds = 0 /\ totalWeight = 0 /\ totalWeight' = 1 /\ early'
    BY <1>4 DEF DrawWithoutWeight, WeightInv
  <2>2. UNCHANGED <<rawPairList, weightList, adds>>
    BY <1>4 DEF DrawWithoutWeight
  <2>3. Total(weightList, Len(weightList))' = Total(weightList, Len(weightList))
    BY <2>2
  <2>4. Total(weightList, Len(weightList)) \in Nat
    <3>1. DOMAIN rawPairList = 1..Len(rawPairList) /\ Len(rawPairList) \in Nat
      BY DEF WeightInv
    <3>2. Len(weightList) \in Nat /\ \A i \in 1..Len(weightList) : weightList[i] \in Nat
      BY <3>1, WeightsAreNat DEF WeightInv
    <3>3. Len(weightList) \in 0..Len(weightList)
      BY <3>2
    <3>4. QED
      BY <3>2, <3>3, TotalGrows
  <2>5. QED
    BY <2>1, <2>2, <2>3, <2>4, <1>4 DEF DrawWithoutWeight, WeightInv
<1>5. QED
  BY <1>1, <1>2, <1>3, <1>4 DEF Next, vars, AddNode, RemoveNode

(* The numbers that draw a pair.                                           *)
LEMMA DrawnInterval ==
    ASSUME WeightInv, NEW i \in DOMAIN rawPairList, NEW r \in 1..totalWeight
    PROVE  GetNodeByBwFairShare(r) = i <=> PreSum(i - 1) < r /\ r <= PreSum(i)
<1> DEFINE n == Len(weightList)
           found == {j \in DOMAIN rawPairList : PreSum(j) >= r}
<1>1. /\ DOMAIN rawPairList = 1..n /\ n \in Nat
      /\ \A j \in 1..n : weightList[j] \in Nat
  <2>1. rawPairList \in Seq(Weighed) /\ DOMAIN rawPairList = 1..Len(rawPairList)
        /\ Len(rawPairList) \in Nat
    BY DEF WeightInv
  <2>2. QED
    BY <2>1, WeightsAreNat DEF WeightInv
<1>2. \A j, k \in 0..n : PreSum(j) \in Nat /\ (j <= k => PreSum(j) <= PreSum(k))
  <2> HIDE DEF n
  <2> QED
    BY <1>1, TotalGrows DEF PreSum
<1>3. PreSum(0) = 0
  BY <1>1, TotalRec DEF PreSum
<1>4. i \in 1..n /\ i - 1 \in 0..n /\ i \in 0..n
  BY <1>1
<1>5. ASSUME PreSum(i - 1) < r, r <= PreSum(i)
      PROVE  GetNodeByBwFairShare(r) = i
  <2>1. i \in found
    BY <1>1, <1>2, <1>4, <1>5
  <2>2. \A j \in found : i <= j
    <3>1. ASSUME NEW j \in found, j < i PROVE FALSE
      <4>1. j \in 0..n /\ j <= i - 1
        BY <1>1, <1>4, <3>1
      <4>2. PreSum(j) <= PreSum(i - 1)
        BY <1>2, <1>4, <4>1
      <4>3. QED
        BY <1>2, <1>4, <1>5, <3>1, <4>1, <4>2
    <3>2. QED
      BY <1>1, <1>4, <3>1
  <2>3. found \subseteq Nat /\ found # {}
    BY <1>1, <2>1
  <2>4. Least(found) \in found /\ \A j \in found : Least(found) <= j
    <3> HIDE DEF found
    <3> QED
      BY <2>3, LeastIsLeast
  <2>5. Least(found) = i
    <3> HIDE DEF found
    <3>1. i <= Least(found) /\ Least(found) <= i /\ i \in Nat /\ Least(found) \in Nat
      BY <2>1, <2>2, <2>3, <2>4
    <3>2. QED
      BY <3>1
  <2>6. QED
    BY <2>3, <2>5 DEF GetNodeByBwFairShare
<1>6. ASSUME GetNodeByBwFairShare(r) = i
      PROVE  PreSum(i - 1) < r /\ r <= PreSum(i)
  <2>1. found # {} /\ i = Least(found)
    <3>1. i # 0
      BY <1>4
    <3>2. GetNodeByBwFairShare(r) = IF found = {} THEN 0 ELSE Least(found)
      BY DEF GetNodeByBwFairShare
    <3>3. QED
      BY <1>6, <3>1, <3>2
  <2>2. found \subseteq Nat
    BY <1>1
  <2>3. i \in found /\ \A j \in found : i <= j
    <3> HIDE DEF found
    <3> QED
      BY <2>1, <2>2, LeastIsLeast
  <2>4. CASE i = 1
    BY <1>3, <2>3, <2>4
  <2>5. CASE i # 1
    <3>1. i - 1 \in 1..n /\ ~(i <= i - 1)
      BY <1>4, <2>5
    <3>2. i - 1 \notin found
      BY <2>3, <3>1
    <3>3. ~(PreSum(i - 1) >= r)
      BY <1>1, <3>1, <3>2
    <3>4. QED
      BY <1>2, <1>4, <2>3, <3>3
  <2>6. QED
    BY <2>4, <2>5
<1>7. QED
  BY <1>5, <1>6

LEMMA WeightInvFair == ASSUME WeightInv PROVE FairShare
<1> DEFINE n == Len(weightList)
           drawn(i) == {r \in 1..totalWeight : GetNodeByBwFairShare(r) = i}
<1>1. /\ DOMAIN rawPairList = 1..n /\ DOMAIN weightList = 1..n /\ n \in Nat
      /\ \A j \in 1..n : weightList[j] \in Nat /\ weightList[j] = Weight(rawPairList[j])
  <2>1. rawPairList \in Seq(Weighed) /\ DOMAIN rawPairList = 1..Len(rawPairList)
        /\ Len(rawPairList) \in Nat
    BY DEF WeightInv
  <2>2. QED
    BY <2>1, WeightsAreNat DEF WeightInv
<1>2. \A j, k \in 0..n : PreSum(j) \in Nat /\ (j <= k => PreSum(j) <= PreSum(k))
  <2> HIDE DEF n
  <2> QED
    BY <1>1, TotalGrows DEF PreSum
<1>3. \A j \in 1..n : PreSum(j) = PreSum(j - 1) + weightList[j]
  <2> HIDE DEF n
  <2> QED
    BY <1>1, TotalRec DEF PreSum
<1>4. totalWeight \in Nat /\ PreSum(n) <= totalWeight
  BY DEF WeightInv, PreSum
<1>5. ASSUME NEW i \in DOMAIN rawPairList
      PROVE  Cardinality(drawn(i)) = Weight(rawPairList[i])
  <2>1. i \in 1..n /\ i - 1 \in 0..n /\ i \in 0..n /\ n \in 0..n
    BY <1>1
  <2>2. PreSum(i) <= totalWeight /\ PreSum(i) \in Nat /\ PreSum(i - 1) \in Nat
    <3>1. PreSum(i) <= PreSum(n) /\ PreSum(i) \in Nat /\ PreSum(n) \in Nat
          /\ PreSum(i - 1) \in Nat
      BY <1>2, <2>1
    <3>2. QED
      BY <1>4, <3>1
  <2>3. drawn(i) = (PreSum(i - 1) + 1)..PreSum(i)
    <3>1. \A r \in 1..totalWeight :
             GetNodeByBwFairShare(r) = i <=> PreSum(i - 1) < r /\ r <= PreSum(i)
      BY DrawnInterval
    <3>2. QED
      BY <1>4, <2>2, <3>1
  <2>4. PreSum(i) = PreSum(i - 1) + weightList[i] /\ weightList[i] \in Nat
        /\ weightList[i] = Weight(rawPairList[i])
    BY <1>1, <1>3, <2>1
  <2>5. Cardinality((PreSum(i - 1) + 1)..PreSum(i)) =
            IF PreSum(i - 1) + 1 > PreSum(i) THEN 0
            ELSE PreSum(i) - (PreSum(i - 1) + 1) + 1
    <3>1. PreSum(i - 1) + 1 \in Int /\ PreSum(i) \in Int
      BY <2>2
    <3>2. QED
      BY <3>1, FS_Interval
  <2> HIDE DEF drawn
  <2>6. QED
    BY <2>2, <2>3, <2>4, <2>5
<1>6. ASSUME adds = 1, NEW i \in DOMAIN weightList, weightList[i] > 0
      PROVE  drawn(0) = IF early THEN {totalWeight} ELSE {}
  <2>1. totalWeight = PreSum(n) + IF early THEN 1 ELSE 0
    BY <1>6 DEF WeightInv, PreSum
  <2>2. n \in DOMAIN rawPairList /\ PreSum(n) \in Nat /\ early \in BOOLEAN
    <3>1. n \in 0..n /\ n \in DOMAIN rawPairList
      BY <1>1
    <3>2. QED
      BY <1>2, <3>1 DEF WeightInv
  <2>3. ASSUME NEW r \in 1..totalWeight, r <= PreSum(n)
        PROVE  GetNodeByBwFairShare(r) # 0
    <3> DEFINE found == {j \in DOMAIN rawPairList : PreSum(j) >= r}
    <3>1. n \in found
      BY <1>4, <2>2, <2>3
    <3>2. found \subseteq Nat
      BY <1>1
    <3>3. Least(found) \in found
      <4> HIDE DEF found
      <4> QED
        BY <3>1, <3>2, LeastIsLeast
    <3>4. Least(found) # 0
      BY <1>1, <3>3
    <3>5. GetNodeByBwFairShare(r) = Least(found)
      BY <3>1 DEF GetNodeByBwFairShare
    <3>6. QED
      BY <3>4, <3>5
  <2>4. ASSUME NEW r \in 1..totalWeight, r > PreSum(n)
        PROVE  GetNodeByBwFairShare(r) = 0
    <3>1. ASSUME NEW j \in DOMAIN rawPairList
          PROVE  ~(PreSum(j) >= r)
      <4>1. j \in 0..n /\ n \in 0..n /\ j <= n
        BY <1>1
      <4>2. PreSum(j) <= PreSum(n) /\ PreSum(j) \in Nat
        BY <1>2, <4>1
      <4>3. QED
        BY <2>2, <2>4, <4>2
    <3>2. QED
      BY <3>1 DEF GetNodeByBwFairShare
  <2>5. \A r \in 1..totalWeight : GetNodeByBwFairShare(r) = 0 <=> r > PreSum(n)
    BY <2>2, <2>3, <2>4
  <2>6. drawn(0) = {r \in 1..totalWeight : r > PreSum(n)}
    BY <2>5
  <2> HIDE DEF drawn
  <2>7. QED
    BY <2>1, <2>2, <2>6
<1>7. QED
  BY <1>5, <1>6 DEF FairShare

(* Every pair is drawn by as many numbers as it has weight, for any lists  *)
(* of pairs and any sort of them.                                          *)
THEOREM FairShareHolds ==
    ASSUME SortKeepsPairs
    PROVE  Spec => []FairShare
<1>1. Init => WeightInv
  <2> SUFFICES ASSUME Init PROVE WeightInv
    OBVIOUS
  <2>1. Total(<<>>, 0) = 0
    BY TotalRec
  <2>2. Len(<<>>) = 0 /\ <<>> \in Seq(Weighed) /\ DOMAIN <<>> = {}
    OBVIOUS
  <2>3. <<>> = [i \in {} |-> Weight(rawPairList[i])]
    BY <2>2
  <2>4. weightList = [i \in DOMAIN rawPairList |-> Weight(rawPairList[i])]
    BY <2>2, <2>3 DEF Init
  <2>5. Total(weightList, Len(weightList)) = 0 /\ DOMAIN weightList = {}
    BY <2>1, <2>2 DEF Init
  <2>6. rawPairList \in Seq(Weighed) /\ adds = 0 /\ totalWeight = 0 /\ early = FALSE
    BY <2>2 DEF Init
  <2>7. /\ adds \in Nat /\ totalWeight \in Nat
        /\ early \in BOOLEAN
        /\ adds = 0 => totalWeight = IF early THEN 1 ELSE 0
        /\ ~(adds # 0) /\ ~(adds = 1)
    <3>1. adds \in Nat /\ totalWeight \in Nat /\ ~(adds # 0) /\ ~(adds = 1)
      <4>1. adds = 0 /\ totalWeight = 0
        BY <2>6
      <4>2. QED
        BY <4>1, SMT
    <3>2. early \in BOOLEAN /\ ~early
      BY <2>6, Zenon
    <3>3. QED
      BY <2>6, <3>1, <3>2
  <2> DEFINE total == Total(weightList, Len(weightList))
  <2>8. total <= totalWeight
    <3>1. total = 0
      BY <2>5
    <3> HIDE DEF total
    <3>2. QED
      BY <3>1, <2>6
  <2>9. QED
    BY <2>4, <2>6, <2>7, <2>8 DEF WeightInv
<1>2. WeightInv /\ [Next]_vars => WeightInv'
  BY WeightInvStep
<1>3. WeightInv => FairShare
  BY WeightInvFair
<1>4. QED
  BY <1>1, <1>2, <1>3, PTL DEF Spec
=============================================================================
