------------------------ MODULE ThemisdSearchProofs -------------------------
(***************************************************************************)
(* Proofs about ThemisdSearch for every finite set of nodes.               *)
(***************************************************************************)
EXTENDS ThemisdSearch, FiniteSetTheorems, TLAPS

(* The set of live goroutines is finite; a worker that has not exited      *)
(* keeps the counter above zero.                                           *)
LEMMA LiveCount ==
    ASSUME NodesAssumption
    PROVE  /\ IsFiniteSet(Live)
           /\ Cardinality(Live) \in Nat
           /\ Cardinality(Live) = 0 <=> \A n \in Nodes : worker[n] = "exited"
<1>1. Live \in SUBSET Nodes
  BY DEF Live
<1>2. IsFiniteSet(Live)
  BY <1>1, FS_Subset DEF NodesAssumption
<1>3. Cardinality(Live) = 0 <=> Live = {}
  BY <1>2, FS_EmptySet
<1>4. QED
  BY <1>2, <1>3, FS_CardinalityType DEF Live

(* The initial state satisfies the invariant.                              *)
LEMMA InitSearchInv ==
    ASSUME NodesAssumption, NothingAssumption, Init
    PROVE  SearchInv
<1>1. Live = Nodes
  BY DEF Init, Live
<1>2. Cardinality(Nodes) \in Nat
  BY FS_CardinalityType DEF NodesAssumption
<1>3. TypeOK
  BY <1>2 DEF Init, TypeOK
<1>4. Counted
  BY <1>1 DEF Init, Counted
<1>5. Control /\ FoundStaysAtSends
  BY DEF Init, Control, FoundStaysAtSends, NothingAssumption
<1>6. QED
  BY <1>3, <1>4, <1>5 DEF SearchInv

(* Every step keeps the invariant.                                         *)
LEMMA NextSearchInv ==
    ASSUME NodesAssumption, NothingAssumption, SearchInv, [Next]_vars
    PROVE  SearchInv'
<1> USE DEF SearchInv, NothingAssumption
<1>1. CASE Start
  <2>1. Live' = Live
    BY <1>1 DEF Start, Live, Control, TypeOK
  <2>2. TypeOK' /\ Counted'
    BY <1>1, <2>1 DEF Start, TypeOK, Counted
  <2>3. Control' /\ FoundStaysAtSends'
    BY <1>1 DEF Start, Control, FoundStaysAtSends, TypeOK
  <2>4. QED
    BY <2>2, <2>3
<1>2. ASSUME NEW n \in Nodes, CmdFails(n) \/ CmdAnswers(n) PROVE SearchInv'
  <2>1. Live' = Live
    BY <1>2 DEF CmdFails, CmdAnswers, Live, TypeOK
  <2>2. TypeOK' /\ Counted'
    BY <1>2, <2>1 DEF CmdFails, CmdAnswers, TypeOK, Counted
  <2>3. Control'
    BY <1>2 DEF CmdFails, CmdAnswers, Control, TypeOK
  <2>4. \A m \in Nodes \ {n} : worker'[m] = worker[m] /\ found'[m] = found[m]
    BY <1>2 DEF CmdFails, CmdAnswers, TypeOK
  <2>5. winner # n /\ winner' = winner /\ ~found[n]
    BY <1>2 DEF CmdFails, CmdAnswers, FoundStaysAtSends
  <2>6. worker'[n] = "sendResult" \/ (worker'[n] = "deferred" /\ ~found'[n])
    BY <1>2, <2>5 DEF CmdFails, CmdAnswers, TypeOK
  <2>7. FoundStaysAtSends'
    BY <2>4, <2>5, <2>6 DEF FoundStaysAtSends
  <2>8. QED
    BY <2>2, <2>3, <2>7
<1>3. ASSUME NEW n \in Nodes, Receive(n) PROVE SearchInv'
  <2> USE <1>3 DEF Receive
  <2>1. Live' = Live
    BY DEF Live, TypeOK
  <2>2. TypeOK' /\ Counted'
    BY <2>1 DEF TypeOK, Counted
  <2>3. Control'
    BY DEF Control, TypeOK
  <2>4. FoundStaysAtSends'
    BY DEF Control, FoundStaysAtSends, TypeOK
  <2>5. QED
    BY <2>2, <2>3, <2>4
<1>4. ASSUME NEW n \in Nodes, Done(n) PROVE SearchInv'
  <2> USE <1>4 DEF Done
  <2>1. n \in Live /\ Live' = Live \ {n}
    BY DEF Live, TypeOK
  <2>2. Cardinality(Live') = Cardinality(Live) - 1
    BY <2>1, LiveCount, FS_RemoveElement
  <2>3. Cardinality(Live) \in Nat /\ Cardinality(Live) # 0
    BY <2>1, LiveCount, FS_EmptySet
  <2>4. Cardinality(Nodes) \in Nat
    BY FS_CardinalityType DEF NodesAssumption
  <2>5. TypeOK' /\ Counted'
    BY <2>2, <2>3, <2>4 DEF TypeOK, Counted
  <2>6. wg # 0
    BY <2>3 DEF Counted
  <2>7. Control'
    BY <2>6 DEF Control, TypeOK
  <2>8. FoundStaysAtSends'
    BY DEF FoundStaysAtSends, TypeOK
  <2>9. QED
    BY <2>5, <2>7, <2>8
<1>5. CASE Wait \/ Close \/ SelectClosed \/ LoopTest
  <2> USE <1>5 DEF Wait, Close, SelectClosed, LoopTest
  <2>1. TypeOK' /\ Counted'
    BY DEF TypeOK, Counted, Live
  <2>2. Control' /\ FoundStaysAtSends'
    BY DEF Control, FoundStaysAtSends, TypeOK
  <2>3. QED
    BY <2>1, <2>2
<1>6. CASE UNCHANGED vars
  BY <1>6 DEF vars, TypeOK, Counted, Live, Control, FoundStaysAtSends
<1>7. QED
  BY <1>1, <1>2, <1>3, <1>4, <1>5, <1>6 DEF Next, Worker

(* The invariant holds in every reachable state, for any set of nodes.     *)
THEOREM SearchInvariance == Spec => []SearchInv
<1>1. Init => SearchInv
  BY NodesAssumption, NothingAssumption, InitSearchInv
<1>2. SearchInv /\ [Next]_vars => SearchInv'
  BY NodesAssumption, NothingAssumption, NextSearchInv
<1>3. QED
  BY <1>1, <1>2, PTL DEF Spec

(* The exit signal is never on offer while the select loop runs, so the    *)
(* branch that receives it, and the error after the loop, are dead code.   *)
THEOREM ExitBranchIsDead == Spec => []ExitBranchDead
<1>1. SearchInv => ExitBranchDead
  BY NothingAssumption
  DEF SearchInv, Control, FoundStaysAtSends, ExitBranchDead
<1>2. QED
  BY <1>1, SearchInvariance, PTL

(* The loop can only spin on a closed channel when no command answered.    *)
THEOREM SpinNeedsNoAnswer == Spec => []SpinsOnlyWithoutAnswer
<1>1. SearchInv => SpinsOnlyWithoutAnswer
  BY NodesAssumption, LiveCount
  DEF SearchInv, Counted, Control, FoundStaysAtSends, SpinsOnlyWithoutAnswer
<1>2. QED
  BY <1>1, SearchInvariance, PTL

(* After a matching line was returned, resultChan stays open for ever and  *)
(* the closer waits for ever: the goroutines of the search leak.           *)
THEOREM LogReturnedLeaks == Spec => []LogReturnedNeverCloses
<1>1. SearchInv => LogReturnedNeverCloses
  <2> SUFFICES ASSUME SearchInv, winner # Nothing, found[winner]
               PROVE  open /\ closer = "wait" /\ wg > 0
    BY DEF LogReturnedNeverCloses
  <2>1. winner \in Nodes /\ worker[winner] = "sendExit"
    BY DEF SearchInv, TypeOK, FoundStaysAtSends
  <2>2. wg # 0 /\ wg \in Nat
    BY <2>1, NodesAssumption, LiveCount DEF SearchInv, Counted
  <2>3. QED
    BY <2>2 DEF SearchInv, Control, TypeOK
<1>2. QED
  BY <1>1, SearchInvariance, PTL

(* Once every command has failed or found nothing nobody is left to send,  *)
(* and searchThemisd, which only a result lets return, never does.         *)
THEOREM WithoutAnswerForEver == Spec => NoAnswerNeverReturns
<1> DEFINE Stuck == AllWithoutAnswer /\ main # "returned"
<1>1. ASSUME SearchInv, Stuck, [Next]_vars
      PROVE  Stuck'
  <2>1. CASE Start
    <3>1. Nodes = {}
      BY <1>1, <2>1 DEF Start, AllWithoutAnswer, SearchInv, Control
    <3>2. QED
      BY <2>1, <3>1 DEF Start, AllWithoutAnswer
  <2>2. ASSUME NEW n \in Nodes, Worker(n)
        PROVE  FALSE
    BY <1>1, <2>2
    DEF AllWithoutAnswer, Worker, CmdFails, CmdAnswers, Receive, Done
  <2>3. CASE Wait \/ Close \/ SelectClosed \/ LoopTest
    BY <1>1, <2>3 DEF AllWithoutAnswer, Wait, Close, SelectClosed, LoopTest
  <2>4. CASE UNCHANGED vars
    BY <1>1, <2>4 DEF AllWithoutAnswer, vars
  <2>5. QED
    BY <1>1, <2>1, <2>2, <2>3, <2>4 DEF Next
<1>2. Stuck => main # "returned"
  OBVIOUS
<1>3. AllWithoutAnswer /\ main # "returned" => Stuck
  OBVIOUS
<1> HIDE DEF Stuck
<1>4. Spec => [](Stuck => []Stuck)
  BY <1>1, SearchInvariance, PTL DEF Spec
<1>5. QED
  BY <1>2, <1>3, <1>4, PTL DEF NoAnswerNeverReturns
=============================================================================
