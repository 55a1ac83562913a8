------------------------- MODULE ParallelTaskProofs -------------------------
(***************************************************************************)
(* Proofs about ParallelTask for every number of tasks: the inductive      *)
(* invariant, the safety properties it implies, and the refinement of      *)
(* Gather.  Then about SipSearch, the search that is built on it: its      *)
(* two-command handler implements the one Handle step of ParallelTask, and *)
(* what is missing in the text it returns is missing because of an error   *)
(* or because the script on the node left it out.                          *)
(***************************************************************************)
EXTENDS SipSearch, FiniteSetTheorems, TLAPS

(* The goroutines are finitely many, and so is every subset of them.       *)
LEMMA LiveFinite ==
    ASSUME NAssumption
    PROVE  /\ IsFiniteSet(Task) /\ Cardinality(Task) = N
           /\ IsFiniteSet(Live)
<1>1. IsFiniteSet(Task) /\ Cardinality(Task) = N
  BY FS_Interval DEF NAssumption, Task
<1>2. Live \in SUBSET Task
  BY DEF Live
<1>3. QED
  BY <1>1, <1>2, FS_Subset

(* The counter is zero exactly when every goroutine has called Done.       *)
LEMMA ZeroMeansExited ==
    ASSUME NAssumption, Counted
    PROVE  wg = 0 <=> \A i \in Task : task[i] = "exited"
<1>1. wg = 0 <=> Live = {}
  BY LiveFinite, FS_EmptySet DEF Counted
<1>2. QED
  BY <1>1 DEF Live

(* The initial state satisfies the invariant: wg.Add counted every task.   *)
LEMMA InitIInv == ASSUME NAssumption, Init PROVE IInv
<1>1. TypeOK
  BY DEF Init, TypeOK, NAssumption, Task, Answer
<1>2. Live = Task
  BY DEF Init, Live
<1>3. Counted
  BY <1>2, LiveFinite DEF Init, Counted
<1>4. Control
  BY DEF Init, Control, NAssumption, Task
<1>5. Concatenated
  BY DEF Init, Concatenated, Appended
<1>6. QED
  BY <1>1, <1>3, <1>4, <1>5 DEF IInv

(* Every step keeps the invariant.                                         *)
LEMMA NextIInv == ASSUME NAssumption, IInv, [Next]_vars PROVE IInv'
<1> USE DEF IInv, NAssumption
<1>1. CASE StartTask
  <2> USE <1>1 DEF StartTask
  <2>1. spawned + 1 \in Task
    BY DEF TypeOK, Task
  <2>2. task[spawned + 1] = "unborn"
    BY <2>1 DEF Control, TypeOK, Task
  <2>3. TypeOK'
    BY <2>1 DEF TypeOK
  <2>4. Live' = Live
    BY <2>1, <2>2 DEF Live, TypeOK
  <2>5. Counted'
    BY <2>4 DEF Counted
  <2>6. Control'
    BY <2>1 DEF Control, TypeOK, Task
  <2>7. Concatenated'
    BY <2>1, <2>2 DEF Concatenated, Appended, TypeOK
  <2>8. QED
    BY <2>3, <2>5, <2>6, <2>7
<1>2. CASE StartCloser
  <2> USE <1>2 DEF StartCloser
  <2>1. TypeOK'
    BY DEF TypeOK
  <2>2. Counted'
    BY DEF Counted, Live
  <2>3. Control'
    BY DEF Control, TypeOK
  <2>4. Concatenated'
    BY DEF Concatenated, Appended
  <2>5. QED
    BY <2>1, <2>2, <2>3, <2>4
<1>3. ASSUME NEW i \in Task, Handle(i) PROVE IInv'
  <2> USE <1>3 DEF Handle
  <2>1. TypeOK'
    BY DEF TypeOK, Answer
  <2>2. Live' = Live
    BY DEF Live, TypeOK
  <2>3. Counted'
    BY <2>2 DEF Counted
  <2>4. Control'
    BY DEF Control, TypeOK
  <2>5. Concatenated'
    BY DEF Concatenated, Appended, TypeOK
  <2>6. QED
    BY <2>1, <2>3, <2>4, <2>5
<1>4. ASSUME NEW i \in Task, Deliver(i) PROVE IInv'
  <2> USE <1>4 DEF Deliver
  <2>1. TypeOK'
    BY DEF TypeOK
  <2>2. Live' = Live
    BY DEF Live, TypeOK
  <2>3. Counted'
    BY <2>2 DEF Counted
  <2>4. Control'
    BY DEF Control, TypeOK
  <2>5. Concatenated'
    <3>1. CASE answer[i] = "log"
      <4>1. finalResult' = Append(finalResult, i)
        BY <3>1
      <4>2. /\ DOMAIN finalResult' = 1..(Len(finalResult) + 1)
            /\ DOMAIN finalResult = 1..Len(finalResult)
            /\ Len(finalResult) \in Nat
            /\ finalResult'[Len(finalResult) + 1] = i
            /\ \A k \in DOMAIN finalResult : finalResult'[k] = finalResult[k]
        BY <4>1 DEF TypeOK
      <4>3. \A k \in DOMAIN finalResult : finalResult[k] # i
        BY DEF Concatenated, Appended
      <4>4. \A j \in Task : Appended(j)' <=> Appended(j) \/ j = i
        BY <4>2 DEF Appended
      <4>5. \A j, k \in DOMAIN finalResult' :
                finalResult'[j] = finalResult'[k] => j = k
        BY <4>2, <4>3 DEF Concatenated
      <4>6. QED
        BY <3>1, <4>4, <4>5 DEF Concatenated, TypeOK
    <3>2. CASE answer[i] # "log"
      BY <3>2 DEF Concatenated, Appended, TypeOK
    <3>3. QED
      BY <3>1, <3>2
  <2>6. QED
    BY <2>1, <2>3, <2>4, <2>5
<1>5. ASSUME NEW i \in Task, Done(i) PROVE IInv'
  <2> USE <1>5 DEF Done
  <2>1. Live' = Live \ {i} /\ i \in Live
    BY DEF Live, TypeOK
  <2>2. Cardinality(Live') = Cardinality(Live) - 1 /\ Cardinality(Live) \in Nat
    BY <2>1, LiveFinite, FS_RemoveElement, FS_CardinalityType
  <2>3. Cardinality(Live) # 0
    BY <2>1, LiveFinite, FS_EmptySet
  <2>4. TypeOK'
    BY <2>2, <2>3 DEF TypeOK, Counted
  <2>5. Counted'
    BY <2>2 DEF Counted
  <2>6. Control'
    BY <2>2, <2>3 DEF Control, TypeOK, Counted
  <2>7. Concatenated'
    BY DEF Concatenated, Appended, TypeOK
  <2>8. QED
    BY <2>4, <2>5, <2>6, <2>7
<1>6. CASE Wait
  <2> USE <1>6 DEF Wait
  <2>1. TypeOK'
    BY DEF TypeOK
  <2>2. Counted'
    BY DEF Counted, Live
  <2>3. Control'
    BY DEF Control, TypeOK
  <2>4. Concatenated'
    BY DEF Concatenated, Appended
  <2>5. QED
    BY <2>1, <2>2, <2>3, <2>4
<1>7. CASE Close
  <2> USE <1>7 DEF Close
  <2>1. TypeOK'
    BY DEF TypeOK
  <2>2. Counted'
    BY DEF Counted, Live
  <2>3. Control'
    BY DEF Control, TypeOK
  <2>4. Concatenated'
    BY DEF Concatenated, Appended
  <2>5. QED
    BY <2>1, <2>2, <2>3, <2>4
<1>8. CASE Return
  <2> USE <1>8 DEF Return
  <2>1. TypeOK'
    BY DEF TypeOK
  <2>2. Counted'
    BY DEF Counted, Live
  <2>3. Control'
    BY DEF Control, TypeOK
  <2>4. Concatenated'
    BY DEF Concatenated, Appended
  <2>5. QED
    BY <2>1, <2>2, <2>3, <2>4
<1>9. CASE UNCHANGED vars
  BY <1>9 DEF vars, TypeOK, Counted, Live, Control, Concatenated, Appended
<1>10. QED
  BY <1>1, <1>2, <1>3, <1>4, <1>5, <1>6, <1>7, <1>8, <1>9
  DEF Next, Goroutine, Finished

(* The invariant holds in every reachable state of ParaleelTask.Run,       *)
(* whatever the number of parameters.                                      *)
THEOREM Invariance == Spec => []IInv
<1>1. Init => IInv
  BY NAssumption, InitIInv
<1>2. IInv /\ [Next]_vars => IInv'
  BY NAssumption, NextIInv
<1>3. QED
  BY <1>1, <1>2, PTL DEF Spec

(* Every variable keeps its type; in particular the WaitGroup never goes   *)
(* below zero (which would panic).                                         *)
THEOREM TypeCorrect == Spec => []TypeOK
<1>1. IInv => TypeOK
  BY DEF IInv
<1>2. QED
  BY <1>1, Invariance, PTL

(* No goroutine sends on resultChan once the closer has closed it.         *)
THEOREM ChannelSafe == Spec => []NoSendOnClosed
<1>1. IInv => NoSendOnClosed
  BY NAssumption, ZeroMeansExited DEF IInv, Control, NoSendOnClosed
<1>2. QED
  BY <1>1, Invariance, PTL

(* Run returns every log found, once, and nothing else.                    *)
THEOREM Completeness == Spec => []ResultComplete
<1>1. IInv => ResultComplete
  <2> SUFFICES ASSUME IInv, main = "returned"
               PROVE  /\ \A i \in Task : Appended(i) <=> answer[i] = "log"
                      /\ \A j, k \in DOMAIN finalResult :
                             finalResult[j] = finalResult[k] => j = k
    BY DEF ResultComplete
  <2>1. wg = 0
    BY DEF IInv, Control
  <2>2. \A i \in Task : task[i] = "exited"
    BY <2>1, NAssumption, ZeroMeansExited DEF IInv
  <2>3. QED
    BY <2>2 DEF IInv, Concatenated
<1>2. QED
  BY <1>1, Invariance, PTL

(* When Run has returned no goroutine of it is left.                       *)
THEOREM NoLeak == Spec => []NoGoroutineLeft
<1>1. IInv => NoGoroutineLeft
  BY NAssumption, ZeroMeansExited DEF IInv, Control, NoGoroutineLeft
<1>2. QED
  BY <1>1, Invariance, PTL

(* The tasks whose answer Run has received.                                *)
Received == {i \in Task : task[i] \in {"sent", "exited"}}

(* ParaleelTask.Run implements Gather: the sends are its Collect steps,    *)
(* the end of the range loop is its Return, and the rest is internal.      *)
THEOREM Refinement == Spec => Abstract!Spec
<1>1. Init => Abstract!Init
  BY DEF Init, Abstract!Init
<1>2. IInv /\ [Next]_vars => [Abstract!Next]_Abstract!vars
  <2> SUFFICES ASSUME IInv, [Next]_vars
               PROVE  Abstract!Next \/ UNCHANGED Abstract!vars
    BY DEF Abstract!vars
  <2>1. CASE StartTask
    <3>1. task[spawned + 1] = "unborn" /\ spawned + 1 \in Task
      BY <2>1, NAssumption DEF StartTask, IInv, Control, TypeOK, Task
    <3>2. QED
      BY <2>1, <3>1 DEF StartTask, Abstract!vars, IInv, TypeOK
  <2>2. CASE StartCloser \/ Wait \/ Close
    BY <2>2 DEF StartCloser, Wait, Close, Abstract!vars, IInv, TypeOK
  <2>3. ASSUME NEW i \in Task, Handle(i) PROVE UNCHANGED Abstract!vars
    BY <2>3 DEF Handle, Abstract!vars, IInv, TypeOK
  <2>4. ASSUME NEW i \in Task, Deliver(i) PROVE Abstract!Collect(i)
    <3>1. i \notin Received /\ Received' = Received \cup {i}
      BY <2>4 DEF Deliver, Received, IInv, TypeOK
    <3>2. finalResult' \in {finalResult, Append(finalResult, i)}
      BY <2>4 DEF Deliver
    <3>3. main # "returned" /\ UNCHANGED main
      BY <2>4 DEF Deliver
    <3>4. QED
      BY <3>1, <3>2, <3>3 DEF Abstract!Collect, Received
  <2>5. ASSUME NEW i \in Task, Done(i) PROVE UNCHANGED Abstract!vars
    BY <2>5 DEF Done, Abstract!vars, IInv, TypeOK
  <2>6. CASE Return
    <3>1. \A i \in Task : task[i] = "exited"
      BY <2>6, NAssumption, ZeroMeansExited DEF Return, IInv, Control
    <3>2. QED
      BY <2>6, <3>1 DEF Return, Abstract!Return, Abstract!Next, Abstract!Task, Task
  <2>7. CASE UNCHANGED vars
    BY <2>7 DEF vars, Abstract!vars
  <2>8. QED
    BY <2>1, <2>2, <2>3, <2>4, <2>5, <2>6, <2>7
    DEF Next, Goroutine, Finished, Abstract!Next, Abstract!Task, Task
<1>3. QED
  BY <1>1, <1>2, Invariance, PTL DEF Spec, Abstract!Spec

(* The refinement under the name the model checker uses for it.            *)
THEOREM GatherImplemented == Spec => ImplementsGather
  BY Refinement DEF ImplementsGather

-----------------------------------------------------------------------------
(* Two commands of a handler are one Handle step of ParallelTask, or, while*)
(* the first has succeeded, none.                                          *)
LEMMA AnswersIsHandle ==
    ASSUME NEW i \in Task, NEW a \in Answer, task[i] = "handle", Answers(i, a)
    PROVE  Handle(i)
  BY DEF Answers, Handle

(* GetSipMsgs's search implements ParallelTask: all that is proved of Run  *)
(* holds of it.                                                            *)
THEOREM SipImplements == SipSpec => ImplementsParallelTask
<1>1. SipInit => Init
  BY DEF SipInit
<1>2. [SipNext]_<<vars, sipVars>> => [Next]_vars
  <2>1. ASSUME RunStep PROVE Next
    BY <2>1 DEF RunStep, Next, Goroutine
  <2>2. ASSUME NEW i \in Task, WriteScript(i) PROVE Handle(i) \/ UNCHANGED vars
    BY <2>2, AnswersIsHandle DEF WriteScript, Answer
  <2>3. ASSUME NEW i \in Task, RunScript(i) PROVE Handle(i)
    BY <2>3, AnswersIsHandle DEF RunScript, Answer
  <2>4. ASSUME UNCHANGED <<vars, sipVars>> PROVE UNCHANGED vars
    BY <2>4
  <2>5. QED
    BY <2>1, <2>2, <2>3, <2>4 DEF SipNext, Next, Goroutine
<1>3. QED
  BY <1>1, <1>2, PTL DEF SipSpec, Spec, ImplementsParallelTask

-----------------------------------------------------------------------------
(* The types of what a handler reads and writes.                           *)
SipTypeOK ==
    /\ writePy \in BOOLEAN
    /\ hasLog \in [Task -> BOOLEAN]
    /\ script \in [Task -> BOOLEAN]
    /\ failed \in [Task -> BOOLEAN]
    /\ step \in [Task -> {"write", "run"}]
    /\ shown \in [Task -> {"not run", "all"} \cup LeavesOut]
    /\ task \in [Task -> {"unborn", "handle", "send", "sent", "exited"}]
    /\ answer \in [Task -> Answer]

(* The next command of a handler is the script only when the copy, if one  *)
(* is wanted, has succeeded, and until the handler returns nothing failed. *)
Handling ==
    \A i \in Task : task[i] \in {"unborn", "handle"} =>
        /\ answer[i] = "empty" /\ ~failed[i] /\ shown[i] = "not run"
        /\ writePy /\ step[i] = "run" => script[i]

(* A handler that has returned either failed, and then answered nothing,   *)
(* or ran the script, and then answered with what it printed, if anything. *)
Answered ==
    \A i \in Task : task[i] \notin {"unborn", "handle"} =>
        /\ failed[i] <=> shown[i] = "not run"
        /\ answer[i] = "log" <=> shown[i] \in {"all", "part", "too large"}
        /\ answer[i] = "log" => hasLog[i]
        /\ writePy /\ answer[i] = "log" => script[i]

(* The inductive invariant.                                                *)
SipInv == SipTypeOK /\ Handling /\ Answered

(* At the start no handler has run a command.                              *)
LEMMA SipInitInv == ASSUME SipInit PROVE SipInv
  BY DEF SipInit, Init, SipInv, SipTypeOK, Handling, Answered, Answer, LeavesOut

(* The steps of Run, of the closer and of a goroutine after its handler    *)
(* leave the handlers' state alone, and only an unborn one is started.     *)
LEMMA RunStepInv ==
    ASSUME NAssumption, IInv, SipInv, RunStep, UNCHANGED sipVars
    PROVE  SipInv'
<1>1. UNCHANGED answer
  BY DEF RunStep, StartTask, StartCloser, Return, Wait, Close, Deliver, Done
<1>2. \/ UNCHANGED task
      \/ StartTask
      \/ \E i \in Task : Deliver(i) \/ Done(i)
  BY DEF RunStep, StartCloser, Return, Wait, Close
<1>3. CASE UNCHANGED task
  BY <1>1, <1>3 DEF SipInv, SipTypeOK, Handling, Answered, sipVars
<1>4. CASE StartTask
  <2>1. spawned + 1 \in Task /\ task[spawned + 1] = "unborn"
    BY <1>4 DEF StartTask, NAssumption, IInv, Control, TypeOK, Task
  <2>2. QED
    BY <1>1, <1>4, <2>1 DEF StartTask, SipInv, SipTypeOK, Handling, Answered, sipVars
<1>5. ASSUME NEW i \in Task, Deliver(i) \/ Done(i) PROVE SipInv'
  <2>1. /\ task[i] \in {"send", "sent"} /\ UNCHANGED sipVars
        /\ task' \in {[task EXCEPT ![i] = "sent"], [task EXCEPT ![i] = "exited"]}
    BY <1>5 DEF Deliver, Done
  <2>2. SipTypeOK'
    BY <1>1, <2>1 DEF SipInv, SipTypeOK, sipVars
  <2>3. /\ task[i] \notin {"unborn", "handle"} /\ task'[i] \notin {"unborn", "handle"}
        /\ \A j \in Task : j # i => task'[j] = task[j]
    BY <2>1 DEF SipInv, SipTypeOK
  <2>4. UNCHANGED <<answer, writePy, hasLog, script, step, failed, shown>>
    BY <1>1, <2>1 DEF sipVars
  <2>5. Handling'
    BY <2>3, <2>4 DEF SipInv, Handling
  <2>6. Answered'
    BY <2>3, <2>4 DEF SipInv, Answered
  <2>7. QED
    BY <2>2, <2>5, <2>6 DEF SipInv
<1>6. QED
  BY <1>2, <1>3, <1>4, <1>5

(* The copy of the script, which succeeds or answers nothing.              *)
LEMMA WriteScriptInv ==
    ASSUME SipInv, NEW i \in Task, WriteScript(i)
    PROVE  SipInv'
<1>1. CASE /\ script' = [script EXCEPT ![i] = TRUE]
           /\ UNCHANGED <<vars, failed>>
  BY <1>1 DEF WriteScript, vars, SipInv, SipTypeOK, Handling, Answered
<1>2. CASE /\ failed' = [failed EXCEPT ![i] = TRUE]
           /\ script' \in {script, [script EXCEPT ![i] = FALSE]}
           /\ Answers(i, "empty")
  <2> USE <1>2 DEF WriteScript, Answers, SipInv
  <2>1. SipTypeOK'
    BY DEF SipTypeOK, Answer
  <2>2. Handling'
    BY DEF SipTypeOK, Handling
  <2>3. Answered'
    BY DEF SipTypeOK, Handling, Answered
  <2>4. QED
    BY <2>1, <2>2, <2>3
<1>3. QED
  BY <1>1, <1>2 DEF WriteScript

(* The search, whose answer is what the script printed, if it did not fail.*)
LEMMA RunScriptInv ==
    ASSUME SipInv, NEW i \in Task, RunScript(i)
    PROVE  SipInv'
<1>1. ASSUME NEW p \in Prints(i), script[i], UNCHANGED failed,
             shown' = [shown EXCEPT ![i] = p],
             Answers(i, IF p = "nothing" THEN "empty" ELSE "log")
      PROVE  SipInv'
  <2> USE <1>1 DEF RunScript, Answers, SipInv
  <2>1. p \in {"all"} \cup LeavesOut /\ (p # "nothing" => hasLog[i])
    BY DEF Prints, LeavesOut
  <2>2. UNCHANGED <<writePy, hasLog, script, step>>
    OBVIOUS
  <2>3. SipTypeOK'
    BY <2>1, <2>2 DEF SipTypeOK, Answer
  <2>4. /\ task'[i] = "send" /\ shown'[i] = p
        /\ answer'[i] = IF p = "nothing" THEN "empty" ELSE "log"
        /\ \A j \in Task : j # i =>
               task'[j] = task[j] /\ answer'[j] = answer[j] /\ shown'[j] = shown[j]
    BY DEF SipTypeOK
  <2>5. task[i] = "handle" /\ step[i] = "run" /\ failed' = failed
    OBVIOUS
  <2>6. ~failed[i] /\ script[i]
    BY <2>5 DEF Handling
  <2> HIDE <1>1 DEF RunScript, Answers
  <2>7. Handling'
    BY <2>2, <2>4, <2>5 DEF Handling
  <2>8. Answered'
    BY <2>1, <2>2, <2>4, <2>5, <2>6 DEF Answered, LeavesOut
  <2>9. QED
    BY <2>3, <2>7, <2>8
<1>2. CASE /\ failed' = [failed EXCEPT ![i] = TRUE]
           /\ Answers(i, "empty")
           /\ UNCHANGED shown
  BY <1>2 DEF RunScript, Answers, Answer, SipInv, SipTypeOK, Handling, Answered
<1>3. QED
  BY <1>1, <1>2 DEF RunScript

(* SipInv holds in every reachable state of GetSipMsgs.                    *)
THEOREM SipInvariance == SipSpec => []SipInv
<1>1. SipInit => SipInv
  BY SipInitInv
<1>2. IInv /\ SipInv /\ [SipNext]_<<vars, sipVars>> => SipInv'
  <2>1. ASSUME SipInv, UNCHANGED <<vars, sipVars>> PROVE SipInv'
    BY <2>1 DEF vars, sipVars, SipInv, SipTypeOK, Handling, Answered
  <2>2. QED
    BY <2>1, NAssumption, RunStepInv, WriteScriptInv, RunScriptInv DEF SipNext
<1>3. SipSpec => []IInv
  BY SipImplements, Invariance, PTL DEF ImplementsParallelTask
<1>4. QED
  BY <1>1, <1>2, <1>3, PTL DEF SipSpec

(* With WritePyToNode set, no node answers with an old or a truncated      *)
(* script, whatever copies and searches fail.                              *)
THEOREM ScriptFresh == SipSpec => []FreshScript
<1>1. SipInv => FreshScript
  BY DEF SipInv, Handling, Answered, FreshScript
<1>2. QED
  BY <1>1, SipInvariance, PTL

(* The text GetSipMsgs returns has what the scripts printed, of every node *)
(* none of whose commands failed and of no other: matches are missing by   *)
(* an error or because the script left them out.                           *)
THEOREM MissingExplainedHolds == SipSpec => []MissingExplained
<1>1. SipInv /\ ResultComplete /\ NoGoroutineLeft => MissingExplained
  BY DEF SipInv, SipTypeOK, Answered, ResultComplete, NoGoroutineLeft,
         MissingExplained, LeavesOut
<1>2. Spec => [](ResultComplete /\ NoGoroutineLeft)
  BY Completeness, NoLeak, PTL
<1>3. SipSpec => Spec
  BY SipImplements DEF ImplementsParallelTask
<1>4. QED
  BY <1>1, <1>2, <1>3, SipInvariance, PTL
=============================================================================
