---------------------------- MODULE ParallelTask ----------------------------
(***************************************************************************)
(* The fan-out/fan-in of qvsdbg: ParaleelTask.Run starts one goroutine per *)
(* parameter (a log node), each runs a remote command and sends its answer *)
(* on an unbuffered channel; a closer goroutine waits for the WaitGroup    *)
(* and closes the channel, which ends the range loop that concatenates the *)
(* answers.  A send on an unbuffered channel and its receive are one step. *)
(***************************************************************************)
EXTENDS Naturals, Sequences, FiniteSets

CONSTANT N      \* len(p.Params)

ASSUME NAssumption == N \in Nat

Task == 1..N

(* What a handler returns, as far as the caller can tell: "" (nothing      *)
(* found, or any error) or some log text.                                  *)
Answer == {"empty", "log"}

VARIABLES
    main,        \* control point of Run
    spawned,     \* go statements executed by its loop
    task,        \* control point of each doTask goroutine
    answer,      \* what each Handler returned
    wg,          \* counter of the WaitGroup
    closer,      \* control point of the closing goroutine
    open,        \* resultChan is not closed
    finalResult  \* finalResult, as the sequence of tasks whose text it holds

vars == <<main, spawned, task, answer, wg, closer, open, finalResult>>

TypeOK ==
    /\ main \in {"spawn", "range", "returned"}
    /\ spawned \in 0..N
    /\ task \in [Task -> {"unborn", "handle", "send", "sent", "exited"}]
    /\ answer \in [Task -> Answer]
    /\ wg \in 0..N
    /\ closer \in {"unborn", "wait", "close", "done"}
    /\ open \in BOOLEAN
    /\ finalResult \in Seq(Task)

(* make(chan string); wg.Add(len(p.Params))                                *)
Init ==
    /\ main = "spawn"
    /\ spawned = 0
    /\ task = [i \in Task |-> "unborn"]
    /\ answer = [i \in Task |-> "empty"]
    /\ wg = N
    /\ closer = "unborn"
    /\ open = TRUE
    /\ finalResult = <<>>

-----------------------------------------------------------------------------
(* Run: go p.doTask(param, resultChan, &wg), for the next parameter.       *)
StartTask ==
    /\ main = "spawn"
    /\ spawned < N
    /\ spawned' = spawned + 1
    /\ task' = [task EXCEPT ![spawned + 1] = "handle"]
    /\ UNCHANGED <<main, answer, wg, closer, open, finalResult>>

(* Run: after the loop, start the closer and enter the range loop.         *)
StartCloser ==
    /\ main = "spawn"
    /\ spawned = N
    /\ main' = "range"
    /\ closer' = "wait"
    /\ UNCHANGED <<spawned, task, answer, wg, open, finalResult>>

(* Mutant of Handle: Done is called before the send instead of deferred.   *)
HandleDoneFirst(i) ==
    /\ task[i] = "handle"
    /\ \E a \in Answer : answer' = [answer EXCEPT ![i] = a]
    /\ task' = [task EXCEPT ![i] = "send"]
    /\ wg' = wg - 1
    /\ UNCHANGED <<main, spawned, closer, open, finalResult>>

(* doTask: str := p.Handler(param).  The handlers of parser.go turn every  *)
(* error into "", so the answer is one of the two values above.            *)
Handle(i) ==
    /\ task[i] = "handle"
    /\ \E a \in Answer : answer' = [answer EXCEPT ![i] = a]
    /\ task' = [task EXCEPT ![i] = "send"]
    /\ UNCHANGED <<main, spawned, wg, closer, open, finalResult>>

(* Mutant of Deliver: the loop keeps the last answer only.                 *)
DeliverOverwrites(i) ==
    /\ task[i] = "send"
    /\ main = "range"
    /\ open
    /\ task' = [task EXCEPT ![i] = "sent"]
    /\ finalResult' = IF answer[i] = "log" THEN <<i>> ELSE finalResult
    /\ UNCHANGED <<main, spawned, answer, wg, closer, open>>

(* doTask: resultChan <- str meets Run: finalResult += str.                *)
Deliver(i) ==
    /\ task[i] = "send"
    /\ main = "range"
    /\ open
    /\ task' = [task EXCEPT ![i] = "sent"]
    /\ finalResult' = IF answer[i] = "log" THEN Append(finalResult, i)
                                           ELSE finalResult
    /\ UNCHANGED <<main, spawned, answer, wg, closer, open>>

(* Mutant of Done: an early return on "" skips a Done that is not deferred.*)
DoneSkippedOnEmpty(i) ==
    /\ task[i] = "sent"
    /\ task' = [task EXCEPT ![i] = "exited"]
    /\ wg' = IF answer[i] = "log" THEN wg - 1 ELSE wg
    /\ UNCHANGED <<main, spawned, answer, closer, open, finalResult>>

(* doTask: the deferred wg.Done().                                         *)
Done(i) ==
    /\ task[i] = "sent"
    /\ task' = [task EXCEPT ![i] = "exited"]
    /\ wg' = wg - 1
    /\ UNCHANGED <<main, spawned, answer, closer, open, finalResult>>

(* Mutant of Wait: the closer does not wait for the group.                 *)
WaitForNobody ==
    /\ closer = "wait"
    /\ closer' = "close"
    /\ UNCHANGED <<main, spawned, task, answer, wg, open, finalResult>>

(* The closer: wg.Wait() passes when the counter is zero.                  *)
Wait ==
    /\ closer = "wait"
    /\ wg = 0
    /\ closer' = "close"
    /\ UNCHANGED <<main, spawned, task, answer, wg, open, finalResult>>

(* The closer: close(resultChan).                                          *)
Close ==
    /\ closer = "close"
    /\ closer' = "done"
    /\ open' = FALSE
    /\ UNCHANGED <<main, spawned, task, answer, wg, finalResult>>

(* Mutant of Return: the loop counts answers instead of awaiting the close.*)
ReturnAfterLast ==
    /\ main = "range"
    /\ \A i \in Task : task[i] \in {"sent", "exited"}
    /\ main' = "returned"
    /\ UNCHANGED <<spawned, task, answer, wg, closer, open, finalResult>>

(* Run: the range loop ends on the closed channel; return finalResult.     *)
Return ==
    /\ main = "range"
    /\ ~open
    /\ main' = "returned"
    /\ UNCHANGED <<spawned, task, answer, wg, closer, open, finalResult>>

(* The caller goes on with the text; nothing of this Run is left to do.    *)
Finished == main = "returned" /\ UNCHANGED vars

Goroutine(i) == Handle(i) \/ Deliver(i) \/ Done(i)

Next ==
    \/ StartTask \/ StartCloser \/ Return
    \/ Wait \/ Close
    \/ \E i \in Task : Goroutine(i)
    \/ Finished

Spec == Init /\ [][Next]_vars

(* The Go scheduler runs every goroutine that can run.  Nothing bounds the *)
(* remote command of a Handler, so Handle has no fairness.                 *)
Fairness ==
    /\ WF_vars(StartTask) /\ WF_vars(StartCloser) /\ WF_vars(Return)
    /\ WF_vars(Wait) /\ WF_vars(Close)
    /\ \A i \in Task : WF_vars(Deliver(i)) /\ WF_vars(Done(i))

FairSpec == Spec /\ Fairness

-----------------------------------------------------------------------------
(* A closed channel must never be sent on (Go panics): when resultChan is  *)
(* closed every doTask goroutine is past its send.                         *)
NoSendOnClosed == ~open => \A i \in Task : task[i] \in {"sent", "exited"}

(* A task's text is in finalResult.                                        *)
Appended(i) == \E k \in DOMAIN finalResult : finalResult[k] = i

(* Run returns the text of every task that found some, each exactly once   *)
(* and nothing else, whatever the order of the goroutines.                 *)
ResultComplete ==
    main = "returned" =>
        /\ \A i \in Task : Appended(i) <=> answer[i] = "log"
        /\ \A j, k \in DOMAIN finalResult :
               finalResult[j] = finalResult[k] => j = k

(* Run leaves nothing behind: when it has returned, every goroutine it     *)
(* started has exited and the counter is back to zero.                     *)
NoGoroutineLeft ==
    main = "returned" =>
        /\ \A i \in Task : task[i] = "exited"
        /\ closer = "done"
        /\ wg = 0

(* The goroutines that have not called Done yet.                           *)
Live == {i \in Task : task[i] # "exited"}

(* What makes the properties above inductive: the WaitGroup counts the     *)
(* live goroutines and is zero from wg.Wait() on, the control points of    *)
(* Run and of the closer agree with the channel, and finalResult holds     *)
(* exactly the logs received so far.                                       *)
Counted == wg = Cardinality(Live)

Control ==
    /\ \A i \in Task : task[i] = "unborn" <=> spawned < i
    /\ main = "spawn" <=> closer = "unborn"
    /\ closer \in {"close", "done"} => wg = 0
    /\ open <=> closer # "done"
    /\ main = "returned" => ~open

Concatenated ==
    /\ \A i \in Task :
          Appended(i) <=> task[i] \in {"sent", "exited"} /\ answer[i] = "log"
    /\ \A j, k \in DOMAIN finalResult :
          finalResult[j] = finalResult[k] => j = k

(* The inductive invariant of ParallelTask.                                *)
IInv == TypeOK /\ Counted /\ Control /\ Concatenated

(* Run returns once every handler has answered: no order of the sends, the *)
(* Done calls and the close blocks it.                                     *)
AnsweredLeadsToReturn ==
    (\A i \in Task : task[i] \notin {"unborn", "handle"}) ~> main = "returned"

Abstract == INSTANCE Gather WITH
    collected <- {i \in Task : task[i] \in {"sent", "exited"}},
    result <- finalResult,
    returned <- (main = "returned")

(* The goroutines, the WaitGroup and the channel implement Gather.         *)
ImplementsGather == Abstract!Spec
=============================================================================
