---------------------------- MODULE ThemisdSearch ---------------------------
(***************************************************************************)
(* searchThemisd and doRunCmd (qvsdbg/pysearch.go): one goroutine per      *)
(* themisd node greps for the first matching line.  A match is sent on     *)
(* resultChan and then announced on exitChan; the caller returns the first *)
(* thing it receives on resultChan.  Both channels are unbuffered.  A grep *)
(* without a match exits with status 1, so RunCmd reports it as an error   *)
(* and the goroutine ends without sending anything.                        *)
(***************************************************************************)
EXTENDS Naturals, FiniteSets

CONSTANT Nodes      \* the themisd nodes

ASSUME NodesAssumption == IsFiniteSet(Nodes)

Nothing == "nothing"    \* searchThemisd has not returned a string
ASSUME NothingAssumption == Nothing \notin Nodes

VARIABLES
    main,     \* control point of searchThemisd
    worker,   \* control point of each doRunCmd goroutine
    found,    \* the worker's command printed a matching line
    wg,       \* counter of the WaitGroup
    closer,   \* control point of the closing goroutine
    open,     \* resultChan is not closed
    winner    \* the node whose string searchThemisd returned

vars == <<main, worker, found, wg, closer, open, winner>>

TypeOK ==
    /\ main \in {"start", "select", "test", "returned"}
    /\ worker \in [Nodes -> {"unborn", "cmd", "sendResult", "sendExit",
                             "deferred", "exited"}]
    /\ found \in [Nodes -> BOOLEAN]
    /\ wg \in 0..Cardinality(Nodes)
    /\ closer \in {"unborn", "wait", "close", "done"}
    /\ open \in BOOLEAN
    /\ winner \in Nodes \cup {Nothing}

Init ==
    /\ main = "start"
    /\ worker = [n \in Nodes |-> "unborn"]
    /\ found = [n \in Nodes |-> FALSE]
    /\ wg = Cardinality(Nodes)
    /\ closer = "unborn"
    /\ open = TRUE
    /\ winner = Nothing

-----------------------------------------------------------------------------
(* searchThemisd starts the goroutines and the closer and enters the loop. *)
(* Nothing it starts can meet it before it gets there.                     *)
Start ==
    /\ main = "start"
    /\ main' = "select"
    /\ worker' = [n \in Nodes |-> "cmd"]
    /\ closer' = "wait"
    /\ UNCHANGED <<found, wg, open, winner>>

(* doRunCmd: RunCmd failed, or grep found nothing; return.                 *)
CmdFails(n) ==
    /\ worker[n] = "cmd"
    /\ worker' = [worker EXCEPT ![n] = "deferred"]
    /\ UNCHANGED <<main, found, wg, closer, open, winner>>

(* doRunCmd: the command succeeded; its output, without ssh's              *)
(* Pseudo-terminal warning, is empty or a matching line.                   *)
CmdAnswers(n) ==
    /\ worker[n] = "cmd"
    /\ worker' = [worker EXCEPT ![n] = "sendResult"]
    /\ \E b \in BOOLEAN : found' = [found EXCEPT ![n] = b]
    /\ UNCHANGED <<main, wg, closer, open, winner>>

(* Mutant of Receive: the exit signal is not waited for.                   *)
ReceiveNoExit(n) ==
    /\ main = "select"
    /\ open
    /\ worker[n] = "sendResult"
    /\ worker' = [worker EXCEPT ![n] = "deferred"]
    /\ main' = "returned"
    /\ winner' = n
    /\ UNCHANGED <<found, wg, closer, open>>

(* resultChan <- result meets case str, ok := <-resultChan: return str.    *)
(* A worker that found a line goes on to exitChan <- true.                 *)
Receive(n) ==
    /\ main = "select"
    /\ open
    /\ worker[n] = "sendResult"
    /\ worker' = [worker EXCEPT ![n] = IF found[n] THEN "sendExit"
                                                   ELSE "deferred"]
    /\ main' = "returned"
    /\ winner' = n
    /\ UNCHANGED <<found, wg, closer, open>>

(* doRunCmd: the deferred wg.Done().                                       *)
Done(n) ==
    /\ worker[n] = "deferred"
    /\ worker' = [worker EXCEPT ![n] = "exited"]
    /\ wg' = wg - 1
    /\ UNCHANGED <<main, found, closer, open, winner>>

(* Mutant of Wait: the closer waits for the first worker only.             *)
WaitForFirst ==
    /\ closer = "wait"
    /\ wg < Cardinality(Nodes)
    /\ closer' = "close"
    /\ UNCHANGED <<main, worker, found, wg, open, winner>>

(* The closer: wg.Wait().                                                  *)
Wait ==
    /\ closer = "wait"
    /\ wg = 0
    /\ closer' = "close"
    /\ UNCHANGED <<main, worker, found, wg, open, winner>>

(* The closer: close(resultChan).                                          *)
Close ==
    /\ closer = "close"
    /\ closer' = "done"
    /\ open' = FALSE
    /\ UNCHANGED <<main, worker, found, wg, winner>>

(* Mutant of SelectClosed: a closed channel ends the search.               *)
SelectClosedReturns ==
    /\ main = "select"
    /\ ~open
    /\ main' = "returned"
    /\ UNCHANGED <<worker, found, wg, closer, open, winner>>

(* The select takes resultChan because it is closed: ok is false.          *)
SelectClosed ==
    /\ main = "select"
    /\ ~open
    /\ main' = "test"
    /\ UNCHANGED <<worker, found, wg, closer, open, winner>>

(* for !done: nothing has set done.  (Receiving from exitChan would; that  *)
(* no worker is ever there while the loop runs is ExitBranchDead below, so *)
(* the branch, and the "not found" error after the loop, are left out.)    *)
LoopTest ==
    /\ main = "test"
    /\ main' = "select"
    /\ UNCHANGED <<worker, found, wg, closer, open, winner>>

Worker(n) == CmdFails(n) \/ CmdAnswers(n) \/ Receive(n) \/ Done(n)

Next ==
    \/ Start \/ SelectClosed \/ LoopTest
    \/ Wait \/ Close
    \/ \E n \in Nodes : Worker(n)

Spec == Init /\ [][Next]_vars

(* Go runs every goroutine that can run, and the remote greps end.         *)
Fairness ==
    /\ WF_vars(Start) /\ WF_vars(SelectClosed) /\ WF_vars(LoopTest)
    /\ WF_vars(Wait) /\ WF_vars(Close)
    /\ \A n \in Nodes :
          /\ WF_vars(CmdFails(n) \/ CmdAnswers(n))
          /\ WF_vars(Receive(n))
          /\ WF_vars(Done(n))

FairSpec == Spec /\ Fairness

-----------------------------------------------------------------------------
(* While the select loop runs no worker offers the exit signal: the signal *)
(* follows a result, and the first result has already ended the loop.      *)
ExitBranchDead ==
    main # "returned" => \A n \in Nodes : worker[n] # "sendExit"

(* The loop meets a closed channel (and then spins on it for ever) only    *)
(* when every command failed or found nothing; one answer, even an empty   *)
(* one, prevents it.                                                       *)
SpinsOnlyWithoutAnswer ==
    main # "returned" /\ ~open =>
        \A n \in Nodes : worker[n] = "exited" /\ ~found[n]

(* Once a matching line has been returned the closer stays in wg.Wait():   *)
(* the winner never leaves its send on exitChan, so the channel is never   *)
(* closed and the losers are not released (nor can they panic).            *)
LogReturnedNeverCloses ==
    winner # Nothing /\ found[winner] => open /\ closer = "wait" /\ wg > 0

(* The goroutines that have not called Done yet.                           *)
Live == {n \in Nodes : worker[n] # "exited"}

(* What makes the three properties above inductive: the counter counts the *)
(* live goroutines, a worker that found a line is at one of its two sends, *)
(* and it is at the second one exactly when its string was returned.       *)
Counted == wg = Cardinality(Live)

Control ==
    /\ main = "start" <=> closer = "unborn"
    /\ \A n \in Nodes : worker[n] = "unborn" <=> main = "start"
    /\ closer \in {"close", "done"} => wg = 0
    /\ open <=> closer # "done"
    /\ winner # Nothing <=> main = "returned"

FoundStaysAtSends ==
    \A n \in Nodes :
        /\ found[n] => worker[n] \in {"sendResult", "sendExit"}
        /\ worker[n] = "sendExit" <=> winner = n /\ found[n]
        /\ winner = n => worker[n] \in {"sendExit", "deferred", "exited"}

(* The inductive invariant of ThemisdSearch.                               *)
SearchInv == TypeOK /\ Counted /\ Control /\ FoundStaysAtSends

(* searchThemisd returns as soon as one command has something to send.     *)
AnswerLeadsToReturn ==
    (\E n \in Nodes : worker[n] = "sendResult") ~> main = "returned"

(* Every command failed or found nothing.                                  *)
AllWithoutAnswer == \A n \in Nodes : worker[n] = "exited" /\ ~found[n]

(* Without a single answer searchThemisd never returns: the "themisd log   *)
(* not found" error of its last line is not reached.                       *)
NoAnswerNeverReturns ==
    [](AllWithoutAnswer /\ main # "returned" => [](main # "returned"))

(* The comments on exitChan call it the exit channel and its send the exit *)
(* signal: a winner that offers the signal delivers it and exits.          *)
ExitSignalDelivered ==
    \A n \in Nodes : worker[n] = "sendExit" ~> worker[n] = "exited"
=============================================================================
