------------------------------- MODULE Gather -------------------------------
(***************************************************************************)
(* What a caller of ParaleelTask.Run (qvsdbg/pysearch.go) relies on: every *)
(* task is asked once, its answer joins the result at most once and in     *)
(* whatever order the answers come, and Run returns after the last one.    *)
(***************************************************************************)
EXTENDS Naturals, Sequences

CONSTANT N      \* number of tasks, len(p.Params)

Task == 1..N

VARIABLES
    collected,  \* the tasks whose answer the caller has received
    result,     \* the tasks whose non-empty log was appended, in order
    returned    \* Run has returned

vars == <<collected, result, returned>>

Init ==
    /\ collected = {}
    /\ result = <<>>
    /\ returned = FALSE

(* One task answers: an empty answer leaves the text as it is.             *)
Collect(i) ==
    /\ ~returned
    /\ i \notin collected
    /\ collected' = collected \cup {i}
    /\ result' \in {result, Append(result, i)}
    /\ UNCHANGED returned

Return ==
    /\ ~returned
    /\ collected = Task
    /\ returned' = TRUE
    /\ UNCHANGED <<collected, result>>

Next == Return \/ \E i \in Task : Collect(i)

Spec == Init /\ [][Next]_vars
=============================================================================
