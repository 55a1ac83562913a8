----------------------------- MODULE SipSearch ------------------------------
(***************************************************************************)
(* GetSipMsgs (qvsdbg): the handler it gives to ParaleelTask runs one or   *)
(* two remote commands per node, the copy of the python search script to   *)
(* the node (when Conf.WritePyToNode is set) and then the script itself.   *)
(* Everything around the handler is ParallelTask; what the script does on  *)
(* the node is SipDumpSearch, and here only what it may leave out.         *)
(***************************************************************************)
EXTENDS ParallelTask

VARIABLES
    writePy,   \* Conf.WritePyToNode
    hasLog,    \* the node's dumps hold matches
    script,    \* the script is on the node
    step,      \* the next command of each handler
    failed,    \* a command of the handler returned an error
    shown      \* what the script printed of the node's matches

sipVars == <<writePy, hasLog, script, step, failed, shown>>

SipInit ==
    /\ Init
    /\ writePy \in BOOLEAN
    /\ hasLog \in [Task -> BOOLEAN]
    /\ script \in [Task -> BOOLEAN]
    /\ step = [i \in Task |-> IF writePy THEN "write" ELSE "run"]
    /\ failed = [i \in Task |-> FALSE]
    /\ shown = [i \in Task |-> "not run"]

(* The handler of task i returns a; doTask goes on to its send.            *)
Answers(i, a) ==
    /\ answer' = [answer EXCEPT ![i] = a]
    /\ task' = [task EXCEPT ![i] = "send"]
    /\ UNCHANGED <<main, spawned, wg, closer, open, finalResult>>

(* Mutant of WriteScript: the handler runs on after a failed copy.         *)
WriteScriptIgnoresError(i) ==
    /\ task[i] = "handle"
    /\ step[i] = "write"
    /\ step' = [step EXCEPT ![i] = "run"]
    /\ script' \in {[script EXCEPT ![i] = b] : b \in BOOLEAN}
    /\ failed' \in {failed, [failed EXCEPT ![i] = TRUE]}
    /\ UNCHANGED <<vars, writePy, hasLog, shown>>

(* writeScriptToNode.  A failed copy may have truncated the file or not    *)
(* touched it; the handler then returns "".                                *)
WriteScript(i) ==
    /\ task[i] = "handle"
    /\ step[i] = "write"
    /\ step' = [step EXCEPT ![i] = "run"]
    /\ \/ /\ script' = [script EXCEPT ![i] = TRUE]
          /\ UNCHANGED <<vars, failed>>
       \/ /\ failed' = [failed EXCEPT ![i] = TRUE]
          /\ script' \in {script, [script EXCEPT ![i] = FALSE]}
          /\ Answers(i, "empty")
    /\ UNCHANGED <<writePy, hasLog, shown>>

(* What the script prints when it exits with 0.  It may leave out matches, *)
(* some or all: the last message of a dump, the dumps of two services that *)
(* have the same name and so one result file, results of up to 102 bytes,  *)
(* a child process that died; and instead of more than 5M it prints an     *)
(* error.                                                                  *)
LeavesOut == {"part", "nothing", "too large"}
Prints(i) == IF hasLog[i] THEN {"all"} \cup LeavesOut ELSE {"nothing"}

(* Mutant of RunScript: the separator line counts as a log.                *)
RunScriptKeepsSep(i) ==
    /\ task[i] = "handle"
    /\ step[i] = "run"
    /\ \/ /\ script[i]
          /\ Answers(i, "log")
          /\ shown' \in {[shown EXCEPT ![i] = p] : p \in Prints(i)}
          /\ UNCHANGED failed
       \/ /\ failed' = [failed EXCEPT ![i] = TRUE]
          /\ Answers(i, "empty")
          /\ UNCHANGED shown
    /\ UNCHANGED <<writePy, hasLog, script, step>>

(* Mutant of RunScript: a handler that failed answers a second time.       *)
RunScriptRetries(i) ==
    /\ step[i] = "run"
    /\ \/ /\ task[i] = "handle"
          /\ script[i]
          /\ Answers(i, IF hasLog[i] THEN "log" ELSE "empty")
          /\ UNCHANGED failed
       \/ /\ task[i] \in {"handle", "sent"}
          /\ failed' = [failed EXCEPT ![i] = TRUE]
          /\ Answers(i, "empty")
    /\ UNCHANGED shown
    /\ UNCHANGED <<writePy, hasLog, script, step>>

(* runMultiLineSearchScript.  Without the script python fails; a reply     *)
(* that is only the separator is taken for no match and becomes "", as     *)
(* errors do, and any other text for the matches, the script's error about *)
(* too large results included.                                             *)
RunScript(i) ==
    /\ task[i] = "handle"
    /\ step[i] = "run"
    /\ \/ /\ script[i]
          /\ \E p \in Prints(i) :
                /\ shown' = [shown EXCEPT ![i] = p]
                /\ Answers(i, IF p = "nothing" THEN "empty" ELSE "log")
          /\ UNCHANGED failed
       \/ /\ failed' = [failed EXCEPT ![i] = TRUE]
          /\ Answers(i, "empty")
          /\ UNCHANGED shown
    /\ UNCHANGED <<writePy, hasLog, script, step>>

RunStep ==
    \/ StartTask \/ StartCloser \/ Return
    \/ Wait \/ Close
    \/ \E i \in Task : Deliver(i) \/ Done(i)

SipNext ==
    \/ RunStep /\ UNCHANGED sipVars
    \/ \E i \in Task : WriteScript(i) \/ RunScript(i)

SipSpec == SipInit /\ [][SipNext]_<<vars, sipVars>>

-----------------------------------------------------------------------------
(* The text GetSipMsgs returns has a part of every node whose script       *)
(* printed something and of no other.  So a node's matches are missing     *)
(* only because one of its commands failed or because its script left them *)
(* out (the nil error GetSipMsgs returns hides either from the caller),    *)
(* and nothing comes from a node without a match or with an error.         *)
MissingExplained ==
    main = "returned" =>
        \A i \in Task :
            /\ Appended(i) => hasLog[i] /\ ~failed[i]
            /\ hasLog[i] => \/ Appended(i) /\ shown[i] = "all"
                            \/ failed[i]
                            \/ shown[i] \in LeavesOut
            /\ shown[i] \in {"all", "part"} => Appended(i)

(* With WritePyToNode set, no answer is the work of an old or truncated    *)
(* script: a node that answered with a log had the script copied first.    *)
FreshScript ==
    writePy => \A i \in Task :
                   answer[i] = "log" => script[i] /\ ~failed[i]

(* Seen from Run, a handler of two commands is one Handle step: SipSearch  *)
(* implements ParallelTask, so all that holds of Run holds here.           *)
ImplementsParallelTask == Spec
=============================================================================
