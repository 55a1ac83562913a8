----------------------------- MODULE StreamdLog -----------------------------
(***************************************************************************)
(* streamd-log: for each window of ten minutes the log files are listed in *)
(* hdfs and searched by one goroutine each, which appends what it finds to *)
(* the result file and increments the global count without a lock; the     *)
(* next window starts when all have called Done; at the end the user is    *)
(* notified.  A WriteString holds the lock of the file, so it is one step. *)
(***************************************************************************)
EXTENDS Integers, FiniteSets, Sequences, Functions

CONSTANTS
    Windows,    \* 6 if the time has a *, else 1
    Files       \* that a window may have

Job == (1..Windows) \X Files    \* a goroutine: its window and its file

VARIABLES
    pc,      \* of main: list, go, wait, notify, done; dead: a panic
    args,    \* files that are listed in each window
    world,   \* job: step of each goroutine; out: the result file, the
             \* goroutines that wrote, in order; (history) missed: those whose
             \* command or write failed
    mem      \* idx: window; wg: of each; count; loaded: (goroutine) count as it
             \* was read by count++

vars == <<pc, args, world, mem>>

Init ==
    /\ pc = "list"
    /\ args = [w \in 1..Windows |-> {}]
    /\ world = [job |-> [j \in Job |-> "no"], out |-> <<>>, missed |-> {}]
    /\ mem = [idx |-> 1, wg |-> [w \in 1..Windows |-> 0], count |-> 0,
              loaded |-> [j \in Job |-> 0]]

-----------------------------------------------------------------------------
(* fetchLog10Min returns: the next window, or the notification.            *)
NextWindow ==
    IF mem.idx = Windows THEN pc' = "notify" /\ UNCHANGED mem
                         ELSE pc' = "list" /\ mem' = [mem EXCEPT !.idx = @ + 1]

(* Mutant of List: wg.Add(1) once more.                                    *)
ListAddsOneMore(S) ==
    /\ pc = "list" /\ pc' = "go"
    /\ args' = [args EXCEPT ![mem.idx] = S]
    /\ mem' = [mem EXCEPT !.wg[mem.idx] = Cardinality(S) + 1]
    /\ UNCHANGED world

(* hdfs dfs -ls, parseFileList, wg.Add(len(files)).                        *)
List(S) ==
    /\ pc = "list" /\ pc' = "go"
    /\ args' = [args EXCEPT ![mem.idx] = S]
    /\ mem' = [mem EXCEPT !.wg[mem.idx] = Cardinality(S)]
    /\ UNCHANGED world

(* A failed listing is logged and the window skipped.                      *)
ListFails == pc = "list" /\ NextWindow /\ UNCHANGED <<args, world>>

Go ==
    /\ pc = "go"
    /\ LET left == {f \in args[mem.idx] : world.job[<<mem.idx, f>>] = "no"} IN
       IF left = {} THEN pc' = "wait" /\ UNCHANGED world
       ELSE /\ \E f \in left : world' = [world EXCEPT !.job[<<mem.idx, f>>] = "run"]
            /\ UNCHANGED pc
    /\ UNCHANGED <<args, mem>>

(* Mutant of Wait: nobody is waited for.                                   *)
WaitForNobody == pc = "wait" /\ NextWindow /\ UNCHANGED <<args, world>>

Wait == pc = "wait" /\ mem.wg[mem.idx] = 0 /\ NextWindow /\ UNCHANGED <<args, world>>

(* wecomNotify: when the post fails, its nil response is dereferenced.     *)
Notify == pc = "notify" /\ pc' \in {"done", "dead"} /\ UNCHANGED <<args, world, mem>>

-----------------------------------------------------------------------------
Goes(j, from, to) ==
    world.job[j] = from /\ world' = [world EXCEPT !.job[j] = to]
Misses(j, from, to) ==
    /\ world.job[j] = from
    /\ world' = [world EXCEPT !.job[j] = to, !.missed = @ \cup {j}]

(* hdfs dfs -cat | grep.  No match is an error, too.                       *)
Search(j) == (Goes(j, "run", "write") \/ Misses(j, "run", "load")) /\ UNCHANGED mem

Write(j) ==
    /\ \/ /\ world.job[j] = "write"
          /\ world' = [world EXCEPT !.job[j] = "load", !.out = Append(@, j)]
       \/ Misses(j, "write", "load")
    /\ UNCHANGED mem

(* count++, deferred last and so run first, is a read and a write.         *)
Load(j) == Goes(j, "load", "store") /\ mem' = [mem EXCEPT !.loaded[j] = mem.count]
Store(j) == Goes(j, "store", "done") /\ mem' = [mem EXCEPT !.count = mem.loaded[j] + 1]

Done(j) == Goes(j, "done", "end") /\ mem' = [mem EXCEPT !.wg[j[1]] = @ - 1]

-----------------------------------------------------------------------------
Goroutine(j) ==
    /\ pc \notin {"done", "dead"}
    /\ Search(j) \/ Write(j) \/ Load(j) \/ Store(j) \/ Done(j)
    /\ UNCHANGED <<pc, args>>

Main == (\E S \in SUBSET Files : List(S)) \/ ListFails \/ Go \/ Wait \/ Notify

Next == Main \/ \E j \in Job : Goroutine(j)

(* Every goroutine runs, and every remote command ends.                    *)
Spec == Init /\ [][Next]_vars /\ WF_vars(Main) /\ \A j \in Job : WF_vars(Goroutine(j))

-----------------------------------------------------------------------------
(* When the user is notified the result file holds what every listed file  *)
(* has, once, but for the commands and writes that failed, and it is in    *)
(* the order of the windows.                                               *)
Gathered ==
    pc \in {"notify", "done", "dead"} =>
        /\ IsInjective(world.out)
        /\ Range(world.out) = {j \in Job : j[2] \in args[j[1]]} \ world.missed
        /\ \A a, b \in DOMAIN world.out : a < b => world.out[a][1] <= world.out[b][1]

(* However the unlocked increments race, the last progress counts at least *)
(* one file of every window that has any, and no file twice: wg.Wait keeps *)
(* the windows' races apart.                                               *)
CountWithin ==
    pc = "notify" =>
        /\ Cardinality({w \in 1..Windows : args[w] # {}}) <= mem.count
        /\ mem.count <= Cardinality({j \in Job : j[2] \in args[j[1]]})

(* The user is notified, or the notification ends the tool.                *)
Ends == <>(pc \in {"done", "dead"})
=============================================================================
