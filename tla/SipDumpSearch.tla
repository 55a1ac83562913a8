--------------------------- MODULE SipDumpSearch ----------------------------
(***************************************************************************)
(* multiLineSearch.py, which qvsdbg writes to a sip node and runs there:   *)
(* one process per dump file of the three sip services collects the        *)
(* messages (from one "---" line to the next) that have all keywords, and  *)
(* writes them to a result file of the dump's name, in one directory for   *)
(* the three services; then the result files are printed.  A line is the   *)
(* set of the keywords it contains, or "sep".                              *)
(***************************************************************************)
EXTENDS Integers, Sequences, FiniteSetsExt

CONSTANTS
    Keys,      \* keywords: integers, in the order of the dictionary
    Dumps,     \* the possible contents of the directories: functions from
               \* files to [name, lines]
    TooLarge,  \* more lines than that are not printed (5M)
    MaxCalls   \* bound: searches

VARIABLES
    pc,      \* control point of the main process
    args,    \* the dump files
    world,   \* calls; results: name -> lines <<file, line>> of its result file
    mem      \* keys; procs: file -> state of its process

vars == <<pc, args, world, mem>>

Sep == {0}

None == [keys |-> {}, procs |-> <<>>]

Init ==
    /\ pc = "idle"
    /\ args \in Dumps
    /\ world = [calls |-> 0, results |-> <<>>]
    /\ mem = None

Put(f, k, v) == [x \in DOMAIN f \cup {k} |-> IF x = k THEN v ELSE f[x]]

-----------------------------------------------------------------------------
(* Mutant of Closed: what follows the last separator is a message as well. *)
ClosedOrLast(lines) ==
    LET seps == {i \in DOMAIN lines : lines[i] = Sep} \cup {Len(lines) + 1}
    IN  {b \in seps \X seps :
            b[1] < b[2] /\ ~\E k \in seps : b[1] < k /\ k < b[2]}

(* multiLineSearch: the messages that are followed by another separator.   *)
Closed(lines) ==
    LET seps == {i \in DOMAIN lines : lines[i] = Sep}
    IN  {b \in seps \X seps :
            b[1] < b[2] /\ ~\E k \in seps : b[1] < k /\ k < b[2]}

(* checkKeywords: a line counts for the first keyword that it contains.    *)
Found(line) == IF line \cap mem.keys = {} THEN {} ELSE {Min(line \cap mem.keys)}

(* allNeedFound.                                                           *)
Matching(lines) ==
    {b \in Closed(lines) :
        UNION {Found(lines[i]) : i \in b[1]+1..b[2]-1} = mem.keys}

(* The lines of the messages, each with the separator before it.           *)
InMessage(f) == UNION {b[1]..b[2]-1 : b \in Matching(args[f].lines)}

Result(f) ==
    LET upto[i \in 0..Len(args[f].lines)] ==
            IF i = 0 THEN <<>>
            ELSE IF i \in InMessage(f) THEN Append(upto[i - 1], <<f, i>>) ELSE upto[i - 1]
    IN  upto[Len(args[f].lines)]

(* Mutant of Start: the results of the last search stay.                   *)
StartKeepsResults(keys) ==
    /\ pc = "idle" /\ world.calls < MaxCalls
    /\ world' = [world EXCEPT !.calls = @ + 1]
    /\ mem' = [None EXCEPT !.keys = keys, !.procs = [f \in DOMAIN args |-> "run"]]
    /\ pc' = "join" /\ UNCHANGED args

(* main: the results of the last search are deleted, one process per file  *)
(* is started.                                                             *)
Start(keys) ==
    /\ pc = "idle" /\ world.calls < MaxCalls
    /\ world' = [calls |-> world.calls + 1, results |-> <<>>]
    /\ mem' = [None EXCEPT !.keys = keys, !.procs = [f \in DOMAIN args |-> "run"]]
    /\ pc' = "join" /\ UNCHANGED args

(* process_file, write_to_file: nothing found, no file; else it is opened, *)
(* which empties it, and then written from its beginning.                  *)
Search(f) ==
    /\ mem.procs[f] = "run"
    /\ IF Result(f) = <<>>
       THEN mem' = [mem EXCEPT !.procs[f] = "done"] /\ UNCHANGED world
       ELSE /\ mem' = [mem EXCEPT !.procs[f] = "write"]
            /\ world' = [world EXCEPT !.results = Put(@, args[f].name, <<>>)]
    /\ UNCHANGED <<pc, args>>

Over(new, old) ==
    [i \in 1..Max({Len(new), Len(old)}) |-> IF i <= Len(new) THEN new[i] ELSE old[i]]

WriteToFile(f) ==
    /\ mem.procs[f] = "write"
    /\ world' = [world EXCEPT !.results[args[f].name] = Over(Result(f), @)]
    /\ mem' = [mem EXCEPT !.procs[f] = "done"]
    /\ UNCHANGED <<pc, args>>

(* After the joins: get_directory_size, print_file_contents.               *)
PrintContents ==
    /\ pc = "join"
    /\ \A f \in DOMAIN args : mem.procs[f] = "done"
    /\ LET sizes == MapThenSumSet(LAMBDA n : Len(world.results[n]), DOMAIN world.results)
       IN  pc' = IF sizes > TooLarge THEN "idle" ELSE "printed"
    /\ UNCHANGED <<args, world, mem>>

Exit == pc = "printed" /\ pc' = "idle" /\ UNCHANGED <<args, world, mem>>

Next ==
    \/ \E keys \in SUBSET Keys \ {{}} : Start(keys)
    \/ \E f \in DOMAIN mem.procs : Search(f) \/ WriteToFile(f)
    \/ PrintContents \/ Exit

Spec == Init /\ [][Next]_vars

-----------------------------------------------------------------------------
(* Every line that is printed is one of a message that has all keywords of *)
(* this search, also when dumps of two services have the same name and     *)
(* their processes write the same result file; and if no two have, every   *)
(* message is printed that has, unless it is its dump's last, or two       *)
(* keywords are on one line.                                               *)
Has(f, i, j) ==
    \A k \in mem.keys : \E n \in i+1..j-1 : k \in args[f].lines[n]

Lines == UNION {{world.results[n][i] : i \in DOMAIN world.results[n]} :
                    n \in DOMAIN world.results}

MessagesFound ==
    pc = "printed" =>
        /\ \A l \in Lines : \E i \in 1..l[2], j \in l[2]+1..Len(args[l[1]].lines) :
               args[l[1]].lines[i] = Sep /\ args[l[1]].lines[j] = Sep /\ Has(l[1], i, j)
        /\ (\A f, g \in DOMAIN args : f # g => args[f].name # args[g].name) =>
               \A f \in DOMAIN args :
                   LET lines == args[f].lines
                       seps == {i \in DOMAIN lines : lines[i] = Sep}
                   IN  \A i, j \in seps :
                          /\ i < j /\ Has(f, i, j)
                          /\ \A n \in i+1..j-1 :
                                 n \notin seps /\ Cardinality(lines[n]) <= 1
                          => \A n \in i..j-1 : <<f, n>> \in Lines
=============================================================================
