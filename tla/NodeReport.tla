----------------------------- MODULE NodeReport -----------------------------
(***************************************************************************)
(* GetNodeUnavailableDetail (miku-tools/stream): the reader of the files   *)
(* that NodeMonitor writes.  The files of the last days are read from the  *)
(* oldest on; within a file, every second record of a node completes a     *)
(* pair and the FIRST record of the pair is reported with its reason.      *)
(* "ok" is such a reason too, and what is left of a file is dropped.       *)
(***************************************************************************)
EXTENDS Naturals, Sequences, FiniteSets, SequencesExt

CONSTANTS
    Nodes,
    Statuses,      \* the statuses that records have
    Histories      \* the files of the days, oldest first: [there, lines]

Bad == [bad |-> TRUE]      \* a line that is no NodeInfo, as the last, empty one
Record == [node : Nodes, status : Statuses]
Missing == [there |-> FALSE, lines |-> <<>>]   \* no such file
Nil == <<>>

VARIABLES
    pc,      \* "read", or "dead": log.Fatalln
    args,    \* the files
    world,   \* day: the file being read; line: the next of its lines
    mem      \* last: lastNodeInfoMap; details: nodeUnavailableDetailMap, the
             \* reasons per node

vars == <<pc, args, world, mem>>

Closed == [n \in Nodes |-> Nil]

Init ==
    /\ pc = "read"
    /\ args \in Histories
    /\ world = [day |-> 0, line |-> 1]
    /\ mem = [last |-> Closed, details |-> [n \in Nodes |-> <<>>]]

-----------------------------------------------------------------------------
(* getUnavailableReasion: the first of the checks that fails.              *)
Reason(s) ==
    IF s.runtime # "Serving" THEN "offline"
    ELSE IF ~s.ports THEN "no streamd ports"
    ELSE IF ~s.ip THEN "no available ip" ELSE "ok"

AtEnd == world.day > 0 => world.line > Len(args[world.day].lines)

NextDay ==
    /\ pc = "read" /\ AtEnd /\ world.day < Len(args)
    /\ world' = [day |-> world.day + 1, line |-> 1]
    /\ pc' = IF args[world'.day].there THEN "read" ELSE "dead"
    /\ UNCHANGED args

(* Mutant of NextFile: the map of open pairs lives on from file to file.   *)
NextFileKeepsLast == NextDay /\ UNCHANGED mem

(* GetNodeUnavailableDetail: the next date; LoadNodePoint of its file, or  *)
(* log.Fatalln when it cannot be read; BuildNodeUnavailableDetailMap.      *)
NextFile == NextDay /\ mem' = [mem EXCEPT !.last = Closed]

Line == args[world.day].lines[world.line]
Open == mem.last[Line.node]

ReadLine ==
    /\ pc = "read" /\ ~AtEnd
    /\ world' = [world EXCEPT !.line = @ + 1]
    /\ UNCHANGED <<pc, args>>

(* LoadNodePoint: Unmarshal fails, the line is skipped.                    *)
SkipBad == ReadLine /\ Line = Bad /\ UNCHANGED mem

(* The node has no open pair: keep a copy of the record.                   *)
OpenPair ==
    /\ ReadLine /\ Line # Bad /\ Open = Nil
    /\ mem' = [mem EXCEPT !.last[Line.node] = Line]

(* Mutant of ClosePair: the record that closes a pair opens the next one.  *)
ClosePairReopens ==
    /\ ReadLine /\ Line # Bad /\ Open # Nil
    /\ mem' = [mem EXCEPT !.details[Line.node] = Append(@, Reason(Open.status)),
                          !.last[Line.node] = Line]

(* The node has one: report its record, close the pair.                    *)
ClosePair ==
    /\ ReadLine /\ Line # Bad /\ Open # Nil
    /\ mem' = [mem EXCEPT !.details[Line.node] = Append(@, Reason(Open.status)),
                          !.last[Line.node] = Nil]

Next == NextFile \/ SkipBad \/ OpenPair \/ ClosePair

Spec == Init /\ [][Next]_vars

-----------------------------------------------------------------------------
(* The node's records among the first k lines of day d.                    *)
RecordsOf(n, d, k) ==
    SelectSeq(SubSeq(args[d].lines, 1, k), LAMBDA l : l # Bad /\ l.node = n)

(* The 1st, 3rd, 5th ... of the records that have a successor.             *)
FirstsOfPairs(s) == [j \in 1..(Len(s) \div 2) |-> Reason(s[2 * j - 1].status)]

Done(d) == IF d < world.day THEN Len(args[d].lines) ELSE world.line - 1

(* At every point the report of a node is the first records of the pairs   *)
(* of each file read so far, however the nodes' records interleave, and a  *)
(* pair never spans two files.                                             *)
PairsReported ==
    \A n \in Nodes :
        mem.details[n] = FlattenSeq([d \in 1..world.day |->
                         FirstsOfPairs(RecordsOf(n, d, Done(d)))])
=============================================================================
