---------------------------- MODULE NodeMonitor -----------------------------
(***************************************************************************)
(* nodeMonitor (miku-tools/node): every 15 seconds the dynamic nodes are   *)
(* read from redis.  AllNodeInfoMap has the last status of each node and   *)
(* when it was first seen; when it changes, the OLD record is appended to  *)
(* the day's file.  So the files and the map together are a run-length     *)
(* encoding of what the polls saw.  rawNodesMonitor, another command of the*)
(* tool, appends all that redis has of one node, every 30 seconds.  Time is*)
(* counted in polls here.                                                  *)
(***************************************************************************)
EXTENDS DailyFile, FiniteSets, SequencesExt

CONSTANTS
    Nodes,
    Statuses,   \* what a poll can see of a node: the fields of NodeInfo that
                \* isNodeInfoChanged compares, [runtime, ip, ports]
    Dir,        \* "./node_info"
    RawDir,     \* "/tmp/nodes"
    Monitored,  \* Conf.Node
    MaxPolls    \* bound: polls of a run

VARIABLES
    pc,        \* control point, of the one or the other command
    polls,     \* the polls so far, over all starts of the tool
    allNodes,  \* what GetAllRTNodes returned
    todo,      \* the nodes the pass has still to visit
    info,      \* AllNodeInfoMap: status and TimeStamp, or Nil
    polled,    \* (history) what this process has seen of each node
    before,    \* (history) the node's records when this process started
    lost       \* (history) a write of this process failed

monitorVars == <<pc, polls, allNodes, todo, info>>
history == <<polled, before, lost>>
vars == <<fileVars, monitorVars, history>>

Info == [status : Statuses, since : 1..MaxPolls]
(* The dynamic nodes that redis has at a time, and their statuses.         *)
Answers == UNION {[ns -> Statuses] : ns \in SUBSET Nodes}

Record == [node : Nodes, status : Statuses, since : 1..MaxPolls]

TypeOK ==
    /\ FilesOK(Record)
    /\ pc \in {"tick", "visit", "raw tick", "raw delete"}
    /\ polls \in 0..MaxPolls
    /\ allNodes \in Answers
    /\ todo \subseteq DOMAIN allNodes
    /\ \A n \in Nodes : info[n] = Nil \/ info[n] \in Info
    /\ polled \in [Nodes -> Seq(Info)]
    /\ before \in [Nodes -> Nat]
    /\ lost \in BOOLEAN

Init ==
    /\ FilesInit
    /\ pc \in {"tick", "raw tick"} /\ polls = 0
    /\ allNodes = <<>>
    /\ todo = {}
    /\ info = [n \in Nodes |-> Nil]
    /\ polled = [n \in Nodes |-> <<>>]
    /\ before = [n \in Nodes |-> 0]
    /\ lost = FALSE

-----------------------------------------------------------------------------
(* Mutant of IsNodeInfoChanged: the ports are not compared.                *)
IsNodeInfoChangedNoPorts(old, new) ==
    old.runtime # new.runtime \/ old.ip # new.ip

(* isNodeInfoChanged.                                                      *)
IsNodeInfoChanged(old, new) ==
    old.runtime # new.runtime \/ old.ip # new.ip \/ old.ports # new.ports

(* nodeMonitor: a tick, and GetAllRTNodes.                                 *)
Tick ==
    /\ up /\ pc = "tick"
    /\ polls < MaxPolls
    /\ polls' = polls + 1
    /\ allNodes' \in Answers
    /\ todo' = DOMAIN allNodes'
    /\ pc' = "visit"
    /\ UNCHANGED <<fileVars, info, history>>

(* GetAllRTNodes fails: nodeMonitor, and the tool with it, returns.        *)
TickFails ==
    /\ up /\ pc = "tick"
    /\ up' = FALSE
    /\ UNCHANGED <<today, files, touched, file, monitorVars, history>>

(* What buildNodeInfo makes of node n, and the history of the polls.       *)
Seen(n) == [status |-> allNodes[n], since |-> polls]

Visit(n) ==
    /\ up /\ pc = "visit"
    /\ n \in todo
    /\ todo' = todo \ {n}
    /\ polled' = [polled EXCEPT ![n] = Append(@, Seen(n))]
    /\ UNCHANGED <<pc, polls, allNodes, before>>

(* Mutant of FirstSeen: the TimeStamp is not set.                          *)
FirstSeenNoTime(n) ==
    /\ Visit(n)
    /\ info[n] = Nil
    /\ info' = [info EXCEPT ![n] = [Seen(n) EXCEPT !.since = 0]]
    /\ UNCHANGED <<fileVars, lost>>

(* The node is new to the map.                                             *)
FirstSeen(n) ==
    /\ Visit(n)
    /\ info[n] = Nil
    /\ info' = [info EXCEPT ![n] = Seen(n)]
    /\ UNCHANGED <<fileVars, lost>>

Unchanged(n) ==
    /\ Visit(n)
    /\ info[n] # Nil
    /\ ~IsNodeInfoChanged(info[n].status, allNodes[n])
    /\ UNCHANGED <<fileVars, info, lost>>

RecordOf(n, i) == [node |-> n, status |-> i.status, since |-> i.since]

(* The node's records in all files of a directory, by day.                 *)
LoggedIn(dir, n) ==
    LET lines(d) == IF Path(dir, d) \in DOMAIN files THEN files[Path(dir, d)]
                                                     ELSE <<>>
    IN  SelectSeq(FlattenSeq([k \in 1..(MaxDay + 1) |-> lines(k - 1)]),
                  LAMBDA r : r.node = n)

Logged(n) == LoggedIn(IF pc \in {"tick", "visit"} THEN Dir ELSE RawDir, n)

(* The OLD record is written and the map gets the new one, whether or not  *)
(* the write worked.                                                       *)
Changed(n) ==
    /\ Visit(n)
    /\ info[n] # Nil
    /\ IsNodeInfoChanged(info[n].status, allNodes[n])
    /\ Written(Dir, <<RecordOf(n, info[n])>>)
    /\ lost' = (lost \/ Logged(n)' = Logged(n))
    /\ info' = [info EXCEPT ![n] = Seen(n)]

ChangedDies(n) ==
    /\ up /\ pc = "visit"
    /\ n \in todo
    /\ info[n] # Nil
    /\ IsNodeInfoChanged(info[n].status, allNodes[n])
    /\ WriteFatal
    /\ UNCHANGED <<monitorVars, history>>

(* The pass ends: DynIpMonitor pushes the counts, deleteOldFiles.          *)
EndPass ==
    /\ up /\ pc = "visit"
    /\ todo = {}
    /\ DeleteOldFiles(Dir) \/ DeleteFails(Dir)
    /\ pc' = "tick"
    /\ UNCHANGED <<polls, allNodes, todo, info, history>>

-----------------------------------------------------------------------------
(* rawNodesMonitor: a tick, GetAllRTNodes, and what it has of the node.    *)
RawTick ==
    /\ up /\ pc = "raw tick"
    /\ polls < MaxPolls
    /\ polls' = polls + 1
    /\ \E s \in Statuses :
          LET seen == [status |-> s, since |-> polls'] IN
          /\ Written(RawDir, <<RecordOf(Monitored, seen)>>)
          /\ polled' = [polled EXCEPT ![Monitored] = Append(@, seen)]
    /\ lost' = (lost \/ LoggedIn(RawDir, Monitored)' = LoggedIn(RawDir, Monitored))
    /\ pc' = "raw delete"
    /\ UNCHANGED <<allNodes, todo, info, before>>

(* The request fails, the node is not there, or the write is fatal.        *)
RawEnds ==
    /\ up /\ pc = "raw tick"
    /\ WriteFatal
    /\ UNCHANGED <<monitorVars, history>>

RawDelete ==
    /\ up /\ pc = "raw delete"
    /\ DeleteOldFiles(RawDir) \/ DeleteFails(RawDir)
    /\ pc' = "raw tick"
    /\ UNCHANGED <<polls, allNodes, todo, info, history>>

-----------------------------------------------------------------------------
(* The command is started again: the map is empty.                         *)
Restart ==
    /\ ~up
    /\ up' = TRUE
    /\ file' = Nil
    /\ pc' = (IF pc = "visit" THEN "tick" ELSE pc) /\ todo' = {}
    /\ info' = [n \in Nodes |-> Nil]
    /\ polled' = [n \in Nodes |-> <<>>]
    /\ before' = [n \in Nodes |-> Len(Logged(n))]
    /\ lost' = FALSE
    /\ UNCHANGED <<today, files, touched, polls, allNodes>>

Clock == Midnight /\ UNCHANGED <<monitorVars, history>>

Next ==
    \/ Tick \/ TickFails \/ EndPass
    \/ \E n \in Nodes : FirstSeen(n) \/ Unchanged(n) \/ Changed(n) \/ ChangedDies(n)
    \/ RawTick \/ RawEnds \/ RawDelete
    \/ Restart \/ Clock

Spec == Init /\ [][Next]_vars

-----------------------------------------------------------------------------
(* The first poll of each run of equal statuses in s.                      *)
Heads(s) ==
    LET starts == {i \in DOMAIN s : i = 1 \/ s[i].status # s[i - 1].status}
        order == SetToSortSeq(starts, LAMBDA i, j : i < j)
    IN  [k \in DOMAIN order |-> s[order[k]]]

(* The node's records of this process, in the order of the files.          *)
OfThisProcess(n) == SubSeq(Logged(n), before[n] + 1, Len(Logged(n)))

(* The records, followed by the map's entry, say when each status a poll   *)
(* saw began, in order and without repetition, over midnights and absences;*)
(* a record can be missing only after a failed write.                      *)
RunLengthEncoded ==
    \A n \in Nodes : info[n] # Nil =>
        LET heads == [k \in DOMAIN Heads(polled[n]) |->
                          RecordOf(n, Heads(polled[n])[k])]
            said == Append(OfThisProcess(n), RecordOf(n, info[n]))
        IN  /\ ~lost => said = heads
            /\ ToSet(said) \subseteq ToSet(heads)
            /\ Last(said) = Last(heads)

(* Of the raw monitor's node the day files have every poll, once and in    *)
(* order, over midnights and restarts, but for those whose write failed.   *)
EveryPollWritten ==
    pc \in {"raw tick", "raw delete"} =>
        LET seen == [k \in DOMAIN polled[Monitored] |->
                        RecordOf(Monitored, polled[Monitored][k])]
            said == OfThisProcess(Monitored)
        IN  /\ ~lost => said = seen
            /\ \A k \in DOMAIN said :
                  said[k] \in ToSet(seen) /\ (k > 1 => said[k - 1].since < said[k].since)
=============================================================================
