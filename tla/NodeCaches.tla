----------------------------- MODULE NodeCaches -----------------------------
(***************************************************************************)
(* miku-tools: the nodes that a command works on come from redis, or from  *)
(* a file an earlier command or the user has left: LowBw keeps what it     *)
(* fetched in /tmp/nodejson, and every command that depends on NodeInfo    *)
(* takes /tmp/allNodes.json, which DumpAllNodes writes elsewhere.          *)
(***************************************************************************)
EXTENDS Integers

CONSTANTS MaxChanges, MaxCalls   \* bounds: changes of the nodes, commands

VARIABLES pc, args,
    world,   \* now: the state of the nodes in redis, 1, 2 ...; the files, as
             \* the state they are of, or Empty, or Missing; calls
    mem      \* cmd, force; used: what the command worked on; fetched:
             \* (history) what LowBw last wrote

vars == <<pc, args, world, mem>>

Empty == 0
Missing == -1

Init ==
    /\ pc = "idle" /\ args = "nodes"
    /\ world = [now |-> 1, nodejson |-> Missing, tmp |-> Missing, here |-> Missing,
                calls |-> 0]
    /\ mem = [cmd |-> "none", force |-> FALSE, used |-> Empty, fetched |-> Missing]

Change ==
    /\ world.now <= MaxChanges
    /\ world' = [world EXCEPT !.now = @ + 1]
    /\ UNCHANGED <<pc, args, mem>>

(* The user moves what DumpAllNodes wrote, or removes it.                  *)
UserMoves ==
    /\ world.here # Missing
    /\ world' = [world EXCEPT !.tmp = world.here, !.here = Missing]
    /\ UNCHANGED <<pc, args, mem>>
UserRemoves ==
    /\ world.tmp # Missing
    /\ world' = [world EXCEPT !.tmp = Missing]
    /\ UNCHANGED <<pc, args, mem>>

Call(cmd, force) ==
    /\ pc = "idle" /\ world.calls < MaxCalls
    /\ pc' = cmd
    /\ world' = [world EXCEPT !.calls = @ + 1]
    /\ mem' = [mem EXCEPT !.cmd = cmd, !.force = force, !.used = Empty]
    /\ UNCHANGED args

Done == pc' = "idle" /\ UNCHANGED args

(* Mutant of Fetch: what could not be fetched is not written.              *)
FetchKeepsFile ==
    \E got \in {Empty, world.now} :
        /\ world' = [world EXCEPT !.nodejson = IF got = Empty THEN @ ELSE got]
        /\ mem' = [mem EXCEPT !.used = got, !.fetched = got]

(* getAllNodes, "" when the command failed or its echo is not found; what  *)
(* it returns is written, or cannot be, and then there is no report.       *)
Fetch ==
    \/ UNCHANGED <<world, mem>>
    \/ \E got \in {Empty, world.now} :
           /\ world' = [world EXCEPT !.nodejson = got]
           /\ mem' = [mem EXCEPT !.used = got, !.fetched = got]

FetchNodes ==
    /\ pc = "LowBw" /\ (mem.force \/ world.nodejson = Missing)
    /\ Fetch /\ Done

ReadNodes ==
    /\ pc = "LowBw" /\ ~mem.force /\ world.nodejson # Missing
    /\ mem' = [mem EXCEPT !.used = world.nodejson]
    /\ Done /\ UNCHANGED world

(* buildAllNodesMap: a file that cannot be read, or redis failing, leaves  *)
(* no nodes.                                                               *)
BuildAllNodesMap ==
    /\ pc = "NodeInfo"
    /\ \E got \in {Empty, IF world.tmp = Missing THEN world.now ELSE world.tmp} :
           mem' = [mem EXCEPT !.used = got]
    /\ pc' = "DumpAllNodes" /\ UNCHANGED <<args, world>>

DumpAllNodes ==
    /\ pc = "DumpAllNodes"
    /\ world' \in {world, [world EXCEPT !.here = mem.used]}
    /\ Done /\ UNCHANGED mem

Next ==
    \/ Change \/ UserMoves \/ UserRemoves
    \/ \E force \in BOOLEAN : Call("LowBw", force)
    \/ Call("NodeInfo", FALSE)
    \/ FetchNodes \/ ReadNodes \/ BuildAllNodesMap \/ DumpAllNodes

Spec == Init /\ [][Next]_vars

-----------------------------------------------------------------------------
(* LowBw reports on what was fetched last, by itself or by an earlier call,*)
(* however the nodes have changed: after a failed fetch that is nothing,   *)
(* until a call with Force.  What an other command works on is a state     *)
(* that was once in redis, or nothing, and never that of LowBw's file.     *)
ReportsLastFetch ==
    /\ pc = "idle" /\ mem.cmd = "LowBw" =>
           /\ mem.used \in {Empty, mem.fetched}
           /\ mem.fetched = Empty => world.nodejson = Empty
    /\ mem.used <= world.now
=============================================================================
