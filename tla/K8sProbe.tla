------------------------------ MODULE K8sProbe ------------------------------
(***************************************************************************)
(* miku-tools, K8s (in stream/k8s.go and, the same, in node/k8s.go): which *)
(* of the nodes that kubernetes has as not ready serve nevertheless?  One  *)
(* goroutine dials each; the channel that they answer on is closed by one  *)
(* that waits for all of them, which is what ends main's loop.             *)
(***************************************************************************)
EXTENDS Integers, Sequences, FiniteSets

CONSTANTS
    Nodes,    \* the nodes that kubernetes lists, in any order
    Inputs    \* what there may be: [notReady, known, public, serve -> sets of nodes]

VARIABLES
    pc,       \* main: "list", "spawn", "collect", "printed"
    args,     \* the nodes: not ready; in redis; with a public ip; serving
    world,    \* the goroutines: job of each node, closer
    mem       \* todo: notReadys not looked at yet; wg; ch, cap, closed; got

vars == <<pc, args, world, mem>>

Init ==
    /\ pc = "list"
    /\ args \in Inputs
    /\ world = [job |-> [n \in Nodes |-> "none"], closer |-> "none"]
    /\ mem = [todo |-> {}, wg |-> 0, ch |-> <<>>, cap |-> 0, closed |-> FALSE,
              got |-> <<>>]

ListNodes ==
    /\ pc = "list" /\ pc' = "spawn"
    /\ LET notReadys == args.notReady \cap args.known
       IN  mem' = [mem EXCEPT !.todo = notReadys, !.cap = Cardinality(notReadys)]
    /\ UNCHANGED <<args, world>>

(* A node is dialled at the first of its ips that is public; wg.Add is     *)
(* main's, before the go statement.                                        *)
Spawn(n) ==
    IF n \in args.public
    THEN /\ world' = [world EXCEPT !.job[n] = "dial"]
         /\ mem' = [mem EXCEPT !.todo = @ \ {n}, !.wg = @ + 1]
    ELSE mem' = [mem EXCEPT !.todo = @ \ {n}] /\ UNCHANGED world

SpawnNext ==
    /\ pc = "spawn"
    /\ \E n \in mem.todo : Spawn(n)
    /\ UNCHANGED <<pc, args>>

SpawnCloser ==
    /\ pc = "spawn" /\ mem.todo = {} /\ pc' = "collect"
    /\ world' = [world EXCEPT !.closer = "waiting"]
    /\ UNCHANGED <<args, mem>>

(* CheckServer; the node's MachineId is sent if it answers, and there is   *)
(* room for every node.                                                    *)
Dial(n) ==
    /\ world.job[n] = "dial"
    /\ world' = [world EXCEPT !.job[n] = IF n \in args.serve THEN "send" ELSE "done"]
    /\ UNCHANGED mem
Send(n) ==
    /\ world.job[n] = "send" /\ (mem.closed \/ Len(mem.ch) < mem.cap)
    /\ world' = [world EXCEPT !.job[n] = IF mem.closed THEN "panic" ELSE "done"]
    /\ mem' = IF mem.closed THEN mem ELSE [mem EXCEPT !.ch = Append(@, n)]
JobDone(n) ==
    /\ world.job[n] = "done"
    /\ world' = [world EXCEPT !.job[n] = "gone"]
    /\ mem' = [mem EXCEPT !.wg = @ - 1]

Job(n) == (Dial(n) \/ Send(n) \/ JobDone(n)) /\ UNCHANGED <<pc, args>>

(* Mutant of Close: the channel is closed without waiting.                 *)
CloseAtOnce ==
    /\ world.closer = "waiting"
    /\ world' = [world EXCEPT !.closer = "gone"]
    /\ mem' = [mem EXCEPT !.closed = TRUE]
    /\ UNCHANGED <<pc, args>>

(* wg.Wait() and close(ch): main has added all its goroutines by then.     *)
Close ==
    /\ world.closer = "waiting" /\ mem.wg = 0
    /\ world' = [world EXCEPT !.closer = "gone"]
    /\ mem' = [mem EXCEPT !.closed = TRUE]
    /\ UNCHANGED <<pc, args>>

Collect ==
    /\ pc = "collect" /\ mem.ch # <<>>
    /\ mem' = [mem EXCEPT !.ch = Tail(@), !.got = Append(@, Head(mem.ch))]
    /\ UNCHANGED <<pc, args, world>>
PrintIds ==
    /\ pc = "collect" /\ mem.ch = <<>> /\ mem.closed
    /\ pc' = "printed" /\ UNCHANGED <<args, world, mem>>

Next ==
    \/ ListNodes \/ SpawnNext \/ SpawnCloser \/ Close \/ Collect \/ PrintIds
    \/ \E n \in Nodes : Job(n)

Spec == Init /\ [][Next]_vars /\ WF_vars(Next)

-----------------------------------------------------------------------------
(* No goroutine sends on the closed channel; and what is printed are the   *)
(* nodes that are not ready, known and public and that serve, each once:   *)
(* no answer comes too late to be counted.                                 *)
AllServingPrinted ==
    /\ \A n \in Nodes : world.job[n] # "panic"
    /\ pc = "printed" =>
           /\ Len(mem.got) = Cardinality({mem.got[i] : i \in DOMAIN mem.got})
           /\ {mem.got[i] : i \in DOMAIN mem.got} =
                  args.notReady \cap args.known \cap args.public \cap args.serve
=============================================================================
