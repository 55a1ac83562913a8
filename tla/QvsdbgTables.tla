---------------------------- MODULE QvsdbgTables ----------------------------
(***************************************************************************)
(* qvsdbg's two tables of a log: ParseNetstat counts the connections of a  *)
(* node by the node at the other end, ParsePoint the points of pili-flowd  *)
(* by stream, method and user.  A line at a time, as the scanner has it.   *)
(***************************************************************************)
EXTENDS Integers, Sequences, FiniteSetsExt

CONSTANTS
    Logs,    \* [kind, lines]: "netstat" with lines [fields, ip] or "points"
             \* with lines [ok, stream, method, uid, bps], <<0>>: no bps
    Nodes    \* the nodes, in the order of the answer: sequence of sets of ips

Methods == {"internal source", "internal destination", "publish", "play",
            "qvs forward"}
Localhost == "127.0.0.1"
IsPrivate(ip) == ip = "private"     \* IP.IsPrivate: not the loopback

VARIABLES pc, args, world, mem

vars == <<pc, args, world, mem>>

Zero(S) == [x \in S |-> 0]
Streams == {1, 2}
Uids == {1, 2}

Init ==
    /\ pc = "read" /\ args \in Logs
    /\ world = "unasked"      \* s.nodes: nil until the first remote ip
    /\ mem = [line |-> 1, unknown |-> 0, localhost |-> 0, private |-> 0,
              nodes |-> Zero(DOMAIN Nodes), seen |-> {},
              method |-> [m \in Methods |-> Zero(Streams)],
              bps |-> Zero(Streams), uid |-> Zero(Uids)]

AtEnd == mem.line > Len(args.lines)
Line == args.lines[mem.line]
Reading(kind) == pc = "read" /\ args.kind = kind /\ ~AtEnd /\ UNCHANGED args
Advanced == [mem EXCEPT !.line = @ + 1]

-----------------------------------------------------------------------------
(* Less than four fields are fatal, but the fifth is read.                 *)
NetstatDies ==
    /\ Reading("netstat") /\ Line.fields < 5
    /\ pc' = IF Line.fields < 4 THEN "fatal" ELSE "panic"
    /\ UNCHANGED <<world, mem>>

Known(ip) == {n \in DOMAIN Nodes : ip \in Nodes[n]}

(* Mutant of Netstat: private connections are counted as private only.     *)
NetstatPrivateApart ==
    /\ Reading("netstat") /\ Line.fields >= 5
    /\ mem' = CASE IsPrivate(Line.ip) -> [Advanced EXCEPT !.private = @ + 1]
                [] Line.ip = Localhost -> [Advanced EXCEPT !.localhost = @ + 1]
                [] OTHER -> [Advanced EXCEPT !.unknown = @ + 1]
    /\ UNCHANGED <<pc, world>>

(* Not the loopback: of the first node that has the ip, or unknown; also   *)
(* if the nodes cannot be got, which is tried again for the next line.     *)
Netstat ==
    /\ Reading("netstat") /\ Line.fields >= 5
    /\ UNCHANGED pc
    /\ LET counted == IF IsPrivate(Line.ip) THEN [Advanced EXCEPT !.private = @ + 1]
                                            ELSE Advanced
       IN  IF Line.ip = Localhost
           THEN mem' = [counted EXCEPT !.localhost = @ + 1] /\ UNCHANGED world
           ELSE /\ world' \in {"cached", world}
                /\ mem' = IF world' = "unasked" \/ Known(Line.ip) = {}
                          THEN [counted EXCEPT !.unknown = @ + 1]
                          ELSE [counted EXCEPT !.nodes[Min(Known(Line.ip))] = @ + 1]

-----------------------------------------------------------------------------
SkipPoint ==
    /\ Reading("points") /\ ~Line.ok
    /\ mem' = Advanced /\ UNCHANGED <<pc, world>>

Sum(s) ==
    LET upto[i \in 0..Len(s)] == IF i = 0 THEN 0 ELSE upto[i - 1] + s[i]
    IN  upto[Len(s)]

(* A list of no samples is divided by its length.                          *)
PointDies ==
    /\ Reading("points") /\ Line.ok /\ Line.bps = <<>>
    /\ pc' = "panic" /\ UNCHANGED <<world, mem>>

(* bps: the greatest mean of a point of the stream.                        *)
Point ==
    /\ Reading("points") /\ Line.ok /\ Line.bps # <<>>
    /\ LET counted == [mem.method EXCEPT ![Line.method][Line.stream] = @ + 1] IN
       mem' = [Advanced EXCEPT
          !.seen = @ \cup {Line.stream},
          !.method = IF Line.method \in Methods THEN counted ELSE @,
          !.uid[Line.uid] = @ + 1,
          !.bps[Line.stream] = Max({@, Sum(Line.bps) \div Len(Line.bps)})]
    /\ UNCHANGED <<pc, world>>

Report == pc = "read" /\ AtEnd /\ pc' = "report" /\ UNCHANGED <<args, world, mem>>

Next == NetstatDies \/ Netstat \/ SkipPoint \/ PointDies \/ Point \/ Report

Spec == Init /\ [][Next]_vars

-----------------------------------------------------------------------------
(* A table that is printed accounts for every line once: loopback, unknown *)
(* and the nodes' total add up, private ones are among the last two; and   *)
(* every readable point is one of a user, its stream among the streams.    *)
TableComplete ==
    pc = "report" =>
        LET ok == {i \in DOMAIN args.lines : args.kind = "points" /\ args.lines[i].ok}
        IN  /\ args.kind = "netstat" =>
                 /\ mem.localhost + mem.unknown + Sum(mem.nodes) = Len(args.lines)
                 /\ mem.private <= mem.unknown + Sum(mem.nodes)
            /\ Sum(mem.uid) = Cardinality(ok)
            /\ \A m \in Methods, s \in Streams :
                  mem.method[m][s] > 0 => s \in mem.seen
=============================================================================
