----------------------------- MODULE DnsRecords -----------------------------
(***************************************************************************)
(* miku-tools and the dns records of a domain: Res (node/resource.go) finds*)
(* the areas and isps that no record covers and what bandwidth is missing, *)
(* DnsRecords (staging.go) counts the records, and DelDns deletes those    *)
(* whose ids the user gives.                                               *)
(***************************************************************************)
EXTENDS Integers, Sequences, FiniteSetsExt

CONSTANTS
    Inputs,    \* [cmd, records, ids]; a record is [place, isp, type, enabled,
               \* idc]: its line is that of an area or of a province, of an isp
               \* or of none, and its ip is of a node in idc, or of none: "";
               \* an id is the place of a record, or 0: not a number
    Areas, Isps, NeedBw, IpBw,   \* wanted of an area and isp; of one ip, 3
    IdcBw                        \* of an idc

VARIABLES
    pc,      \* "record", "rows", "parse", "delete", "done", "gone"
    args,    \* the input
    world,   \* the records that are left, as places in args.records
    mem      \* n: the record or id; lines: ips of a line, areas: those with an
             \* area; todo: lines to evaluate; need, rows: the report; counts

vars == <<pc, args, world, mem>>

Lines == (Areas \cup {"province"}) \X (Isps \cup {""})
AreaIsps == Areas \X Isps

Init ==
    /\ args \in Inputs
    /\ pc = IF args.cmd = "DelDns" THEN "parse" ELSE "record"
    /\ world = DOMAIN args.records
    /\ mem = [n |-> 1, lines |-> [l \in Lines |-> <<>>], todo |-> {}, need |-> {},
              rows |-> <<>>, v4 |-> 0, v6 |-> 0]

-----------------------------------------------------------------------------
(* Res.                                                                    *)
Record(cmd) == pc = "record" /\ args.cmd = cmd /\ mem.n <= Len(args.records)
It == args.records[mem.n]
Line(r) == <<r.place, r.isp>>

(* Mutant of LineMap: the last record of a line is taken alone.            *)
LineMapLast ==
    mem' = [mem EXCEPT !.n = @ + 1,
                       !.lines[Line(It)] = IF It.type # "AAAA" /\ It.enabled
                                           THEN <<It.idc>> ELSE @]

(* buildLineMap: enabled records that are not AAAA, of whatever other type.*)
LineMap ==
    mem' = [mem EXCEPT !.n = @ + 1,
                       !.lines[Line(It)] = IF It.type # "AAAA" /\ It.enabled
                                           THEN Append(@, It.idc) ELSE @]

BuildLineMap ==
    /\ Record("Res") /\ LineMap
    /\ UNCHANGED <<pc, args, world>>

(* areaIspFilter, checkAreaIspCoverage.                                    *)
CheckCoverage ==
    /\ pc = "record" /\ args.cmd = "Res" /\ mem.n > Len(args.records)
    /\ LET covered == {l \in AreaIsps : mem.lines[l] # <<>>}
       IN  mem' = [mem EXCEPT !.need = AreaIsps \ covered, !.todo = covered]
    /\ pc' = "rows" /\ UNCHANGED <<args, world>>

Idcs(l) == {mem.lines[l][i] : i \in DOMAIN mem.lines[l]} \ {""}

Positive(x) == IF x < 0 THEN 0 ELSE x

(* getAreaIdcsMap, evaluateBw: a row for each line that has a known node.  *)
EvaluateBw ==
    /\ pc = "rows"
    /\ \E l \in mem.todo :
           LET ips == Len(mem.lines[l])
               idcBw == MapThenSumSet(LAMBDA i : IdcBw[i], Idcs(l))
               row == [line |-> l, ips |-> ips, nodeBw |-> ips * IpBw, idcBw |-> idcBw,
                       miss |-> Positive(NeedBw - ips * IpBw)]
           IN  mem' = [mem EXCEPT !.todo = @ \ {l},
                                  !.rows = IF Idcs(l) = {} THEN @ ELSE Append(@, row)]
    /\ UNCHANGED <<pc, args, world>>

WriteCsv ==
    /\ pc = "rows" /\ mem.todo = {}
    /\ pc' = "done" /\ UNCHANGED <<args, world, mem>>

-----------------------------------------------------------------------------
(* DnsRecords: disabled ones are counted, too.                             *)
CountRecord ==
    /\ Record("DnsRecords")
    /\ LET one(t) == IF It.place \in Areas /\ It.type = t THEN 1 ELSE 0
       IN  mem' = [mem EXCEPT !.n = @ + 1, !.lines[Line(It)] = Append(@, It.type),
                              !.v4 = @ + one("A"), !.v6 = @ + one("AAAA")]
    /\ UNCHANGED <<pc, args, world>>

PrintLines ==
    /\ pc = "record" /\ args.cmd = "DnsRecords" /\ mem.n > Len(args.records)
    /\ pc' = "done" /\ UNCHANGED <<args, world, mem>>

-----------------------------------------------------------------------------
(* DelDns.                                                                 *)
ParseId ==
    /\ pc = "parse" /\ mem.n <= Len(args.ids)
    /\ IF args.ids[mem.n] = 0 THEN pc' = "gone" /\ UNCHANGED mem
       ELSE mem' = [mem EXCEPT !.n = @ + 1] /\ UNCHANGED pc
    /\ UNCHANGED <<args, world>>

AllParsed ==
    /\ pc = "parse" /\ mem.n > Len(args.ids)
    /\ pc' = "delete" /\ mem' = [mem EXCEPT !.n = 1]
    /\ UNCHANGED <<args, world>>

(* Mutant of DeleteRaw: an error does not stop it.                         *)
DeleteRawGoesOn ==
    \/ /\ world' = world \ {args.ids[mem.n]}
       /\ mem' = [mem EXCEPT !.n = @ + 1] /\ UNCHANGED pc
    \/ mem' = [mem EXCEPT !.n = @ + 1] /\ UNCHANGED <<pc, world>>

(* A record that is gone already is an error, as is a failed call; the     *)
(* records deleted before stay deleted.                                    *)
DeleteRaw ==
    \/ /\ args.ids[mem.n] \in world
       /\ world' = world \ {args.ids[mem.n]}
       /\ mem' = [mem EXCEPT !.n = @ + 1] /\ UNCHANGED pc
    \/ pc' = "gone" /\ UNCHANGED <<world, mem>>

Delete ==
    /\ pc = "delete" /\ mem.n <= Len(args.ids)
    /\ DeleteRaw /\ UNCHANGED args

Deleted ==
    /\ pc = "delete" /\ mem.n > Len(args.ids)
    /\ pc' = "done" /\ UNCHANGED <<args, world, mem>>

Next ==
    \/ BuildLineMap \/ CheckCoverage \/ EvaluateBw \/ WriteCsv
    \/ CountRecord \/ PrintLines \/ ParseId \/ AllParsed \/ Delete \/ Deleted

Spec == Init /\ [][Next]_vars

-----------------------------------------------------------------------------
Records(P(_)) == {i \in DOMAIN args.records : P(args.records[i])}

(* An area and isp is needed, or has a row with all its enabled ips, or    *)
(* has only ips of unknown nodes, which is said nowhere; what its ips have *)
(* and what is missing make up what is wanted.  DnsRecords lists every     *)
(* record and counts those of area lines, the disabled ones included.      *)
EachLineOnce ==
    /\ pc = "done" /\ args.cmd = "Res" =>
           \A l \in AreaIsps :
               LET isOf(r) == Line(r) = l /\ r.enabled /\ r.type # "AAAA"
                   isKnown(r) == isOf(r) /\ r.idc # ""
                   its == {i \in DOMAIN mem.rows : mem.rows[i].line = l}
               IN  /\ l \in mem.need <=> Records(isOf) = {}
                   /\ Cardinality(its) = IF Records(isKnown) = {} THEN 0 ELSE 1
                   /\ \A i \in its :
                          /\ mem.rows[i].ips = Cardinality(Records(isOf))
                          /\ mem.rows[i].miss + mem.rows[i].nodeBw >= NeedBw
    /\ pc = "done" /\ args.cmd = "DnsRecords" =>
           LET isArea(r) == r.place \in Areas /\ r.type \in {"A", "AAAA"}
           IN  /\ mem.v4 + mem.v6 = Cardinality(Records(isArea))
               /\ MapThenSumSet(LAMBDA l : Len(mem.lines[l]), Lines) = Len(args.records)

(* DelDns deletes none when an id is not a number, and otherwise those up  *)
(* to the first error, in the order of the ids, and no other.              *)
DeletesPrefix ==
    args.cmd = "DelDns" =>
        \E k \in 0..Len(args.ids) :
            /\ DOMAIN args.records \ world = {args.ids[i] : i \in 1..k}
            /\ k > 0 => 0 \notin {args.ids[i] : i \in DOMAIN args.ids}
            /\ pc = "done" => k = Len(args.ids)
=============================================================================
