----------------------------- MODULE LogParser ------------------------------
(***************************************************************************)
(* tools/tools.go: why did a stream not come?  The logs of the sip node,   *)
(* and of the rtp node that the invite names, are copied to ~/logs (or     *)
(* left there from an earlier call), the last invite and the creation of   *)
(* its channel are found, and what happened after them is reported with    *)
(* line numbers and times.  A log has lines of a kind, with a time, a      *)
(* session, and ok: the time is of the year 2021, the only one that        *)
(* GetTimeFromLog knows.                                                   *)
(***************************************************************************)
EXTENDS Integers, Sequences, FiniteSetsExt

CONSTANTS
    Logs,         \* the pairs of logs the nodes may have: [sip, rtp]
    Ten,          \* create_channel lines that are looked at
    Second,       \* 1000 ms, in the unit of the logs' times
    MaxFetches    \* bound: calls with -refetch

VARIABLES
    pc,       \* control point of main
    args,     \* the logs of the nodes
    world,    \* ~/logs: the fetch its latest sip and rtp logs are of, 0: none;
              \* emptied: the last rm did not fail
    mem       \* refetch; lines of the invite and of create_channel; the report

vars == <<pc, args, world, mem>>

None == [refetch |-> FALSE, invite |-> 0, create |-> 0, read |-> {}, report |-> {}]

Init ==
    /\ pc = "idle"
    /\ args \in Logs
    /\ world = [fetch |-> 0, sip |-> 0, rtp |-> 0, emptied |-> TRUE]
    /\ mem = None

-----------------------------------------------------------------------------
At(file, kinds) == {i \in DOMAIN file : file[i].kind \in kinds}

(* GetLineNoFromLog: from the position in the output of tac | grep -n, or  *)
(* of tail -n +start | grep -n.                                            *)
Up(file, n) == Len(file) - n + 1
Down(p, start) == (p - 1) + start

(* getLastInviteLog, ParseLog: the line of the last invite; 0: none, or    *)
(* one without a time.                                                     *)
InviteLine ==
    LET found == At(args.sip, {"invite"})
        line == Up(args.sip, Len(args.sip) - Max(found) + 1)
    IN  IF found = {} THEN 0 ELSE IF args.sip[line].ok THEN line ELSE 0

(* Mutant of CreateLine: a creation after the invite is taken, too.        *)
CreateLineAny(invite) ==
    LET found == At(args.rtp, {"create"}) IN IF found = {} THEN 0 ELSE Max(found)

(* GetCreateChannelInfo: up from the last of them, the first that is less  *)
(* than a second before the invite; a line without a time is an error.     *)
CreateLine(invite) ==
    LET found == At(args.rtp, {"create"})
        looked == {i \in found : Cardinality({j \in found : j > i}) < Ten}
        ago(i) == args.sip[invite].ts - args.rtp[i].ts
        stop == {i \in looked : ~args.rtp[i].ok \/ ago(i) \in 0..(Second - 1)}
    IN  IF stop = {} THEN 0 ELSE IF args.rtp[Max(stop)].ok THEN Max(stop) ELSE 0

(* Mutant of SearchLog: the whole file is searched.                        *)
SearchLogAll(file, start, kinds) ==
    LET found == At(file, kinds)
    IN  IF found = {} THEN 0 ELSE IF file[Min(found)].ok THEN Min(found) ELSE 0

(* SearchLog, SearchRtpLog, SearchSipLog: the first such line from start   *)
(* on; not found also if that one has no time.                             *)
SearchLog(file, start, kinds) ==
    LET found == {i \in At(file, kinds) : i >= start}
        line == Down(Min(found) - start + 1, start)
    IN  IF found = {} THEN 0 ELSE IF file[line].ok THEN line ELSE 0

RtpKinds == {"tcp_attach", "ssrc_illegal", "reset_by_peer", "delete_channel",
             "h265", "lost_pkt", "rtmp_connect"}

(* What is printed of the first such line: its number, and how long after  *)
(* the line that was searched from.                                        *)
Told(file, from, what, kinds) ==
    LET line == SearchLog(file, from, kinds)
    IN  IF line = 0 THEN {}
        ELSE {[what |-> what, line |-> line, ms |-> file[line].ts - file[from].ts]}

(* GetLogs: after the invite; an answer that is not 200 only if none is,   *)
(* "offline" only of the invite's session.                                 *)
SipReport(invite) ==
    LET told(what, kinds) == Told(args.sip, invite, what, kinds)
        offline == SearchLog(args.sip, invite, {"offline"})
    IN  (IF SearchLog(args.sip, invite, {"200"}) # 0
         THEN told("200", {"200"}) ELSE told("status", {"200", "status"}))
        \cup told("err_state", {"err_state"})
        \cup (IF offline # 0 /\ args.sip[offline].sess # args.sip[invite].sess
              THEN {} ELSE told("offline", {"offline"}))

(* GetLogs: after the creation; udp packets only if no psm came.  The line *)
(* of an h265 stream is one of a psm.                                      *)
RtpReport(create) ==
    LET told(what, kinds) == Told(args.rtp, create, what, kinds)
        psm == {"psm", "h265"}
    IN  (UNION {told(k, {k}) : k \in RtpKinds}) \cup told("psm", psm)
        \cup (IF SearchLog(args.rtp, create, psm) = 0 THEN told("udp", {"udp"}) ELSE {})

-----------------------------------------------------------------------------
Goto(l) == pc' = l /\ UNCHANGED args

Return == Goto("idle") /\ UNCHANGED <<world, mem>>

(* Mutant of Fetch: the rm that does not fail leaves the old logs.         *)
FetchKeepsOld == world' = [world EXCEPT !.fetch = @ + 1, !.emptied = TRUE]

(* DeleteOldLogs, before the copies of this call: nobody looks whether rm  *)
(* failed, and one that fails may have left some.                          *)
Fetch ==
    \/ world' = [fetch |-> world.fetch + 1, sip |-> 0, rtp |-> 0, emptied |-> TRUE]
    \/ \E s \in {0, world.sip}, r \in {0, world.rtp} :
           world' = [fetch |-> world.fetch + 1, sip |-> s, rtp |-> r, emptied |-> FALSE]

Start(refetch) ==
    /\ pc = "idle"
    /\ mem' = [None EXCEPT !.refetch = refetch]
    /\ IF refetch THEN world.fetch < MaxFetches /\ Fetch /\ Goto("copy_sip")
                  ELSE Goto("sip_file") /\ UNCHANGED world

(* fetchSipLogs, GetRtpLogFromNode: a copy that fails may have copied some,*)
(* and of a file that rm left the name may still be the latest.            *)
Copy(srv, at, next) ==
    LET copied == [world EXCEPT ![srv] = world.fetch] IN
    /\ pc = at
    /\ UNCHANGED mem
    /\ \/ Goto(next) /\ (world' = copied \/ (world[srv] # 0 /\ UNCHANGED world))
       \/ Goto("idle") /\ world' \in {world, copied}

(* fetchSipLogs with a -logpath that is not ~/logs: what is read has no    *)
(* sip log of this fetch.                                                  *)
CopyElsewhere == pc = "copy_sip" /\ Goto("sip_file") /\ UNCHANGED <<world, mem>>

(* GetLatestSipLogFile (with no file there is no output, and the tool ends *)
(* with an error or a panic), GetInviteInfo.                               *)
Invite ==
    /\ pc = "sip_file"
    /\ world.sip # 0 /\ InviteLine # 0
    /\ mem' = [mem EXCEPT !.invite = InviteLine, !.read = {world.sip}]
    /\ Goto("node") /\ UNCHANGED world

NoInvite == pc = "sip_file" /\ (world.sip = 0 \/ InviteLine = 0) /\ Return

(* GetNodeIdFromPdr: an error, or not found and no -rtp_nodeid; or the node.*)
Node ==
    /\ pc = "node"
    /\ \/ Return
       \/ /\ Goto(IF mem.refetch THEN "copy_rtp" ELSE "rtp_file")
          /\ UNCHANGED <<world, mem>>

(* GetLatestRtpLogFile, GetCreateChannelInfo, GetLogs.                     *)
GetLogs ==
    /\ pc = "rtp_file"
    /\ world.rtp # 0
    /\ LET create == CreateLine(mem.invite) IN
       /\ create # 0
       /\ mem' = [mem EXCEPT !.create = create, !.read = @ \cup {world.rtp},
                    !.report = SipReport(mem.invite) \cup RtpReport(create)]
    /\ Goto("idle") /\ UNCHANGED world

NoChannel ==
    pc = "rtp_file" /\ (world.rtp = 0 \/ CreateLine(mem.invite) = 0) /\ Return

Next ==
    \/ \E refetch \in BOOLEAN : Start(refetch)
    \/ Copy("sip", "copy_sip", "sip_file") \/ Copy("rtp", "copy_rtp", "rtp_file")
    \/ CopyElsewhere
    \/ Invite \/ NoInvite \/ Node \/ GetLogs \/ NoChannel

Spec == Init /\ [][Next]_vars

-----------------------------------------------------------------------------
(* Unless the rm of the last fetch failed, a report never puts a sip log   *)
(* and an rtp log of two fetches together, however copies fail, wherever   *)
(* -logpath sends them, and calls with and without -refetch follow; and    *)
(* with -refetch it is of this call's fetch.                               *)
NeverMixed ==
    mem.create # 0 /\ world.emptied =>
        /\ Cardinality(mem.read) = 1
        /\ mem.refetch => mem.read = {world.fetch}

(* The report starts from the last creation of the channel that is less    *)
(* than a second before the invite (unless there are more than Ten later   *)
(* ones), and if the logs are in the order of time nothing is reported to  *)
(* have come before it.                                                    *)
InTime(file) == \A i, j \in DOMAIN file : i < j => file[i].ts <= file[j].ts

ReportedAfter ==
    mem.create # 0 =>
        LET invited == args.sip[mem.invite].ts
            near(i) == invited - args.rtp[i].ts \in 0..(Second - 1)
        IN  /\ near(mem.create)
            /\ \A i \in At(args.rtp, {"create"}) : i > mem.create => ~near(i)
            /\ InTime(args.sip) /\ InTime(args.rtp) =>
                  \A r \in mem.report : r.ms >= 0
=============================================================================
