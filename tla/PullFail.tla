------------------------------ MODULE PullFail ------------------------------
(***************************************************************************)
(* qvsdbg's Run, and its analysis of a failed pull: streamPullFail looks   *)
(* up one log after the other, while one goroutine dumps sip messages (and *)
(* ends the whole tool if it cannot) and another gets the answers to the   *)
(* invite, which are received at the end.  A log is a part of the report;  *)
(* of the channel's lines also the date counts, in one of two formats.     *)
(***************************************************************************)
EXTENDS Integers, Sequences, FiniteSetsExt

CONSTANTS
    Inputs,   \* [conf, sid, alias]: the options, in the order Run looks at
              \* them; what -sid has; the shell knows the jump box's name as
              \* a command, which qsshCmd puts where ssh should be
    Deletes,  \* the delete_channel logs: [split, lines]: its lines end with
              \* \r\n, so it can be split into them; sequence of [fmt, t]
    MaxCalls  \* bound: calls of the tool

Options == <<"path", "netstatlog", "pointfile", "fail", "sip", "pull", "srv",
             "node", "bye">>
Formats == {"slash", "dash"}    \* 2006/01/02, 2006-01-02

VARIABLES
    pc,       \* control point of main
    args,     \* the input of the call
    world,    \* calls; report: the parts in /tmp/streamPullFail.log; out: in out.log
    mem       \* resp, dump: the goroutines; final: the parts so far; the
              \* creation's date; the deletion taken, out of a log that
              \* was split

vars == <<pc, args, world, mem>>

Undated == [fmt |-> "none", t |-> 0]
None == [resp |-> "off", dump |-> "off", final |-> <<>>, created |-> Undated,
         deleted |-> {}, split |-> TRUE]

Init ==
    /\ pc = "idle"
    /\ args \in Inputs
    /\ world = [calls |-> 0, report |-> <<>>, out |-> <<>>]
    /\ mem = None

Part(p) == [part |-> p, call |-> world.calls]
Adds(p) == mem' = [mem EXCEPT !.final = Append(@, Part(p))]

Goto(l) == pc' = l /\ UNCHANGED <<args, world>>

(* The process ends, and with it the goroutines: return of main, log.Fatal.*)
Exit == pc' = "idle" /\ mem' = None /\ UNCHANGED args

-----------------------------------------------------------------------------
(* Run: the first option that is given; without any, all services.         *)
Mode ==
    LET given == {i \in DOMAIN Options : Options[i] \in args.conf}
    IN  IF given = {} THEN "all" ELSE Options[Min(given)]

Run ==
    /\ pc = "idle" /\ world.calls < MaxCalls
    /\ pc' = Mode /\ world' = [world EXCEPT !.calls = @ + 1]
    /\ UNCHANGED <<args, mem>>

(* runqsshCmd, the tables of logs, and the searches that print what they   *)
(* find or end with an error: one answer, and main returns.                *)
OneShot ==
    /\ pc \in {"path", "netstatlog", "pointfile", "sip", "pull", "node", "all"}
    /\ Exit /\ UNCHANGED world

(* httpProc: only "sip" does something, SearchSipLogs, which ends the      *)
(* server if it fails.                                                     *)
Serve == pc = "srv" /\ (Exit \/ UNCHANGED <<pc, args, mem>>) /\ UNCHANGED world

(* The search of all services returns nothing without the command; then    *)
(* the node of the channel is looked up, which is fatal without it.        *)
Bye ==
    /\ pc = "bye"
    /\ IF args.sid # "none" /\ args.alias
       THEN Goto("bye_log") /\ UNCHANGED mem
       ELSE Exit /\ UNCHANGED world

ByeLog == pc = "bye_log" /\ Exit /\ UNCHANGED world

-----------------------------------------------------------------------------
(* streamPullFail: getIds, getInviteLog, parseInviteInfo.                  *)
Invite ==
    /\ pc = "fail" /\ args.sid # "none"
    /\ Adds("invite")
    /\ Goto(IF args.sid = "device" THEN "chid" ELSE "device")

(* getChidOfIPC.                                                           *)
Chid == pc = "chid" /\ Goto("device") /\ UNCHANGED mem

(* getDevice; GetSipMsg and getSipInviteRespLog start their goroutines.    *)
Device ==
    /\ pc = "device"
    /\ mem' = [mem EXCEPT !.resp = "search", !.dump = "run"]
    /\ Goto("rtp_node")

(* getNodeByIP: getNodes needs the command.                                *)
RtpNode == pc = "rtp_node" /\ args.alias /\ Goto("create") /\ UNCHANGED mem

(* getCreateChLog, the date in it, parseRtpLog.                            *)
CreateLog ==
    /\ pc = "create"
    /\ \E f \in Formats :
           mem' = [mem EXCEPT !.final = Append(@, Part("create")),
                              !.created = [fmt |-> f, t |-> 1]]
    /\ Goto("rtp")

NoCreateLog == pc = "create" /\ Goto("await_short") /\ UNCHANGED mem

(* getRtpLog.                                                              *)
RtpLog == pc = "rtp" /\ Adds("rtp") /\ Goto("delete")

(* Mutant of FirstAfter: the first one.                                    *)
FirstAfterIsFirst(log, c) == {log.lines[i] : i \in {1} \cap DOMAIN log.lines}

(* getFirstLogAfterTimePoint, by comparing texts: "-" is before "/".  A    *)
(* line without a date is an error if it is reached.  A log of one part is *)
(* taken as it is, whatever the dates of its lines.                        *)
Later(a, b) == IF a.fmt = b.fmt THEN a.t > b.t ELSE a.fmt = "slash"
FirstAfter(log, c) ==
    LET stop == {i \in DOMAIN log.lines :
                     log.lines[i].fmt = "none" \/ Later(log.lines[i], c)}
    IN  IF ~log.split THEN Range(log.lines)
        ELSE IF stop = {} \/ log.lines[Min(stop)].fmt = "none" THEN {}
        ELSE {log.lines[Min(stop)]}

(* getDeleteChLog: an error leaves the part empty.                         *)
DeleteLog ==
    /\ pc = "delete"
    /\ \E log \in Deletes \cup {[split |-> TRUE, lines |-> <<>>]} :
           mem' = [mem EXCEPT !.final = Append(@, Part("delete")), !.split = log.split,
                              !.deleted = FirstAfter(log, mem.created)]
    /\ Goto("await")

(* Mutant of Receive: the report ends with the deletion.                   *)
ReceiveUnused ==
    /\ mem.resp = "send" /\ pc = "await"
    /\ mem' = [mem EXCEPT !.resp = "gone"]
    /\ Goto("truncate")

(* <-resultChan.                                                           *)
Receive ==
    /\ mem.resp = "send"
    /\ mem' = [mem EXCEPT !.final = Append(@, Part("answer")), !.resp = "gone"]
    /\ \/ pc = "await" /\ Goto("truncate")
       \/ pc = "await_short" /\ Goto("write_short")

(* ioutil.WriteFile, after pullFailLogAnalyse: the file is emptied first.  *)
Truncate ==
    /\ pc = "truncate"
    /\ pc' = "write" /\ world' = [world EXCEPT !.report = <<>>]
    /\ UNCHANGED <<args, mem>>

Write ==
    /\ pc = "write"
    /\ world' = [world EXCEPT !.report = mem.final] /\ Exit

WriteShort ==
    /\ pc = "write_short"
    /\ world' = [world EXCEPT !.out = mem.final] /\ Exit

(* log.Fatalln where an error is fatal, and the return without an invite.  *)
Fails ==
    /\ pc \in {"fail", "chid", "device", "rtp_node", "create", "rtp", "write",
               "write_short"}
    /\ Exit /\ UNCHANGED world

-----------------------------------------------------------------------------
(* Mutant of Answer: nothing is sent after an error.                       *)
AnswerOnlyFound ==
    /\ mem.resp = "search"
    /\ \E r \in {"send", "gone"} : mem' = [mem EXCEPT !.resp = r]
    /\ UNCHANGED <<pc, args, world>>

(* getSipInviteRespLog's goroutine: what it found, or "" after an error.   *)
Answer ==
    /\ mem.resp = "search"
    /\ mem' = [mem EXCEPT !.resp = "send"]
    /\ UNCHANGED <<pc, args, world>>

(* SearchSipLogs: the result is dropped, an error ends the tool.           *)
SearchSipLogs ==
    /\ mem.dump = "run" /\ UNCHANGED world
    /\ \/ Exit
       \/ mem' = [mem EXCEPT !.dump = "gone"] /\ UNCHANGED <<pc, args>>

Next ==
    \/ Run \/ OneShot \/ Serve \/ Bye \/ ByeLog
    \/ Invite \/ Chid \/ Device \/ RtpNode \/ CreateLog \/ NoCreateLog
    \/ RtpLog \/ DeleteLog \/ Receive \/ Truncate \/ Write \/ WriteShort \/ Fails
    \/ Answer \/ SearchSipLogs

Spec == Init /\ [][Next]_vars

-----------------------------------------------------------------------------
(* While main waits for the answers to the invite, the goroutine that must *)
(* send them still can: it sends once on every path, its errors included.  *)
NeverLeftWaiting ==
    pc \in {"await", "await_short"} => mem.resp \in {"search", "send"}

(* Whenever the tool dies (the dump's goroutine may end it at any moment)  *)
(* the report is empty or whole: every log of one call, the answers last.  *)
Whole == <<"invite", "create", "rtp", "delete", "answer">>

ReportWhole ==
    LET parts == [i \in DOMAIN world.report |-> world.report[i].part]
    IN  /\ parts \in {<<>>, Whole}
        /\ \A i, j \in DOMAIN world.report :
               world.report[i].call = world.report[j].call

(* The deletion in the report comes after the creation, wherever both      *)
(* lines have their date in the same format and the log could be split     *)
(* into lines: a log of one part is reported without looking at its date.  *)
DeletedAfter ==
    mem.split => \A d \in mem.deleted :
                     d.fmt = mem.created.fmt => d.t > mem.created.t
=============================================================================
