------------------------------- MODULE QvsDbg -------------------------------
(***************************************************************************)
(* qvs-dbg: the next generation of the tool of LogParser.  The admin names *)
(* the sip node of the device, the node lists its log files, the latest is *)
(* searched locally for the invite and its answers, and the invite names   *)
(* the rtp node, of which the one latest file is searched for the tcp      *)
(* attach.  Meanwhile the nodes rotate their logs.                         *)
(***************************************************************************)
EXTENDS Integers, Sequences, FiniteSetsExt

CONSTANTS
    Inputs,       \* home: ~/logs is the directory that is read; default: -l
                  \* is; INVITE responses in the sip log; nodes that have
                  \* the rtp ip; a node has a log file without a date
    MaxRotations, \* bounds: rotations, calls with -f
    MaxFetches

Fixed == "fixed"      \* /home/liyuanquan/logs: read, whatever -l says
Tilde == "tilde"      \* ~/logs of another user: deleted
Other == "dash_l"     \* what -l names instead: copied to
Dirs == {Fixed, Tilde, Other}
Services == {"sip", "rtp"}

VARIABLES
    pc,       \* control point of main
    args,     \* the input
    world,    \* fetch: fetches so far; files: dated log files of the nodes
              \* (1 is the oldest); local: directory -> {[srv, file, fetch]}
    mem       \* refetch; file: the latest of each service; read: copies read

vars == <<pc, args, world, mem>>

None == [refetch |-> FALSE, file |-> [s \in Services |-> 0], read |-> {}]

Init ==
    /\ pc = "idle"
    /\ args \in Inputs
    /\ world = [fetch |-> 0, files |-> [s \in Services |-> 1],
                local |-> [d \in Dirs |-> {}]]
    /\ mem = None

Goto(l) == pc' = l /\ UNCHANGED args
Stay == UNCHANGED <<world, mem>>

(* Any error is logged and ends main.                                      *)
Fails(l) == pc = l /\ Goto("idle") /\ Stay

-----------------------------------------------------------------------------
(* The nodes start a new log file.                                         *)
Rotate ==
    \E s \in Services :
        /\ world.files["sip"] + world.files["rtp"] < 2 + MaxRotations
        /\ world' = [world EXCEPT !.files[s] = @ + 1]
        /\ UNCHANGED <<pc, args, mem>>

(* main: parseConsole.                                                     *)
Start(refetch) ==
    /\ pc = "idle"
    /\ refetch => world.fetch < MaxFetches
    /\ mem' = [None EXCEPT !.refetch = refetch]
    /\ Goto("sip_node") /\ UNCHANGED world

(* getNsID, getSipNodeID: a device of that prefix, and its node.           *)
SipNode ==
    /\ pc = "sip_node"
    /\ Goto(IF mem.refetch THEN "delete" ELSE "list_sip")
    /\ Stay

Home == IF args.home THEN Fixed ELSE Tilde

(* Mutant of DeleteOldLogs: rm is not run.                                 *)
DeleteNothing ==
    /\ pc = "delete"
    /\ world' = [world EXCEPT !.fetch = @ + 1]
    /\ Goto("fetch_sip") /\ UNCHANGED mem

(* deleteOldLogs: rm -rf ~/logs/*.                                         *)
DeleteOldLogs ==
    /\ pc = "delete"
    /\ world' = [world EXCEPT !.fetch = @ + 1, !.local[Home] = {}]
    /\ Goto("fetch_sip") /\ UNCHANGED mem

(* rm fails when it has deleted some: an error, which ends main.           *)
DeleteFails ==
    /\ pc = "delete"
    /\ \E left \in SUBSET world.local[Home] :
           world' = [world EXCEPT !.local[Home] = left]
    /\ Goto("idle") /\ UNCHANGED mem

Dir == IF args.default THEN Fixed ELSE Other

(* qscp to localLogPath, over what is there; it may stop after some files. *)
Copied(srv, files) ==
    [world EXCEPT !.local[Dir] =
        {c \in @ : ~(c.srv = srv /\ c.file \in files)} \cup
        {[srv |-> srv, file |-> i, fetch |-> world.fetch] : i \in files}]

(* fetchLogs: all files of the service.                                    *)
FetchSipLogs ==
    /\ pc = "fetch_sip"
    /\ \/ world' = Copied("sip", 1..world.files["sip"]) /\ Goto("list_sip")
       \/ \E some \in SUBSET (1..world.files["sip"]) :
              world' = Copied("sip", some) /\ Goto("idle")
    /\ UNCHANGED mem

(* getLatestLogFile: ls on the node, the greatest date in the names; with  *)
(* a name that has none, and another file, an error (file 0).              *)
List(srv, at, next) ==
    /\ pc = at
    /\ LET dated == 1..world.files[srv]
           latest == IF args.undated THEN 0 ELSE Max(dated)
       IN  IF latest = 0 THEN Goto("idle") /\ UNCHANGED mem
           ELSE /\ mem' = [mem EXCEPT !.file[srv] = latest]
                /\ Goto(next)
    /\ UNCHANGED world

Local(srv) == {c \in world.local[Fixed] : c.srv = srv /\ c.file = mem.file[srv]}

(* findLineWithKeywords, getValByStartEndKeyword: the invite, the call id, *)
(* and both INVITE responses, the second without looking whether there is  *)
(* one; then getNodeIDByIP, which takes the first of the nodes likewise.   *)
ReadSip ==
    /\ pc = "read_sip"
    /\ Local("sip") # {}
    /\ mem' = [mem EXCEPT !.read = Local("sip")]
    /\ Goto(CASE args.responses = 0 -> "idle"
              [] args.responses = 1 -> "panic"
              [] OTHER -> "rtp_node")
    /\ UNCHANGED world

RtpNode ==
    /\ pc = "rtp_node"
    /\ Goto(IF args.nodes = 0 THEN "panic" ELSE "list_rtp")
    /\ Stay

(* fetchRtpLog: the file that was listed.                                  *)
FetchRtpLog ==
    /\ pc = "fetch_rtp"
    /\ mem.refetch
    /\ world' = Copied("rtp", {mem.file["rtp"]})
    /\ Goto("read_rtp") /\ UNCHANGED mem

NoFetchRtpLog == pc = "fetch_rtp" /\ ~mem.refetch /\ Goto("read_rtp") /\ Stay

(* The tcp attach; a file that cannot be opened is said to have none.      *)
ReadRtp ==
    /\ pc = "read_rtp"
    /\ mem' = [mem EXCEPT !.read = @ \cup Local("rtp")]
    /\ Goto("idle") /\ UNCHANGED world

Next ==
    \/ Rotate
    \/ \E refetch \in BOOLEAN : Start(refetch)
    \/ SipNode \/ DeleteOldLogs \/ DeleteFails \/ FetchSipLogs \/ ReadSip \/ RtpNode
    \/ List("sip", "list_sip", "read_sip") \/ List("rtp", "list_rtp", "fetch_rtp")
    \/ FetchRtpLog \/ NoFetchRtpLog \/ ReadRtp
    \/ \E l \in {"sip_node", "list_sip", "read_sip", "rtp_node",
                 "list_rtp", "fetch_rtp"} : Fails(l)

Spec == Init /\ [][Next]_vars

-----------------------------------------------------------------------------
(* What one call reads of the two services comes from one fetch, with -f   *)
(* its own, although the nodes rotate their logs between a copy and the    *)
(* listing, rm fails half way and calls with and without -f follow each    *)
(* other; if -l and ~/logs are the directory that is read.                 *)
OneFetch ==
    args.default /\ args.home =>
        /\ \A c, d \in mem.read : c.fetch = d.fetch
        /\ mem.refetch => \A c \in mem.read : c.fetch = world.fetch

(* "-f: delete the locally cached log files and get them again from the    *)
(* node", and "-l: the path of the locally cached log files": with -f, when*)
(* the sip log is read, the cache has no file of an earlier call, and what *)
(* was copied of the latest log is found.  Not so with an -l of one's own: *)
(* the directory that is copied to is neither deleted nor read.            *)
RefetchReads ==
    pc = "read_sip" /\ mem.refetch =>
        /\ \A c \in world.local[Dir] : c.fetch = world.fetch
        /\ (\E c \in world.local[Dir] : c.srv = "sip" /\ c.file = mem.file["sip"])
              => Local("sip") # {}
=============================================================================
