------------------------------ MODULE Watchers ------------------------------
(***************************************************************************)
(* The watching tools: wecom-notify asks for its streams in turn and tells *)
(* of the first that is offline; SipRaw repeats a request and tells of bad *)
(* answers; Tcpdump tells as long as a directory is too large; Perf        *)
(* records a profile of 3 minutes when the cpu is busy.  To tell is a call *)
(* that can fail.                                                          *)
(***************************************************************************)
EXTENDS Integers, Sequences

CONSTANTS
    Streams,     \* those of wecom-notify: 1..Streams
    MaxObserved  \* bound: observations

Tools == {"wecom", "sip_raw", "tcpdump", "perf"}

VARIABLES
    pc,      \* "watch", "tell", "record" or how it ended
    args,    \* the tool
    world,   \* bad: what the tool would see is bad now (of each stream)
    mem      \* at: the stream that is asked next; seen: observations; bad: bad
             \* ones (of perf: that could be recorded); told, lost: tellings that
             \* arrived or failed; record: the profiler's process: "none",
             \* "runs", "killed", "left"

vars == <<pc, args, world, mem>>

Subjects(tool) == IF tool = "wecom" THEN 1..Streams ELSE {1}

Init ==
    /\ pc = "watch" /\ args \in Tools
    /\ world = [s \in Subjects(args) |-> FALSE]
    /\ mem = [at |-> 1, seen |-> 0, bad |-> 0, told |-> 0, lost |-> 0,
              record |-> "none"]

Stay == UNCHANGED <<args, world>>

(* A stream goes or comes back, an answer, the size or the load changes.   *)
Change ==
    /\ \E s \in DOMAIN world : world' = [world EXCEPT ![s] = ~@]
    /\ UNCHANGED <<pc, args, mem>>

Watches == pc = "watch" /\ mem.seen < MaxObserved /\ Stay

(* The next stream, and the first again after the pause.                   *)
Observed ==
    [mem EXCEPT !.seen = @ + 1,
                !.at = IF @ + 1 \in DOMAIN world THEN @ + 1 ELSE 1]

(* getStreamStatus, SipRawReq (whose failure is an answer 0, so bad),      *)
(* getTotalFileSize, getSRSCPUUsage: an error, or nothing of note.         *)
Unknown == Watches /\ args # "sip_raw" /\ pc' = "watch" /\ mem' = Observed

Good == Watches /\ ~world[mem.at] /\ pc' = "watch" /\ mem' = Observed

(* Mutant of Bad: told only when it was good before.                       *)
BadOnce ==
    /\ Watches /\ world[mem.at]
    /\ mem' = [Observed EXCEPT !.bad = @ + 1]
    /\ pc' = IF args = "perf" THEN "record" ELSE IF mem.bad = 0 THEN "tell" ELSE "watch"

(* Offline; not 200 and not 612, or no answer; too large; busy.            *)
Bad ==
    /\ Watches /\ (world[mem.at] \/ args = "sip_raw")
    /\ mem' = [Observed EXCEPT !.bad = @ + 1]
    /\ pc' = IF args = "perf" THEN "record" ELSE "tell"

(* Perf: without a process yet one is started; if that fails, the next     *)
(* tick tries again.                                                       *)
StartRecord ==
    /\ pc = "record" /\ mem.record = "none"
    /\ \/ mem' = [mem EXCEPT !.record = "runs"] /\ UNCHANGED pc
       \/ mem' = [mem EXCEPT !.bad = 0] /\ pc' = "watch"
    /\ Stay

(* After 3 minutes: Kill, whose error is only logged.                      *)
StopRecord ==
    /\ pc = "record" /\ mem.record = "runs"
    /\ \E r \in {"killed", "left"} : mem' = [mem EXCEPT !.record = r]
    /\ pc' = "tell" /\ Stay

(* wecomNotify, message, SendWeChatAlert, sendWeChatMessage.  Afterwards   *)
(* wecom-notify exits, and Perf returns; the others watch on.              *)
Tell ==
    /\ pc = "tell"
    /\ mem' = [mem EXCEPT !.told = @ + 1]
    /\ pc' = IF args \in {"wecom", "perf"} THEN "ended" ELSE "watch"
    /\ Stay

(* A failed post has no response to look at, a failed dialog panics; SipRaw*)
(* returns; Perf does not look at the error; Tcpdump logs it.              *)
TellFails ==
    /\ pc = "tell"
    /\ mem' = [mem EXCEPT !.lost = @ + 1]
    /\ pc' = CASE args = "wecom" -> "panic"
               [] args = "tcpdump" -> "watch"
               [] OTHER -> "ended"
    /\ Stay

Next ==
    \/ Change \/ Unknown \/ Good \/ Bad
    \/ StartRecord \/ StopRecord \/ Tell \/ TellFails

Spec == Init /\ [][Next]_vars

-----------------------------------------------------------------------------
(* Whatever comes and goes, nothing bad that is seen stays untold but by a *)
(* telling that failed; no watch ends without having tried to tell; and a  *)
(* profiler that was started does not outlive the tool unless Kill failed. *)
SeenIsTold ==
    /\ mem.bad = mem.told + mem.lost + (IF pc \in {"tell", "record"} THEN 1 ELSE 0)
    /\ pc \in {"ended", "panic"} => mem.told + mem.lost > 0 /\ mem.record # "runs"
=============================================================================
