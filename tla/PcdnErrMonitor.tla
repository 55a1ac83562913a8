--------------------------- MODULE PcdnErrMonitor ---------------------------
(***************************************************************************)
(* pcdnErrMonitor (miku-tools/node): on each tick every scheduler in turn  *)
(* is asked for its metrics over http, the answer is dumped to the         *)
(* scheduler's own directory, and that directory's old dumps are deleted.  *)
(* A scheduler that does not answer is skipped.  A dump is the number of   *)
(* the scheduler it came from, and equal dumps of one day are one.         *)
(***************************************************************************)
EXTENDS DailyFile

CONSTANT N     \* the number of schedulers; their directories are 1..N

ASSUME NAssumption == N \in Nat \ {0} /\ Dirs = 1..N

VARIABLES
    pc,      \* control point
    sched    \* the scheduler at hand

vars == <<fileVars, pc, sched>>

TypeOK ==
    /\ FilesOK(1..N)
    /\ pc \in {"tick", "get", "write", "delete"}
    /\ sched \in 1..N

Init ==
    /\ FilesInit
    /\ pc = "tick" /\ sched = 1

-----------------------------------------------------------------------------
(* The ticker: for _, sched := range scheds.                               *)
Tick ==
    /\ up /\ pc = "tick"
    /\ pc' = "get" /\ sched' = 1
    /\ UNCHANGED fileVars

(* The loop goes on to the next scheduler, or ends.                        *)
NextSched ==
    IF sched = N THEN pc' = "tick" /\ UNCHANGED sched
                 ELSE pc' = "get" /\ sched' = sched + 1

(* util.Get and json.Unmarshal succeed.                                    *)
Get ==
    /\ up /\ pc = "get"
    /\ pc' = "write"
    /\ UNCHANGED <<fileVars, sched>>

(* No answer, or not the expected JSON: continue.                          *)
GetFails ==
    /\ up /\ pc = "get"
    /\ NextSched
    /\ UNCHANGED fileVars

Content(p) == IF p \in DOMAIN files
              THEN {files[p][k] : k \in DOMAIN files[p]} ELSE {}

WriteDataToFile ==
    /\ up /\ pc = "write"
    /\ Written(sched, IF sched \in Content(Path(sched, today)) THEN <<>>
                                                               ELSE <<sched>>)
    /\ pc' = "delete"
    /\ UNCHANGED sched

WriteDies ==
    /\ up /\ pc = "write"
    /\ WriteFatal
    /\ UNCHANGED <<pc, sched>>

(* Mutant of Delete: the directories are cleaned by the last scheduler.    *)
DeleteAtLast ==
    /\ up /\ pc = "delete"
    /\ sched = N => DeleteOldFiles(sched)
    /\ sched # N => UNCHANGED fileVars
    /\ NextSched

Delete ==
    /\ up /\ pc = "delete"
    /\ DeleteOldFiles(sched)
    /\ NextSched

DeleteGivesUp ==
    /\ up /\ pc = "delete"
    /\ DeleteFails(sched)
    /\ NextSched

(* The tool is started again after log.Fatalln.                            *)
Restart ==
    /\ ~up
    /\ up' = TRUE
    /\ file' = Nil
    /\ pc' = "tick"
    /\ UNCHANGED <<today, files, touched, sched>>

Clock == Midnight /\ UNCHANGED <<pc, sched>>

Step ==
    \/ Tick \/ Get \/ GetFails
    \/ WriteDataToFile \/ WriteDies
    \/ Delete \/ DeleteGivesUp

Next == Step \/ Restart \/ Clock

Spec == Init /\ [][Next]_vars

(* The process runs on and is restarted; every scheduler answers, is       *)
(* dumped and has its directory cleaned again and again.                   *)
FairSpec ==
    /\ Spec
    /\ WF_vars(Step) /\ WF_vars(Restart)
    /\ \A i \in 1..N : /\ SF_vars(sched = i /\ Get)
                       /\ SF_vars(sched = i /\ WriteDataToFile)
                       /\ SF_vars(sched = i /\ Delete)

-----------------------------------------------------------------------------
(* Although all directories share one handle, a dump goes to the directory *)
(* of its scheduler and to the file of the day of the write.               *)
DumpsStayApart ==
    \A p \in DOMAIN files : touched[p] = p[2] /\ Content(p) \subseteq {p[1]}

(* A dump that is not yet KeepDays days old is never deleted.              *)
RecentKept ==
    [][\A p \in DOMAIN files :
          today < p[2] + KeepDays => p \in DOMAIN files']_vars

(* A scheduler that answers from time to time gets its old dumps deleted,  *)
(* whatever the others do and however often the process dies.              *)
OldDumpsGo ==
    \A i \in Dirs : []<>(Older(i, KeepDays) = {})
=============================================================================
