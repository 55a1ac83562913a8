------------------------------ MODULE TailfLog ------------------------------
(***************************************************************************)
(* tailf-log: Logger.Run looks once a second for the log file written last *)
(* and hands the output over from the goroutine that tails the previous    *)
(* file to a new one.  The hand-over cancels the old goroutine's context   *)
(* and waits on ctx, ONE context for the whole run that the old goroutine  *)
(* cancels as it quits.                                                    *)
(*                                                                         *)
(* The log directory belongs to other programs: Write and Remove.  A file  *)
(* name carries its date, so a removed file does not come back.            *)
(***************************************************************************)
EXTENDS Naturals, Sequences, SequencesExt

CONSTANTS
    Files,        \* the names with the wanted prefix
    MaxLines,     \* bound: lines written to one file
    MaxTailers    \* bound: goroutines started by one run

ASSUME BoundsAssumption == MaxLines \in Nat /\ MaxTailers \in Nat \ {0}

NoFile == "none"
ASSUME NoFileAssumption == NoFile \notin Files

Tailer == 1..MaxTailers

VARIABLES
    recency,    \* the existing files, in the order of their last write
    removed,    \* the files that were deleted
    lines,      \* how many lines each file has
    main,       \* control point of Run
    next,       \* the file name found by Run, while it waits
    lastFile,   \* LastLogFile
    started,    \* goroutines started so far; the last one owns LastChildCancel
    tailer,     \* control point of each goroutine
    file,       \* the file it tails
    pos,        \* how many of its lines it has printed
    cancelled,  \* the goroutines whose child context was cancelled
    late,       \* lines printed after the goroutine's cancellation
    ctxDone,    \* the outer context was cancelled
    crashed     \* log.Fatalf ended the process

dirVars == <<recency, removed, lines>>
runVars == <<main, next, lastFile, started>>
tailVars == <<tailer, file, pos, cancelled, late, ctxDone, crashed>>
vars == <<dirVars, runVars, tailVars>>

TypeOK ==
    /\ recency \in Seq(Files) /\ IsInjective(recency)
    /\ removed \subseteq Files
    /\ lines \in [Files -> 0..MaxLines]
    /\ main \in {"find", "wait", "returned"}
    /\ next \in Files \cup {NoFile}
    /\ lastFile \in Files \cup {NoFile}
    /\ started \in 0..MaxTailers
    /\ tailer \in [Tailer -> {"unborn", "open", "select", "read", "quit"}]
    /\ file \in [Tailer -> Files \cup {NoFile}]
    /\ pos \in [Tailer -> 0..MaxLines]
    /\ cancelled \subseteq Tailer
    /\ late \in [Tailer -> 0..MaxLines]
    /\ ctxDone \in BOOLEAN
    /\ crashed \in BOOLEAN

Init ==
    /\ recency = <<>>
    /\ removed = {}
    /\ lines = [f \in Files |-> 0]
    /\ main = "find"
    /\ next = NoFile
    /\ lastFile = NoFile
    /\ started = 0
    /\ tailer = [t \in Tailer |-> "unborn"]
    /\ file = [t \in Tailer |-> NoFile]
    /\ pos = [t \in Tailer |-> 0]
    /\ cancelled = {}
    /\ late = [t \in Tailer |-> 0]
    /\ ctxDone = FALSE
    /\ crashed = FALSE

-----------------------------------------------------------------------------
(* Another program appends a line to f (and creates it if need be).        *)
Write(f) ==
    /\ f \notin removed
    /\ lines[f] < MaxLines
    /\ lines' = [lines EXCEPT ![f] = @ + 1]
    /\ recency' = Append(Remove(recency, f), f)
    /\ UNCHANGED <<removed, runVars, tailVars>>

(* Another program deletes f.  If Run's filepath.Walk is under way it may  *)
(* fail on f, and findLatestFile and Run with it.                          *)
Delete(f) ==
    /\ f \in Range(recency)
    /\ recency' = Remove(recency, f)
    /\ removed' = removed \cup {f}
    /\ main' \in {main} \cup (IF main = "find" THEN {"returned"} ELSE {})
    /\ UNCHANGED <<lines, next, lastFile, started, tailVars>>

-----------------------------------------------------------------------------
(* findLatestFile: the file with the newest modification time.             *)
Latest == IF recency = <<>> THEN NoFile ELSE Last(recency)

(* main returns when Run does, and the process ends with it.               *)
Alive == ~crashed /\ main # "returned"

(* The go statement of Run: a goroutine of its own for f.                  *)
Start(f) ==
    /\ started' = started + 1
    /\ tailer' = [tailer EXCEPT ![started + 1] = "open"]
    /\ file' = [file EXCEPT ![started + 1] = f]
    /\ lastFile' = f

(* Run: findLatestFile returns an error and Run with it.                   *)
FindNothing ==
    /\ ~crashed /\ main = "find"
    /\ Latest = NoFile
    /\ main' = "returned"
    /\ UNCHANGED <<dirVars, next, lastFile, started, tailVars>>

(* Run: the file being tailed is still the latest; sleep.                  *)
FindSame ==
    /\ ~crashed /\ main = "find"
    /\ Latest # NoFile /\ Latest = lastFile
    /\ UNCHANGED vars

(* Run: the first file; LastChildCancel is nil, nobody to wait for.        *)
FindFirst ==
    /\ ~crashed /\ main = "find"
    /\ Latest # NoFile /\ started = 0
    /\ Start(Latest)
    /\ UNCHANGED <<dirVars, main, next, pos, cancelled, late, ctxDone, crashed>>

(* Mutant of FindNew: the old goroutine is not cancelled.                  *)
FindNewNoCancel ==
    /\ ~crashed /\ main = "find"
    /\ Latest \notin {NoFile, lastFile} /\ started \in 1..(MaxTailers - 1)
    /\ next' = Latest
    /\ main' = "wait"
    /\ UNCHANGED <<dirVars, lastFile, started, tailVars>>

(* Run: another file is the latest; LastChildCancel().                     *)
FindNew ==
    /\ ~crashed /\ main = "find"
    /\ Latest \notin {NoFile, lastFile} /\ started \in 1..(MaxTailers - 1)
    /\ cancelled' = cancelled \cup {started}
    /\ next' = Latest
    /\ main' = "wait"
    /\ UNCHANGED <<dirVars, lastFile, started, tailer, file, pos, late,
                   ctxDone, crashed>>

(* Mutant of HandOver: Run does not wait for the old goroutine.            *)
HandOverAtOnce ==
    /\ ~crashed /\ main = "wait"
    /\ Start(next)
    /\ main' = "find"
    /\ next' = NoFile
    /\ UNCHANGED <<dirVars, pos, cancelled, late, ctxDone, crashed>>

(* Run: <-ctx.Done(), then a child context and a goroutine for the file.   *)
HandOver ==
    /\ ~crashed /\ main = "wait"
    /\ ctxDone
    /\ Start(next)
    /\ main' = "find"
    /\ next' = NoFile
    /\ UNCHANGED <<dirVars, pos, cancelled, late, ctxDone, crashed>>

(* The goroutine: os.Open; log.Fatalf when the file is gone.               *)
Open(t) ==
    /\ Alive /\ tailer[t] = "open"
    /\ tailer' = [tailer EXCEPT ![t] = "select"]
    /\ crashed' = (file[t] \in removed)
    /\ UNCHANGED <<dirVars, runVars, file, pos, cancelled, late, ctxDone>>

(* The goroutine: default branch, because childCtx is not done.            *)
Poll(t) ==
    /\ Alive /\ tailer[t] = "select"
    /\ t \notin cancelled
    /\ tailer' = [tailer EXCEPT ![t] = "read"]
    /\ UNCHANGED <<dirVars, runVars, file, pos, cancelled, late, ctxDone,
                   crashed>>

(* Mutant of Read: the goroutine returns at the end of the file.           *)
ReadQuitsAtEnd(t) ==
    /\ Alive /\ tailer[t] = "read"
    /\ tailer' = [tailer EXCEPT ![t] = IF pos[t] < lines[file[t]] THEN "select"
                                                                 ELSE "quit"]
    /\ \/ /\ pos[t] < lines[file[t]]
          /\ pos' = [pos EXCEPT ![t] = @ + 1]
          /\ late' = IF t \in cancelled THEN [late EXCEPT ![t] = @ + 1] ELSE late
       \/ /\ pos[t] = lines[file[t]]
          /\ UNCHANGED <<pos, late>>
    /\ UNCHANGED <<dirVars, runVars, file, cancelled, ctxDone, crashed>>

(* The goroutine: ReadString and Print, or end of file and a short sleep.  *)
Read(t) ==
    /\ Alive /\ tailer[t] = "read"
    /\ tailer' = [tailer EXCEPT ![t] = "select"]
    /\ \/ /\ pos[t] < lines[file[t]]
          /\ pos' = [pos EXCEPT ![t] = @ + 1]
          /\ late' = IF t \in cancelled THEN [late EXCEPT ![t] = @ + 1] ELSE late
       \/ /\ pos[t] = lines[file[t]]
          /\ UNCHANGED <<pos, late>>
    /\ UNCHANGED <<dirVars, runVars, file, cancelled, ctxDone, crashed>>

(* Mutant of Quit: the goroutine returns without cancelling ctx.           *)
QuitSilently(t) ==
    /\ Alive /\ tailer[t] = "select"
    /\ t \in cancelled
    /\ tailer' = [tailer EXCEPT ![t] = "quit"]
    /\ UNCHANGED <<dirVars, runVars, file, pos, cancelled, late, ctxDone,
                   crashed>>

(* The goroutine: childCtx is done; cancel() the outer context, return.    *)
Quit(t) ==
    /\ Alive /\ tailer[t] = "select"
    /\ t \in cancelled
    /\ tailer' = [tailer EXCEPT ![t] = "quit"]
    /\ ctxDone' = TRUE
    /\ UNCHANGED <<dirVars, runVars, file, pos, cancelled, late, crashed>>

Run == FindNothing \/ FindFirst \/ FindNew \/ HandOver

Goroutine(t) == Open(t) \/ Poll(t) \/ Read(t) \/ Quit(t)

Next ==
    \/ \E f \in Files : Write(f) \/ Delete(f)
    \/ Run \/ FindSame
    \/ \E t \in Tailer : Goroutine(t)

Spec == Init /\ [][Next]_vars

(* Run and the goroutines go on; the other programs need not.              *)
Fairness ==
    /\ WF_vars(Run)
    /\ \A t \in Tailer : WF_vars(Goroutine(t))

FairSpec == Spec /\ Fairness

-----------------------------------------------------------------------------
(* The first hand-over is clean: when a second goroutine exists the first  *)
(* has quit, so no line of the old file comes after one of the new file.   *)
(* Later hand-overs do not wait (ctx stays cancelled), so an old goroutine *)
(* may print into the output of its successor; it prints one line at most, *)
(* the read that was under way when it was cancelled.                      *)
LateLines ==
    /\ started > 1 => tailer[1] = "quit"
    /\ \A t \in Tailer : late[t] <= 1

(* However many goroutines overlap, only the newest one goes on: all the   *)
(* others are cancelled and the newest tails the file Run found last.      *)
OnlyNewestGoesOn ==
    started > 0 =>
        /\ file[started] = lastFile
        /\ cancelled = 1..(IF main = "wait" THEN started ELSE started - 1)

(* Run never hangs in <-ctx.Done(): the goroutine it cancelled quits and   *)
(* cancels ctx, unless the process ends.                                   *)
HandOverNotStuck ==
    main = "wait" ~> main # "wait" \/ crashed

(* When the directory changes no more, the newest file ends up being       *)
(* tailed and all of its lines are printed, unless Run returned for want   *)
(* of a file or the process died on a file deleted too early.              *)
FollowsNewest ==
    <>[](\/ main = "returned" \/ crashed
         \/ started = MaxTailers
         \/ /\ lastFile = Latest \/ lastFile \in removed
            /\ started > 0 => pos[started] = lines[lastFile])
=============================================================================
