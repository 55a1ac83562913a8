----------------------------- MODULE DailyFile ------------------------------
(***************************************************************************)
(* The record files of miku-tools/node: writeToFile, writeToFile2 and      *)
(* writeDataToFile append a line to <dir>/<today>, through ONE file handle *)
(* that every caller and every directory share, and deleteOldFiles removes *)
(* what was not written for KeepDays days.  This module has their state    *)
(* and effects; the monitors that call them extend it.                     *)
(***************************************************************************)
EXTENDS Naturals, Sequences

CONSTANTS
    Dirs,       \* the directories
    KeepDays,   \* the 8 days of deleteOldFiles
    MaxDay      \* bound: the last day of a run

ASSUME DaysAssumption == KeepDays \in Nat /\ MaxDay \in Nat

Days == 0..MaxDay

(* A file's base name is its day; a path also has the directory, so a base *)
(* name and a path are never equal, and "" is neither.                     *)
BaseName(d) == <<d>>
Path(dir, d) == <<dir, d>>
Paths == Dirs \X Days
Nil == <<>>

VARIABLES
    today,     \* the date
    files,     \* the lines of each file there is
    touched,   \* the day of its last write
    file,      \* the package variable "file": the open path, or Nil
    up         \* the process runs

fileVars == <<today, files, touched, file, up>>

FilesOK(Line) ==
    /\ today \in Days
    /\ DOMAIN files \subseteq Paths
    /\ \A p \in DOMAIN files : files[p] \in Seq(Line)
    /\ DOMAIN touched = DOMAIN files
    /\ \A p \in DOMAIN touched : touched[p] \in Days
    /\ file \in Paths \cup {Nil}
    /\ up \in BOOLEAN

FilesInit ==
    /\ today = 0
    /\ files = <<>>
    /\ touched = <<>>
    /\ file = Nil
    /\ up = TRUE

FilesOf(dir) == {p \in DOMAIN files : p[1] = dir}

(* FindLatestFile: the PATH of the file written last, "" if there is none. *)
FindLatestFile(dir) ==
    IF FilesOf(dir) = {} THEN Nil
    ELSE CHOOSE p \in FilesOf(dir) :
            \A q \in FilesOf(dir) : touched[q] <= touched[p]

(* text is appended to p, which is created if need be.                     *)
AppendTo(p, text) ==
    /\ files' = [q \in DOMAIN files \cup {p} |->
                    (IF q \in DOMAIN files THEN files[q] ELSE <<>>)
                        \o (IF q = p THEN text ELSE <<>>)]
    /\ touched' = [q \in DOMAIN files' |->
                      IF q = p THEN today ELSE touched[q]]

(* What the tail of a write does to the open file p: the line is written,  *)
(* or the write fails, which is logged (opening p has created it).         *)
WriteLine(p, text) ==
    \/ AppendTo(p, text)
    \/ IF p \in DOMAIN files THEN UNCHANGED <<files, touched>>
                             ELSE AppendTo(p, <<>>)

(* Mutant of MustOpen: base names are compared with base names.            *)
MustOpenComparesNames(dir) ==
    file = Nil \/ ~\E p \in FilesOf(dir) : p = FindLatestFile(dir) /\ p[2] = today

(* Is the file opened (again)?  The base name is compared with a path.     *)
MustOpen(dir) == file = Nil \/ BaseName(today) # FindLatestFile(dir)

(* A write that returns.  A failed OpenFile leaves file nil.               *)
Written(dir, text) ==
    /\ UNCHANGED <<today, up>>
    /\ \/ /\ MustOpen(dir)
          /\ \/ file' = Path(dir, today) /\ WriteLine(file', text)
             \/ file' = Nil /\ UNCHANGED <<files, touched>>
       \/ /\ ~MustOpen(dir)
          /\ file' = file
          /\ WriteLine(file, text)

(* The directory cannot be made or read: log.Fatalln.                      *)
WriteFatal ==
    /\ up' = FALSE
    /\ UNCHANGED <<today, files, touched, file>>

Remaining(gone) ==
    /\ files' = [p \in DOMAIN files \ gone |-> files[p]]
    /\ touched' = [p \in DOMAIN files \ gone |-> touched[p]]
    /\ UNCHANGED <<today, file, up>>

(* The files that are certainly older than days * 24 h.  They may have been*)
(* so the day before already.                                              *)
Older(dir, days) == {p \in FilesOf(dir) : touched[p] + days < today}

(* Mutant of DeleteOldFiles: the cutoff is a day too late.                 *)
DeleteOldFilesEarly(dir) ==
    Remaining({p \in FilesOf(dir) : touched[p] + KeepDays <= today + 1})

(* deleteOldFiles, all the way ...                                         *)
DeleteOldFiles(dir) ==
    \E gone \in SUBSET {p \in FilesOf(dir) : touched[p] + KeepDays <= today} :
        /\ Older(dir, KeepDays) \subseteq gone
        /\ Remaining(gone)

(* ... or up to the first error.                                           *)
DeleteFails(dir) ==
    \E gone \in SUBSET {p \in FilesOf(dir) : touched[p] + KeepDays <= today} :
        Remaining(gone)

(* The clock of the machine passes midnight.                               *)
Midnight ==
    /\ today < MaxDay
    /\ today' = today + 1
    /\ UNCHANGED <<files, touched, file, up>>
=============================================================================
