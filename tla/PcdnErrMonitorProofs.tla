------------------------ MODULE PcdnErrMonitorProofs ------------------------
(***************************************************************************)
(* Proofs about PcdnErrMonitor for any number of schedulers, any retention *)
(* and any number of days.                                                 *)
(***************************************************************************)
EXTENDS PcdnErrMonitor, WellFoundedInduction, SequenceTheorems, TLAPS

(* The inductive invariant: the types and the property itself.             *)
PInv == TypeOK /\ DumpsStayApart

(* A non-empty set of files has one that was written last.                 *)
LEMMA LatestExists ==
    ASSUME DaysAssumption, NEW S, S # {},
           \A p \in S : touched[p] \in Days
    PROVE  \E p \in S : \A q \in S : touched[q] <= touched[p]
<1> DEFINE Age(p) == MaxDay - touched[p]
           Ages == {Age(p) : p \in S}
<1>1. Ages \subseteq Nat /\ Ages # {}
  BY DEF DaysAssumption, Days
<1>2. PICK x \in Ages : \A y \in Ages : ~(<<y, x>> \in OpToRel(<, Nat))
  <2>1. IsWellFoundedOn(OpToRel(<, Nat), Nat)
    BY NatLessThanWellFounded
  <2> HIDE DEF Ages
  <2>2. QED
    BY <1>1, <2>1, WFMin
<1>3. \A y \in Ages : ~(y < x)
  BY <1>1, <1>2 DEF OpToRel
<1>4. PICK p \in S : x = Age(p)
  BY DEF Ages
<1>5. \A q \in S : ~(Age(q) < Age(p))
  BY <1>3, <1>4
<1>6. QED
  BY <1>4, <1>5 DEF DaysAssumption, Days

(* writeDataToFile always opens the file of the day and of its directory:  *)
(* a base name never equals the path that FindLatestFile returns.          *)
LEMMA AlwaysOpened ==
    ASSUME DaysAssumption, FilesOK(1..N), NEW dir
    PROVE  MustOpen(dir)
<1>1. CASE FilesOf(dir) = {}
  BY <1>1 DEF MustOpen, FindLatestFile, BaseName, Nil
<1>2. CASE FilesOf(dir) # {}
  <2>1. FilesOf(dir) \subseteq Paths
    BY DEF FilesOf, FilesOK
  <2>2. \E p \in FilesOf(dir) : \A q \in FilesOf(dir) : touched[q] <= touched[p]
    <3>1. \A p \in FilesOf(dir) : touched[p] \in Days
      BY DEF FilesOf, FilesOK
    <3>2. QED
      BY <1>2, <3>1, LatestExists
  <2>3. FindLatestFile(dir) \in FilesOf(dir)
    BY <1>2, <2>2 DEF FindLatestFile
  <2>4. PICK a \in Dirs, d \in Days : FindLatestFile(dir) = <<a, d>>
    BY <2>1, <2>3 DEF Paths
  <2>5. <<today>> # <<a, d>>
    OBVIOUS
  <2>6. QED
    BY <2>4, <2>5 DEF MustOpen, BaseName
<1>3. QED
  BY <1>1, <1>2

(* So a write either creates or extends the day's file in the directory of *)
(* the scheduler, and leaves every other file alone.                       *)
LEMMA WrittenWhere ==
    ASSUME DaysAssumption, FilesOK(1..N), NEW dir, NEW text, Written(dir, text)
    PROVE  /\ UNCHANGED <<today, up>>
           /\ file' \in {Nil, Path(dir, today)}
           /\ \/ UNCHANGED <<files, touched>>
              \/ AppendTo(Path(dir, today), text)
              \/ AppendTo(Path(dir, today), <<>>)
<1>1. MustOpen(dir)
  BY AlwaysOpened
<1>2. CASE file' = Path(dir, today) /\ WriteLine(file', text)
  <2>1. WriteLine(Path(dir, today), text)
    BY <1>2
  <2>2. QED
    BY <1>2, <2>1 DEF WriteLine, Written
<1>3. CASE file' = Nil /\ UNCHANGED <<files, touched>>
  BY <1>3 DEF Written
<1>4. QED
  BY <1>1, <1>2, <1>3 DEF Written

(* A file of directory d holds dumps of d only, as a sequence.             *)
LEMMA ContentIsSeq ==
    ASSUME PInv, NEW p \in DOMAIN files
    PROVE  files[p] \in Seq({p[1]})
<1>1. files[p] \in Seq(1..N)
  BY DEF PInv, TypeOK, FilesOK
<1>2. \A k \in 1..Len(files[p]) : files[p][k] \in {p[1]}
  <2>1. DOMAIN files[p] = 1..Len(files[p])
    BY <1>1, LenProperties
  <2>2. QED
    BY <2>1 DEF PInv, DumpsStayApart, Content
<1>3. Len(files[p]) \in Nat /\ files[p] \in [1..Len(files[p]) -> 1..N]
  BY <1>1, LenProperties
<1>4. files[p] \in [1..Len(files[p]) -> {p[1]}]
  BY <1>2, <1>3
<1>5. QED
  BY <1>3, <1>4, SeqDef

(* To show the invariant after a step: files of sequences are enough.      *)
LEMMA SeqSuffices ==
    ASSUME NAssumption,
           today' \in Days, file' \in Paths \cup {Nil}, up' \in BOOLEAN,
           pc' \in {"tick", "get", "write", "delete"}, sched' \in 1..N,
           DOMAIN files' \subseteq Paths, DOMAIN touched' = DOMAIN files',
           \A p \in DOMAIN files' : /\ touched'[p] = p[2]
                                    /\ files'[p] \in Seq({p[1]})
    PROVE  PInv'
<1>1. ASSUME NEW p \in DOMAIN files'
      PROVE  /\ files'[p] \in Seq(1..N)
             /\ touched'[p] \in Days
             /\ Content(p)' \subseteq {p[1]}
  <2>1. p \in Dirs \X Days
    BY <1>1 DEF Paths
  <2>2. p[1] \in 1..N /\ p[2] \in Days
    BY <2>1 DEF NAssumption
  <2>3. files'[p] \in Seq({p[1]})
    BY <1>1
  <2>4. files'[p] \in Seq(1..N)
    BY <2>2, <2>3, SeqMonotonic
  <2>5. \A k \in DOMAIN files'[p] : files'[p][k] \in {p[1]}
    BY <2>3, LenProperties, ElementOfSeq
  <2>6. QED
    BY <1>1, <2>2, <2>4, <2>5 DEF Content
<1>2. QED
  BY <1>1 DEF PInv, TypeOK, FilesOK, DumpsStayApart

(* A step that leaves the files alone.                                     *)
LEMMA SameFiles ==
    ASSUME PInv, UNCHANGED <<files, touched>>,
           today' \in Days, file' \in Paths \cup {Nil}, up' \in BOOLEAN,
           pc' \in {"tick", "get", "write", "delete"}, sched' \in 1..N
    PROVE  PInv'
<1>1. TypeOK'
  BY DEF PInv, TypeOK, FilesOK
<1>2. \A p : Content(p)' = Content(p)
  BY DEF Content
<1>3. DumpsStayApart'
  BY <1>2 DEF PInv, DumpsStayApart
<1>4. QED
  BY <1>1, <1>3 DEF PInv

LEMMA InitPInv == ASSUME DaysAssumption, NAssumption, Init PROVE PInv
<1>1. DOMAIN files = {}
  BY DEF Init, FilesInit
<1>2. DOMAIN touched = {}
  BY DEF Init, FilesInit
<1>3. 1 \in 1..N /\ 0 \in Days
  BY DEF DaysAssumption, NAssumption, Days
<1>4. TypeOK
  BY <1>1, <1>2, <1>3 DEF Init, FilesInit, TypeOK, FilesOK
<1>5. QED
  BY <1>1, <1>4 DEF PInv, DumpsStayApart

(* The step that writes a dump.                                            *)
LEMMA WritePInv ==
    ASSUME DaysAssumption, NAssumption, PInv, WriteDataToFile
    PROVE  PInv'
<1> DEFINE P == Path(sched, today)
<1>1. FilesOK(1..N) /\ sched \in 1..N
  BY DEF PInv, TypeOK
<1>2. P \in Paths /\ P[1] = sched /\ P[2] = today
  BY <1>1 DEF Path, Paths, FilesOK, NAssumption
<1>3. PICK text \in {<<>>, <<sched>>} : Written(sched, text)
  BY DEF WriteDataToFile
<1>4. /\ UNCHANGED <<today, up, sched>> /\ pc' = "delete"
      /\ file' \in {Nil, P}
      /\ UNCHANGED <<files, touched>> \/ \E t \in {<<>>, <<sched>>} : AppendTo(P, t)
  BY <1>1, <1>3, WrittenWhere DEF WriteDataToFile
<1>5. CASE UNCHANGED <<files, touched>>
  BY <1>1, <1>2, <1>4, <1>5, SameFiles DEF PInv, TypeOK, FilesOK
<1>6. ASSUME NEW t \in {<<>>, <<sched>>}, AppendTo(P, t)
      PROVE  PInv'
  <2>1. t \in Seq({sched})
    <3>1. <<sched>> \in Seq({sched})
      OBVIOUS
    <3>2. QED
      BY <1>6, <3>1, EmptySeq
  <2>2. /\ DOMAIN files' = DOMAIN files \cup {P}
        /\ DOMAIN touched' = DOMAIN files'
        /\ \A p \in DOMAIN files' :
              /\ touched'[p] = IF p = P THEN today ELSE touched[p]
              /\ files'[p] = (IF p \in DOMAIN files THEN files[p] ELSE <<>>)
                                \o (IF p = P THEN t ELSE <<>>)
    BY <1>6 DEF AppendTo
  <2>3. ASSUME NEW p \in DOMAIN files'
        PROVE  touched'[p] = p[2] /\ files'[p] \in Seq({p[1]})
    <3>1. touched'[p] = p[2]
      BY <1>2, <2>2, <2>3 DEF PInv, DumpsStayApart
    <3>2. (IF p \in DOMAIN files THEN files[p] ELSE <<>>) \in Seq({p[1]})
      BY ContentIsSeq, EmptySeq
    <3>3. (IF p = P THEN t ELSE <<>>) \in Seq({p[1]})
      BY <1>2, <2>1, EmptySeq
    <3>4. (IF p \in DOMAIN files THEN files[p] ELSE <<>>)
             \o (IF p = P THEN t ELSE <<>>) \in Seq({p[1]})
      BY <3>2, <3>3, ConcatProperties
    <3>5. QED
      BY <2>2, <2>3, <3>1, <3>4
  <2>4. DOMAIN files' \subseteq Paths
    BY <1>1, <1>2, <2>2 DEF FilesOK
  <2>5. today' \in Days /\ file' \in Paths \cup {Nil} /\ up' \in BOOLEAN
    BY <1>1, <1>2, <1>4 DEF FilesOK
  <2>6. sched' \in 1..N /\ pc' \in {"tick", "get", "write", "delete"}
    BY <1>1, <1>4
  <2>7. QED
    BY <2>2, <2>3, <2>4, <2>5, <2>6, SeqSuffices
<1>7. QED
  BY <1>4, <1>5, <1>6

(* A clean-up only takes files away.                                       *)
LEMMA RemainingPInv ==
    ASSUME PInv, NEW gone, Remaining(gone), sched' \in 1..N,
           pc' \in {"tick", "get", "write", "delete"}
    PROVE  PInv'
<1>1. /\ DOMAIN files' = DOMAIN files \ gone
      /\ DOMAIN touched' = DOMAIN files \ gone
      /\ \A p \in DOMAIN files' : files'[p] = files[p] /\ touched'[p] = touched[p]
      /\ UNCHANGED <<today, file, up>>
  BY DEF Remaining
<1>2. TypeOK'
  BY <1>1 DEF PInv, TypeOK, FilesOK
<1>3. DumpsStayApart'
  BY <1>1 DEF PInv, DumpsStayApart, Content
<1>4. QED
  BY <1>2, <1>3 DEF PInv

(* Where the loop goes on, sched stays in range.                           *)
LEMMA NextSchedRange ==
    ASSUME NAssumption, sched \in 1..N, NextSched
    PROVE  sched' \in 1..N /\ pc' \in {"tick", "get", "write", "delete"}
BY DEF NAssumption, NextSched

LEMMA NextPInv ==
    ASSUME DaysAssumption, NAssumption, PInv, [Next]_vars
    PROVE  PInv'
<1>1. sched \in 1..N
  BY DEF PInv, TypeOK
<1>2. ASSUME UNCHANGED <<files, touched>>, today' \in Days,
             file' \in {file, Nil}, up' \in BOOLEAN, sched' \in 1..N,
             pc' \in {"tick", "get", "write", "delete"}
      PROVE  PInv'
  BY <1>2, SameFiles DEF PInv, TypeOK, FilesOK
<1>3. CASE Tick
  BY <1>2, <1>3 DEF Tick, PInv, TypeOK, FilesOK, NAssumption, fileVars
<1>4. CASE Get
  BY <1>2, <1>4 DEF Get, PInv, TypeOK, FilesOK, fileVars
<1>5. CASE GetFails
  BY <1>1, <1>2, <1>5, NextSchedRange DEF GetFails, PInv, TypeOK, FilesOK, fileVars
<1>6. CASE WriteDataToFile
  BY <1>6, WritePInv
<1>7. CASE WriteDies
  BY <1>2, <1>7 DEF WriteDies, WriteFatal, PInv, TypeOK, FilesOK
<1>8. CASE Delete
  BY <1>1, <1>8, NextSchedRange, RemainingPInv DEF Delete, DeleteOldFiles
<1>9. CASE DeleteGivesUp
  BY <1>1, <1>9, NextSchedRange, RemainingPInv DEF DeleteGivesUp, DeleteFails
<1>10. CASE Restart
  BY <1>2, <1>10 DEF Restart, PInv, TypeOK, FilesOK
<1>11. CASE Clock
  BY <1>2, <1>11 DEF Clock, Midnight, PInv, TypeOK, FilesOK, Days, DaysAssumption
<1>12. CASE UNCHANGED vars
  BY <1>2, <1>12 DEF vars, fileVars, PInv, TypeOK, FilesOK
<1>13. QED
  BY <1>3, <1>4, <1>5, <1>6, <1>7, <1>8, <1>9, <1>10, <1>11, <1>12
     DEF Next, Step

(* PInv holds in every reachable state.                                    *)
THEOREM PcdnInvariance == Spec => []PInv
<1>1. Init => PInv
  BY InitPInv, DaysAssumption, NAssumption
<1>2. PInv /\ [Next]_vars => PInv'
  BY NextPInv, DaysAssumption, NAssumption
<1>3. QED
  BY <1>1, <1>2, PTL DEF Spec

(* One shared handle, and yet every dump is in its scheduler's directory   *)
(* and in the file of the day of the write.                                *)
THEOREM NeverMixed == Spec => []DumpsStayApart
<1>1. PInv => DumpsStayApart
  BY DEF PInv
<1>2. QED
  BY <1>1, PcdnInvariance, PTL

(* No step deletes a dump younger than the retention.                      *)
THEOREM RecentNeverDeleted == Spec => RecentKept
<1> DEFINE Kept == \A p \in DOMAIN files :
                      today < p[2] + KeepDays => p \in DOMAIN files'
<1>1. ASSUME PInv, [Next]_vars PROVE [Kept]_vars
  <2>1. ASSUME NEW S, S \subseteq {p \in FilesOf(sched) :
                                      touched[p] + KeepDays <= today},
               Remaining(S)
        PROVE  Kept
    <3>1. ASSUME NEW p \in DOMAIN files, today < p[2] + KeepDays
          PROVE  p \in DOMAIN files'
      <4>1. p[2] = touched[p] /\ touched[p] \in Nat
        BY <1>1, <3>1 DEF PInv, DumpsStayApart, TypeOK, FilesOK, Days
      <4>2. ~(touched[p] + KeepDays <= today)
        BY <1>1, <3>1, <4>1, DaysAssumption
           DEF PInv, TypeOK, FilesOK, Days, DaysAssumption
      <4>3. p \notin S
        BY <2>1, <4>2
      <4>4. QED
        BY <2>1, <3>1, <4>3 DEF Remaining
    <3>2. QED
      BY <3>1
  <2>2. CASE Delete \/ DeleteGivesUp
    BY <2>1, <2>2 DEF Delete, DeleteGivesUp, DeleteOldFiles, DeleteFails
  <2>3. CASE WriteDataToFile
    <3>1. DOMAIN files \subseteq DOMAIN files'
      BY <1>1, <2>3, DaysAssumption, WrittenWhere
         DEF WriteDataToFile, AppendTo, PInv, TypeOK
    <3>2. QED
      BY <3>1
  <2>4. CASE UNCHANGED files
    BY <2>4
  <2>5. QED
    BY <1>1, <2>2, <2>3, <2>4
       DEF Next, Step, Tick, Get, GetFails, WriteDies, WriteFatal, Restart,
           Clock, Midnight, vars, fileVars
<1>2. QED
  BY <1>1, PcdnInvariance, PTL DEF Spec, RecentKept
=============================================================================
