--------------------------- MODULE TailfLogProofs ---------------------------
(***************************************************************************)
(* Proofs about TailfLog: what the goroutines of one run may print after   *)
(* the hand-over, for every number of files, lines and goroutines.         *)
(***************************************************************************)
EXTENDS TailfLog, TLAPS

(* The control state.  The directory is left out: who wrote or deleted     *)
(* which file, and which file a goroutine reads, decides nothing here.     *)
ControlOK ==
    /\ main \in {"find", "wait", "returned"}
    /\ started \in 0..MaxTailers
    /\ main = "wait" => started \in 1..(MaxTailers - 1)
    /\ tailer \in [Tailer -> {"unborn", "open", "select", "read", "quit"}]
    /\ DOMAIN file = Tailer /\ DOMAIN pos = Tailer
    /\ late \in [Tailer -> 0..1]
    /\ ctxDone \in BOOLEAN

(* The goroutines that Run has cancelled.                                  *)
CancelledOK == cancelled = 1..(IF main = "wait" THEN started ELSE started - 1)

NewestOK == started > 0 => file[started] = lastFile

(* A goroutine exists from its start on and returns only when cancelled.   *)
BornOK ==
    \A t \in Tailer : /\ tailer[t] = "unborn" <=> t > started
                      /\ tailer[t] = "quit" => t \in cancelled

(* A goroutine has printed at most one line since it was cancelled, and    *)
(* none as long as the read under way at that moment goes on.              *)
LateOK ==
    \A t \in Tailer : late[t] = 1 => t \in cancelled /\ tailer[t] # "read"

(* ctx is cancelled by the first goroutine that returns, which can only be *)
(* goroutine 1, and the second one starts after that.                      *)
ContextOK ==
    /\ started > 1 => ctxDone
    /\ ctxDone => tailer[1] = "quit"
    /\ \A t \in Tailer : tailer[t] = "quit" => ctxDone

(* The inductive invariant.  OnlyNewestGoesOn and LateLines need each of   *)
(* its parts: that the first goroutine has quit when the second starts     *)
(* follows from ContextOK alone, but ContextOK is kept by Quit only        *)
(* because CancelledOK says who may quit, and that one late line is the    *)
(* last follows from CancelledOK and LateOK, because Poll does not enter   *)
(* "read" for a cancelled goroutine.                                       *)
IInv ==
    /\ ControlOK /\ CancelledOK /\ NewestOK /\ BornOK /\ LateOK /\ ContextOK
-----------------------------------------------------------------------------
(* Run starts with no goroutine and none cancelled.                        *)
LEMMA InitIInv == Init => IInv
<1> SUFFICES ASSUME Init PROVE IInv
  OBVIOUS
<1> USE BoundsAssumption DEF Init, Tailer
<1>1. CancelledOK
  BY DEF CancelledOK
<1>2. ControlOK
  <2>1. /\ tailer \in [Tailer -> {"unborn", "open", "select", "read", "quit"}]
        /\ late \in [Tailer -> 0..1]
        /\ DOMAIN file = Tailer /\ DOMAIN pos = Tailer
    OBVIOUS
  <2>2. started \in 0..MaxTailers
    OBVIOUS
  <2>3. QED
    BY <2>1, <2>2 DEF ControlOK
<1>3. NewestOK /\ BornOK /\ LateOK
  BY DEF NewestOK, BornOK, LateOK
<1>4. ContextOK
  BY DEF ContextOK
<1>5. QED
  BY <1>1, <1>2, <1>3, <1>4 DEF IInv

(* Other programs and the idle rounds of Run change nothing of the         *)
(* invariant; a failed search ends the process.                            *)
LEMMA OthersKeep ==
    ASSUME IInv, NEW f,
           Write(f) \/ Delete(f) \/ FindNothing \/ UNCHANGED vars
    PROVE  IInv'
<1> USE DEF IInv, ControlOK, CancelledOK, NewestOK, BornOK, LateOK, ContextOK
<1>1. CASE Write(f)
  BY <1>1 DEF Write, runVars, tailVars
<1>2. CASE Delete(f)
  BY <1>2 DEF Delete, tailVars
<1>3. CASE FindNothing
  BY <1>3 DEF FindNothing, tailVars
<1>4. CASE UNCHANGED vars
  BY <1>4 DEF vars, runVars, tailVars
<1>5. QED
  BY <1>1, <1>2, <1>3, <1>4

(* Run's first goroutine.                                                  *)
LEMMA FindFirstKeeps ==
    ASSUME IInv, FindFirst
    PROVE  IInv'
<1> USE BoundsAssumption DEF Tailer
<1>1. /\ main = "find" /\ main' = main
      /\ started = 0 /\ started' = 1
      /\ tailer' = [tailer EXCEPT ![1] = "open"]
      /\ file' = [file EXCEPT ![1] = Latest]
      /\ lastFile' = Latest
      /\ UNCHANGED <<pos, cancelled, late, ctxDone>>
  BY DEF FindFirst, Start
<1>2. ControlOK'
  BY <1>1 DEF IInv, ControlOK
<1>3. CancelledOK' /\ NewestOK'
  BY <1>1 DEF IInv, ControlOK, CancelledOK, NewestOK
<1>4. BornOK' /\ LateOK' /\ ContextOK'
  BY <1>1 DEF IInv, ControlOK, BornOK, LateOK, ContextOK
<1>5. QED
  BY <1>2, <1>3, <1>4 DEF IInv

(* LastChildCancel: the newest goroutine joins the cancelled ones.         *)
LEMMA FindNewKeeps ==
    ASSUME IInv, FindNew
    PROVE  IInv'
<1> USE BoundsAssumption DEF Tailer
<1>1. /\ main = "find" /\ main' = "wait"
      /\ started \in 1..(MaxTailers - 1)
      /\ cancelled' = cancelled \cup {started}
      /\ UNCHANGED <<lastFile, started, tailer, file, pos, late, ctxDone>>
  BY DEF FindNew
<1>2. CancelledOK'
  BY <1>1 DEF IInv, CancelledOK
<1>3. ControlOK' /\ NewestOK' /\ BornOK' /\ LateOK' /\ ContextOK'
  BY <1>1 DEF IInv, ControlOK, NewestOK, BornOK, LateOK, ContextOK
<1>4. QED
  BY <1>2, <1>3 DEF IInv

(* <-ctx.Done() and the next goroutine.                                    *)
LEMMA HandOverKeeps ==
    ASSUME IInv, HandOver
    PROVE  IInv'
<1> USE BoundsAssumption DEF Tailer
<1>1. /\ main = "wait" /\ main' = "find"
      /\ ctxDone
      /\ started \in 1..(MaxTailers - 1) /\ started' = started + 1
      /\ tailer' = [tailer EXCEPT ![started + 1] = "open"]
      /\ file' = [file EXCEPT ![started + 1] = next]
      /\ lastFile' = next
      /\ UNCHANGED <<pos, cancelled, late, ctxDone>>
  BY DEF HandOver, Start, IInv, ControlOK
<1>2. ControlOK'
  BY <1>1 DEF IInv, ControlOK
<1>3. CancelledOK' /\ NewestOK'
  BY <1>1 DEF IInv, ControlOK, CancelledOK, NewestOK
<1>4. BornOK' /\ LateOK' /\ ContextOK'
  BY <1>1 DEF IInv, ControlOK, BornOK, LateOK, ContextOK
<1>5. QED
  BY <1>2, <1>3, <1>4 DEF IInv

(* The goroutine opens its file, polls, and reads: a cancelled one leaves  *)
(* "read" for the last time.                                               *)
LEMMA TailingKeeps ==
    ASSUME IInv, NEW t \in Tailer,
           Open(t) \/ Poll(t) \/ Read(t)
    PROVE  IInv'
<1> USE BoundsAssumption DEF Tailer
<1>1. /\ UNCHANGED <<main, started, lastFile, file, cancelled, ctxDone>>
      /\ tailer[t] \in {"open", "select", "read"}
      /\ \E l \in {"select", "read"} :
            /\ tailer' = [tailer EXCEPT ![t] = l]
            /\ l = "read" => t \notin cancelled
      /\ \/ late' = late
         \/ /\ tailer[t] = "read" /\ t \in cancelled
            /\ late' = [late EXCEPT ![t] = @ + 1]
            /\ tailer' = [tailer EXCEPT ![t] = "select"]
      /\ DOMAIN pos' = DOMAIN pos
  BY DEF Open, Poll, Read, runVars
<1>2. late[t] = 0 \/ late' = late
  BY <1>1 DEF IInv, ControlOK, LateOK
<1>3. ControlOK'
  BY <1>1, <1>2 DEF IInv, ControlOK
<1>4. CancelledOK' /\ NewestOK'
  BY <1>1 DEF IInv, CancelledOK, NewestOK
<1>5. BornOK'
  BY <1>1 DEF IInv, ControlOK, BornOK
<1>6. LateOK'
  BY <1>1, <1>2 DEF IInv, ControlOK, LateOK
<1>7. ContextOK'
  BY <1>1 DEF IInv, ControlOK, ContextOK
<1>8. QED
  BY <1>3, <1>4, <1>5, <1>6, <1>7 DEF IInv

(* The goroutine returns: it is goroutine 1, or ctx was cancelled before.  *)
LEMMA QuitKeeps ==
    ASSUME IInv, NEW t \in Tailer, Quit(t)
    PROVE  IInv'
<1> USE BoundsAssumption DEF Tailer
<1>1. /\ UNCHANGED <<main, started, lastFile, file, pos, cancelled, late>>
      /\ tailer[t] = "select" /\ t \in cancelled
      /\ tailer' = [tailer EXCEPT ![t] = "quit"]
      /\ ctxDone' = TRUE
  BY DEF Quit, runVars
<1>2. started > 1 \/ t = 1
  BY <1>1 DEF IInv, ControlOK, CancelledOK
<1>3. tailer'[1] = "quit"
  BY <1>1, <1>2 DEF IInv, ControlOK, ContextOK
<1>4. ContextOK'
  BY <1>1, <1>3 DEF ContextOK
<1>5. ControlOK' /\ CancelledOK' /\ NewestOK'
  BY <1>1 DEF IInv, ControlOK, CancelledOK, NewestOK
<1>6. BornOK' /\ LateOK'
  BY <1>1 DEF IInv, ControlOK, BornOK, LateOK
<1>7. QED
  BY <1>4, <1>5, <1>6 DEF IInv

(* Every step keeps the invariant.                                         *)
LEMMA NextIInv ==
    ASSUME IInv, [Next]_vars
    PROVE  IInv'
<1>1. CASE UNCHANGED vars
  BY <1>1, OthersKeep
<1>2. CASE \E f \in Files : Write(f) \/ Delete(f)
  BY <1>2, OthersKeep
<1>3. CASE Run
  BY <1>3, OthersKeep, FindFirstKeeps, FindNewKeeps, HandOverKeeps DEF Run
<1>4. CASE FindSame
  BY <1>4, OthersKeep DEF FindSame
<1>5. ASSUME NEW t \in Tailer, Goroutine(t)
      PROVE  IInv'
  BY <1>5, TailingKeeps, QuitKeeps DEF Goroutine
<1>6. QED
  BY <1>1, <1>2, <1>3, <1>4, <1>5 DEF Next

THEOREM SpecIInv == Spec => []IInv
<1>1. Init => IInv
  BY InitIInv
<1>2. IInv /\ [Next]_vars => IInv'
  BY NextIInv
<1>3. QED
  BY <1>1, <1>2, PTL DEF Spec

-----------------------------------------------------------------------------
(* The first hand-over is clean, and later ones let an old goroutine print *)
(* one more line at most.                                                  *)
THEOREM LateLinesHolds == Spec => []LateLines
<1>1. IInv => LateLines
  BY DEF IInv, ControlOK, ContextOK, LateLines
<1>2. QED
  BY <1>1, SpecIInv, PTL

(* Of any number of overlapping goroutines only the newest is not          *)
(* cancelled, and it tails the file that Run found last.                   *)
THEOREM OnlyNewestHolds == Spec => []OnlyNewestGoesOn
<1>1. IInv => OnlyNewestGoesOn
  BY DEF IInv, NewestOK, CancelledOK, OnlyNewestGoesOn
<1>2. QED
  BY <1>1, SpecIInv, PTL

(* Run, waiting in <-ctx.Done(), has somebody to wake it: ctx is cancelled *)
(* already, or the goroutine it cancelled still runs and will cancel it.   *)
SomebodyWakesRun ==
    main = "wait" => ctxDone \/ (/\ started \in cancelled
                                 /\ tailer[started] \in {"open", "select", "read"})

THEOREM RunIsWoken == Spec => []SomebodyWakesRun
<1>1. IInv => SomebodyWakesRun
  BY BoundsAssumption DEF IInv, ControlOK, CancelledOK, BornOK,
     ContextOK, SomebodyWakesRun, Tailer
<1>2. QED
  BY <1>1, SpecIInv, PTL

(* From the start of the second goroutine on the first prints nothing.     *)
FirstIsSilent == started > 1 => pos'[1] = pos[1]

THEOREM FirstStaysSilent == Spec => [][FirstIsSilent]_vars
<1>1. ASSUME IInv, [Next]_vars
      PROVE  [FirstIsSilent]_vars
  <2> SUFFICES ASSUME started > 1, Next
               PROVE  pos'[1] = pos[1]
    BY <1>1 DEF FirstIsSilent
  <2>1. tailer[1] = "quit" /\ 1 \in Tailer /\ DOMAIN pos = Tailer
    BY <1>1, BoundsAssumption DEF IInv, ControlOK, ContextOK, Tailer
  <2>2. CASE \E f \in Files : Write(f) \/ Delete(f)
    BY <2>2 DEF Write, Delete, tailVars
  <2>3. CASE Run \/ FindSame
    BY <2>3 DEF Run, FindNothing, FindFirst, FindNew, HandOver, FindSame,
                vars, tailVars
  <2>4. ASSUME NEW t \in Tailer, Goroutine(t)
        PROVE  pos'[1] = pos[1]
    BY <2>1, <2>4 DEF Goroutine, Open, Poll, Read, Quit
  <2>5. QED
    BY <2>2, <2>3, <2>4 DEF Next
<1>2. QED
  BY <1>1, SpecIInv, PTL DEF Spec
=============================================================================
