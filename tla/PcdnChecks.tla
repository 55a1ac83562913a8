----------------------------- MODULE PcdnChecks -----------------------------
(***************************************************************************)
(* miku-tools stream/pcdn.go: which node does the scheduler send a client  *)
(* to?  LoopPlaycheck and Pcdns ask for every province and isp and count   *)
(* the answers elsewhere; LoopPcdn asks again and again; and the scheduler *)
(* node list gives a node that the user can try himself.  Each is one loop *)
(* over what args holds, one turn at a time.                               *)
(***************************************************************************)
EXTENDS Integers, Sequences, FiniteSets

CONSTANT Inputs  \* [cmd, turns: a sequence, bucket]; a turn is
                 \*   LoopPlaycheck: [answer: "none", "bad" or "ok", isp,
                 \*     province: the asked one's or not, v6]
                 \*   Pcdns: [ok: an ip:port, area, isp: the asked one's or not]
                 \*   LoopPcdn: [ip: the province has one]
                 \*   getPcdnFromSchedAPI: [reports, root, ips: of "v6",
                 \*     "private" and "public"]; root: redis has it as one

VARIABLES
    pc,      \* "turn", "printed", "gone", "panic"
    args,    \* the input
    world,   \* the requests of LoopPcdn: [path, host]
    mem      \* n: the turn; bucket: Conf's; the counters; node: the selected one

vars == <<pc, args, world, mem>>

Zero == [n |-> 1, bucket |-> "", err |-> 0, v6 |-> 0, total |-> 0, area |-> 0, isp |-> 0,
         cover |-> 0, node |-> 0]

Init ==
    /\ pc = "turn"
    /\ args \in Inputs
    /\ world = <<>>
    /\ mem = [Zero EXCEPT !.bucket = args.bucket]

-----------------------------------------------------------------------------
Turn(cmd) == pc = "turn" /\ args.cmd = cmd /\ mem.n <= Len(args.turns)
Ended(cmd) == pc = "turn" /\ args.cmd = cmd /\ mem.n > Len(args.turns)
It == args.turns[mem.n]
One(b) == IF b THEN 1 ELSE 0

(* Mutant of Playcheck: an answer whose node is elsewhere is not counted.  *)
PlaycheckMatches ==
    mem' = [mem EXCEPT !.n = @ + 1, !.err = @ + One(It.answer = "ok" /\ ~(It.isp /\ It.province)),
                       !.v6 = @ + One(It.answer = "ok" /\ It.v6),
                       !.total = @ + One(It.answer = "ok" /\ It.isp /\ It.province)]

(* An answer that names a node in an other isp or province is an error;    *)
(* no answer, or one that is not a url, is neither.                        *)
Playcheck ==
    mem' = [mem EXCEPT !.n = @ + 1, !.err = @ + One(It.answer = "ok" /\ ~(It.isp /\ It.province)),
                       !.v6 = @ + One(It.answer = "ok" /\ It.v6),
                       !.total = @ + One(It.answer = "ok")]

LoopPlaycheck ==
    /\ Turn("LoopPlaycheck") /\ Playcheck
    /\ UNCHANGED <<pc, args, world>>

(* The share of the answers from the same province, in percent; of none it *)
(* is a division by zero.                                                  *)
PrintCover ==
    /\ Ended("LoopPlaycheck")
    /\ IF mem.total = 0 THEN pc' = "panic" /\ UNCHANGED mem
       ELSE /\ pc' = "printed"
            /\ mem' = [mem EXCEPT !.cover = ((mem.total - mem.err) * 100) \div mem.total]
    /\ UNCHANGED <<args, world>>

(* Mutant of Answered: Pcdns passes over what is not an answer.            *)
AnsweredOrNot == TRUE

Answered == It.ok

(* The first answer that is not ip:port ends Pcdns, without a report; area *)
(* and isp are compared each for itself.                                   *)
Pcdns ==
    /\ Turn("Pcdns")
    /\ IF Answered
       THEN /\ mem' = [mem EXCEPT !.n = @ + 1, !.total = @ + 1,
                                  !.area = @ + One(~It.area), !.isp = @ + One(~It.isp)]
            /\ UNCHANGED pc
       ELSE pc' = "gone" /\ UNCHANGED mem
    /\ UNCHANGED <<args, world>>

(* getPcdn renames the bucket for its path, and for every later request;   *)
(* the host was taken before.                                              *)
LoopPcdn ==
    /\ Turn("LoopPcdn")
    /\ LET path == IF mem.bucket = "dycold" THEN "domain" ELSE mem.bucket
       IN  IF It.ip
           THEN /\ mem' = [mem EXCEPT !.n = @ + 1, !.bucket = path]
                /\ world' = Append(world, [path |-> path, host |-> mem.bucket])
           ELSE mem' = [mem EXCEPT !.n = @ + 1] /\ UNCHANGED world
    /\ UNCHANGED <<pc, args>>

(* Mutant of Candidate: a private address is one that can be tried.        *)
CandidatePrivate == {"private", "public"} \cap It.ips # {}

(* getPcdnFromSchedAPI: a node with a public v4 ip.  skipReport passes over*)
(* no node although it logs that it does (the continue is that of the inner*)
(* loop), and skipRoot none since no node is ever known as a root.         *)
Candidate == "public" \in It.ips

(* Each candidate replaces the one before it.                              *)
SchedNode ==
    /\ Turn("getPcdnFromSchedAPI")
    /\ mem' = [mem EXCEPT !.n = @ + 1, !.node = IF Candidate THEN mem.n ELSE @]
    /\ UNCHANGED <<pc, args, world>>

PrintRest ==
    /\ \E cmd \in {"Pcdns", "LoopPcdn", "getPcdnFromSchedAPI"} : Ended(cmd)
    /\ pc' = "printed" /\ UNCHANGED <<args, world, mem>>

Next == LoopPlaycheck \/ PrintCover \/ Pcdns \/ LoopPcdn \/ SchedNode \/ PrintRest

Spec == Init /\ [][Next]_vars

-----------------------------------------------------------------------------
With(P(_)) == Cardinality({n \in DOMAIN args.turns : P(args.turns[n])})

(* A printed share is that of the answers, an ask without answer left out; *)
(* Pcdns reports only when every province and isp was answered; a bucket   *)
(* by its short name goes out as host of the first request alone; and if a *)
(* node of the list has a public v4 address one that has is selected.      *)
PcdnChecked ==
    pc = "printed" =>
        CASE args.cmd = "LoopPlaycheck" ->
               LET ok(t) == t.answer = "ok"
                   right(t) == ok(t) /\ t.isp /\ t.province
               IN  /\ mem.cover = (With(right) * 100) \div With(ok)
                   /\ mem.total = mem.err + With(right)
          [] args.cmd = "Pcdns" ->
               LET ok(t) == t.ok  elsewhere(t) == ~t.area
               IN  With(ok) = Len(args.turns) /\ mem.total = With(ok)
                   /\ mem.area = With(elsewhere)
          [] args.cmd = "LoopPcdn" ->
               /\ \A i \in DOMAIN world : world[i].path # "dycold"
               /\ \A i \in 2..Len(world) : world[i].host = world[i].path
          [] args.cmd = "getPcdnFromSchedAPI" ->
               LET reachable == {n \in DOMAIN args.turns : "public" \in args.turns[n].ips}
               IN  IF reachable = {} THEN mem.node = 0 ELSE mem.node \in reachable
=============================================================================
