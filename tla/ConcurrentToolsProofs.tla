------------------------ MODULE ConcurrentToolsProofs ------------------------
(***************************************************************************)
(* Proofs about the tools of ConcurrentTools, for all values of their      *)
(* constants.  Each tool has an inductive invariant of its own; the last   *)
(* part puts them together.                                                *)
(***************************************************************************)
EXTENDS ConcurrentTools, FiniteSetTheorems, SequenceTheorems,
        WellFoundedInduction, TLAPS

-----------------------------------------------------------------------------
(* A non-empty set of numbers has a least one.                             *)
LEMMA LeastExists ==
    ASSUME NEW S, S \subseteq Nat, S # {}
    PROVE  \E x \in S : \A y \in S : x <= y
<1>1. PICK x \in S : \A y \in S : ~(<<y, x>> \in OpToRel(<, Nat))
  BY NatLessThanWellFounded, WFMin
<1>2. \A y \in S : ~(y < x)
  BY <1>1 DEF OpToRel
<1>3. QED
  BY <1>2

(* And a greatest one, if it is bounded.                                   *)
LEMMA GreatestExists ==
    ASSUME NEW n \in Nat, NEW S, S \subseteq 1..n, S # {}
    PROVE  \E x \in S : \A y \in S : x >= y
<1> DEFINE T == {n - y : y \in S}
<1>1. \A y \in S : y \in Nat /\ n - y \in Nat /\ n - y \in T
  OBVIOUS
<1>2. T \subseteq Nat /\ T # {}
  BY <1>1
<1>3. PICK x \in T : \A y \in T : x <= y
  <2> HIDE DEF T
  <2>1. QED
    BY <1>2, LeastExists
<1>4. PICK z \in S : x = n - z
  OBVIOUS
<1>5. \A y \in S : z >= y
  <2> HIDE DEF T
  <2>1. QED
    BY <1>1, <1>3, <1>4
<1>6. QED
  BY <1>5

(* Induction, as a fact about sets of numbers.                             *)
LEMMA SetInduction ==
    ASSUME NEW S, 0 \in S, \A n \in Nat : n \in S => n + 1 \in S
    PROVE  \A n \in Nat : n \in S
<1> SUFFICES ASSUME Nat \ S # {}
             PROVE  FALSE
  OBVIOUS
<1>1. PICK x \in Nat \ S : \A y \in Nat \ S : x <= y
  BY LeastExists
<1>2. x # 0 /\ x - 1 \in Nat /\ ~(x <= x - 1)
  OBVIOUS
<1>3. x - 1 \in S
  BY <1>1, <1>2
<1>4. (x - 1) + 1 \in S
  BY <1>2, <1>3
<1>5. QED
  BY <1>2, <1>4

(* An injective sequence is as long as the set of what it has.             *)
LEMMA InjectiveLength ==
    ASSUME NEW S, NEW s \in Seq(S), \A i, j \in DOMAIN s : s[i] = s[j] => i = j
    PROVE  Len(s) = Cardinality({s[i] : i \in DOMAIN s})
<1> DEFINE T == {s[i] : i \in DOMAIN s}
<1>1. Len(s) \in Nat /\ DOMAIN s = 1..Len(s)
  BY LenProperties
<1>2. s \in Bijection(1..Len(s), T)
  BY <1>1, LenProperties DEF Bijection, Injection, Surjection, IsInjective
<1>3. QED
  BY <1>1, <1>2, FS_CountingElements DEF ExistsBijection

(* A sequence with an element more.                                        *)
LEMMA Appended ==
    ASSUME NEW S, NEW s \in Seq(S), NEW e \in S
    PROVE  LET t == Append(s, e)
               last == Len(s) + 1
           IN  /\ t \in Seq(S)
               /\ last \in DOMAIN t /\ last \notin DOMAIN s /\ t[last] = e
               /\ \A i \in DOMAIN s : i \in DOMAIN t /\ t[i] = s[i]
               /\ \A i \in DOMAIN t : i \in DOMAIN s \/ i = last
<1> DEFINE t == Append(s, e)
<1>1. Len(s) \in Nat /\ DOMAIN s = 1..Len(s)
  BY LenProperties
<1>2. /\ t \in Seq(S) /\ Len(t) = Len(s) + 1
      /\ \A i \in 1..Len(s) : t[i] = s[i]
      /\ t[Len(s) + 1] = e
  BY AppendProperties
<1> HIDE DEF t
<1>3. DOMAIN t = 1..(Len(s) + 1)
  BY <1>2, LenProperties
<1>4. /\ Len(s) + 1 \in 1..(Len(s) + 1) /\ Len(s) + 1 \notin 1..Len(s)
      /\ \A i \in 1..Len(s) : i \in 1..(Len(s) + 1)
      /\ \A i \in 1..(Len(s) + 1) : i \in 1..Len(s) \/ i = Len(s) + 1
  BY <1>1
<1>5. QED
  BY <1>1, <1>2, <1>3, <1>4 DEF t

-----------------------------------------------------------------------------
(* rtc.  A handshake is never older than its timeout, because the clock    *)
(* waits for a timer that is due, and a player whose server does not       *)
(* answer does not get past it.                                            *)
RtcInv ==
    /\ world \in Int
    /\ mem \in [Players -> [at : {"session", "stun", "handshake", "read", "gone"},
                            since : Int, count : Int]]
    /\ \A p \in Players :
          /\ mem[p].at = "handshake" => world <= mem[p].since + Timeout
          /\ p \notin args => mem[p].at \notin {"read", "gone"}

(* rtc starts in the invariant.                                            *)
LEMMA RtcInit == Rtc!Init => RtcInv
  BY DEF Rtc!Init, RtcInv

(* Every step of rtc keeps it: a clock tick that a due timer forbids is    *)
(* the one that could not.                                                 *)
LEMMA RtcNext ==
    ASSUME RtcInv, Rtc!Next
    PROVE  RtcInv'
<1> USE TimeoutAssumption DEF RtcInv
<1>1. ASSUME NEW p \in Players, NEW l \in {"stun", "handshake", "read"}, Rtc!Goes(p, l),
             l = "read" => p \in args
      PROVE  RtcInv'
  BY <1>1 DEF Rtc!Goes
<1>2. ASSUME NEW p \in Players, Rtc!Read(p)
      PROVE  RtcInv'
  BY <1>2 DEF Rtc!Read
<1>3. CASE Rtc!Clock
  BY <1>3 DEF Rtc!Clock
<1>4. CASE Rtc!Return
  BY <1>4 DEF Rtc!Return
<1>5. ASSUME NEW p \in Players, Rtc!HandshakeFails(p)
      PROVE  RtcInv'
  BY <1>5 DEF Rtc!HandshakeFails
<1>6. QED
  BY <1>1, <1>2, <1>3, <1>4, <1>5
     DEF Rtc!Next, Rtc!Session, Rtc!StunResponse, Rtc!Handshake

-----------------------------------------------------------------------------
(* talk.  Before the invite the tool knows the ssrc of the channel that    *)
(* the server has, unless a request that was given up has come between.    *)
ChannelServer ==
    /\ DOMAIN world = {"calls", "channel", "next", "late", "taken"}
    /\ DOMAIN world.channel = {"audio", "video"}
    /\ world.next \in Nat \ {0}
    /\ \A m \in {"audio", "video"} : world.channel[m] \in Nat

ChannelInv ==
    /\ ChannelServer
    /\ DOMAIN mem = {"ssrc", "bare", "invited", "actual", "sent"}
    /\ pc \in {"delete", "create", "invite"} => ~mem.invited
    /\ pc \in {"delete", "create"} => ~mem.bare
    /\ pc = "invite" =>
          /\ mem.ssrc # Channel!Failed
          /\ mem.ssrc = 0 <=> mem.bare
          /\ mem.ssrc # world.channel[Channel!Media(args)] =>
                mem.bare \/ (world.taken /\ args = "Invite")
    /\ Channel!InvitedToChannel

(* talk starts in the invariant.                                           *)
LEMMA ChannelInit == Channel!Init => ChannelInv
  BY DEF Channel!Init, ChannelInv, ChannelServer, Channel!None, Channel!InvitedToChannel

(* What a request can do to the server.                                    *)
LEMMA ChannelRequests ==
    ASSUME ChannelServer, NEW m \in {"audio", "video"}
    PROVE  LET d == Channel!Deleted(m)
               c == Channel!Created(m)
           IN  /\ DOMAIN d = DOMAIN world /\ d.next = world.next /\ d.taken = world.taken
               /\ DOMAIN d.channel = {"audio", "video"}
               /\ \A k \in {"audio", "video"} :
                     d.channel[k] = IF k = m THEN 0 ELSE world.channel[k]
               /\ DOMAIN c = DOMAIN world /\ c.next \in Nat \ {0} /\ c.taken = world.taken
               /\ DOMAIN c.channel = {"audio", "video"}
               /\ c.channel[m] \in Nat \ {0}
               /\ \A k \in {"audio", "video"} :
                     k # m \/ world.channel[k] # 0 => c.channel[k] = world.channel[k]
  BY DEF ChannelServer, Channel!Deleted, Channel!Created

(* Every step of talk, and every late deed of the server, keeps it.        *)
LEMMA ChannelNext ==
    ASSUME ChannelInv, Channel!Next
    PROVE  ChannelInv'
<1> USE DEF ChannelInv, Channel!InvitedToChannel
<1>1. Channel!Media(args) \in {"audio", "video"}
  BY DEF Channel!Media
<1>2. ASSUME NEW r, Channel!GivenUp(r)
      PROVE  ChannelServer'
  BY <1>2 DEF Channel!GivenUp, ChannelServer
<1>3. CASE Channel!ActLate
  <2>1. UNCHANGED <<pc, args, mem>> /\ Channel!Media(args)' = Channel!Media(args)
    BY <1>3 DEF Channel!ActLate, Channel!Media
  <2>2. CASE world' = [Channel!Deleted("video") EXCEPT !.late = @ \ {"delete"}, !.taken = TRUE]
    <3>1. ChannelServer' /\ world'.taken = TRUE
      BY <2>2, ChannelRequests DEF ChannelServer
    <3>2. args # "Invite" => world'.channel[Channel!Media(args)] = world.channel[Channel!Media(args)]
      BY <1>1, <2>2, ChannelRequests DEF Channel!Media
    <3>3. QED
      BY <2>1, <3>1, <3>2
  <2>3. CASE world' = [Channel!Created("video") EXCEPT !.late = @ \ {"create"}]
    <3>1. ChannelServer' /\ world'.taken = world.taken
      BY <2>3, ChannelRequests DEF ChannelServer
    <3>2. world.channel[Channel!Media(args)] # 0 =>
             world'.channel[Channel!Media(args)] = world.channel[Channel!Media(args)]
      BY <1>1, <2>3, ChannelRequests
    <3>3. args # "Invite" => world'.channel[Channel!Media(args)] = world.channel[Channel!Media(args)]
      BY <1>1, <2>3, ChannelRequests DEF Channel!Media
    <3>4. QED
      BY <2>1, <3>1, <3>2, <3>3
  <2>4. QED
    BY <1>3, <2>2, <2>3 DEF Channel!ActLate
<1>4. ASSUME NEW t \in Channel!Tools, Channel!Start(t)
      PROVE  ChannelInv'
  BY <1>4 DEF Channel!Start, Channel!None, ChannelServer
<1>5. CASE Channel!Delete
  <2>1. ChannelServer'
    BY <1>1, <1>2, <1>5, ChannelRequests DEF Channel!Delete, Channel!NotActed, ChannelServer
  <2>2. QED
    BY <1>5, <2>1 DEF Channel!Delete
<1>6. CASE Channel!Create
  <2>1. ChannelServer' /\ world'.channel[Channel!Media(args)] \in Nat \ {0}
    BY <1>1, <1>6, ChannelRequests DEF Channel!Create, ChannelServer
  <2>2. QED
    BY <1>6, <2>1 DEF Channel!Create, Channel!Media, Channel!Failed
<1>7. CASE Channel!CreateBare
  <2>1. ChannelServer'
    BY <1>1, <1>7, ChannelRequests DEF Channel!CreateBare, ChannelServer
  <2>2. QED
    BY <1>7, <2>1 DEF Channel!CreateBare, Channel!Failed
<1>8. CASE Channel!CreateFails
  <2>1. ChannelServer'
    BY <1>1, <1>2, <1>8, ChannelRequests DEF Channel!CreateFails, Channel!NotActed, ChannelServer
  <2>2. QED
    BY <1>8, <2>1 DEF Channel!CreateFails
<1>9. CASE Channel!Invite
  BY <1>9 DEF Channel!Invite, ChannelServer
<1>10. CASE Channel!Send
  BY <1>10 DEF Channel!Send, ChannelServer
<1>11. CASE Channel!Interrupt
  BY <1>11 DEF Channel!Interrupt, ChannelServer
<1>12. QED
  BY <1>3, <1>4, <1>5, <1>6, <1>7, <1>8, <1>9, <1>10, <1>11 DEF Channel!Next

-----------------------------------------------------------------------------
(* watch.  A record of the profiler is being made only in "record", which  *)
(* only Perf enters, and Perf ends with its first telling.                 *)
WatchInv ==
    /\ DOMAIN mem = {"at", "seen", "bad", "told", "lost", "record"}
    /\ mem.bad \in Nat /\ mem.told \in Nat /\ mem.lost \in Nat
    /\ pc \in {"watch", "tell", "record", "ended", "panic"}
    /\ mem.record = "runs" => pc = "record"
    /\ pc = "record" => args = "perf"
    /\ args = "perf" /\ pc # "ended" => mem.told + mem.lost = 0
    /\ Watch!SeenIsTold

(* A watcher starts in the invariant.                                      *)
LEMMA WatchInit == Watch!Init => WatchInv
  BY DEF Watch!Init, WatchInv, Watch!SeenIsTold

(* Every step of a watcher, and of what it watches, keeps it.              *)
LEMMA WatchNext ==
    ASSUME WatchInv, Watch!Next
    PROVE  WatchInv'
<1> USE DEF WatchInv, Watch!SeenIsTold, Watch!Stay
<1>1. CASE Watch!Change
  BY <1>1 DEF Watch!Change
<1>2. CASE Watch!Unknown \/ Watch!Good
  BY <1>2 DEF Watch!Unknown, Watch!Good, Watch!Watches, Watch!Observed
<1>3. CASE Watch!Bad
  BY <1>3 DEF Watch!Bad, Watch!Watches, Watch!Observed
<1>4. CASE Watch!StartRecord
  BY <1>4 DEF Watch!StartRecord
<1>5. CASE Watch!StopRecord
  BY <1>5 DEF Watch!StopRecord
<1>6. CASE Watch!Tell
  BY <1>6 DEF Watch!Tell
<1>7. CASE Watch!TellFails
  BY <1>7 DEF Watch!TellFails
<1>8. QED
  BY <1>1, <1>2, <1>3, <1>4, <1>5, <1>6, <1>7 DEF Watch!Next

-----------------------------------------------------------------------------
(* qvsdbg.                                                                 *)
PullParts(n, c) == [i \in 1..n |-> [part |-> Pull!Whole[i], call |-> c]]

PullInv ==
    /\ DOMAIN world = {"calls", "report", "out"}
    /\ DOMAIN mem = {"resp", "dump", "final", "created", "deleted", "split"}
    /\ pc \in {"idle", "path", "netstatlog", "pointfile", "sip", "pull", "node",
               "all", "srv", "bye", "bye_log", "fail"} => mem = Pull!None
    /\ pc \in {"chid", "device", "rtp_node", "create"}
          => mem.final = PullParts(1, world.calls)
    /\ pc = "rtp" => mem.final = PullParts(2, world.calls)
    /\ pc = "delete" => mem.final = PullParts(3, world.calls)
    /\ pc = "await" => mem.final = PullParts(4, world.calls)
    /\ pc \in {"truncate", "write"} => mem.final = PullParts(5, world.calls)
    /\ world.report = <<>> \/ \E c : world.report = PullParts(5, c)
    /\ pc \in {"rtp_node", "create", "rtp", "delete", "await", "await_short"}
          => mem.resp \in {"search", "send"}
    /\ pc \notin {"await", "truncate", "write"} => mem.deleted = {}
    /\ pc \in {"rtp", "delete"} => mem.created.fmt \in Pull!Formats
    /\ Pull!DeletedAfter

(* qvsdbg starts in the invariant.                                         *)
LEMMA PullInit == Pull!Init => PullInv
  BY DEF Pull!Init, PullInv, Pull!None, Pull!Undated, Pull!DeletedAfter

(* Run takes one of the options.                                           *)
LEMMA PullMode ==
    Pull!Mode \in {"path", "netstatlog", "pointfile", "fail", "sip", "pull", "srv",
                   "node", "bye", "all"}
<1> DEFINE given == {i \in DOMAIN Pull!Options : Pull!Options[i] \in args.conf}
<1>1. DOMAIN Pull!Options = 1..9
  BY DEF Pull!Options
<1>2. \A i \in 1..9 : Pull!Options[i] \in {"path", "netstatlog", "pointfile", "fail",
                                           "sip", "pull", "srv", "node", "bye"}
  BY DEF Pull!Options
<1>3. CASE given # {}
  <2>1. \E x \in given : \A y \in given : x <= y
    BY <1>1, <1>3, LeastExists
  <2>2. Pull!Min(given) \in given
    BY <2>1 DEF Pull!Min
  <2>3. Pull!Mode = Pull!Options[Pull!Min(given)]
    BY <1>3 DEF Pull!Mode
  <2>4. QED
    BY <1>1, <1>2, <2>2, <2>3
<1>4. QED
  BY <1>3 DEF Pull!Mode

(* The line that getFirstLogAfterTimePoint takes of a split log is later.  *)
LEMMA PullFirstAfter ==
    ASSUME NEW log \in DeleteLogs \cup {[split |-> TRUE, lines |-> <<>>]}, NEW c, log.split
    PROVE  \A d \in Pull!FirstAfter(log, c) : Pull!Later(d, c)
<1> DEFINE lines == log.lines
           stop == {i \in DOMAIN lines : lines[i].fmt = "none" \/ Pull!Later(lines[i], c)}
<1>1. stop \subseteq Nat
  <2>1. CASE log \in DeleteLogs
    <3> DEFINE S == Seq([fmt : Pull!Formats \cup {"none"}, t : Int])
    <3>1. log \in [split : BOOLEAN, lines : S]
      BY <2>1, DeleteLogsAssumption
    <3> HIDE DEF S
    <3>2. lines \in S
      BY <3>1
    <3>3. QED
      BY <3>2 DEF S
  <2>2. CASE log = [split |-> TRUE, lines |-> <<>>]
    BY <2>2
  <2>3. QED
    BY <2>1, <2>2
<1>2. CASE stop # {}
  <2>1. \E x \in stop : \A y \in stop : x <= y
    BY <1>1, <1>2, LeastExists
  <2>2. Pull!Min(stop) \in stop
    BY <2>1 DEF Pull!Min
  <2>3. Pull!FirstAfter(log, c) =
           IF lines[Pull!Min(stop)].fmt = "none" THEN {} ELSE {lines[Pull!Min(stop)]}
    BY <1>2 DEF Pull!FirstAfter
  <2>4. QED
    BY <2>2, <2>3
<1>3. CASE stop = {}
  BY <1>3 DEF Pull!FirstAfter
<1>4. QED
  BY <1>2, <1>3

(* One more log makes the report that is being put together longer by one. *)
LEMMA PullAdds ==
    ASSUME NEW n \in 0..4, NEW c
    PROVE  Append(PullParts(n, c), [part |-> Pull!Whole[n + 1], call |-> c])
              = PullParts(n + 1, c)
<1> DEFINE S == {[part |-> Pull!Whole[i], call |-> c] : i \in 1..(n + 1)}
<1>1. \A m \in 0..(n + 1) : PullParts(m, c) \in Seq(S) /\ Len(PullParts(m, c)) = m
  BY DEF PullParts
<1>2. [part |-> Pull!Whole[n + 1], call |-> c] \in S
  OBVIOUS
<1> DEFINE longer == Append(PullParts(n, c), [part |-> Pull!Whole[n + 1], call |-> c])
<1> HIDE DEF S
<1>3. /\ longer \in Seq(S)
      /\ Len(longer) = n + 1
      /\ \A i \in 1..n : longer[i] = PullParts(n, c)[i]
      /\ longer[n + 1] = [part |-> Pull!Whole[n + 1], call |-> c]
  BY <1>1, <1>2, AppendProperties
<1>4. \A i \in 1..(n + 1) : longer[i] = PullParts(n + 1, c)[i]
  BY <1>3 DEF PullParts
<1>5. QED
  BY <1>1, <1>3, <1>4, SeqEqual

(* The first parts of a report that is whole.                              *)
LEMMA PullWhole == Pull!Whole[1] = "invite" /\ Pull!Whole[2] = "create" /\ Pull!Whole[3] = "rtp"
                     /\ Pull!Whole[4] = "delete" /\ Pull!Whole[5] = "answer"
  BY DEF Pull!Whole

(* A report without parts is empty.                                        *)
LEMMA PullEmpty == \A c : PullParts(0, c) = <<>>
  BY DEF PullParts

(* Every step of qvsdbg keeps it: each part is added after the one before  *)
(* it.                                                                     *)
LEMMA PullNext ==
    ASSUME PullInv, Pull!Next
    PROVE  PullInv'
<1> USE DEF PullInv, Pull!DeletedAfter, Pull!Goto
<1>0. ASSUME Pull!Exit, world'.report = world.report \/ world'.report = <<>>,
             DOMAIN world' = DOMAIN world
      PROVE  PullInv'
  BY <1>0 DEF Pull!Exit, Pull!None, Pull!Undated
<1>1. CASE Pull!Run
  BY <1>1, PullMode DEF Pull!Run, Pull!None, Pull!Undated
<1>2. CASE Pull!OneShot \/ Pull!Serve \/ Pull!ByeLog \/ Pull!Fails
  BY <1>0, <1>2 DEF Pull!OneShot, Pull!Serve, Pull!ByeLog, Pull!Fails
<1>3. CASE Pull!Bye
  BY <1>0, <1>3 DEF Pull!Bye
<1>4. CASE Pull!Invite
  BY <1>4, PullAdds, PullWhole, PullEmpty DEF Pull!Invite, Pull!Adds, Pull!None, Pull!Part, Pull!Undated
<1>5. CASE Pull!Chid \/ Pull!RtpNode \/ Pull!NoCreateLog
  BY <1>5 DEF Pull!Chid, Pull!RtpNode, Pull!NoCreateLog, Pull!Part
<1>6. CASE Pull!Device
  BY <1>6 DEF Pull!Device, Pull!Part
<1>7. CASE Pull!CreateLog
  BY <1>7, PullAdds, PullWhole, PullEmpty DEF Pull!CreateLog, Pull!Part, Pull!Undated
<1>8. CASE Pull!RtpLog
  BY <1>8, PullAdds, PullWhole DEF Pull!RtpLog, Pull!Adds, Pull!Part
<1>9. CASE Pull!DeleteLog
  BY <1>9, PullAdds, PullWhole, PullEmpty, PullFirstAfter DEF Pull!DeleteLog, Pull!Part, Pull!Undated, Pull!Later, Pull!Formats
<1>10. CASE Pull!Receive
  BY <1>10, PullAdds, PullWhole, PullEmpty DEF Pull!Receive, Pull!Part
<1>11. CASE Pull!Truncate
  BY <1>11 DEF Pull!Truncate, Pull!Part
<1>12. CASE Pull!Write
  BY <1>12 DEF Pull!Write, Pull!Exit, Pull!None, Pull!Part, Pull!Undated
<1>13. CASE Pull!WriteShort
  BY <1>0, <1>13 DEF Pull!WriteShort
<1>14. CASE Pull!Answer
  BY <1>14 DEF Pull!Answer, Pull!Part, Pull!None
<1>15. CASE Pull!SearchSipLogs
  BY <1>0, <1>15 DEF Pull!SearchSipLogs, Pull!Part, Pull!None
<1>16. QED
  BY <1>1, <1>2, <1>3, <1>4, <1>5, <1>6, <1>7, <1>8, <1>9, <1>10, <1>11, <1>12,
     <1>13, <1>14, <1>15 DEF Pull!Next

(* It implies what the runs check of the pull-failure analysis.            *)
LEMMA PullProperties ==
    ASSUME PullInv
    PROVE  Pull!ReportWhole /\ Pull!DeletedAfter /\ Pull!NeverLeftWaiting
<1>1. Pull!ReportWhole
  BY DEF PullInv, Pull!ReportWhole, Pull!Whole, PullParts
<1>2. QED
  BY <1>1 DEF PullInv, Pull!NeverLeftWaiting

-----------------------------------------------------------------------------
(* tools.  If the last rm did not fail the copies are of the last fetch or *)
(* missing, and so is what was read; the report is that of the invite and  *)
(* of the creation.                                                        *)
ParserInv ==
    /\ DOMAIN world = {"fetch", "sip", "rtp", "emptied"}
    /\ DOMAIN mem = {"refetch", "invite", "create", "read", "report"}
    /\ args \in ToolsLogs
    /\ world.emptied =>
          world.sip \in {0, world.fetch} /\ world.rtp \in {0, world.fetch}
    /\ pc \in {"copy_sip", "sip_file", "node", "copy_rtp", "rtp_file"} => mem.create = 0
    /\ pc \in {"node", "copy_rtp", "rtp_file"} \/ mem.create # 0 =>
          /\ world.emptied => mem.read = {world.fetch}
          /\ mem.invite = Parser!InviteLine /\ mem.invite # 0
    /\ mem.create # 0 =>
          /\ mem.create = Parser!CreateLine(mem.invite)
          /\ mem.report = Parser!SipReport(mem.invite) \cup Parser!RtpReport(mem.create)

(* tools starts in the invariant.                                          *)
LEMMA ParserInit == Parser!Init => ParserInv
  BY DEF Parser!Init, ParserInv, Parser!None

(* Every step of tools keeps it, whichever copies fail.                    *)
LEMMA ParserNext ==
    ASSUME ParserInv, Parser!Next
    PROVE  ParserInv'
<1> USE DEF ParserInv, Parser!Goto, Parser!Return
(* The lines that are found depend on the logs alone, which stay.          *)
<1>1. args' = args
  BY DEF Parser!Next, Parser!Start, Parser!Copy, Parser!CopyElsewhere, Parser!Invite,
         Parser!NoInvite, Parser!Node, Parser!GetLogs, Parser!NoChannel
<1>2. /\ Parser!InviteLine' = Parser!InviteLine
      /\ \A i, c : /\ Parser!CreateLine(i)' = Parser!CreateLine(i)
                   /\ Parser!SipReport(i)' = Parser!SipReport(i)
                   /\ Parser!RtpReport(c)' = Parser!RtpReport(c)
  BY <1>1 DEF Parser!InviteLine, Parser!CreateLine, Parser!SipReport, Parser!RtpReport
<1>3. ASSUME NEW refetch \in BOOLEAN, Parser!Start(refetch)
      PROVE  ParserInv'
  BY <1>3 DEF Parser!Start, Parser!Fetch, Parser!None
<1>4. ASSUME NEW srv \in {"sip", "rtp"}, NEW at \in {"copy_sip", "copy_rtp"},
             NEW next \in {"sip_file", "rtp_file"},
             at = "copy_sip" <=> next = "sip_file", Parser!Copy(srv, at, next)
      PROVE  ParserInv'
  BY <1>2, <1>4 DEF Parser!Copy
<1>5. CASE Parser!Invite
  BY <1>2, <1>5 DEF Parser!Invite
<1>6. CASE Parser!NoInvite \/ Parser!NoChannel
  BY <1>2, <1>6 DEF Parser!NoInvite, Parser!NoChannel
<1>7. CASE Parser!Node
  BY <1>2, <1>7 DEF Parser!Node
<1>8. CASE Parser!GetLogs
  BY <1>2, <1>8 DEF Parser!GetLogs
<1>9. CASE Parser!CopyElsewhere
  BY <1>2, <1>9 DEF Parser!CopyElsewhere
<1>10. QED
  BY <1>3, <1>4, <1>5, <1>6, <1>7, <1>8, <1>9 DEF Parser!Next

(* The composition's Cardinality is the one of FiniteSets.                 *)
LEMMA ParserCardinality == \A S : Parser!Cardinality(S) = Cardinality(S)
  BY DEF Parser!Cardinality, Cardinality

(* It implies that logs of two fetches are put together only if rm failed. *)
LEMMA ParserNeverMixed ==
    ASSUME ParserInv
    PROVE  Parser!NeverMixed
  BY ParserCardinality, FS_Singleton DEF ParserInv, Parser!NeverMixed

(* The searches find lines of the file.                                    *)
LEMMA ParserInviteLine ==
    ASSUME args \in ToolsLogs, Parser!InviteLine # 0
    PROVE  Parser!InviteLine \in DOMAIN args.sip
<1> DEFINE found == Parser!At(args.sip, {"invite"})
<1>1. /\ Len(args.sip) \in Nat /\ DOMAIN args.sip = 1..Len(args.sip)
      /\ found \subseteq 1..Len(args.sip)
  BY ToolsLogsAssumption DEF Parser!At
<1>2. found # {}
  BY DEF Parser!InviteLine
<1>3. \E x \in found : \A y \in found : x >= y
  <2> HIDE DEF found
  <2>1. QED
    BY <1>1, <1>2, GreatestExists
<1>4. Parser!Max(found) \in found
  BY <1>3 DEF Parser!Max
<1>5. Parser!Up(args.sip, Len(args.sip) - Parser!Max(found) + 1) = Parser!Max(found)
  BY <1>1, <1>4 DEF Parser!Up
<1>6. Parser!InviteLine = Parser!Max(found)
  BY <1>2, <1>5 DEF Parser!InviteLine
<1>7. QED
  BY <1>1, <1>4, <1>6

(* SearchLog: a line that is found is from start on.                       *)
LEMMA ParserSearchLog ==
    ASSUME NEW file, Len(file) \in Nat, DOMAIN file = 1..Len(file), NEW start \in Nat, NEW kinds,
           Parser!SearchLog(file, start, kinds) # 0
    PROVE  /\ Parser!SearchLog(file, start, kinds) \in DOMAIN file
           /\ Parser!SearchLog(file, start, kinds) >= start
<1> DEFINE found == {i \in Parser!At(file, kinds) : i >= start}
<1>1. found \subseteq 1..Len(file) /\ \A i \in found : i >= start
  BY DEF Parser!At
<1>2. found # {}
  BY DEF Parser!SearchLog
<1>3. \E x \in found : \A y \in found : x <= y
  <2>1. found \subseteq Nat
    BY <1>1
  <2> HIDE DEF found
  <2>2. QED
    BY <1>2, <2>1, LeastExists
<1>4. Parser!Min(found) \in found
  BY <1>3 DEF Parser!Min
<1>5. Parser!Down(Parser!Min(found) - start + 1, start) = Parser!Min(found)
  BY <1>1, <1>4 DEF Parser!Down
<1>6. Parser!SearchLog(file, start, kinds) = Parser!Min(found)
  BY <1>2, <1>5 DEF Parser!SearchLog
<1>7. QED
  BY <1>1, <1>4, <1>6

(* GetCreateChannelInfo: the creation that is taken is near the invite, no *)
(* later one is.                                                           *)
LEMMA ParserCreateLine ==
    ASSUME args \in ToolsLogs, NEW invite, Parser!CreateLine(invite) # 0
    PROVE  LET c == Parser!CreateLine(invite)
               near(i) == args.sip[invite].ts - args.rtp[i].ts \in 0..(Second - 1)
           IN  /\ c \in DOMAIN args.rtp
               /\ near(c)
               /\ \A i \in Parser!At(args.rtp, {"create"}) : i > c => ~near(i)
<1> DEFINE found == Parser!At(args.rtp, {"create"})
           later(i) == {j \in found : j > i}
           looked == {i \in found : Parser!Cardinality(later(i)) < Ten}
           near(i) == args.sip[invite].ts - args.rtp[i].ts \in 0..(Second - 1)
           stop == {i \in looked : ~args.rtp[i].ok \/ near(i)}
           c == Parser!Max(stop)
<1>1. /\ Len(args.rtp) \in Nat /\ DOMAIN args.rtp = 1..Len(args.rtp)
      /\ found \subseteq 1..Len(args.rtp)
  BY ToolsLogsAssumption DEF Parser!At
<1>2. stop # {}
  BY Zenon DEF Parser!CreateLine
<1>3. c \in stop /\ \A y \in stop : c >= y
  <2>1. stop \subseteq 1..Len(args.rtp)
    BY <1>1
  <2> HIDE DEF stop
  <2>2. \E x \in stop : \A y \in stop : x >= y
    BY <1>1, <1>2, <2>1, GreatestExists
  <2>3. QED
    BY <2>2 DEF Parser!Max
<1>4. Parser!CreateLine(invite) = c /\ args.rtp[c].ok
  BY <1>2, Zenon DEF Parser!CreateLine
<1>5. ASSUME NEW i \in found, i > c, near(i)
      PROVE  FALSE
  <2>1. i \notin looked
    <3>1. i \in looked => i \in stop
      BY <1>5
    <3>2. i \in Nat /\ c \in Nat
      <4>1. c \in found
        BY <1>3, Zenon
      <4> HIDE DEF found, c
      <4>2. QED
        BY <1>1, <1>5, <4>1
    <3> HIDE DEF stop, c
    <3>3. QED
      BY <1>3, <1>5, <3>1, <3>2
  <2>2. IsFiniteSet(later(c))
    <3>1. IsFiniteSet(1..Len(args.rtp)) /\ later(c) \in SUBSET (1..Len(args.rtp))
      BY <1>1, FS_Interval
    <3>2. QED
      BY <3>1, FS_Subset
  <2>3. later(i) \in SUBSET later(c)
    <3>1. \A j \in found : j \in Nat
      BY <1>1
    <3>2. c \in found /\ i \in found
      BY <1>3, <1>5, Zenon
    <3> HIDE DEF found, c
    <3>3. QED
      BY <1>5, <3>1, <3>2
  <2>4. Cardinality(later(i)) <= Cardinality(later(c)) /\ IsFiniteSet(later(i))
    BY <2>2, <2>3, FS_Subset
  <2> HIDE DEF later
  <2>5. Cardinality(later(i)) \in Nat /\ Cardinality(later(c)) \in Nat
    BY <2>2, <2>4, FS_CardinalityType
  <2>6. Cardinality(later(c)) < Ten /\ ~(Cardinality(later(i)) < Ten)
    BY <1>3, <1>5, <2>1, ParserCardinality, Zenon
  <2>7. QED
    BY <2>4, <2>5, <2>6, ToolsLogsAssumption
<1>6. QED
  BY <1>1, <1>3, <1>4, <1>5, Zenon

(* What is told was found from the line on that is searched from.          *)
LEMMA ParserTold ==
    ASSUME NEW from
    PROVE  /\ \A r \in Parser!SipReport(from) : \E what, kinds :
                  r \in Parser!Told(args.sip, from, what, kinds)
           /\ \A r \in Parser!RtpReport(from) : \E what, kinds :
                  r \in Parser!Told(args.rtp, from, what, kinds)
  BY DEF Parser!SipReport, Parser!RtpReport

(* It implies that what is reported came after the invite or the creation. *)
LEMMA ParserReportedAfter ==
    ASSUME ParserInv
    PROVE  Parser!ReportedAfter
<1> SUFFICES ASSUME mem.create # 0
             PROVE  Parser!ReportedAfter
  BY DEF Parser!ReportedAfter
<1> USE DEF ParserInv
<1>1. /\ Len(args.sip) \in Nat /\ DOMAIN args.sip = 1..Len(args.sip)
      /\ Len(args.rtp) \in Nat /\ DOMAIN args.rtp = 1..Len(args.rtp)
      /\ \A i \in DOMAIN args.sip : args.sip[i].ts \in Int
      /\ \A i \in DOMAIN args.rtp : args.rtp[i].ts \in Int
  <2> DEFINE LogLine == [kind : STRING, ts : Int, sess : Int, ok : BOOLEAN]
  <2>1. args.sip \in Seq(LogLine) /\ args.rtp \in Seq(LogLine)
    BY ToolsLogsAssumption
  <2>2. ASSUME NEW file \in Seq(LogLine)
        PROVE  /\ Len(file) \in Nat /\ DOMAIN file = 1..Len(file)
               /\ \A i \in DOMAIN file : file[i].ts \in Int
    <3>1. \A l \in LogLine : l.ts \in Int
      OBVIOUS
    <3> HIDE DEF LogLine
    <3>2. Len(file) \in Nat /\ DOMAIN file = 1..Len(file)
      BY <2>2
    <3>3. \A i \in DOMAIN file : file[i] \in LogLine
      BY <2>2
    <3>4. QED
      BY <3>1, <3>2, <3>3
  <2> HIDE DEF LogLine
  <2>3. QED
    BY <2>1, <2>2
<1>2. mem.invite \in DOMAIN args.sip
  BY ParserInviteLine
<1>3. /\ mem.create \in DOMAIN args.rtp
      /\ args.sip[mem.invite].ts - args.rtp[mem.create].ts \in 0..(Second - 1)
      /\ \A i \in Parser!At(args.rtp, {"create"}) : i > mem.create =>
             ~(args.sip[mem.invite].ts - args.rtp[i].ts \in 0..(Second - 1))
  BY ParserCreateLine
<1>4. ASSUME NEW file, Len(file) \in Nat, DOMAIN file = 1..Len(file),
             \A i \in DOMAIN file : file[i].ts \in Int, Parser!InTime(file),
             NEW start \in DOMAIN file, NEW what, NEW kinds,
             NEW r \in Parser!Told(file, start, what, kinds)
      PROVE  r.ms >= 0
  <2> DEFINE line == Parser!SearchLog(file, start, kinds)
  <2>1. line # 0 /\ r.ms = file[line].ts - file[start].ts
    BY <1>4 DEF Parser!Told
  <2>2. line \in DOMAIN file /\ line >= start
    BY <1>4, <2>1, ParserSearchLog
  <2>3. file[line].ts >= file[start].ts
    BY <1>4, <2>2 DEF Parser!InTime
  <2>4. QED
    BY <1>4, <2>1, <2>2, <2>3
<1>5. Parser!InTime(args.sip) => \A r \in Parser!SipReport(mem.invite) : r.ms >= 0
  BY <1>1, <1>2, <1>4, ParserTold
<1>6. Parser!InTime(args.rtp) => \A r \in Parser!RtpReport(mem.create) : r.ms >= 0
  BY <1>1, <1>3, <1>4, ParserTold
<1>7. QED
  BY <1>3, <1>5, <1>6 DEF Parser!ReportedAfter

-----------------------------------------------------------------------------
(* qvs-dbg.  While the directory that is read is the one that is copied to *)
(* and the one that is deleted, all that it holds, and all that was read   *)
(* of it, is of the last fetch: a fetch begins with the deletion, before   *)
(* any read.                                                               *)
DbgInv ==
    /\ DOMAIN world = {"fetch", "files", "local"}
    /\ DOMAIN world.local = Dbg!Dirs
    /\ DOMAIN mem = {"refetch", "file", "read"}
    /\ pc \in {"sip_node", "delete"} => mem.read = {}
    /\ args.default /\ args.home =>
          /\ \A c \in world.local[Dbg!Fixed] : c.fetch = world.fetch
          /\ \A c \in mem.read : c.fetch = world.fetch

(* qvs-dbg starts in the invariant.                                        *)
LEMMA DbgInit == Dbg!Init => DbgInv
  BY DEF Dbg!Init, DbgInv, Dbg!None, Dbg!Dirs

(* Every step of qvs-dbg, and the nodes' rotation of logs, keeps it.       *)
LEMMA DbgNext ==
    ASSUME DbgInv, Dbg!Next
    PROVE  DbgInv'
<1> USE DEF DbgInv, Dbg!Goto, Dbg!Stay
(* A copy adds only files of this fetch.                                   *)
<1>1. ASSUME NEW srv, NEW files, world' = Dbg!Copied(srv, files),
             UNCHANGED <<args, mem>>, pc' \notin {"sip_node", "delete"}
      PROVE  DbgInv'
  BY <1>1 DEF Dbg!Copied, Dbg!Dir, Dbg!Dirs, Dbg!Fixed
<1>2. CASE Dbg!Rotate
  BY <1>2 DEF Dbg!Rotate
<1>3. ASSUME NEW refetch, Dbg!Start(refetch)
      PROVE  DbgInv'
  BY <1>3 DEF Dbg!Start, Dbg!None
<1>4. CASE Dbg!SipNode
  BY <1>4 DEF Dbg!SipNode
<1>5. CASE Dbg!DeleteOldLogs
  BY <1>5 DEF Dbg!DeleteOldLogs, Dbg!Home, Dbg!Dirs
<1>5a. CASE Dbg!DeleteFails
  BY <1>5a DEF Dbg!DeleteFails, Dbg!Home
<1>6. CASE Dbg!FetchSipLogs
  BY <1>1, <1>6 DEF Dbg!FetchSipLogs
<1>7. CASE Dbg!ReadSip
  BY <1>7 DEF Dbg!ReadSip, Dbg!Local
<1>8. CASE Dbg!RtpNode
  BY <1>8 DEF Dbg!RtpNode
<1>9. ASSUME NEW srv, NEW at, NEW next \in {"read_sip", "fetch_rtp"}, Dbg!List(srv, at, next)
      PROVE  DbgInv'
  BY <1>9 DEF Dbg!List
<1>10. CASE Dbg!FetchRtpLog
  BY <1>1, <1>10 DEF Dbg!FetchRtpLog
<1>11. CASE Dbg!NoFetchRtpLog
  BY <1>11 DEF Dbg!NoFetchRtpLog
<1>12. CASE Dbg!ReadRtp
  BY <1>12 DEF Dbg!ReadRtp, Dbg!Local
<1>13. ASSUME NEW l, Dbg!Fails(l)
       PROVE  DbgInv'
  BY <1>13 DEF Dbg!Fails
<1>14. QED
  BY <1>2, <1>3, <1>4, <1>5, <1>5a, <1>6, <1>7, <1>8, <1>9, <1>10, <1>11, <1>12, <1>13
     DEF Dbg!Next

(* It implies that what is read is of one fetch.                           *)
LEMMA DbgProperties ==
    ASSUME DbgInv
    PROVE  Dbg!OneFetch
  BY DEF DbgInv, Dbg!OneFetch

-----------------------------------------------------------------------------
(* caches.  No file is of a later state of the nodes than redis has, and   *)
(* LowBw's file is what LowBw last fetched.                                *)
CachesInv ==
    /\ DOMAIN world = {"now", "nodejson", "tmp", "here", "calls"}
    /\ DOMAIN mem = {"cmd", "force", "used", "fetched"}
    /\ world.now \in Nat /\ world.now >= 1
    /\ world.nodejson \in Int /\ world.tmp \in Int /\ world.here \in Int
    /\ mem.used \in Int
    /\ world.tmp <= world.now /\ world.here <= world.now /\ mem.used <= world.now
    /\ world.nodejson <= world.now
    /\ world.nodejson = mem.fetched
    /\ pc \in {"NodeInfo", "DumpAllNodes"} => mem.cmd = "NodeInfo"
    /\ pc = "LowBw" => mem.used = Caches!Empty
    /\ pc = "idle" /\ mem.cmd = "LowBw" => mem.used \in {Caches!Empty, mem.fetched}

(* The caches start in the invariant.                                      *)
LEMMA CachesInit == Caches!Init => CachesInv
  BY DEF Caches!Init, CachesInv, Caches!Empty, Caches!Missing

(* Every fetch, move and removal of a file keeps it.                       *)
LEMMA CachesNext ==
    ASSUME CachesInv, Caches!Next
    PROVE  CachesInv'
<1> USE DEF CachesInv, Caches!Empty, Caches!Missing, Caches!Done
<1>1. CASE Caches!Change
  BY <1>1 DEF Caches!Change
<1>2. CASE Caches!UserMoves
  BY <1>2 DEF Caches!UserMoves
<1>9. CASE Caches!UserRemoves
  BY <1>9 DEF Caches!UserRemoves
<1>3. ASSUME NEW cmd \in {"LowBw", "NodeInfo"}, NEW force, Caches!Call(cmd, force)
      PROVE  CachesInv'
  BY <1>3 DEF Caches!Call
<1>4. CASE Caches!FetchNodes
  <2>1. CASE UNCHANGED <<world, mem>>
    BY <1>4, <2>1 DEF Caches!FetchNodes
  <2>2. ASSUME NEW got \in {Caches!Empty, world.now},
               world' = [world EXCEPT !.nodejson = got],
               mem' = [mem EXCEPT !.used = got, !.fetched = got]
        PROVE  CachesInv'
    BY <1>4, <2>2 DEF Caches!FetchNodes
  <2>3. QED
    BY <1>4, <2>1, <2>2 DEF Caches!FetchNodes, Caches!Fetch
<1>5. CASE Caches!ReadNodes
  BY <1>5 DEF Caches!ReadNodes
<1>6. CASE Caches!BuildAllNodesMap
  BY <1>6 DEF Caches!BuildAllNodesMap
<1>7. CASE Caches!DumpAllNodes
  BY <1>7 DEF Caches!DumpAllNodes
<1>8. QED
  BY <1>1, <1>2, <1>3, <1>4, <1>5, <1>6, <1>7, <1>9 DEF Caches!Next

(* It implies that LowBw reports on what was fetched last.                 *)
LEMMA CachesProperties ==
    ASSUME CachesInv
    PROVE  Caches!ReportsLastFetch
  BY DEF CachesInv, Caches!ReportsLastFetch

-----------------------------------------------------------------------------
(* gb28181.                                                                *)
DeviceTypes ==
    /\ args \in DeviceInputs
    /\ DOMAIN world = {"sent", "read", "open"}
    /\ DOMAIN mem = {"auth", "answers", "keepalives", "goroutine", "alone", "whole"}
    /\ world.sent \in Nat /\ world.read \in Nat
    /\ mem.answers \in Seq(Nat)

(* What was answered has been read, so that it is not answered again.      *)
DeviceAnswers ==
    /\ \A a \in DOMAIN mem.answers : mem.answers[a] # 0 =>
          5 * mem.answers[a] - 3 <= world.read
    /\ \A a, b \in DOMAIN mem.answers :
          mem.answers[a] # 0 /\ mem.answers[a] = mem.answers[b] => a = b

DeviceAlone ==
    \A m \in mem.alone : Device!KindOf(m) = "catalog" =>
        mem.answers # <<>> /\ mem.answers[Len(mem.answers)] = m

(* Reads that end where a message does start where one does.               *)
DeviceWhole ==
    mem.whole =>
        /\ pc # "panic"
        /\ \E k \in Nat : world.read = 5 * k
        /\ \A a \in DOMAIN mem.answers : mem.answers[a] # 0

DeviceInv == DeviceTypes /\ DeviceAnswers /\ DeviceAlone /\ DeviceWhole

(* gb28181 starts in the invariant: nothing is sent or read.               *)
LEMMA DeviceInit == Device!Init => DeviceInv
<1> SUFFICES ASSUME Device!Init
             PROVE  DeviceInv
  OBVIOUS
<1>1. DeviceTypes
  BY EmptySeq DEF DeviceTypes, Device!Init
<1>2. DOMAIN mem.answers = {} /\ mem.alone = {} /\ pc # "panic" /\ world.read = 5 * 0
  BY DEF Device!Init
<1>3. QED
  BY <1>1, <1>2 DEF DeviceInv, DeviceAnswers, DeviceAlone, DeviceWhole

(* The Call-ID that is answered is one of those that the buffer has.       *)
LEMMA DeviceCallId ==
    ASSUME DeviceTypes, NEW lo \in Nat, NEW hi \in Nat
    PROVE  LET id == Device!CallId(lo, hi) IN
           /\ id \in Nat
           /\ id # 0 => 5 * id - 3 > lo /\ 5 * id - 3 <= hi
           /\ \A m \in Device!Ids(lo, hi) : id # 0 /\ id <= m
<1> DEFINE ids == Device!Ids(lo, hi)
           id == Device!CallId(lo, hi)
           first == Device!Min(ids)
<1>1. \A m \in ids : m \in Nat /\ m >= 1 /\ 5 * m - 3 > lo /\ 5 * m - 3 <= hi
  BY DEF DeviceTypes, Device!Ids, Device!Sent
<1>2. id = IF ids = {} THEN 0 ELSE first
  BY DEF Device!CallId
<1>3. first = CHOOSE x \in ids : \A y \in ids : x <= y
  BY DEF Device!Min
<1> HIDE DEF ids, id, first
<1>4. CASE ids = {}
  BY <1>2, <1>4 DEF ids, id
<1>5. CASE ids # {}
  <2>1. ids \subseteq Nat
    BY <1>1
  <2>2. \E x \in ids : \A y \in ids : x <= y
    BY <1>5, <2>1, LeastExists
  <2>3. first \in ids /\ \A y \in ids : first <= y
    BY <1>3, <2>2
  <2>4. id = first
    BY <1>2, <1>5
  <2>5. id \in Nat /\ id >= 1 /\ 5 * id - 3 > lo /\ 5 * id - 3 <= hi
    BY <1>1, <2>3, <2>4
  <2>6. \A m \in ids : id # 0 /\ id <= m
    BY <2>3, <2>4, <2>5
  <2>7. QED
    BY <2>5, <2>6 DEF ids, id
<1>6. QED
  BY <1>4, <1>5

(* Actions that leave the position, the reads and the answers alone.       *)
LEMMA DeviceSame ==
    ASSUME DeviceInv, args' = args, DOMAIN world' = DOMAIN world, DOMAIN mem' = DOMAIN mem,
           world'.read = world.read, world'.sent \in Nat,
           mem'.answers = mem.answers, mem'.alone = mem.alone, mem'.whole = mem.whole,
           pc' # "panic" \/ pc' = pc
    PROVE  DeviceInv'
<1>1. DeviceTypes'
  BY DEF DeviceInv, DeviceTypes
<1>2. DeviceAnswers'
  BY DEF DeviceInv, DeviceAnswers
<1>3. DeviceAlone'
  BY DEF DeviceInv, DeviceAlone, Device!KindOf
<1>4. DeviceWhole'
  BY DEF DeviceInv, DeviceWhole
<1>5. QED
  BY <1>1, <1>2, <1>3, <1>4 DEF DeviceInv

(* A Read while the answer to the first REGISTER is waited for: what is    *)
(* read is looked at for the nonce only.                                   *)
LEMMA DeviceReadChallenge ==
    ASSUME DeviceInv, Device!ReadChallenge
    PROVE  DeviceInv'
<1>1. PICK n \in Device!Unread, cut \in BOOLEAN :
         /\ mem' = [mem EXCEPT !.auth = IF cut THEN n > 5 ELSE n >= 5,
                               !.whole = Device!StillWhole(n, cut)]
         /\ \/ pc' = "second_register" /\ world' = [world EXCEPT !.read = n]
            \/ /\ cut /\ n = 5 /\ pc' = "panic"
               /\ world' = [world EXCEPT !.read = n, !.open = FALSE]
  BY DEF Device!ReadChallenge, Device!Goto
<1>2. world.read \in Nat /\ world.sent \in Nat
  BY DEF DeviceInv, DeviceTypes
<1>3. n \in Nat /\ n > world.read
  BY <1>2 DEF Device!Unread
<1>4. /\ args' = args /\ DOMAIN world' = DOMAIN world /\ DOMAIN mem' = DOMAIN mem
      /\ world'.read = n /\ world'.sent = world.sent
      /\ mem'.answers = mem.answers /\ mem'.alone = mem.alone
      /\ mem'.whole = Device!StillWhole(n, cut)
  BY <1>1 DEF DeviceInv, DeviceTypes, Device!ReadChallenge, Device!Goto
<1>5. DeviceTypes'
  BY <1>2, <1>3, <1>4 DEF DeviceInv, DeviceTypes
<1>6. DeviceAnswers'
  <2>1. \A a \in DOMAIN mem.answers : mem.answers[a] \in Nat
    BY ElementOfSeq DEF DeviceInv, DeviceTypes
  <2>2. ASSUME NEW a \in DOMAIN mem.answers, mem.answers[a] # 0
        PROVE  5 * mem.answers[a] - 3 <= n
    <3>1. 5 * mem.answers[a] - 3 <= world.read
      BY <2>2 DEF DeviceInv, DeviceAnswers
    <3>2. QED
      BY <1>2, <1>3, <2>1, <3>1
  <2>3. QED
    BY <1>4, <2>2 DEF DeviceInv, DeviceAnswers
<1>7. DeviceAlone'
  BY <1>4 DEF DeviceInv, DeviceAlone, Device!KindOf
<1>8. DeviceWhole'
  <2>1. SUFFICES ASSUME mem'.whole
                 PROVE  /\ pc' # "panic" /\ \E k \in Nat : world'.read = 5 * k
                        /\ \A a \in DOMAIN mem'.answers : mem'.answers[a] # 0
    BY DEF DeviceWhole
  <2>2. mem.whole /\ ~cut /\ \E m \in Device!Sent : n = 5 * m
    BY <1>4, <2>1 DEF Device!StillWhole
  <2>3. \E k \in Nat : n = 5 * k
    BY <1>2, <2>2 DEF Device!Sent
  <2>4. QED
    BY <1>1, <1>4, <2>2, <2>3 DEF DeviceInv, DeviceWhole
<1>9. QED
  BY <1>5, <1>6, <1>7, <1>8 DEF DeviceInv

(* A Read of the main loop: the Call-ID that is answered is one of what    *)
(* was read, so it was not answered before; a request that was read alone  *)
(* is asked; and between two ends of messages every body has its Call-ID.  *)
LEMMA DeviceReadMessage ==
    ASSUME DeviceInv, Device!ReadMessage
    PROVE  DeviceInv'
<1> DEFINE lo == world.read
           hi(n, cut) == IF cut THEN n - 1 ELSE n
           pans(n, cut) == /\ Device!Asked(lo, hi(n, cut))
                           /\ Device!CallId(lo, hi(n, cut)) # 0
                           /\ 5 * Device!CallId(lo, hi(n, cut)) - 3 = hi(n, cut)
           lone(n, cut) == {m \in Device!Sent : ~cut /\ n = 5 * m /\ lo = 5 * m - 5}
<1>1. PICK n \in Device!Unread, cut \in BOOLEAN : Device!ActOn(n, cut)
  BY DEF Device!ReadMessage
<1>2. world.read \in Nat /\ world.sent \in Nat /\ mem.answers \in Seq(Nat)
  BY DEF DeviceInv, DeviceTypes
<1>3. n \in Nat /\ n > world.read
  BY <1>2 DEF Device!Unread
<1> DEFINE h == hi(n, cut)
           id == Device!CallId(lo, h)
           ask == Device!Asked(lo, h)
           panics == pans(n, cut)
           answers == mem.answers
<1>4. h \in Nat /\ h <= n /\ (~cut => h = n)
  BY <1>2, <1>3
<1>5. /\ id \in Nat
      /\ id # 0 => 5 * id - 3 > lo /\ 5 * id - 3 <= h
      /\ \A m \in Device!Ids(lo, h) : id # 0 /\ id <= m
  <2>1. DeviceTypes /\ lo \in Nat
    BY <1>2 DEF DeviceInv
  <2> HIDE DEF h, lo
  <2>2. QED
    BY <1>4, <2>1, DeviceCallId
<1>6. /\ args' = args /\ DOMAIN world' = DOMAIN world /\ DOMAIN mem' = DOMAIN mem
      /\ world'.read = n /\ world'.sent = world.sent
      /\ pc' = IF panics THEN "panic" ELSE "serve"
      /\ mem'.whole = Device!StillWhole(n, cut) /\ mem'.alone = lone(n, cut)
      /\ mem'.answers = IF ask /\ ~panics THEN Append(answers, id) ELSE answers
  <2>1. /\ Device!Goto(IF panics THEN "panic" ELSE "serve")
        /\ world' = [world EXCEPT !.read = n, !.open = ~panics]
        /\ mem' = [mem EXCEPT
              !.whole = Device!StillWhole(n, cut), !.alone = lone(n, cut),
              !.goroutine = ~panics /\ @,
              !.answers = IF ask /\ ~panics THEN Append(@, id) ELSE @]
    BY <1>1 DEF Device!ActOn
  <2> HIDE DEF pans, lone, hi, lo
  <2>2. QED
    BY <2>1 DEF DeviceInv, DeviceTypes, Device!Goto
<1>7. panics <=> ask /\ id # 0 /\ 5 * id - 3 = h
  OBVIOUS
<1>8. /\ lone(n, cut) = {m \in Device!Sent : ~cut /\ n = 5 * m /\ lo = 5 * m - 5}
      /\ \A m \in Device!Sent : m \in Nat /\ m >= 1
  BY <1>2 DEF Device!Sent
<1> DEFINE grows == ask /\ ~panics
<1>9. mem'.answers = IF grows THEN Append(answers, id) ELSE answers
  BY <1>6
<1>10. ask => \E m \in Device!Sent : 5 * m > lo /\ 5 * m <= h
  BY DEF Device!Asked
<1>11. \A m \in Device!Sent :
          Device!KindOf(m) = "catalog" /\ 5 * m - 4 > lo /\ 5 * m <= h /\ 5 * m > lo
          /\ 5 * m - 4 <= h => ask
  BY DEF Device!Asked, Device!Requests
<1>12. \A m \in Device!Sent : 5 * m - 3 > lo /\ 5 * m - 3 <= h => m \in Device!Ids(lo, h)
  BY DEF Device!Ids
<1> HIDE DEF h, id, ask, panics, answers, lo, hi, pans, lone, grows
<1>13. /\ mem'.answers \in Seq(Nat)
       /\ \A a \in DOMAIN answers : a \in DOMAIN mem'.answers /\ mem'.answers[a] = answers[a]
       /\ \A a \in DOMAIN mem'.answers :
              \/ a \in DOMAIN answers
              \/ grows /\ a = Len(answers) + 1 /\ mem'.answers[a] = id
       /\ grows => Len(answers) + 1 \in DOMAIN mem'.answers
       /\ grows => mem'.answers[Len(answers) + 1] = id
  <2>1. answers \in Seq(Nat)
    BY <1>2 DEF answers
  <2>2. QED
    BY <1>5, <1>9, <2>1, Appended
<1>14. \A a \in DOMAIN answers : answers[a] \in Nat
  BY <1>2, ElementOfSeq DEF answers
<1>15. DeviceTypes'
  BY <1>2, <1>3, <1>6, <1>13 DEF DeviceInv, DeviceTypes
<1>16. /\ \A a \in DOMAIN answers : answers[a] # 0 => 5 * answers[a] - 3 <= lo
       /\ \A a, b \in DOMAIN answers : answers[a] # 0 /\ answers[a] = answers[b] => a = b
  BY DEF DeviceInv, DeviceAnswers, answers, lo
<1>17. lo \in Nat /\ lo < n
  BY <1>2, <1>3 DEF lo
<1>18. DeviceAnswers'
  <2>1. ASSUME NEW a \in DOMAIN mem'.answers, mem'.answers[a] # 0
        PROVE  5 * mem'.answers[a] - 3 <= n
    <3>1. CASE a \in DOMAIN answers
      <4>1. mem'.answers[a] = answers[a] /\ answers[a] \in Nat
        BY <1>13, <1>14, <3>1
      <4>2. 5 * answers[a] - 3 <= lo
        BY <1>16, <2>1, <3>1, <4>1
      <4>3. QED
        BY <1>3, <1>17, <4>1, <4>2
    <3>2. CASE mem'.answers[a] = id
      <4>1. 5 * id - 3 <= h
        BY <1>5, <2>1, <3>2
      <4>2. QED
        BY <1>3, <1>4, <1>5, <3>2, <4>1
    <3>3. QED
      BY <1>13, <3>1, <3>2
  <2>2. ASSUME NEW a \in DOMAIN answers, id # 0
        PROVE  answers[a] # id
    <3>1. answers[a] = id => 5 * id - 3 <= lo /\ 5 * id - 3 > lo
      BY <1>5, <1>16, <2>2
    <3>2. QED
      BY <1>5, <1>17, <3>1
  <2>3. ASSUME NEW a \in DOMAIN mem'.answers, NEW b \in DOMAIN mem'.answers,
               mem'.answers[a] # 0, mem'.answers[a] = mem'.answers[b]
        PROVE  a = b
    <3>1. \/ a \in DOMAIN answers /\ mem'.answers[a] = answers[a]
          \/ a = Len(answers) + 1 /\ mem'.answers[a] = id
      BY <1>13
    <3>2. \/ b \in DOMAIN answers /\ mem'.answers[b] = answers[b]
          \/ b = Len(answers) + 1 /\ mem'.answers[b] = id
      BY <1>13
    <3>3. QED
      BY <1>16, <2>2, <2>3, <3>1, <3>2
  <2>4. QED
    BY <1>6, <2>1, <2>3 DEF DeviceAnswers
<1>19. ASSUME NEW m \in lone(n, cut), Device!KindOf(m) = "catalog"
       PROVE  grows /\ id = m
  <2>1. m \in Device!Sent /\ ~cut /\ n = 5 * m /\ lo = 5 * m - 5 /\ m \in Nat
    BY <1>8
  <2>2. h = n /\ h = 5 * m
    BY <1>4, <2>1
  <2>3. /\ 5 * m - 4 > lo /\ 5 * m <= h /\ 5 * m > lo /\ 5 * m - 4 <= h
        /\ 5 * m - 3 > lo /\ 5 * m - 3 <= h
    BY <2>1, <2>2
  <2>4. ask
    BY <1>11, <1>19, <2>1, <2>3
  <2>5. id # 0 /\ id <= m
    BY <1>5, <1>12, <2>1, <2>3
  <2>6. 5 * id - 3 > lo
    BY <1>5, <2>5
  <2>7. id = m
    BY <1>5, <2>1, <2>5, <2>6
  <2>8. ~panics
    BY <1>7, <2>1, <2>2, <2>7
  <2>9. QED
    BY <2>4, <2>7, <2>8 DEF grows
<1>20. DeviceAlone'
  <2>1. SUFFICES ASSUME NEW m \in mem'.alone, Device!KindOf(m)' = "catalog"
                 PROVE  mem'.answers # <<>> /\ mem'.answers[Len(mem'.answers)] = m
    BY DEF DeviceAlone
  <2>2. Device!KindOf(m) = "catalog" /\ m \in lone(n, cut)
    BY <1>6, <2>1 DEF Device!KindOf
  <2>3. mem'.answers = Append(answers, id) /\ id = m
    BY <1>9, <1>19, <2>2
  <2>4. answers \in Seq(Nat) /\ id \in Nat
    BY <1>2, <1>5 DEF answers
  <2>5. /\ Append(answers, id) # <<>>
        /\ Append(answers, id)[Len(Append(answers, id))] = id
    BY <2>4
  <2>6. QED
    BY <2>3, <2>5
<1>21. DeviceWhole'
  <2>1. SUFFICES ASSUME mem'.whole
                 PROVE  /\ pc' # "panic" /\ \E k \in Nat : world'.read = 5 * k
                        /\ \A a \in DOMAIN mem'.answers : mem'.answers[a] # 0
    BY DEF DeviceWhole
  <2>2. mem.whole /\ ~cut /\ \E m \in Device!Sent : n = 5 * m
    BY <1>6, <2>1 DEF Device!StillWhole
  <2>3. PICK e \in Nat : n = 5 * e
    BY <1>8, <2>2
  <2>4. /\ \E j \in Nat : lo = 5 * j
        /\ \A a \in DOMAIN answers : answers[a] # 0
    BY <2>2 DEF DeviceInv, DeviceWhole, lo, answers
  <2>5. PICK j \in Nat : lo = 5 * j
    BY <2>4
  <2>6. h = 5 * e
    BY <1>4, <2>2, <2>3
  <2>7. ask => id # 0
    <3>1. SUFFICES ASSUME ask
                   PROVE  id # 0
      OBVIOUS
    <3>2. PICK m \in Device!Sent : 5 * m > lo /\ 5 * m <= h
      BY <1>10, <3>1
    <3>3. m \in Nat
      BY <1>8
    <3>4. 5 * m - 3 > lo /\ 5 * m - 3 <= h
      BY <2>5, <2>6, <3>2, <3>3
    <3>5. QED
      BY <1>5, <1>12, <3>4
  <2>8. ~panics
    <3>1. 5 * id - 3 # h
      BY <1>5, <2>6
    <3>2. QED
      BY <1>7, <3>1
  <2>9. ASSUME NEW a \in DOMAIN mem'.answers
        PROVE  mem'.answers[a] # 0
    <3>1. \/ a \in DOMAIN answers /\ mem'.answers[a] = answers[a]
          \/ ask /\ mem'.answers[a] = id
      BY <1>13 DEF grows
    <3>2. QED
      BY <2>4, <2>7, <3>1
  <2>10. QED
    BY <1>6, <2>3, <2>8, <2>9
<1>22. QED
  BY <1>15, <1>18, <1>20, <1>21 DEF DeviceInv

(* Every step of the device, of its goroutine and of the platform keeps    *)
(* it.                                                                     *)
LEMMA DeviceNext == DeviceInv /\ Device!Next => DeviceInv'
<1> SUFFICES ASSUME DeviceInv, Device!Next
             PROVE  DeviceInv'
  OBVIOUS
<1>1. /\ DOMAIN world = {"sent", "read", "open"} /\ world.sent \in Nat
      /\ DOMAIN mem = {"auth", "answers", "keepalives", "goroutine", "alone", "whole"}
  BY DEF DeviceInv, DeviceTypes
<1>2. CASE Device!Send
  BY <1>1, <1>2, DeviceSame DEF Device!Send
<1>3. CASE Device!ReadChallenge
  BY <1>3, DeviceReadChallenge
<1>4. CASE Device!ReadMessage
  BY <1>4, DeviceReadMessage
<1>5. CASE Device!Hangup
  BY <1>1, <1>5, DeviceSame DEF Device!Hangup
<1>6. CASE Device!Dial
  BY <1>1, <1>6, DeviceSame DEF Device!Dial, Device!Goto
<1>7. CASE Device!FirstRegister
  BY <1>1, <1>7, DeviceSame DEF Device!FirstRegister, Device!Goto
<1>8. CASE Device!SecondRegister
  BY <1>1, <1>8, DeviceSame DEF Device!SecondRegister, Device!Goto
<1>9. CASE Device!KeepAlive
  BY <1>1, <1>9, DeviceSame DEF Device!KeepAlive
<1>10. CASE Device!Fails
  BY <1>1, <1>10, DeviceSame DEF Device!Fails, Device!Return, Device!Goto
<1>11. QED
  BY <1>2, <1>3, <1>4, <1>5, <1>6, <1>7, <1>8, <1>9, <1>10 DEF Device!Next

(* It implies that no Call-ID is answered twice, that what came alone was  *)
(* answered, and that whole messages have whole answers.                   *)
LEMMA DeviceProperties == DeviceInv => Device!AnsweredOnce
  BY DEF DeviceInv, DeviceAnswers, DeviceAlone, DeviceWhole, Device!AnsweredOnce

-----------------------------------------------------------------------------
(* k8s.                                                                    *)

(* The nodes that are to be dialled, of those that main looks at.          *)
K8sDialled == args.notReady \cap args.known \cap args.public

K8sTypes ==
    /\ args \in KubeInputs
    /\ DOMAIN world = {"job", "closer"}
    /\ DOMAIN mem = {"todo", "wg", "ch", "cap", "closed", "got"}
    /\ pc \in {"list", "spawn", "collect", "printed"}
    /\ world.job \in [KubeNodes -> {"none", "dial", "send", "done", "gone"}]
    /\ world.closer \in {"none", "waiting", "gone"}
    /\ mem.closed \in BOOLEAN
    /\ mem.ch \in Seq(KubeNodes) /\ mem.got \in Seq(KubeNodes)

(* A node has a goroutine once main has looked at it, if it is dialled.    *)
K8sControl ==
    /\ pc = "list" => \A n \in KubeNodes : world.job[n] = "none"
    /\ pc = "spawn" => mem.todo \subseteq args.notReady \cap args.known
    /\ pc \in {"collect", "printed"} => mem.todo = {}
    /\ pc # "list" =>
          \A n \in KubeNodes : world.job[n] # "none" <=> n \in K8sDialled \ mem.todo
    /\ pc \in {"list", "spawn"} <=> world.closer = "none"
    /\ mem.closed <=> world.closer = "gone"
    /\ pc = "printed" => mem.closed /\ mem.ch = <<>>

(* wg is the number of goroutines that have not called Done, and the       *)
(* channel is closed when there are none.                                  *)
K8sRunning == {n \in KubeNodes : world.job[n] \in {"dial", "send", "done"}}

K8sCounted ==
    /\ mem.wg = Cardinality(K8sRunning)
    /\ mem.closed => K8sRunning = {}

(* What was sent is in the channel or received, once.                      *)
K8sSent(n) == (\E i \in DOMAIN mem.ch : mem.ch[i] = n) \/ (\E i \in DOMAIN mem.got : mem.got[i] = n)

K8sOnce ==
    /\ \A n \in KubeNodes :
          /\ K8sSent(n) <=> world.job[n] \in {"done", "gone"} /\ n \in args.serve
          /\ world.job[n] = "send" => n \in args.serve
    /\ \A i, j \in DOMAIN mem.ch : mem.ch[i] = mem.ch[j] => i = j
    /\ \A i, j \in DOMAIN mem.got : mem.got[i] = mem.got[j] => i = j
    /\ \A i \in DOMAIN mem.ch, j \in DOMAIN mem.got : mem.ch[i] # mem.got[j]

K8sInv == K8sTypes /\ K8sControl /\ K8sCounted /\ K8sOnce

(* Sets of nodes are finite.                                               *)
LEMMA K8sFinite ==
    ASSUME NEW S, S \subseteq KubeNodes
    PROVE  IsFiniteSet(S) /\ Cardinality(S) \in Nat
<1>1. S \in SUBSET KubeNodes
  OBVIOUS
<1>2. QED
  BY <1>1, KubeAssumption, FS_Subset, FS_CardinalityType

(* k8s starts in the invariant.                                            *)
LEMMA K8sInit == K8s!Init => K8sInv
<1> SUFFICES ASSUME K8s!Init
             PROVE  K8sInv
  OBVIOUS
<1> USE DEF K8s!Init
<1>1. K8sTypes
  BY DEF K8sTypes
<1>2. K8sControl
  BY DEF K8sControl
<1>3. K8sRunning = {}
  BY DEF K8sRunning
<1>4. K8sCounted
  BY <1>3, FS_EmptySet DEF K8sCounted
<1>5. K8sOnce
  BY DEF K8sOnce, K8sSent
<1>6. QED
  BY <1>1, <1>2, <1>4, <1>5 DEF K8sInv

(* Every step of main, of a dialling goroutine and of the closer keeps it. *)
LEMMA K8sNext ==
    ASSUME K8sInv, K8s!Next
    PROVE  K8sInv'
<1> USE DEF K8sInv
<1>0. K8sRunning \subseteq KubeNodes /\ IsFiniteSet(K8sRunning)
  BY K8sFinite DEF K8sRunning
<1>1. CASE K8s!ListNodes
  <2> USE <1>1 DEF K8s!ListNodes
  <2>1. K8sTypes'
    BY DEF K8sTypes
  <2>2. K8sControl'
    BY DEF K8sTypes, K8sControl, K8sDialled
  <2>3. K8sCounted'
    BY DEF K8sTypes, K8sCounted, K8sRunning
  <2>4. K8sOnce'
    BY DEF K8sTypes, K8sOnce, K8sSent
  <2>5. QED
    BY <2>1, <2>2, <2>3, <2>4
<1>2. ASSUME NEW n \in mem.todo, pc = "spawn", K8s!Spawn(n), UNCHANGED <<pc, args>>
      PROVE  K8sInv'
  <2>1. n \in KubeNodes /\ n \in args.notReady \cap args.known
    BY <1>2, KubeAssumption DEF K8sTypes, K8sControl
  <2>2. world.job[n] = "none"
    BY <1>2, <2>1 DEF K8sTypes, K8sControl
  <2>3. ~mem.closed
    BY <1>2 DEF K8sTypes, K8sControl
  <2>4. CASE n \in args.public
    <3>1. /\ world' = [world EXCEPT !.job[n] = "dial"]
          /\ mem' = [mem EXCEPT !.todo = @ \ {n}, !.wg = @ + 1]
      BY <1>2, <2>4 DEF K8s!Spawn
    <3>2. K8sTypes'
      BY <1>2, <2>1, <3>1 DEF K8sTypes
    <3>3. K8sControl'
      BY <1>2, <2>1, <2>2, <2>4, <3>1 DEF K8sTypes, K8sControl, K8sDialled
    <3>4. K8sRunning' = K8sRunning \cup {n} /\ n \notin K8sRunning
      BY <2>1, <2>2, <3>1 DEF K8sTypes, K8sRunning
    <3>5. K8sCounted'
      <4>1. Cardinality(K8sRunning') = Cardinality(K8sRunning) + 1
        BY <1>0, <3>4, FS_AddElement
      <4>2. mem'.wg = mem.wg + 1 /\ mem'.closed = mem.closed
        BY <3>1 DEF K8sTypes
      <4>3. QED
        BY <2>3, <4>1, <4>2 DEF K8sCounted
    <3>6. K8sOnce'
      BY <1>2, <2>1, <2>2, <3>1 DEF K8sTypes, K8sOnce, K8sSent
    <3>7. QED
      BY <3>2, <3>3, <3>5, <3>6
  <2>5. CASE n \notin args.public
    <3>1. world' = world /\ mem' = [mem EXCEPT !.todo = @ \ {n}]
      BY <1>2, <2>5 DEF K8s!Spawn
    <3>2. K8sTypes' /\ K8sCounted' /\ K8sOnce'
      BY <1>2, <3>1 DEF K8sTypes, K8sCounted, K8sRunning, K8sOnce, K8sSent
    <3>3. K8sControl'
      BY <1>2, <2>5, <3>1 DEF K8sTypes, K8sControl, K8sDialled
    <3>4. QED
      BY <3>2, <3>3
  <2>6. QED
    BY <2>4, <2>5
<1>3. CASE K8s!SpawnCloser
  BY <1>3 DEF K8s!SpawnCloser, K8sTypes, K8sControl, K8sDialled, K8sCounted, K8sRunning,
              K8sOnce, K8sSent
<1>4. ASSUME NEW n \in KubeNodes, K8s!Dial(n), UNCHANGED <<pc, args>>
      PROVE  K8sInv'
  <2> USE <1>4 DEF K8s!Dial
  <2>1. K8sTypes'
    BY DEF K8sTypes
  <2>2. K8sControl'
    BY DEF K8sTypes, K8sControl, K8sDialled
  <2>3. K8sRunning' = K8sRunning
    BY DEF K8sTypes, K8sRunning
  <2>4. K8sCounted'
    BY <2>3 DEF K8sCounted
  <2>5. K8sOnce'
    BY DEF K8sTypes, K8sOnce, K8sSent
  <2>6. QED
    BY <2>1, <2>2, <2>4, <2>5
<1>5. ASSUME NEW n \in KubeNodes, K8s!Send(n), UNCHANGED <<pc, args>>
      PROVE  K8sInv'
  <2> USE <1>5 DEF K8s!Send
  <2>1. ~mem.closed
    BY DEF K8sTypes, K8sCounted, K8sRunning
  <2>2. /\ world' = [world EXCEPT !.job[n] = "done"]
        /\ mem' = [mem EXCEPT !.ch = Append(@, n)]
    BY <2>1
  <2>3. /\ mem'.ch \in Seq(KubeNodes)
        /\ DOMAIN mem.ch = 1..Len(mem.ch) /\ Len(mem.ch) \in Nat
        /\ DOMAIN mem'.ch = 1..(Len(mem.ch) + 1)
        /\ mem'.ch[Len(mem.ch) + 1] = n
        /\ \A i \in DOMAIN mem.ch : mem'.ch[i] = mem.ch[i]
    BY <2>2, AppendProperties, LenProperties DEF K8sTypes
  <2>4. K8sTypes'
    BY <2>2, <2>3 DEF K8sTypes
  <2>5. K8sControl'
    BY <2>1, <2>2 DEF K8sTypes, K8sControl, K8sDialled
  <2>6. K8sRunning' = K8sRunning
    BY <2>2 DEF K8sTypes, K8sRunning
  <2>7. K8sCounted'
    BY <2>2, <2>6 DEF K8sTypes, K8sCounted
  <2>8. K8sOnce'
    <3>1. ~K8sSent(n)
      BY DEF K8sTypes, K8sOnce
    <3>2. \A m \in KubeNodes : K8sSent(m)' <=> K8sSent(m) \/ m = n
      BY <2>2, <2>3 DEF K8sTypes, K8sSent
    <3>3. QED
      BY <2>2, <2>3, <3>1, <3>2 DEF K8sTypes, K8sOnce, K8sSent
  <2>9. QED
    BY <2>4, <2>5, <2>7, <2>8
<1>6. ASSUME NEW n \in KubeNodes, K8s!JobDone(n), UNCHANGED <<pc, args>>
      PROVE  K8sInv'
  <2> USE <1>6 DEF K8s!JobDone
  <2>1. K8sTypes'
    BY DEF K8sTypes
  <2>2. K8sControl'
    BY DEF K8sTypes, K8sControl, K8sDialled
  <2>3. K8sRunning' = K8sRunning \ {n} /\ n \in K8sRunning
    BY DEF K8sTypes, K8sRunning
  <2>4. K8sCounted'
    BY <1>0, <2>3, FS_RemoveElement DEF K8sTypes, K8sCounted
  <2>5. K8sOnce'
    BY DEF K8sTypes, K8sOnce, K8sSent
  <2>6. QED
    BY <2>1, <2>2, <2>4, <2>5
<1>7. CASE K8s!Close
  <2> USE <1>7 DEF K8s!Close
  <2>1. K8sRunning' = {}
    BY <1>0, FS_EmptySet DEF K8sTypes, K8sCounted, K8sRunning
  <2>2. QED
    BY <2>1, FS_EmptySet DEF K8sTypes, K8sControl, K8sDialled, K8sCounted, K8sOnce, K8sSent
<1>8. CASE K8s!Collect
  <2> USE <1>8 DEF K8s!Collect
  <2>1. /\ DOMAIN mem.ch = 1..Len(mem.ch) /\ Len(mem.ch) \in Nat \ {0}
        /\ DOMAIN mem.got = 1..Len(mem.got) /\ Len(mem.got) \in Nat
        /\ Head(mem.ch) = mem.ch[1] /\ mem.ch[1] \in KubeNodes
    BY LenProperties, EmptySeq DEF K8sTypes
  <2>2. /\ mem'.ch = Tail(mem.ch) /\ mem'.got = Append(mem.got, mem.ch[1])
        /\ mem'.closed = mem.closed /\ mem'.wg = mem.wg /\ mem'.todo = mem.todo
        /\ DOMAIN mem' = DOMAIN mem
    BY <2>1 DEF K8sTypes
  <2>3. /\ mem'.ch \in Seq(KubeNodes)
        /\ DOMAIN mem'.ch = 1..(Len(mem.ch) - 1)
        /\ \A i \in DOMAIN mem'.ch : mem'.ch[i] = mem.ch[i + 1]
    BY <2>1, <2>2, HeadTailProperties, LenProperties DEF K8sTypes
  <2>4. /\ mem'.got \in Seq(KubeNodes)
        /\ DOMAIN mem'.got = 1..(Len(mem.got) + 1)
        /\ mem'.got[Len(mem.got) + 1] = mem.ch[1]
        /\ \A i \in DOMAIN mem.got : mem'.got[i] = mem.got[i]
    BY <2>1, <2>2, AppendProperties, LenProperties DEF K8sTypes
  <2>5. K8sTypes' /\ K8sControl'
    BY <2>2, <2>3, <2>4 DEF K8sTypes, K8sControl, K8sDialled
  <2>6. K8sCounted'
    BY <2>2 DEF K8sCounted, K8sRunning
  <2>7. \A n \in KubeNodes : K8sSent(n)' <=> K8sSent(n)
    <3> SUFFICES ASSUME NEW n \in KubeNodes
                 PROVE  K8sSent(n)' <=> K8sSent(n)
      OBVIOUS
    <3>1. ASSUME NEW i \in DOMAIN mem.ch, mem.ch[i] = n
          PROVE  K8sSent(n)'
      <4>1. CASE i = 1
        BY <2>1, <2>4, <3>1, <4>1 DEF K8sSent
      <4>2. CASE i # 1
        <5>1. i - 1 \in DOMAIN mem'.ch /\ mem'.ch[i - 1] = n
          BY <2>1, <2>3, <3>1, <4>2
        <5>2. QED
          BY <5>1 DEF K8sSent
      <4>3. QED
        BY <4>1, <4>2
    <3>2. ASSUME NEW i \in DOMAIN mem.got, mem.got[i] = n
          PROVE  K8sSent(n)'
      BY <2>1, <2>4, <3>2 DEF K8sSent
    <3>3. ASSUME NEW i \in DOMAIN mem'.ch, mem'.ch[i] = n
          PROVE  K8sSent(n)
      BY <2>1, <2>3, <3>3 DEF K8sSent
    <3>4. ASSUME NEW i \in DOMAIN mem'.got, mem'.got[i] = n
          PROVE  K8sSent(n)
      BY <2>1, <2>4, <3>4 DEF K8sSent
    <3>5. QED
      BY <3>1, <3>2, <3>3, <3>4 DEF K8sSent
  <2>8. K8sOnce'
    <3>1. \A n \in KubeNodes :
             /\ K8sSent(n)' <=> (world.job[n] \in {"done", "gone"} /\ n \in args.serve)'
             /\ (world.job[n] = "send" => n \in args.serve)'
      BY <2>7 DEF K8sOnce
    <3>2. \A i, j \in DOMAIN mem'.ch : mem'.ch[i] = mem'.ch[j] => i = j
      <4>1. ASSUME NEW i \in DOMAIN mem'.ch
            PROVE  i \in Nat /\ i + 1 \in DOMAIN mem.ch /\ mem'.ch[i] = mem.ch[i + 1]
        BY <2>1, <2>3
      <4>2. ASSUME NEW i \in DOMAIN mem'.ch, NEW j \in DOMAIN mem'.ch, mem'.ch[i] = mem'.ch[j]
            PROVE  i + 1 = j + 1
        BY <4>1, <4>2 DEF K8sOnce
      <4>3. QED
        BY <4>1, <4>2
    <3>3. \A i, j \in DOMAIN mem'.got : mem'.got[i] = mem'.got[j] => i = j
      BY <2>1, <2>4 DEF K8sOnce
    <3>4. \A i \in DOMAIN mem'.ch, j \in DOMAIN mem'.got : mem'.ch[i] # mem'.got[j]
      <4>1. ASSUME NEW i \in DOMAIN mem'.ch
            PROVE  i + 1 \in DOMAIN mem.ch /\ i + 1 # 1 /\ mem'.ch[i] = mem.ch[i + 1]
        BY <2>1, <2>3
      <4>2. ASSUME NEW j \in DOMAIN mem'.got
            PROVE  \/ mem'.got[j] = mem.ch[1]
                   \/ j \in DOMAIN mem.got /\ mem'.got[j] = mem.got[j]
        <5>1. CASE j = Len(mem.got) + 1
          BY <2>4, <5>1
        <5>2. CASE j # Len(mem.got) + 1
          <6>1. j \in DOMAIN mem.got
            BY <2>1, <2>4, <4>2, <5>2
          <6>2. QED
            BY <2>4, <6>1
        <5>3. QED
          BY <5>1, <5>2
      <4>3. QED
        BY <2>1, <4>1, <4>2 DEF K8sOnce
    <3>5. QED
      BY <3>1, <3>2, <3>3, <3>4 DEF K8sOnce
  <2>9. QED
    BY <2>5, <2>6, <2>8
<1>9. CASE K8s!PrintIds
  <2> USE <1>9 DEF K8s!PrintIds
  <2>1. K8sTypes' /\ K8sControl'
    BY DEF K8sTypes, K8sControl, K8sDialled
  <2>2. K8sCounted' /\ K8sOnce'
    BY DEF K8sCounted, K8sRunning, K8sOnce, K8sSent
  <2>3. QED
    BY <2>1, <2>2
<1>10. QED
  BY <1>1, <1>2, <1>3, <1>4, <1>5, <1>6, <1>7, <1>8, <1>9
     DEF K8s!Next, K8s!SpawnNext, K8s!Job

(* The composition's Cardinality is the one of FiniteSets.                 *)
LEMMA K8sCardinality == \A S : K8s!Cardinality(S) = Cardinality(S)
  BY DEF K8s!Cardinality, Cardinality

(* It implies that what serves is printed, once, and nothing else.         *)
LEMMA K8sProperties ==
    ASSUME K8sInv
    PROVE  K8s!AllServingPrinted
<1> USE DEF K8sInv
<1>1. \A n \in KubeNodes : world.job[n] # "panic"
  BY DEF K8sTypes
<1>2. ASSUME pc = "printed"
      PROVE  {mem.got[i] : i \in DOMAIN mem.got} =
                args.notReady \cap args.known \cap args.public \cap args.serve
  <2>1. \A n \in KubeNodes : world.job[n] \in {"none", "gone"}
    BY <1>2 DEF K8sTypes, K8sControl, K8sCounted, K8sRunning
  <2>2. \A n \in KubeNodes : world.job[n] = "gone" <=> n \in K8sDialled
    BY <1>2, <2>1 DEF K8sControl
  <2>3. \A n \in KubeNodes :
            (\E i \in DOMAIN mem.got : mem.got[i] = n) <=> n \in K8sDialled \cap args.serve
    BY <1>2, <2>1, <2>2 DEF K8sControl, K8sOnce, K8sSent
  <2>4. \A i \in DOMAIN mem.got : mem.got[i] \in KubeNodes
    BY LenProperties DEF K8sTypes
  <2>5. K8sDialled \subseteq KubeNodes
    BY KubeAssumption DEF K8sTypes, K8sDialled
  <2>6. QED
    BY <2>3, <2>4, <2>5 DEF K8sDialled
<1>3. Len(mem.got) = Cardinality({mem.got[i] : i \in DOMAIN mem.got})
  BY InjectiveLength DEF K8sTypes, K8sOnce
<1>4. QED
  BY <1>1, <1>2, <1>3, K8sCardinality DEF K8s!AllServingPrinted

-----------------------------------------------------------------------------
(* streamd-log.                                                            *)
StreamdTypes ==
    /\ DOMAIN world = {"job", "out", "missed"}
    /\ DOMAIN mem = {"idx", "wg", "count", "loaded"}
    /\ pc \in {"list", "go", "wait", "notify", "done", "dead"}
    /\ args \in [1..Windows -> SUBSET Files]
    /\ world.job \in [Streamd!Job -> {"no", "run", "write", "load", "store", "done", "end"}]
    /\ world.missed \subseteq Streamd!Job
    /\ world.out \in Seq(Streamd!Job)
    /\ mem.idx \in 1..Windows
    /\ mem.wg \in [1..Windows -> Int]
    /\ mem.count \in Nat
    /\ mem.loaded \in [Streamd!Job -> Nat]

(* Only the files that were listed are searched, and those of the windows  *)
(* before this one have been.                                              *)
StreamdListed == {j \in Streamd!Job : j[2] \in args[j[1]]}

StreamdControl ==
    /\ \A j \in Streamd!Job : world.job[j] # "no" => j \in StreamdListed
    /\ \A j \in StreamdListed : j[1] < mem.idx => world.job[j] = "end"
    /\ pc = "wait" => \A j \in StreamdListed : world.job[j] # "no"
    /\ pc \in {"notify", "done", "dead"} =>
          mem.idx = Windows /\ \A j \in StreamdListed : world.job[j] = "end"
    /\ \A w \in 1..Windows : w > mem.idx \/ (w = mem.idx /\ pc = "list") => args[w] = {}

(* wg is the number of goroutines of the window that have not called Done. *)
StreamdOpen(w) == {f \in args[w] : world.job[<<w, f>>] # "end"}

StreamdCounted == \A w \in 1..Windows : mem.wg[w] = Cardinality(StreamdOpen(w))

(* What is written is of the goroutines that did not fail, once, and in    *)
(* the order of the windows.                                               *)
StreamdIsOut(j) == \E i \in DOMAIN world.out : world.out[i] = j
StreamdPast(j) == world.job[j] \in {"load", "store", "done", "end"}

StreamdWritten ==
    /\ \A j \in Streamd!Job :
          StreamdIsOut(j) <=> StreamdPast(j) /\ j \notin world.missed
    /\ \A j \in world.missed : StreamdPast(j)
    /\ \A a, b \in DOMAIN world.out : world.out[a] = world.out[b] => a = b
    /\ \A a, b \in DOMAIN world.out : a < b => world.out[a][1] <= world.out[b][1]

(* The count, and what a goroutine has read of it, is at most the number   *)
(* of goroutines that have stored theirs, and at least the number of the   *)
(* windows that are through with a file; one more once a goroutine of this *)
(* window has stored its own.                                              *)
StreamdStored == {j \in Streamd!Job : world.job[j] \in {"done", "end"}}
StreamdThrough == {w \in 1..Windows : w < mem.idx /\ args[w] # {}}

StreamdCount ==
    /\ mem.count <= Cardinality(StreamdStored)
    /\ Cardinality(StreamdThrough) <= mem.count
    /\ \A j \in Streamd!Job : world.job[j] = "store" =>
          /\ mem.loaded[j] <= Cardinality(StreamdStored)
          /\ Cardinality(StreamdThrough) <= mem.loaded[j]
    /\ (\E j \in StreamdStored : j[1] = mem.idx) => Cardinality(StreamdThrough) < mem.count

StreamdInv ==
    StreamdTypes /\ StreamdControl /\ StreamdCounted /\ StreamdWritten /\ StreamdCount

(* Sets of goroutines, of files and of windows are finite.                 *)
LEMMA StreamdFinite ==
    /\ IsFiniteSet(Streamd!Job)
    /\ \A S \in SUBSET Streamd!Job : IsFiniteSet(S) /\ Cardinality(S) \in Nat
    /\ \A S \in SUBSET Files : IsFiniteSet(S) /\ Cardinality(S) \in Nat
    /\ \A S \in SUBSET (1..Windows) : IsFiniteSet(S) /\ Cardinality(S) \in Nat
<1>1. IsFiniteSet(1..Windows) /\ IsFiniteSet(Files)
  BY StreamdAssumption, FS_Interval
<1>2. IsFiniteSet(Streamd!Job)
  BY <1>1, FS_Product DEF Streamd!Job
<1>3. QED
  BY <1>1, <1>2, FS_Subset, FS_CardinalityType

(* The composition's Cardinality is the one of FiniteSets.                 *)
LEMMA StreamdCardinality == \A S : Streamd!Cardinality(S) = Cardinality(S)
  BY DEF Streamd!Cardinality, Cardinality

(* A goroutine is a window and a file.                                     *)
LEMMA StreamdJob ==
    \A j \in Streamd!Job :
        j[1] \in 1..Windows /\ j[1] \in Nat /\ j[2] \in Files /\ j = <<j[1], j[2]>>
  BY DEF Streamd!Job

(* streamd-log starts in the invariant.                                    *)
LEMMA StreamdInit == Streamd!Init => StreamdInv
<1> SUFFICES ASSUME Streamd!Init
             PROVE  StreamdInv
  OBVIOUS
<1> USE StreamdAssumption DEF Streamd!Init
<1>1. StreamdTypes
  BY DEF StreamdTypes
<1>2. StreamdControl
  BY StreamdJob DEF StreamdControl, StreamdListed
<1>3. StreamdCounted
  BY FS_EmptySet DEF StreamdCounted, StreamdOpen
<1>4. StreamdWritten
  BY DEF StreamdWritten, StreamdIsOut, StreamdPast
<1>5. StreamdStored = {} /\ StreamdThrough = {}
  BY DEF StreamdStored, StreamdThrough
<1>6. StreamdCount
  BY <1>5, FS_EmptySet DEF StreamdCount
<1>7. QED
  BY <1>1, <1>2, <1>3, <1>4, <1>6 DEF StreamdInv

(* A window that is through: the next one, or the notification.            *)
LEMMA StreamdNextWindow ==
    ASSUME StreamdInv, Streamd!NextWindow, UNCHANGED <<args, world>>,
           \A j \in StreamdListed : j[1] = mem.idx => world.job[j] = "end"
    PROVE  StreamdInv'
<1> USE StreamdAssumption DEF StreamdInv
<1>1. \A j \in StreamdListed : j[1] <= mem.idx /\ world.job[j] = "end"
  <2> SUFFICES ASSUME NEW j \in StreamdListed
               PROVE  j[1] <= mem.idx /\ world.job[j] = "end"
    OBVIOUS
  <2>1. j \in Streamd!Job /\ j[1] \in 1..Windows /\ args[j[1]] # {}
    BY StreamdJob DEF StreamdListed
  <2>2. mem.idx \in Nat /\ j[1] \in Nat /\ ~(j[1] > mem.idx)
    BY <2>1 DEF StreamdTypes, StreamdControl
  <2>3. QED
    BY <2>1, <2>2 DEF StreamdControl
<1>2. args[mem.idx] # {} => Cardinality(StreamdThrough) < mem.count
  <2>1. ASSUME NEW f \in args[mem.idx]
        PROVE  <<mem.idx, f>> \in StreamdListed
    BY <2>1 DEF StreamdTypes, StreamdListed, Streamd!Job
  <2>2. ASSUME NEW f \in args[mem.idx]
        PROVE  <<mem.idx, f>> \in StreamdStored /\ <<mem.idx, f>>[1] = mem.idx
    BY <1>1, <2>1, <2>2 DEF StreamdListed, StreamdStored
  <2>3. QED
    BY <2>2 DEF StreamdCount
<1>3. CASE mem.idx = Windows
  <2> USE <1>3 DEF Streamd!NextWindow
  <2>1. StreamdTypes' /\ StreamdControl'
    BY <1>1 DEF StreamdTypes, StreamdControl, StreamdListed
  <2>2. StreamdCounted' /\ StreamdWritten' /\ StreamdCount'
    <3>1. StreamdThrough' = StreamdThrough /\ StreamdStored' = StreamdStored
      BY DEF StreamdStored, StreamdThrough
    <3>2. StreamdCounted' /\ StreamdWritten'
      BY DEF StreamdCounted, StreamdOpen, StreamdWritten, StreamdIsOut, StreamdPast
    <3>3. StreamdCount'
      BY <3>1 DEF StreamdCount
    <3>4. QED
      BY <3>2, <3>3
  <2>3. QED
    BY <2>1, <2>2
<1>4. CASE mem.idx # Windows
  <2>1. pc' = "list" /\ mem' = [mem EXCEPT !.idx = mem.idx + 1]
    BY <1>4 DEF Streamd!NextWindow
  <2>2. /\ mem'.idx = mem.idx + 1 /\ mem'.wg = mem.wg /\ mem'.count = mem.count
        /\ mem'.loaded = mem.loaded
    BY <2>1 DEF StreamdTypes
  <2>3. StreamdTypes'
    BY <1>4, <2>1 DEF StreamdTypes
  <2>4. StreamdControl'
    <3>1. StreamdListed' = StreamdListed
      BY DEF StreamdListed
    <3>2. \A w \in 1..Windows : w > mem.idx => args[w] = {}
      BY DEF StreamdControl
    <3>3. mem.idx \in Nat /\ \A w \in 1..Windows : w \in Nat
      BY DEF StreamdTypes
    <3>4. QED
      BY <1>1, <2>1, <2>2, <3>1, <3>2, <3>3 DEF StreamdControl
  <2>5. StreamdCounted' /\ StreamdWritten'
    BY <2>2 DEF StreamdCounted, StreamdOpen, StreamdWritten, StreamdIsOut, StreamdPast
  <2>6. StreamdCount'
    <3>1. \A j \in Streamd!Job : world.job[j] \in {"no", "end"}
      BY <1>1 DEF StreamdControl
    <3>2. StreamdStored' = StreamdStored
      BY DEF StreamdStored
    <3>3. \A j \in StreamdStored : j[1] # mem'.idx
      <4>1. \A j \in StreamdStored : j \in StreamdListed
        BY DEF StreamdControl, StreamdStored
      <4>2. \A j \in StreamdListed : j[1] \in Nat
        BY StreamdJob DEF StreamdListed
      <4>3. mem.idx \in Nat
        BY DEF StreamdTypes
      <4>4. QED
        BY <1>1, <2>2, <4>1, <4>2, <4>3
    <3>4. StreamdThrough' = IF args[mem.idx] # {} THEN StreamdThrough \cup {mem.idx}
                                                  ELSE StreamdThrough
      BY <2>2 DEF StreamdTypes, StreamdThrough
    <3>5. StreamdThrough \in SUBSET (1..Windows) /\ mem.idx \notin StreamdThrough
      BY DEF StreamdTypes, StreamdThrough
    <3>6. Cardinality(StreamdThrough') <= mem.count
      <4>1. IsFiniteSet(StreamdThrough) /\ Cardinality(StreamdThrough) \in Nat
        BY <3>5, StreamdFinite
      <4>2. Cardinality(StreamdThrough \cup {mem.idx}) = Cardinality(StreamdThrough) + 1
        BY <3>5, <4>1, FS_AddElement
      <4>3. mem.count \in Nat /\ Cardinality(StreamdThrough) <= mem.count
        BY DEF StreamdTypes, StreamdCount
      <4>4. QED
        BY <1>2, <3>4, <4>1, <4>2, <4>3
    <3>7. QED
      BY <2>2, <3>1, <3>2, <3>3, <3>6 DEF StreamdCount
  <2>7. QED
    BY <2>3, <2>4, <2>5, <2>6
<1>5. QED
  BY <1>3, <1>4

(* Every step of main and of a goroutine keeps it.                         *)
LEMMA StreamdNext ==
    ASSUME StreamdInv, Streamd!Next
    PROVE  StreamdInv'
<1> USE DEF StreamdInv
<1>1. ASSUME NEW S \in SUBSET Files, Streamd!List(S)
      PROVE  StreamdInv'
  <2> USE <1>1 DEF Streamd!List
  <2>1. /\ mem'.idx = mem.idx /\ mem'.count = mem.count /\ mem'.loaded = mem.loaded
        /\ mem'.wg = [mem.wg EXCEPT ![mem.idx] = Cardinality(S)]
        /\ DOMAIN mem' = DOMAIN mem
    BY StreamdCardinality DEF StreamdTypes
  <2>2. args' = [args EXCEPT ![mem.idx] = S] /\ args[mem.idx] = {}
    BY DEF StreamdTypes, StreamdControl
  <2>3. StreamdTypes'
    <3>1. Cardinality(S) \in Int /\ mem.idx \in 1..Windows /\ mem.wg \in [1..Windows -> Int]
      BY StreamdFinite DEF StreamdTypes
    <3>2. mem'.wg \in [1..Windows -> Int]
      <4> HIDE DEF Streamd!List
      <4>1. QED
        BY <2>1, <3>1
    <3>4. args' \in [1..Windows -> SUBSET Files]
      BY <2>2 DEF StreamdTypes
    <3>3. QED
      BY <2>1, <3>2, <3>4 DEF StreamdTypes
  <2>4. \A j \in Streamd!Job : j[1] = mem.idx => world.job[j] = "no"
    BY <2>2 DEF StreamdTypes, StreamdControl, StreamdListed
  <2>5. StreamdControl'
    <3>1. \A j \in StreamdListed : j \in StreamdListed'
      BY <2>2, StreamdJob DEF StreamdTypes, StreamdListed
    <3>2. \A j \in StreamdListed' : j \in StreamdListed \/ j[1] = mem.idx
      BY <2>2, StreamdJob DEF StreamdTypes, StreamdListed
    <3>3. \A w \in 1..Windows : w > mem.idx => args'[w] = {}
      BY <2>2 DEF StreamdTypes, StreamdControl
    <3>4. \A j \in StreamdListed' : j[1] < mem.idx => world.job[j] = "end"
      BY <3>2 DEF StreamdTypes, StreamdControl
    <3>5. QED
      BY <2>1, <3>1, <3>3, <3>4 DEF StreamdTypes, StreamdControl
  <2>6. StreamdCounted'
    <3>1. StreamdOpen(mem.idx)' = S
      <4>1. \A f \in S : <<mem.idx, f>> \in Streamd!Job /\ <<mem.idx, f>>[1] = mem.idx
        BY DEF StreamdTypes, Streamd!Job
      <4>2. \A f \in S : world.job[<<mem.idx, f>>] = "no"
        BY <2>4, <4>1
      <4>3. QED
        BY <2>2, <4>2 DEF StreamdTypes, StreamdOpen
    <3>2. \A w \in 1..Windows : w # mem.idx => StreamdOpen(w)' = StreamdOpen(w)
      BY <2>2 DEF StreamdTypes, StreamdOpen
    <3>3. mem'.idx = mem.idx /\ \A w \in 1..Windows :
             mem'.wg[w] = IF w = mem.idx THEN Cardinality(S) ELSE mem.wg[w]
      BY <2>1 DEF StreamdTypes
    <3>4. QED
      BY <3>1, <3>2, <3>3 DEF StreamdCounted
  <2>7. StreamdWritten'
    BY DEF StreamdWritten, StreamdIsOut, StreamdPast
  <2>8. StreamdCount'
    <3>1. StreamdStored' = StreamdStored
      BY DEF StreamdStored
    <3>2. StreamdThrough' = StreamdThrough
      BY <2>1, <2>2 DEF StreamdTypes, StreamdThrough
    <3>3. QED
      BY <2>1, <3>1, <3>2 DEF StreamdCount
  <2>9. QED
    BY <2>3, <2>5, <2>6, <2>7, <2>8
<1>2. CASE Streamd!ListFails
  <2>1. \A j \in StreamdListed : j[1] # mem.idx
    BY <1>2, StreamdJob DEF Streamd!ListFails, StreamdTypes, StreamdControl, StreamdListed
  <2>2. QED
    BY <1>2, <2>1, StreamdNextWindow DEF Streamd!ListFails
<1>3. CASE Streamd!Wait
  <2>1. StreamdOpen(mem.idx) = {}
    <3>1. StreamdOpen(mem.idx) \in SUBSET Files /\ Cardinality(StreamdOpen(mem.idx)) = 0
      BY <1>3 DEF Streamd!Wait, StreamdTypes, StreamdCounted, StreamdOpen
    <3>2. QED
      BY <3>1, StreamdFinite, FS_EmptySet
  <2>2. \A j \in StreamdListed : j[1] = mem.idx => world.job[j] = "end"
    BY <2>1, StreamdJob DEF StreamdListed, StreamdOpen
  <2>3. QED
    BY <1>3, <2>2, StreamdNextWindow DEF Streamd!Wait
<1>4. CASE Streamd!Notify
  <2> USE <1>4 DEF Streamd!Notify
  <2>1. StreamdTypes' /\ StreamdControl'
    BY DEF StreamdTypes, StreamdControl, StreamdListed
  <2>2. StreamdCounted' /\ StreamdWritten'
    BY DEF StreamdCounted, StreamdOpen, StreamdWritten, StreamdIsOut, StreamdPast
  <2>3. StreamdStored' = StreamdStored /\ StreamdThrough' = StreamdThrough
    BY DEF StreamdStored, StreamdThrough
  <2>4. StreamdCount'
    BY <2>3 DEF StreamdCount
  <2>5. QED
    BY <2>1, <2>2, <2>4
<1>5. CASE Streamd!Go
  <2> DEFINE left == {f \in args[mem.idx] : world.job[<<mem.idx, f>>] = "no"}
  <2>1. CASE left = {}
    <3>1. pc = "go" /\ pc' = "wait" /\ UNCHANGED <<args, world, mem>>
      BY <1>5, <2>1 DEF Streamd!Go
    <3>2. \A j \in StreamdListed : world.job[j] # "no"
      <4>1. ASSUME NEW j \in StreamdListed, world.job[j] = "no"
            PROVE  j[1] = mem.idx
        <5>1. j \in Streamd!Job /\ j[1] \in 1..Windows /\ j[1] \in Nat /\ args[j[1]] # {}
          BY StreamdJob DEF StreamdListed
        <5>2. mem.idx \in Nat /\ ~(j[1] > mem.idx) /\ ~(j[1] < mem.idx)
          BY <4>1, <5>1 DEF StreamdTypes, StreamdControl
        <5>3. QED
          BY <5>1, <5>2
      <4>2. QED
        BY <2>1, <4>1, StreamdJob DEF StreamdListed
    <3>3. StreamdTypes' /\ StreamdControl'
      BY <3>1, <3>2 DEF StreamdTypes, StreamdControl, StreamdListed
    <3>4. StreamdCounted' /\ StreamdWritten'
      BY <3>1 DEF StreamdCounted, StreamdOpen, StreamdWritten, StreamdIsOut, StreamdPast
    <3>5. StreamdStored' = StreamdStored /\ StreamdThrough' = StreamdThrough
      BY <3>1 DEF StreamdStored, StreamdThrough
    <3>6. StreamdCount'
      BY <3>1, <3>5 DEF StreamdCount
    <3>7. QED
      BY <3>3, <3>4, <3>6
  <2>2. CASE left # {}
    <3>1. PICK f \in left : world' = [world EXCEPT !.job[<<mem.idx, f>>] = "run"]
      BY <1>5, <2>2 DEF Streamd!Go
    <3> DEFINE j == <<mem.idx, f>>
    <3>2. pc = "go" /\ UNCHANGED <<pc, args, mem>>
      BY <1>5, <2>2 DEF Streamd!Go
    <3>3. j \in Streamd!Job /\ world.job[j] = "no" /\ j \in StreamdListed
      BY DEF StreamdTypes, StreamdListed, Streamd!Job
    <3> HIDE DEF j
    <3>4. /\ world'.job = [world.job EXCEPT ![j] = "run"] /\ DOMAIN world' = DOMAIN world
          /\ world'.out = world.out /\ world'.missed = world.missed
      BY <3>1 DEF StreamdTypes, j
    <3>5. StreamdTypes'
      BY <3>2, <3>3, <3>4 DEF StreamdTypes
    <3>6. StreamdControl'
      BY <3>2, <3>3, <3>4 DEF StreamdTypes, StreamdControl, StreamdListed
    <3>7. StreamdCounted'
      <4>1. \A w \in 1..Windows : \A g \in args[w] : <<w, g>> \in Streamd!Job
        BY DEF StreamdTypes, Streamd!Job
      <4>2. \A k \in Streamd!Job : world'.job[k] = "end" <=> world.job[k] = "end"
        BY <3>3, <3>4 DEF StreamdTypes
      <4>3. \A w \in 1..Windows : StreamdOpen(w)' = StreamdOpen(w)
        BY <3>2, <4>1, <4>2 DEF StreamdOpen
      <4>4. QED
        BY <3>2, <4>3 DEF StreamdCounted
    <3>8. \A k \in Streamd!Job : (StreamdPast(k)' <=> StreamdPast(k))
      BY <3>3, <3>4 DEF StreamdTypes, StreamdPast
    <3>9. StreamdWritten'
      BY <3>4, <3>8 DEF StreamdTypes, StreamdWritten, StreamdIsOut
    <3>10. StreamdStored' = StreamdStored /\ StreamdThrough' = StreamdThrough
      BY <3>2, <3>3, <3>4 DEF StreamdTypes, StreamdStored, StreamdThrough
    <3>11. StreamdCount'
      BY <3>2, <3>3, <3>4, <3>10 DEF StreamdTypes, StreamdCount
    <3>12. QED
      BY <3>5, <3>6, <3>7, <3>9, <3>11
  <2>3. QED
    BY <2>1, <2>2
(* The goroutines.  What all their steps have in common comes first.       *)
<1>6. ASSUME NEW j \in Streamd!Job, Streamd!Goroutine(j)
      PROVE  StreamdInv'
  <2>1. world.job[j] \in {"run", "write", "load", "store", "done"} /\ UNCHANGED <<pc, args>>
    BY <1>6 DEF Streamd!Goroutine, Streamd!Search, Streamd!Write, Streamd!Load, Streamd!Store,
                Streamd!Done, Streamd!Goes, Streamd!Misses
  <2>2. j \in StreamdListed /\ j[1] = mem.idx /\ j[1] \in 1..Windows /\ j = <<j[1], j[2]>>
    <3>1. j \in StreamdListed /\ j[1] \in 1..Windows /\ j[1] \in Nat /\ args[j[1]] # {}
      BY <2>1, StreamdJob DEF StreamdControl, StreamdListed
    <3>2. mem.idx \in Nat /\ ~(j[1] > mem.idx) /\ ~(j[1] < mem.idx)
      BY <2>1, <3>1 DEF StreamdTypes, StreamdControl
    <3>3. QED
      BY <3>1, <3>2, StreamdJob
  <2>3. pc \notin {"list", "notify", "done", "dead"}
    BY <2>1, <2>2 DEF StreamdControl, StreamdListed
  <2>4. ASSUME NEW to \in {"write", "load", "store", "done", "end"},
               world'.job = [world.job EXCEPT ![j] = to], mem'.idx = mem.idx
        PROVE  StreamdControl' /\ StreamdListed' = StreamdListed
               /\ StreamdThrough' = StreamdThrough
    <3>1. StreamdListed' = StreamdListed /\ StreamdThrough' = StreamdThrough
      BY <2>1, <2>4 DEF StreamdListed, StreamdThrough
    <3>2. \A k \in Streamd!Job : world'.job[k] = IF k = j THEN to ELSE world.job[k]
      BY <2>4 DEF StreamdTypes
    <3>3. \A k \in StreamdListed : k \in Streamd!Job
      BY DEF StreamdListed
    <3>4. mem.idx \in Nat
      BY DEF StreamdTypes
    <3>5. QED
      BY <2>1, <2>2, <2>3, <2>4, <3>1, <3>2, <3>3, <3>4 DEF StreamdControl
  <2>5. ASSUME NEW to \in {"write", "load", "store", "done"},
               world'.job = [world.job EXCEPT ![j] = to], mem'.wg = mem.wg
        PROVE  StreamdCounted'
    <3>1. \A w \in 1..Windows : \A g \in args[w] : <<w, g>> \in Streamd!Job
      BY DEF StreamdTypes, Streamd!Job
    <3>2. \A k \in Streamd!Job : world'.job[k] = "end" <=> world.job[k] = "end"
      BY <2>1, <2>5 DEF StreamdTypes
    <3>3. \A w \in 1..Windows : StreamdOpen(w)' = StreamdOpen(w)
      BY <2>1, <3>1, <3>2 DEF StreamdOpen
    <3>4. QED
      BY <2>5, <3>3 DEF StreamdCounted
  <2>6. ASSUME NEW to \in {"write", "load"}, UNCHANGED mem,
               world.job[j] \in {"run", "write"},
               world'.job = [world.job EXCEPT ![j] = to]
        PROVE  StreamdCount'
    <3>1. StreamdStored' = StreamdStored
      BY <2>6 DEF StreamdTypes, StreamdStored
    <3>2. \A k \in Streamd!Job : world'.job[k] = "store" => world.job[k] = "store"
      BY <2>6 DEF StreamdTypes
    <3>3. StreamdThrough' = StreamdThrough
      BY <2>1, <2>6 DEF StreamdThrough
    <3>4. QED
      BY <2>6, <3>1, <3>2, <3>3 DEF StreamdCount
  <2>7. ASSUME NEW to, UNCHANGED <<world.out, world.missed>>,
               world'.job = [world.job EXCEPT ![j] = to],
               to \in {"load", "store", "done", "end"} <=> StreamdPast(j)
        PROVE  StreamdWritten'
    <3>1. \A k \in Streamd!Job : StreamdPast(k)' <=> StreamdPast(k)
      BY <2>7 DEF StreamdTypes, StreamdPast
    <3>2. QED
      BY <2>7, <3>1 DEF StreamdTypes, StreamdWritten, StreamdIsOut
  (* A command or a write that fails.                                      *)
  <2>8. ASSUME NEW from \in {"run", "write"}, Streamd!Misses(j, from, "load"), UNCHANGED mem
        PROVE  StreamdInv'
    <3>1. /\ world.job[j] = from /\ world'.job = [world.job EXCEPT ![j] = "load"]
          /\ world'.missed = world.missed \cup {j} /\ world'.out = world.out
          /\ DOMAIN world' = DOMAIN world
      BY <2>8 DEF Streamd!Misses, StreamdTypes
    <3>2. StreamdTypes'
      BY <2>1, <2>8, <3>1 DEF StreamdTypes
    <3>3. StreamdWritten'
      <4>1. ~StreamdPast(j) /\ StreamdPast(j)'
        BY <3>1 DEF StreamdTypes, StreamdPast
      <4>2. \A k \in Streamd!Job : k # j => (StreamdPast(k)' <=> StreamdPast(k))
        BY <3>1 DEF StreamdTypes, StreamdPast
      <4>3. \A k : StreamdIsOut(k)' <=> StreamdIsOut(k)
        BY <3>1 DEF StreamdIsOut
      <4>4. QED
        BY <3>1, <4>1, <4>2, <4>3 DEF StreamdTypes, StreamdWritten
    <3>4. QED
      BY <2>4, <2>5, <2>6, <2>8, <3>1, <3>2, <3>3
  <2>9. CASE Streamd!Search(j)
    <3>1. CASE Streamd!Goes(j, "run", "write")
      <4>1. /\ world.job[j] = "run" /\ world'.job = [world.job EXCEPT ![j] = "write"]
            /\ UNCHANGED <<mem, world.out, world.missed>> /\ DOMAIN world' = DOMAIN world
        BY <2>9, <3>1 DEF Streamd!Search, Streamd!Goes, StreamdTypes
      <4>2. StreamdTypes'
        BY <2>1, <4>1 DEF StreamdTypes
      <4>3. StreamdWritten'
        BY <2>7, <4>1 DEF StreamdPast
      <4>4. QED
        BY <2>4, <2>5, <2>6, <4>1, <4>2, <4>3
    <3>2. QED
      BY <2>8, <2>9, <3>1 DEF Streamd!Search
  <2>10. CASE Streamd!Write(j)
    <3>1. CASE world.job[j] = "write" /\ world' = [world EXCEPT !.job[j] = "load", !.out = Append(@, j)]
      <4>1. /\ world'.job = [world.job EXCEPT ![j] = "load"] /\ world'.missed = world.missed
            /\ world'.out = Append(world.out, j) /\ DOMAIN world' = DOMAIN world
            /\ UNCHANGED mem
        BY <2>10, <3>1 DEF Streamd!Write, StreamdTypes
      <4>2. /\ world'.out \in Seq(Streamd!Job)
            /\ DOMAIN world.out = 1..Len(world.out) /\ Len(world.out) \in Nat
            /\ DOMAIN world'.out = 1..(Len(world.out) + 1)
            /\ world'.out[Len(world.out) + 1] = j
            /\ \A i \in DOMAIN world.out : world'.out[i] = world.out[i]
        BY <4>1, AppendProperties, LenProperties DEF StreamdTypes
      <4>3. StreamdTypes'
        BY <2>1, <4>1, <4>2 DEF StreamdTypes
      <4>4. ~StreamdPast(j) /\ StreamdPast(j)'
        BY <3>1, <4>1 DEF StreamdTypes, StreamdPast
      <4>5. \A k \in Streamd!Job : k # j => (StreamdPast(k)' <=> StreamdPast(k))
        BY <4>1 DEF StreamdTypes, StreamdPast
      <4>6. \A k : StreamdIsOut(k)' <=> StreamdIsOut(k) \/ k = j
        BY <4>2 DEF StreamdIsOut
      <4>7. \A k \in Streamd!Job : StreamdIsOut(k)' <=> (StreamdPast(k) /\ k \notin world.missed)'
        BY <4>1, <4>4, <4>5, <4>6 DEF StreamdWritten
      <4>8. \A i \in DOMAIN world.out : world.out[i] # j /\ world.out[i][1] <= j[1]
        <5> SUFFICES ASSUME NEW i \in DOMAIN world.out
                     PROVE  world.out[i] # j /\ world.out[i][1] <= j[1]
          OBVIOUS
        <5>1. world.out[i] \in Streamd!Job /\ StreamdIsOut(world.out[i])
          BY <4>2 DEF StreamdTypes, StreamdIsOut
        <5>2. world.out[i] \in StreamdListed /\ StreamdPast(world.out[i])
          BY <5>1 DEF StreamdWritten, StreamdControl, StreamdPast
        <5>3. args[world.out[i][1]] # {} /\ world.out[i][1] \in 1..Windows /\ world.out[i][1] \in Nat
          BY <5>1, <5>2, StreamdJob DEF StreamdListed
        <5>4. mem.idx \in Nat /\ ~(world.out[i][1] > mem.idx)
          BY <5>3 DEF StreamdTypes, StreamdControl
        <5>5. QED
          BY <2>2, <4>4, <5>2, <5>3, <5>4
      <4>9. j[1] \in Nat
        BY StreamdJob
      <4>10. StreamdWritten'
        <5>1. \A k \in world'.missed : StreamdPast(k)'
          BY <4>1, <4>4, <4>5 DEF StreamdTypes, StreamdWritten
        <5>2. \A a \in DOMAIN world'.out : a = Len(world.out) + 1 \/ a \in DOMAIN world.out
          BY <4>2
        <5>3. \A a, b \in DOMAIN world'.out : world'.out[a] = world'.out[b] => a = b
          BY <4>2, <4>8, <5>2 DEF StreamdWritten
        <5>4. ASSUME NEW a \in DOMAIN world'.out, NEW b \in DOMAIN world'.out, a < b
              PROVE  world'.out[a][1] <= world'.out[b][1]
          <6>1. a \in DOMAIN world.out
            BY <4>2, <5>4
          <6>2. CASE b \in DOMAIN world.out
            BY <4>2, <5>4, <6>1, <6>2 DEF StreamdWritten
          <6>3. CASE b = Len(world.out) + 1
            BY <4>2, <4>8, <6>1, <6>3
          <6>4. QED
            BY <5>2, <6>2, <6>3
        <5>5. QED
          BY <4>7, <5>1, <5>3, <5>4 DEF StreamdWritten
      <4>11. QED
        BY <2>4, <2>5, <2>6, <3>1, <4>1, <4>3, <4>10
    <3>2. QED
      BY <2>8, <2>10, <3>1 DEF Streamd!Write
  (* count++.                                                              *)
  <2>11. IsFiniteSet(StreamdStored) /\ Cardinality(StreamdStored) \in Nat
         /\ Cardinality(StreamdThrough) \in Nat
    BY StreamdFinite DEF StreamdStored, StreamdThrough
  <2>12. CASE Streamd!Load(j)
    <3>1. /\ world.job[j] = "load" /\ world'.job = [world.job EXCEPT ![j] = "store"]
          /\ UNCHANGED <<world.out, world.missed>> /\ DOMAIN world' = DOMAIN world
          /\ mem'.loaded = [mem.loaded EXCEPT ![j] = mem.count] /\ mem'.idx = mem.idx
          /\ mem'.wg = mem.wg /\ mem'.count = mem.count /\ DOMAIN mem' = DOMAIN mem
      BY <2>12 DEF Streamd!Load, Streamd!Goes, StreamdTypes
    <3>2. StreamdTypes'
      BY <2>1, <3>1 DEF StreamdTypes
    <3>3. StreamdWritten'
      BY <2>7, <3>1 DEF StreamdPast
    <3>4. StreamdStored' = StreamdStored
      BY <3>1 DEF StreamdTypes, StreamdStored
    <3>5. \A k \in Streamd!Job : k # j =>
              mem'.loaded[k] = mem.loaded[k] /\ world'.job[k] = world.job[k]
      BY <3>1 DEF StreamdTypes
    <3>6. mem'.loaded[j] = mem.count
      BY <3>1 DEF StreamdTypes
    <3>7. StreamdThrough' = StreamdThrough
      BY <2>4, <3>1
    <3>8. StreamdCount'
      BY <3>1, <3>4, <3>5, <3>6, <3>7 DEF StreamdCount
    <3>9. QED
      BY <2>4, <2>5, <3>1, <3>2, <3>3, <3>8
  <2>13. CASE Streamd!Store(j)
    <3>1. /\ world.job[j] = "store" /\ world'.job = [world.job EXCEPT ![j] = "done"]
          /\ UNCHANGED <<world.out, world.missed>> /\ DOMAIN world' = DOMAIN world
          /\ mem'.count = mem.loaded[j] + 1 /\ mem'.loaded = mem.loaded
          /\ mem'.idx = mem.idx /\ mem'.wg = mem.wg /\ DOMAIN mem' = DOMAIN mem
      BY <2>13 DEF Streamd!Store, Streamd!Goes, StreamdTypes
    <3>2. mem.loaded[j] \in Nat
      BY DEF StreamdTypes
    <3>3. StreamdTypes'
      BY <2>1, <3>1, <3>2 DEF StreamdTypes
    <3>4. StreamdWritten'
      BY <2>7, <3>1 DEF StreamdPast
    <3>5. StreamdStored' = StreamdStored \cup {j} /\ j \notin StreamdStored
      BY <3>1 DEF StreamdTypes, StreamdStored
    <3>6. Cardinality(StreamdStored') = Cardinality(StreamdStored) + 1
      BY <2>11, <3>5, FS_AddElement
    <3>7. \A k \in Streamd!Job : world'.job[k] = "store" => world.job[k] = "store"
      BY <3>1 DEF StreamdTypes
    <3>8. StreamdThrough' = StreamdThrough
      BY <2>4, <3>1
    <3>9. \A k \in Streamd!Job : mem.loaded[k] \in Nat
      BY DEF StreamdTypes
    <3>10. StreamdCount'
      BY <2>11, <3>1, <3>2, <3>6, <3>7, <3>8, <3>9 DEF StreamdCount
    <3>11. QED
      BY <2>4, <2>5, <3>1, <3>3, <3>4, <3>10
  <2>14. CASE Streamd!Done(j)
    <3>1. /\ world.job[j] = "done" /\ world'.job = [world.job EXCEPT ![j] = "end"]
          /\ UNCHANGED <<world.out, world.missed>> /\ DOMAIN world' = DOMAIN world
          /\ mem'.wg = [mem.wg EXCEPT ![mem.idx] = @ - 1] /\ mem'.loaded = mem.loaded
          /\ mem'.idx = mem.idx /\ mem'.count = mem.count /\ DOMAIN mem' = DOMAIN mem
      BY <2>2, <2>14 DEF Streamd!Done, Streamd!Goes, StreamdTypes
    <3>2. StreamdTypes'
      <4>1. mem.idx \in 1..Windows /\ mem.wg \in [1..Windows -> Int]
        BY DEF StreamdTypes
      <4>2. mem.wg[mem.idx] \in Int
        BY <4>1
      <4>3. mem.wg[mem.idx] - 1 \in Int
        BY <4>2
      <4>4. mem'.wg \in [1..Windows -> Int]
        BY <3>1, <4>1, <4>3
      <4>5. QED
        BY <2>1, <3>1, <4>4 DEF StreamdTypes
    <3>3. StreamdWritten'
      BY <2>7, <3>1 DEF StreamdPast
    <3>4. StreamdStored' = StreamdStored
      BY <3>1 DEF StreamdTypes, StreamdStored
    <3>5. \A k \in Streamd!Job : world'.job[k] = "store" => world.job[k] = "store"
      BY <3>1 DEF StreamdTypes
    <3>6. StreamdThrough' = StreamdThrough
      BY <2>4, <3>1
    <3>7. StreamdCount'
      BY <3>1, <3>4, <3>5, <3>6 DEF StreamdCount
    <3>8. StreamdCounted'
      <4>1. \A w \in 1..Windows : \A g \in args[w] : <<w, g>> \in Streamd!Job
        BY DEF StreamdTypes, Streamd!Job
      <4>2. \A k \in Streamd!Job : world'.job[k] = "end" <=> world.job[k] = "end" \/ k = j
        BY <3>1 DEF StreamdTypes
      <4>3. StreamdOpen(mem.idx)' = StreamdOpen(mem.idx) \ {j[2]} /\ j[2] \in StreamdOpen(mem.idx)
        <5>1. j[2] \in args[mem.idx] /\ world.job[<<mem.idx, j[2]>>] # "end"
          BY <2>2, <3>1 DEF StreamdListed
        <5>2. \A g \in args[mem.idx] : <<mem.idx, g>> = j <=> g = j[2]
          BY <2>2
        <5>3. QED
          BY <2>1, <2>2, <3>1, <4>1, <4>2, <5>1, <5>2 DEF StreamdOpen
      <4>4. \A w \in 1..Windows : w # mem.idx => StreamdOpen(w)' = StreamdOpen(w)
        <5>1. \A g : \A w \in 1..Windows : w # mem.idx => <<w, g>> # j
          BY <2>2
        <5>2. QED
          BY <2>1, <4>1, <4>2, <5>1 DEF StreamdOpen
      <4>5. StreamdOpen(mem.idx) \in SUBSET Files
        BY <2>2 DEF StreamdTypes, StreamdOpen
      <4>6. Cardinality(StreamdOpen(mem.idx)') = Cardinality(StreamdOpen(mem.idx)) - 1
        BY <4>3, <4>5, StreamdFinite, FS_RemoveElement
      <4>7. \A w \in 1..Windows :
                mem'.wg[w] = IF w = mem.idx THEN mem.wg[w] - 1 ELSE mem.wg[w]
        <5>1. mem.wg \in [1..Windows -> Int]
          BY DEF StreamdTypes
        <5>2. QED
          BY <3>1, <5>1
      <4>8. QED
        BY <2>2, <3>1, <4>3, <4>4, <4>6, <4>7 DEF StreamdCounted
    <3>9. QED
      BY <2>4, <3>1, <3>2, <3>3, <3>7, <3>8
  <2>15. QED
    BY <1>6, <2>9, <2>10, <2>12, <2>13, <2>14 DEF Streamd!Goroutine
<1>7. QED
  BY <1>1, <1>2, <1>3, <1>4, <1>5, <1>6 DEF Streamd!Next, Streamd!Main

(* It implies that what was found is written once and the count within its *)
(* bounds.                                                                 *)
LEMMA StreamdProperties ==
    ASSUME StreamdInv
    PROVE  Streamd!Gathered /\ Streamd!CountWithin
<1> USE DEF StreamdInv
<1>1. ASSUME pc \in {"notify", "done", "dead"}
      PROVE  /\ Streamd!IsInjective(world.out)
             /\ Streamd!Range(world.out) = StreamdListed \ world.missed
             /\ \A a, b \in DOMAIN world.out : a < b => world.out[a][1] <= world.out[b][1]
  <2>1. \A j \in Streamd!Job : StreamdPast(j) <=> j \in StreamdListed
    BY <1>1 DEF StreamdControl, StreamdPast
  <2>2. \A j \in Streamd!Job : StreamdIsOut(j) <=> j \in StreamdListed \ world.missed
    BY <2>1 DEF StreamdWritten
  <2>3. \A i \in DOMAIN world.out : world.out[i] \in Streamd!Job
    BY LenProperties DEF StreamdTypes
  <2>4. Streamd!Range(world.out) = StreamdListed \ world.missed
    BY <2>2, <2>3 DEF Streamd!Range, StreamdIsOut, StreamdListed
  <2>5. QED
    BY <2>4 DEF StreamdWritten, Streamd!IsInjective
<1>2. ASSUME pc = "notify"
      PROVE  /\ Cardinality({w \in 1..Windows : args[w] # {}}) <= mem.count
             /\ mem.count <= Cardinality(StreamdListed)
  <2> DEFINE any == {w \in 1..Windows : args[w] # {}}
  <2>1. mem.idx = Windows /\ \A j \in StreamdListed : world.job[j] = "end"
    BY <1>2 DEF StreamdControl
  <2>2. StreamdStored \subseteq StreamdListed /\ StreamdListed \in SUBSET Streamd!Job
    BY DEF StreamdControl, StreamdStored, StreamdListed
  <2>3. Cardinality(StreamdStored) <= Cardinality(StreamdListed)
    BY <2>2, StreamdFinite, FS_Subset
  <2>4. StreamdThrough \in SUBSET (1..Windows) /\ Windows \notin StreamdThrough
    BY <2>1, StreamdAssumption DEF StreamdThrough
  <2>5. /\ IsFiniteSet(StreamdThrough) /\ Cardinality(StreamdThrough) \in Nat
        /\ Cardinality(StreamdListed) \in Nat /\ Cardinality(StreamdStored) \in Nat
    BY <2>2, <2>4, StreamdFinite
  <2>6. mem.count \in Nat
    BY DEF StreamdTypes
  <2>7. any = IF args[Windows] # {} THEN StreamdThrough \cup {Windows} ELSE StreamdThrough
    BY <2>1, StreamdAssumption DEF StreamdThrough
  <2>8. args[Windows] # {} => Cardinality(StreamdThrough) < mem.count
    <3>1. ASSUME NEW f \in args[Windows]
          PROVE  <<Windows, f>> \in StreamdStored /\ <<Windows, f>>[1] = Windows
      <4>1. <<Windows, f>> \in StreamdListed
        BY <3>1, StreamdAssumption DEF StreamdTypes, StreamdListed, Streamd!Job
      <4>2. QED
        BY <2>1, <4>1 DEF StreamdListed, StreamdStored
    <3>2. QED
      BY <2>1, <3>1 DEF StreamdCount
  <2>9. Cardinality(StreamdThrough \cup {Windows}) = Cardinality(StreamdThrough) + 1
    BY <2>4, <2>5, FS_AddElement
  <2> HIDE DEF any
  <2>10. Cardinality(any) <= mem.count
    BY <2>5, <2>6, <2>7, <2>8, <2>9 DEF StreamdCount
  <2>11. mem.count <= Cardinality(StreamdListed)
    BY <2>3, <2>5, <2>6 DEF StreamdCount
  <2>12. QED
    BY <2>10, <2>11 DEF any
<1>3. QED
  BY <1>1, <1>2, StreamdCardinality
     DEF Streamd!Gathered, Streamd!CountWithin, StreamdListed

-----------------------------------------------------------------------------
(* statistics.                                                             *)

(* Two sequences, one after the other.                                     *)
LEMMA Joined ==
    ASSUME NEW S, NEW s \in Seq(S), NEW t \in Seq(S)
    PROVE  /\ s \o t \in Seq(S) /\ Len(s \o t) = Len(s) + Len(t)
           /\ \A i \in 1..Len(s) : (s \o t)[i] = s[i]
           /\ \A i \in 1..Len(t) : (s \o t)[Len(s) + i] = t[i]
           /\ Len(s) \in Nat /\ Len(t) \in Nat /\ Len(s \o t) \in Nat
           /\ DOMAIN s = 1..Len(s) /\ DOMAIN t = 1..Len(t)
           /\ DOMAIN (s \o t) = 1..Len(s \o t)
           /\ Stat!Range(s \o t) = Stat!Range(s) \cup Stat!Range(t)
<1> DEFINE u == s \o t
           m == Len(s)
<1>1. /\ u \in Seq(S) /\ Len(u) = m + Len(t)
      /\ m \in Nat /\ Len(t) \in Nat /\ Len(u) \in Nat
      /\ DOMAIN s = 1..m /\ DOMAIN t = 1..Len(t) /\ DOMAIN u = 1..Len(u)
  OBVIOUS
<1>2. /\ \A i \in 1..m : u[i] = s[i]
      /\ \A i \in 1..Len(t) : u[m + i] = t[i]
  BY ConcatProperties
<1> HIDE DEF u, m
<1>3. \A i \in 1..Len(u) : i \in 1..m \/ (i - m \in 1..Len(t) /\ m + (i - m) = i)
  BY <1>1
<1>4. /\ \A i \in 1..m : i \in 1..Len(u)
      /\ \A i \in 1..Len(t) : m + i \in 1..Len(u)
  BY <1>1
<1>5. Stat!Range(u) = Stat!Range(s) \cup Stat!Range(t)
  <2>1. ASSUME NEW x \in Stat!Range(u)
        PROVE  x \in Stat!Range(s) \cup Stat!Range(t)
    <3>1. PICK i \in 1..Len(u) : u[i] = x
      BY <1>1, <2>1 DEF Stat!Range
    <3>2. CASE i \in 1..m
      BY <1>1, <1>2, <3>1, <3>2 DEF Stat!Range
    <3>3. CASE i - m \in 1..Len(t) /\ m + (i - m) = i
      <4>1. t[i - m] = x
        BY <1>2, <3>1, <3>3
      <4>2. QED
        BY <1>1, <3>3, <4>1 DEF Stat!Range
    <3>4. QED
      BY <1>3, <3>2, <3>3
  <2>2. \A i \in 1..m : s[i] \in Stat!Range(u)
    BY <1>1, <1>2, <1>4 DEF Stat!Range
  <2>3. \A i \in 1..Len(t) : t[i] \in Stat!Range(u)
    BY <1>1, <1>2, <1>4 DEF Stat!Range
  <2>4. QED
    BY <1>1, <2>1, <2>2, <2>3 DEF Stat!Range
<1>6. QED
  BY <1>1, <1>2, <1>5 DEF u, m

(* kept holds what is kept of the first elements of a list.                *)
StatKeeps(kept, list, set) ==
    kept = [i \in 0..Len(list) |->
                IF i = 0 THEN <<>>
                ELSE IF list[i] \in set THEN Append(kept[i - 1], list[i]) ELSE kept[i - 1]]

LEMMA StatKeepsExists ==
    ASSUME NEW S, NEW list \in Seq(S), NEW set
    PROVE  \E kept : StatKeeps(kept, list, set)
<1> DEFINE m == Len(list)
           Step(k, i) == IF list[i] \in set THEN Append(k[i - 1], list[i]) ELSE k[i - 1]
           IsKept(k, n) == k = [i \in 0..n |-> IF i = 0 THEN <<>> ELSE Step(k, i)]
           T == {n \in Nat : n <= m => \E k : IsKept(k, n)}
<1>0. m \in Nat
  OBVIOUS
<1> HIDE DEF m
<1>1. 0 \in T
  <2>1. IsKept([i \in 0..0 |-> <<>>], 0)
    OBVIOUS
  <2>2. QED
    BY <2>1
<1>2. ASSUME NEW n \in Nat, n \in T
      PROVE  n + 1 \in T
  <2> SUFFICES ASSUME n + 1 <= m
               PROVE  \E k : IsKept(k, n + 1)
    <3> HIDE DEF IsKept
    <3> QED
      OBVIOUS
  <2>1. PICK k : IsKept(k, n)
    <3>1. n <= m
      BY <1>0
    <3>2. QED
      BY <1>2, <3>1
  <2> DEFINE u == [i \in 0..(n + 1) |-> IF i = n + 1 THEN Step(k, n + 1) ELSE k[i]]
  <2>2. ASSUME NEW i \in 0..(n + 1)
        PROVE  u[i] = IF i = 0 THEN <<>> ELSE Step(u, i)
    <3>1. CASE i = n + 1
      BY <3>1
    <3>2. CASE i # n + 1
      <4>1. i \in 0..n /\ u[i] = k[i]
        BY <3>2
      <4>2. k[i] = IF i = 0 THEN <<>> ELSE Step(k, i)
        BY <2>1, <4>1
      <4>3. i # 0 => u[i - 1] = k[i - 1]
        BY <4>1
      <4>4. QED
        BY <4>1, <4>2, <4>3
    <3>3. QED
      BY <3>1, <3>2
  <2>3. IsKept(u, n + 1)
    BY <2>2
  <2>4. QED
    BY <2>3
<1>3. \A n \in Nat : n \in T
  <2> HIDE DEF T
  <2> QED
    BY <1>1, <1>2, SetInduction
<1>4. m \in T
  BY <1>0, <1>3
<1>5. \E k : IsKept(k, m)
  BY <1>0, <1>4
<1>6. QED
  BY <1>5 DEF StatKeeps, m

(* What is kept are the elements of the list that are in the set, and none *)
(* twice that was not in the list twice.                                   *)
LEMMA StatKeepsAll ==
    ASSUME NEW S, NEW list \in Seq(S), NEW set, NEW kept, StatKeeps(kept, list, set)
    PROVE  /\ kept[Len(list)] \in Seq(S)
           /\ Stat!Range(kept[Len(list)]) = Stat!Range(list) \cap set
           /\ Stat!IsInjective(list) => Stat!IsInjective(kept[Len(list)])
<1> DEFINE Here(i) == {list[j] : j \in 1..i}
<1>1. StatKeeps(kept, list, set)
  OBVIOUS
<1> DEFINE T == {i \in Nat : i <= Len(list) =>
                    /\ kept[i] \in Seq(S)
                    /\ Stat!Range(kept[i]) = Here(i) \cap set
                    /\ Stat!IsInjective(list) => Stat!IsInjective(kept[i])}
<1>3. 0 \in T
  <2>1. kept[0] = <<>>
    BY <1>1 DEF StatKeeps
  <2>2. Here(0) = {} /\ DOMAIN kept[0] = {} /\ kept[0] \in Seq(S)
    BY <2>1
  <2>3. Stat!Range(kept[0]) = {} /\ Stat!IsInjective(kept[0])
    BY <2>2 DEF Stat!Range, Stat!IsInjective
  <2>4. QED
    BY <2>2, <2>3
<1>4. ASSUME NEW i \in Nat, i \in T
      PROVE  i + 1 \in T
  <2> SUFFICES ASSUME i + 1 <= Len(list)
               PROVE  /\ kept[i + 1] \in Seq(S)
                      /\ Stat!Range(kept[i + 1]) = Here(i + 1) \cap set
                      /\ Stat!IsInjective(list) => Stat!IsInjective(kept[i + 1])
    OBVIOUS
  <2> DEFINE x == list[i + 1]
             s == kept[i]
  <2>1. kept[i + 1] = IF x \in set THEN Append(s, x) ELSE s
    <3>1. i + 1 \in 0..Len(list) /\ i + 1 # 0 /\ (i + 1) - 1 = i
      OBVIOUS
    <3>2. QED
      BY <1>1, <3>1 DEF StatKeeps
  <2>2. /\ s \in Seq(S)
        /\ Stat!Range(s) = Here(i) \cap set
        /\ Stat!IsInjective(list) => Stat!IsInjective(s)
    BY <1>4
  <2>3. x \in S /\ i + 1 \in DOMAIN list
    OBVIOUS
  <2>4. Here(i + 1) = Here(i) \cup {x}
    <3>1. 1..(i + 1) = 1..i \cup {i + 1}
      OBVIOUS
    <3>2. QED
      BY <3>1
  <2>5. Stat!IsInjective(list) => x \notin Here(i)
    <3>1. \A j \in 1..i : j \in DOMAIN list /\ j # i + 1
      OBVIOUS
    <3>2. QED
      BY <2>3, <3>1 DEF Stat!IsInjective
  <2>6. CASE x \in set
    <3> DEFINE t == Append(s, x)
    <3>1. /\ t \in Seq(S) /\ DOMAIN t = 1..(Len(s) + 1) /\ DOMAIN s = 1..Len(s)
          /\ \A j \in 1..Len(s) : t[j] = s[j]
          /\ t[Len(s) + 1] = x /\ Len(s) \in Nat
      BY <2>2, <2>3, AppendProperties, LenProperties
    <3>2. kept[i + 1] = t
      BY <2>1, <2>6
    <3> HIDE DEF t, s, x
    <3>3. Stat!Range(t) = Stat!Range(s) \cup {x}
      <4>1. DOMAIN t = DOMAIN s \cup {Len(s) + 1}
        BY <3>1
      <4>2. QED
        BY <3>1, <4>1 DEF Stat!Range
    <3>4. ASSUME Stat!IsInjective(list)
          PROVE  Stat!IsInjective(t)
      <4>1. \A j \in DOMAIN s : s[j] # x
        BY <2>2, <2>5, <3>4 DEF Stat!Range
      <4>2. \A j, k \in 1..Len(s) : s[j] = s[k] => j = k
        BY <2>2, <3>1, <3>4 DEF Stat!IsInjective
      <4>3. QED
        BY <3>1, <4>1, <4>2 DEF Stat!IsInjective
    <3>5. QED
      BY <2>2, <2>4, <2>6, <3>1, <3>2, <3>3, <3>4
  <2>7. CASE x \notin set
    BY <2>1, <2>2, <2>4, <2>7
  <2>8. QED
    BY <2>6, <2>7
<1>5. \A i \in Nat : i \in T
  <2> HIDE DEF T
  <2> QED
    BY <1>3, <1>4, SetInduction
<1>6. Len(list) \in Nat /\ DOMAIN list = 1..Len(list)
  OBVIOUS
<1>7. /\ kept[Len(list)] \in Seq(S)
      /\ Stat!Range(kept[Len(list)]) = Here(Len(list)) \cap set
      /\ Stat!IsInjective(list) => Stat!IsInjective(kept[Len(list)])
  <2>1. Len(list) \in T /\ Len(list) <= Len(list)
    <3> HIDE DEF T
    <3> QED
      BY <1>5, <1>6
  <2>2. QED
    BY <2>1
<1>8. Here(Len(list)) = Stat!Range(list)
  BY <1>6 DEF Stat!Range
<1>9. QED
  BY <1>7, <1>8

LEMMA StatKept ==
    ASSUME NEW S, NEW list \in Seq(S), NEW set
    PROVE  /\ Stat!Kept(list, set) \in Seq(S)
           /\ Stat!Range(Stat!Kept(list, set)) = Stat!Range(list) \cap set
           /\ Stat!IsInjective(list) => Stat!IsInjective(Stat!Kept(list, set))
<1> DEFINE kept == CHOOSE k : StatKeeps(k, list, set)
<1>1. StatKeeps(kept, list, set)
  BY StatKeepsExists
<1>2. Stat!Kept(list, set) = kept[Len(list)]
  BY DEF Stat!Kept, StatKeeps
<1> HIDE DEF kept
<1>3. QED
  BY <1>1, <1>2, StatKeepsAll

(* The lists of the server and what was fetched of them.                   *)
StatTypes ==
    /\ pc \in {"namespaces", "streams", "write", "done", "dead"}
    /\ DOMAIN world = {"namespaces", "streams", "out", "changes", "disturbed"}
    /\ world.namespaces \in Seq(Namespaces) /\ world.streams \in [Namespaces -> Seq(NsStreams)]
    /\ world.out \in Seq(Stat!Stream) /\ world.changes \in Nat
    /\ DOMAIN mem = {"offset", "total", "namespaces", "todo", "got", "streams"}
    /\ mem.offset \in Nat /\ mem.total \in Nat /\ mem.namespaces \in Seq(Namespaces)
    /\ mem.todo \in Seq(Namespaces)
    /\ mem.got \in Seq(Stat!Stream) /\ mem.streams \in Seq(Stat!Stream)

StatWanted == Stat!Wanted(world.namespaces, world.streams)
StatItem(n, i) == <<n, world.streams[n][i]>>

(* What should be written is on the server until something is deleted, and *)
(* nothing else is while nothing changes: no list has anything twice.      *)
StatServer ==
    /\ world.changes = 0 => ~world.disturbed
    /\ ~world.disturbed => args \subseteq StatWanted
    /\ world.changes = 0 =>
          /\ args = StatWanted
          /\ Stat!IsInjective(world.namespaces)
          /\ \A n \in Namespaces : Stat!IsInjective(world.streams[n])

(* The namespaces before the offset have been fetched.                     *)
StatNamespaces ==
    pc = "namespaces" =>
        /\ mem.got = <<>> /\ mem.streams = <<>>
        /\ ~world.disturbed =>
              /\ Len(mem.namespaces) = mem.offset
              /\ mem.offset <= Len(world.namespaces)
              /\ \A i \in 1..mem.offset : mem.namespaces[i] = world.namespaces[i]
              /\ mem.total \in {0, Len(world.namespaces)}

(* Until something is deleted, a stream that should be written is of a     *)
(* namespace still to do, or was fetched; of the namespace that is being   *)
(* done, those before the offset were.                                     *)
StatFetched ==
    pc \in {"streams", "write"} /\ ~world.disturbed =>
        /\ pc = "streams" \/ mem.todo = <<>> =>
              \A s \in args : s[1] \in Stat!Range(mem.todo) \/ s \in Stat!Range(mem.streams)
        /\ pc = "streams" /\ mem.todo # <<>> =>
              LET n == Head(mem.todo) IN
              /\ mem.offset <= Len(world.streams[n])
              /\ \A i \in 1..mem.offset :
                    StatItem(n, i) \in args => StatItem(n, i) \in Stat!Range(mem.got)

(* While nothing changes, what was fetched is on the server and is fetched *)
(* once.                                                                   *)
StatOnce ==
    pc \in {"streams", "write"} /\ world.changes = 0 =>
        /\ Stat!IsInjective(mem.todo) /\ Stat!IsInjective(mem.streams)
        /\ Stat!Range(mem.todo) \subseteq Rtmp \cap Stat!Range(world.namespaces)
        /\ \A s \in Stat!Range(mem.streams) :
              /\ s[1] \in Rtmp \cap Stat!Range(world.namespaces)
              /\ s[1] \notin Stat!Range(mem.todo)
              /\ s[2] \in Stat!Range(world.streams[s[1]])
        /\ pc = "streams" /\ mem.todo # <<>> =>
              /\ Len(mem.got) = mem.offset
              /\ \A i \in 1..mem.offset : mem.got[i] = StatItem(Head(mem.todo), i)

StatInv ==
    /\ StatTypes /\ StatServer /\ StatNamespaces /\ StatFetched /\ StatOnce
    /\ pc = "write" /\ mem.todo # <<>> => mem.streams = <<>>
    /\ Stat!AllOrNothing

(* With, Without and a page, element by element.                           *)
LEMMA StatInserted ==
    ASSUME NEW S, NEW s \in Seq(S), NEW k \in 1..(Len(s) + 1), NEW x \in S
    PROVE  LET t == Stat!With(s, k, x) IN
           /\ t \in Seq(S) /\ Len(t) = Len(s) + 1
           /\ t[k] = x
           /\ \A i \in 1..(k - 1) : t[i] = s[i]
           /\ \A i \in k..Len(s) : t[i + 1] = s[i]
<1> DEFINE a == SubSeq(s, 1, k - 1)
           b == SubSeq(s, k, Len(s))
           t == Stat!With(s, k, x)
<1>1. Len(s) \in Nat /\ k \in Int /\ k - 1 \in Int /\ \A i \in 1..Len(s) : s[i] \in S
  OBVIOUS
<1>2. /\ a \in Seq(S) /\ Len(a) = k - 1
      /\ \A i \in 1..(k - 1) : a[i] = s[i]
  <2>1. \A i \in 1..(k - 1) : s[i] \in S
    BY <1>1
  <2>2. QED
    BY <1>1, <2>1, SubSeqProperties
<1>3. /\ b \in Seq(S) /\ Len(b) = Len(s) - k + 1
      /\ \A i \in 1..(Len(s) - k + 1) : b[i] = s[k + i - 1]
  <2>1. \A i \in k..Len(s) : s[i] \in S
    BY <1>1
  <2>2. QED
    BY <1>1, <2>1, SubSeqProperties
<1>4. t = (a \o <<x>>) \o b
  BY DEF Stat!With
<1> HIDE DEF a, b, t
<1>5. <<x>> \in Seq(S) /\ Len(<<x>>) = 1
  OBVIOUS
<1>6. /\ a \o <<x>> \in Seq(S) /\ Len(a \o <<x>>) = k
      /\ \A i \in 1..(k - 1) : (a \o <<x>>)[i] = s[i]
      /\ (a \o <<x>>)[k] = x
  BY <1>1, <1>2, <1>5
<1> DEFINE c == a \o <<x>>
<1>7. c \in Seq(S) /\ Len(c) = k /\ (\A i \in 1..(k - 1) : c[i] = s[i]) /\ c[k] = x
  BY <1>6
<1> HIDE DEF c
<1>8. t = c \o b
  BY <1>4 DEF c
<1>9. /\ t \in Seq(S) /\ Len(t) = k + (Len(s) - k + 1)
      /\ \A i \in 1..k : t[i] = c[i]
      /\ \A i \in (k + 1)..(Len(s) + 1) : t[i] = b[i - k]
  BY <1>1, <1>3, <1>7, <1>8
<1>10. \A i \in k..Len(s) : t[i + 1] = s[i]
  <2> SUFFICES ASSUME NEW i \in k..Len(s)
               PROVE  t[i + 1] = s[i]
    OBVIOUS
  <2>1. i + 1 \in (k + 1)..(Len(s) + 1) /\ (i + 1) - k \in 1..(Len(s) - k + 1)
        /\ k + ((i + 1) - k) - 1 = i
    BY <1>1
  <2>2. QED
    BY <1>3, <1>9, <2>1
<1>11. QED
  BY <1>1, <1>7, <1>9, <1>10 DEF t

LEMMA StatRemoved ==
    ASSUME NEW S, NEW s \in Seq(S), NEW k \in DOMAIN s
    PROVE  Stat!Without(s, k) \in Seq(S)
<1>1. Len(s) \in Nat /\ k \in 1..Len(s)
  OBVIOUS
<1>2. SubSeq(s, 1, k - 1) \in Seq(S)
  <2>1. \A i \in 1..(k - 1) : s[i] \in S
    BY <1>1
  <2>2. QED
    BY <1>1, <2>1, SubSeqProperties
<1>3. SubSeq(s, k + 1, Len(s)) \in Seq(S)
  <2>1. \A i \in (k + 1)..Len(s) : s[i] \in S
    BY <1>1
  <2>2. QED
    BY <1>1, <2>1, SubSeqProperties
<1>4. QED
  BY <1>2, <1>3, ConcatProperties DEF Stat!Without

LEMMA StatPage ==
    ASSUME mem.offset \in Nat, NEW S, NEW list \in Seq(S), NEW size \in Nat
    PROVE  LET page == Stat!Page(list, size) IN
           /\ page \in Seq(S)
           /\ mem.offset <= Len(list) =>
                 /\ Len(page) = IF mem.offset + size < Len(list) THEN size
                                ELSE Len(list) - mem.offset
                 /\ \A i \in 1..Len(page) : page[i] = list[mem.offset + i]
<1> DEFINE m == mem.offset + 1
           n == IF mem.offset + size < Len(list) THEN mem.offset + size ELSE Len(list)
           page == Stat!Page(list, size)
<1>1. page = SubSeq(list, m, n)
  BY DEF Stat!Page
<1>2. m \in Int /\ n \in Int /\ Len(list) \in Nat
  OBVIOUS
<1>3. \A i \in m..n : list[i] \in S
  <2>1. \A i \in m..n : i \in 1..Len(list)
    OBVIOUS
  <2>2. QED
    BY <2>1
<1>4. /\ page \in Seq(S)
      /\ Len(page) = IF m <= n THEN n - m + 1 ELSE 0
      /\ \A i \in 1..(n - m + 1) : page[i] = list[m + i - 1]
  <2> HIDE DEF m, n, page
  <2>1. QED
    BY <1>1, <1>2, <1>3, SubSeqProperties
<1> HIDE DEF page
<1>5. ASSUME mem.offset <= Len(list)
      PROVE  /\ Len(page) = n - m + 1
             /\ n - m + 1 = IF mem.offset + size < Len(list) THEN size
                            ELSE Len(list) - mem.offset
  <2>1. n - m + 1 = IF mem.offset + size < Len(list) THEN size
                    ELSE Len(list) - mem.offset
    BY <1>2
  <2>2. m <= n => Len(page) = n - m + 1
    BY <1>4
  <2>3. ~(m <= n) => Len(page) = 0 /\ n - m + 1 = 0
    BY <1>2, <1>4, <1>5
  <2>4. QED
    BY <2>1, <2>2, <2>3
<1>6. \A i \in Nat : m + i - 1 = mem.offset + i
  OBVIOUS
<1>7. ASSUME mem.offset <= Len(list), NEW i \in 1..Len(page)
      PROVE  page[i] = list[mem.offset + i]
  <2>1. Len(page) = n - m + 1
    BY <1>5, <1>7
  <2>2. page[i] = list[m + i - 1]
    BY <1>4, <2>1
  <2>3. i \in Nat
    BY <1>4
  <2>4. QED
    BY <1>6, <2>2, <2>3
<1>8. QED
  BY <1>4, <1>5, <1>7 DEF page

LEMMA StatInit == Stat!Init => StatInv
<1> SUFFICES ASSUME Stat!Init
             PROVE  StatInv
  OBVIOUS
<1>1. /\ world.namespaces \in NsAtStart /\ world.streams \in StreamsAtStart
      /\ world.out = <<>> /\ world.changes = 0 /\ world.disturbed = FALSE
      /\ world = [namespaces |-> world.namespaces, streams |-> world.streams,
                  out |-> <<>>, changes |-> 0, disturbed |-> FALSE]
  BY DEF Stat!Init
<1>2. /\ world.namespaces \in Seq(Namespaces) /\ Stat!IsInjective(world.namespaces)
      /\ world.streams \in [Namespaces -> Seq(NsStreams)]
      /\ \A n \in Namespaces : Stat!IsInjective(world.streams[n])
  BY <1>1, StatAssumption
<1>3. StatTypes
  <2>1. /\ world.namespaces \in Seq(Namespaces)
        /\ world.streams \in [Namespaces -> Seq(NsStreams)]
        /\ world.out \in Seq(Stat!Stream) /\ world.changes \in Nat
        /\ DOMAIN world = {"namespaces", "streams", "out", "changes", "disturbed"}
    <3>1. <<>> \in Seq(Stat!Stream)
      OBVIOUS
    <3>2. DOMAIN world = {"namespaces", "streams", "out", "changes", "disturbed"}
      BY <1>1
    <3>3. QED
      BY <1>1, <1>2, <3>1, <3>2
  <2>2. /\ mem.offset = 0 /\ mem.total = 0 /\ mem.namespaces = <<>> /\ mem.todo = <<>>
        /\ mem.got = <<>> /\ mem.streams = <<>> /\ pc = "namespaces"
        /\ DOMAIN mem = {"offset", "total", "namespaces", "todo", "got", "streams"}
    BY DEF Stat!Init
  <2>3. QED
    BY <2>1, <2>2 DEF StatTypes
<1>4. StatServer
  BY <1>1, <1>2 DEF Stat!Init, StatServer, StatWanted
<1>5. StatNamespaces
  BY <1>2 DEF Stat!Init, StatNamespaces
<1>6. QED
  BY <1>3, <1>4, <1>5 DEF Stat!Init, StatInv, StatFetched, StatOnce, Stat!AllOrNothing

(* After a deletion, or an insertion of a namespace, only the types count. *)
LEMMA StatDisturbed ==
    ASSUME StatInv, StatTypes', world'.disturbed, world'.changes # 0,
           world'.out = world.out, UNCHANGED <<pc, args, mem>>
    PROVE  StatInv'
<1>1. StatServer' /\ StatNamespaces' /\ StatFetched' /\ StatOnce'
  BY DEF StatInv, StatServer, StatNamespaces, StatFetched, StatOnce
<1>2. Stat!AllOrNothing'
  BY DEF StatInv, Stat!AllOrNothing
<1>3. QED
  BY <1>1, <1>2 DEF StatInv

LEMMA StatInsert ==
    ASSUME StatInv, Stat!Insert
    PROVE  StatInv'
<1>1. UNCHANGED <<pc, args, mem>>
  BY DEF Stat!Insert
<1>2. world.changes \in Nat /\ world.changes + 1 # 0
  BY DEF StatInv, StatTypes
<1>3. CASE \E list \in Stat!Inserted(world.namespaces, Namespaces) :
             world' = [world EXCEPT !.changes = @ + 1, !.namespaces = list,
                                    !.disturbed = TRUE]
  <2>1. PICK list \in Stat!Inserted(world.namespaces, Namespaces) :
            world' = [world EXCEPT !.changes = @ + 1, !.namespaces = list,
                                   !.disturbed = TRUE]
    BY <1>3
  <2>2. list \in Seq(Namespaces)
    BY StatInserted DEF StatInv, StatTypes, Stat!Inserted
  <2>3. StatTypes'
    <3>1. /\ world'.namespaces = list /\ world'.streams = world.streams
          /\ world'.out = world.out /\ world'.changes = world.changes + 1
          /\ world'.disturbed = TRUE /\ DOMAIN world' = DOMAIN world
      BY <2>1 DEF StatInv, StatTypes
    <3>2. DOMAIN world' = {"namespaces", "streams", "out", "changes", "disturbed"}
      BY <3>1 DEF StatInv, StatTypes
    <3>3. /\ world'.streams \in [Namespaces -> Seq(NsStreams)] /\ world'.out \in Seq(Stat!Stream)
          /\ world'.changes \in Nat
      BY <1>2, <3>1 DEF StatInv, StatTypes
    <3>4. QED
      BY <1>1, <2>2, <3>1, <3>2, <3>3 DEF StatInv, StatTypes
  <2>4. world'.disturbed /\ world'.changes # 0 /\ world'.out = world.out
    BY <1>2, <2>1 DEF StatInv, StatTypes
  <2>5. QED
    BY <1>1, <2>3, <2>4, StatDisturbed
<1>4. ASSUME NEW n \in Stat!Range(world.namespaces),
             NEW t \in Stat!Inserted(world.streams[n], NsStreams),
             world' = [world EXCEPT !.changes = @ + 1, !.streams[n] = t]
      PROVE  StatInv'
  <2> DEFINE s == world.streams[n]
  <2>1. n \in Namespaces /\ s \in Seq(NsStreams) /\ Len(s) \in Nat /\ DOMAIN s = 1..Len(s)
    BY <1>4 DEF StatInv, StatTypes, Stat!Range
  <2> HIDE DEF s
  <2>2. PICK k \in 1..(Len(s) + 1), x \in NsStreams \ Stat!Range(s) :
            t = Stat!With(s, k, x)
    BY <1>4 DEF Stat!Inserted, s
  <2>3. /\ t \in Seq(NsStreams) /\ Len(t) = Len(s) + 1 /\ DOMAIN t = 1..(Len(s) + 1)
        /\ t[k] = x
        /\ \A i \in 1..(k - 1) : t[i] = s[i]
        /\ \A i \in k..Len(s) : t[i + 1] = s[i]
    BY <2>1, <2>2, StatInserted
  <2>4. /\ world'.namespaces = world.namespaces /\ world'.out = world.out
        /\ world'.disturbed = world.disturbed /\ world'.changes = world.changes + 1
        /\ \A m \in Namespaces : world'.streams[m] = IF m = n THEN t ELSE world.streams[m]
        /\ world'.streams \in [Namespaces -> Seq(NsStreams)]
    BY <1>4, <2>1, <2>3 DEF StatInv, StatTypes
  <2>5. StatTypes'
    <3>1. DOMAIN world' = {"namespaces", "streams", "out", "changes", "disturbed"}
      BY <1>4 DEF StatInv, StatTypes
    <3>2. world'.changes \in Nat /\ world'.namespaces \in Seq(Namespaces)
          /\ world'.out \in Seq(Stat!Stream)
      BY <1>2, <2>4 DEF StatInv, StatTypes
    <3>3. QED
      BY <1>1, <2>4, <3>1, <3>2 DEF StatInv, StatTypes
  <2>6. \A i \in 1..Len(s) : \E j \in 1..Len(t) : t[j] = s[i]
    <3> SUFFICES ASSUME NEW i \in 1..Len(s)
                 PROVE  \E j \in 1..Len(t) : t[j] = s[i]
      OBVIOUS
    <3>1. CASE i < k
      BY <2>1, <2>3, <3>1
    <3>2. CASE i >= k
      <4>1. i + 1 \in 1..Len(t) /\ t[i + 1] = s[i]
        BY <2>1, <2>3, <3>2
      <4>2. QED
        BY <4>1
    <3>3. QED
      BY <2>1, <3>1, <3>2
  <2>7. Stat!Range(s) \subseteq Stat!Range(t)
    BY <2>1, <2>3, <2>6 DEF Stat!Range
  <2>8. ~world.disturbed => args \subseteq StatWanted'
    <3> SUFFICES ASSUME ~world.disturbed, NEW a \in args
                 PROVE  a \in StatWanted'
      OBVIOUS
    <3>1. a \in StatWanted
      BY DEF StatInv, StatServer
    <3>2. a[1] \in Namespaces /\ a[2] \in Stat!Range(world.streams[a[1]])
      BY <3>1 DEF StatWanted, Stat!Wanted, Stat!Stream
    <3>3. a[2] \in Stat!Range(world'.streams[a[1]])
      BY <2>4, <2>7, <3>2 DEF s
    <3>4. QED
      BY <2>4, <3>1, <3>3 DEF StatWanted, Stat!Wanted
  <2>9. StatServer'
    BY <1>1, <1>2, <2>4, <2>8 DEF StatInv, StatServer
  <2>10. StatNamespaces'
    BY <1>1, <2>4 DEF StatInv, StatNamespaces
  <2>11. StatFetched'
    <3> SUFFICES ASSUME pc = "streams", ~world.disturbed, mem.todo # <<>>
                 PROVE  /\ mem.offset <= Len(world'.streams[Head(mem.todo)])
                        /\ \A i \in 1..mem.offset :
                              <<Head(mem.todo), world'.streams[Head(mem.todo)][i]>> \in args
                              => <<Head(mem.todo), world'.streams[Head(mem.todo)][i]>>
                                     \in Stat!Range(mem.got)
      BY <1>1, <2>4 DEF StatInv, StatFetched, StatItem
    <3> DEFINE h == Head(mem.todo)
    <3>1. h \in Namespaces
      BY DEF StatInv, StatTypes
    <3>2. /\ mem.offset <= Len(world.streams[h])
          /\ \A i \in 1..mem.offset :
                StatItem(h, i) \in args => StatItem(h, i) \in Stat!Range(mem.got)
      BY DEF StatInv, StatFetched
    <3>3. CASE h # n
      <4>1. world'.streams[h] = world.streams[h]
        BY <2>4, <3>1, <3>3
      <4>2. QED
        BY <3>2, <4>1 DEF StatItem
    <3>4. CASE h = n
      <4>1. world'.streams[h] = t /\ mem.offset \in Nat /\ mem.offset <= Len(s)
        BY <2>1, <2>4, <3>2, <3>4 DEF s, StatInv, StatTypes
      <4>2. mem.offset <= Len(t)
        BY <2>1, <2>3, <4>1
      <4>3. ASSUME NEW i \in 1..mem.offset, <<h, t[i]>> \in args
            PROVE  <<h, t[i]>> \in Stat!Range(mem.got)
        <5>1. t[i] \in Stat!Range(s)
          <6>1. <<h, t[i]>> \in StatWanted
            BY <4>3 DEF StatInv, StatServer
          <6>2. QED
            BY <3>4, <6>1 DEF StatWanted, Stat!Wanted, s
        <5>2. i # k
          BY <2>2, <2>3, <5>1
        <5>3. PICK j \in 1..mem.offset : t[i] = s[j]
          <6>1. CASE i < k
            BY <2>3, <4>1, <6>1
          <6>2. CASE i > k
            <7>1. i - 1 \in k..Len(s) /\ i - 1 \in 1..mem.offset /\ (i - 1) + 1 = i
              BY <2>1, <4>1, <6>2
            <7>2. t[i] = s[i - 1]
              BY <2>3, <7>1
            <7>3. QED
              BY <7>1, <7>2
          <6>3. QED
            BY <4>1, <5>2, <6>1, <6>2
        <5>4. QED
          BY <3>2, <3>4, <4>3, <5>3 DEF StatItem, s
      <4>4. QED
        BY <4>1, <4>2, <4>3 DEF StatItem
    <3>5. QED
      BY <3>3, <3>4
  <2>12. StatOnce'
    BY <1>2, <2>4 DEF StatOnce
  <2>13. Stat!AllOrNothing'
    BY <1>1, <1>2, <2>4 DEF StatInv, Stat!AllOrNothing
  <2>14. QED
    BY <1>1, <2>5, <2>9, <2>10, <2>11, <2>12, <2>13 DEF StatInv
<1>5. QED
  BY <1>3, <1>4 DEF Stat!Insert

LEMMA StatDelete ==
    ASSUME StatInv, Stat!Delete
    PROVE  StatInv'
<1>1. UNCHANGED <<pc, args, mem>>
  BY DEF Stat!Delete
<1>2. world.changes \in Nat /\ world.changes + 1 # 0
  BY DEF StatInv, StatTypes
<1>3. ASSUME NEW k \in DOMAIN world.namespaces,
             world' = [world EXCEPT !.changes = @ + 1, !.disturbed = TRUE,
                                    !.namespaces = Stat!Without(@, k),
                                    !.streams[world.namespaces[k]] = <<>>]
      PROVE  StatInv'
  <2>1. Stat!Without(world.namespaces, k) \in Seq(Namespaces)
    BY StatRemoved DEF StatInv, StatTypes
  <2>2. <<>> \in Seq(NsStreams)
    OBVIOUS
  <2>3. StatTypes'
    BY <1>1, <1>2, <1>3, <2>1, <2>2 DEF StatInv, StatTypes
  <2>4. world'.disturbed /\ world'.changes # 0 /\ world'.out = world.out
    BY <1>2, <1>3 DEF StatInv, StatTypes
  <2>5. QED
    BY <1>1, <2>3, <2>4, StatDisturbed
<1>4. ASSUME NEW n \in Namespaces, NEW k \in DOMAIN world.streams[n],
             world' = [world EXCEPT !.changes = @ + 1, !.disturbed = TRUE,
                                    !.streams[n] = Stat!Without(@, k)]
      PROVE  StatInv'
  <2>1. Stat!Without(world.streams[n], k) \in Seq(NsStreams)
    BY StatRemoved DEF StatInv, StatTypes
  <2>2. StatTypes'
    BY <1>1, <1>2, <1>4, <2>1 DEF StatInv, StatTypes
  <2>3. world'.disturbed /\ world'.changes # 0 /\ world'.out = world.out
    BY <1>2, <1>4 DEF StatInv, StatTypes
  <2>4. QED
    BY <1>1, <2>2, <2>3, StatDisturbed
<1>5. QED
  BY <1>3, <1>4 DEF Stat!Delete

(* One page of the namespaces, while nothing was deleted: what is fetched  *)
(* are the first of the list, all of them after the last page.             *)
LEMMA StatNsPage ==
    ASSUME StatInv, Stat!NsPage
    PROVE  StatInv'
<1> DEFINE list == world.namespaces
           page == Stat!Page(list, NsLine)
           sofar == mem.namespaces \o page
           more == mem.offset + Len(page) < Stat!NsTotal
<1>1. /\ pc = "namespaces" /\ UNCHANGED <<args, world>>
      /\ mem.got = <<>> /\ mem.streams = <<>>
  BY DEF Stat!NsPage, StatInv, StatNamespaces
<1>2. /\ list \in Seq(Namespaces) /\ mem.namespaces \in Seq(Namespaces)
      /\ mem.offset \in Nat /\ mem.total \in Nat /\ NsLine \in Nat
      /\ world.changes \in Nat
  BY StatAssumption DEF StatInv, StatTypes
<1>3. /\ page \in Seq(Namespaces)
      /\ mem.offset <= Len(list) =>
            /\ Len(page) = IF mem.offset + NsLine < Len(list) THEN NsLine
                           ELSE Len(list) - mem.offset
            /\ \A i \in 1..Len(page) : page[i] = list[mem.offset + i]
  BY <1>2, StatPage
<1>4. /\ more => /\ mem' = [mem EXCEPT !.namespaces = sofar, !.total = Stat!NsTotal,
                                       !.offset = @ + Len(page)]
                 /\ pc' = pc
      /\ ~more => /\ mem' = [mem EXCEPT !.namespaces = sofar, !.total = 0, !.offset = 0,
                                        !.todo = Stat!Kept(sofar, Rtmp)]
                  /\ pc' = "streams"
  BY DEF Stat!NsPage
<1>5. Stat!NsTotal = IF mem.total = 0 THEN Len(list) ELSE mem.total
  BY DEF Stat!NsTotal
<1> HIDE DEF page
<1>6. /\ sofar \in Seq(Namespaces) /\ Len(sofar) = Len(mem.namespaces) + Len(page)
      /\ \A i \in 1..Len(mem.namespaces) : sofar[i] = mem.namespaces[i]
      /\ \A i \in 1..Len(page) : sofar[Len(mem.namespaces) + i] = page[i]
      /\ Len(page) \in Nat /\ Len(mem.namespaces) \in Nat /\ Len(list) \in Nat
      /\ DOMAIN sofar = 1..Len(sofar) /\ DOMAIN list = 1..Len(list)
  BY <1>2, <1>3
<1> HIDE DEF sofar, more, list
<1>7. Stat!NsTotal \in Nat
  BY <1>2, <1>5, <1>6
<1>8. ASSUME ~world.disturbed
      PROVE  /\ Len(sofar) = mem.offset + Len(page)
             /\ mem.offset + Len(page) <= Len(list)
             /\ \A i \in 1..Len(sofar) : sofar[i] = list[i]
             /\ Stat!NsTotal = Len(list)
  <2>1. /\ Len(mem.namespaces) = mem.offset /\ mem.offset <= Len(list)
        /\ \A i \in 1..mem.offset : mem.namespaces[i] = list[i]
        /\ mem.total \in {0, Len(list)}
    BY <1>1, <1>8 DEF StatInv, StatNamespaces, list
  <2>2. mem.offset + Len(page) <= Len(list)
    BY <1>2, <1>3, <1>6, <2>1
  <2>3. ASSUME NEW i \in 1..Len(sofar)
        PROVE  sofar[i] = list[i]
    <3>1. CASE i <= mem.offset
      BY <1>2, <1>6, <2>1, <2>3, <3>1
    <3>2. CASE i > mem.offset
      <4>1. i - mem.offset \in 1..Len(page) /\ mem.offset + (i - mem.offset) = i
        BY <1>2, <1>6, <2>1, <2>3, <3>2
      <4>2. sofar[mem.offset + (i - mem.offset)] = page[i - mem.offset]
        BY <1>6, <2>1, <4>1
      <4>3. page[i - mem.offset] = list[mem.offset + (i - mem.offset)]
        BY <1>3, <2>1, <4>1
      <4>4. QED
        BY <4>1, <4>2, <4>3
    <3>3. QED
      BY <1>2, <1>6, <2>3, <3>1, <3>2
  <2>4. Stat!NsTotal = Len(list)
    BY <1>5, <2>1
  <2>5. QED
    BY <1>6, <2>1, <2>2, <2>3, <2>4
<1>9. StatServer'
  BY <1>1 DEF StatInv, StatServer, StatWanted
<1>10. pc' # "done"
  BY <1>1, <1>4
<1>11. CASE more
  <2>1. /\ mem'.offset = mem.offset + Len(page) /\ mem'.total = Stat!NsTotal
        /\ mem'.namespaces = sofar /\ mem'.todo = mem.todo /\ mem'.got = mem.got
        /\ mem'.streams = mem.streams /\ DOMAIN mem' = DOMAIN mem /\ pc' = pc
    BY <1>4, <1>11 DEF StatInv, StatTypes
  <2>2. StatTypes'
    <3>1. mem'.offset \in Nat /\ mem'.total \in Nat
      BY <1>2, <1>6, <1>7, <2>1
    <3>2. QED
      BY <1>1, <1>6, <2>1, <3>1 DEF StatInv, StatTypes
  <2>3. StatNamespaces'
    <3>1. ASSUME ~world.disturbed
          PROVE  /\ Len(sofar) = mem'.offset /\ mem'.offset <= Len(list)
                 /\ \A i \in 1..mem'.offset : sofar[i] = list[i]
                 /\ mem'.total = Len(list)
      BY <1>8, <2>1, <3>1
    <3>2. QED
      BY <1>1, <2>1, <3>1 DEF StatNamespaces, list
  <2>4. QED
    BY <1>1, <1>9, <2>1, <2>2, <2>3 DEF StatInv, StatFetched, StatOnce, Stat!AllOrNothing
<1>12. CASE ~more
  <2>1. /\ mem'.offset = 0 /\ mem'.total = 0
        /\ mem'.namespaces = sofar /\ mem'.todo = Stat!Kept(sofar, Rtmp)
        /\ mem'.got = <<>> /\ mem'.streams = <<>> /\ DOMAIN mem' = DOMAIN mem
        /\ pc' = "streams"
    BY <1>1, <1>4, <1>12 DEF StatInv, StatTypes
  <2>2. /\ mem'.todo \in Seq(Namespaces)
        /\ Stat!Range(mem'.todo) = Stat!Range(sofar) \cap Rtmp
        /\ Stat!IsInjective(sofar) => Stat!IsInjective(mem'.todo)
    BY <1>6, <2>1, StatKept
  <2>3. StatTypes'
    BY <1>1, <1>6, <2>1, <2>2 DEF StatInv, StatTypes
  <2>4. ASSUME ~world.disturbed
        PROVE  /\ Stat!Range(sofar) = Stat!Range(list)
               /\ Stat!IsInjective(list) => Stat!IsInjective(sofar)
    <3>1. Len(sofar) = Len(list)
      <4>1. /\ Len(sofar) = mem.offset + Len(page)
            /\ mem.offset + Len(page) <= Len(list) /\ Stat!NsTotal = Len(list)
        BY <1>8, <2>4
      <4>2. ~(mem.offset + Len(page) < Len(list))
        BY <1>12, <4>1 DEF more
      <4>3. mem.offset + Len(page) \in Nat /\ Len(list) \in Nat
        BY <1>2, <1>6
      <4>4. QED
        BY <4>1, <4>2, <4>3
    <3>2. DOMAIN sofar = DOMAIN list /\ \A i \in DOMAIN list : sofar[i] = list[i]
      BY <1>6, <1>8, <2>4, <3>1
    <3>3. QED
      BY <3>2 DEF Stat!Range, Stat!IsInjective
  <2>5. StatFetched'
    <3> SUFFICES ASSUME ~world.disturbed
                 PROVE  /\ \A s \in args : s[1] \in Stat!Range(mem'.todo)
                        /\ mem'.todo # <<>> =>
                              0 <= Len(world.streams[Head(mem'.todo)])
      BY <1>1, <2>1 DEF StatFetched
    <3>1. \A s \in args : s[1] \in Rtmp \cap Stat!Range(list)
      BY DEF StatInv, StatServer, StatWanted, Stat!Wanted, list
    <3>2. mem'.todo # <<>> => Head(mem'.todo) \in Namespaces
      BY <2>2
    <3>3. mem'.todo # <<>> => Len(world.streams[Head(mem'.todo)]) \in Nat
      BY <3>2 DEF StatInv, StatTypes
    <3>4. QED
      BY <2>2, <2>4, <3>1, <3>3
  <2>6. StatOnce'
    <3> SUFFICES ASSUME world.changes = 0
                 PROVE  /\ Stat!IsInjective(mem'.todo) /\ Stat!IsInjective(mem'.streams)
                        /\ Stat!Range(mem'.todo) \subseteq Rtmp \cap Stat!Range(list)
                        /\ Stat!Range(mem'.streams) = {}
                        /\ Len(mem'.got) = mem'.offset
                        /\ 1..mem'.offset = {}
      BY <1>1, <2>1 DEF StatOnce, list
    <3>1. ~world.disturbed /\ Stat!IsInjective(list)
      BY DEF StatInv, StatServer, list
    <3>2. Stat!IsInjective(mem'.streams) /\ Stat!Range(mem'.streams) = {}
      BY <2>1 DEF Stat!IsInjective, Stat!Range
    <3>3. QED
      BY <2>1, <2>2, <2>4, <3>1, <3>2
  <2>7. QED
    BY <1>9, <2>1, <2>3, <2>5, <2>6 DEF StatInv, StatNamespaces, Stat!AllOrNothing
<1>13. QED
  BY <1>11, <1>12

(* Requests that fail, and the way on.                                     *)
LEMMA StatNsFails ==
    ASSUME StatInv, Stat!NsFails
    PROVE  StatInv'
<1>1. StatTypes' /\ StatServer'
  BY DEF Stat!NsFails, StatInv, StatTypes, StatServer, StatWanted
<1>2. QED
  BY <1>1 DEF Stat!NsFails, StatInv, StatNamespaces, StatFetched, StatOnce, Stat!AllOrNothing

LEMMA StatStreamsFail ==
    ASSUME StatInv, Stat!StreamsFail
    PROVE  StatInv'
<1>1. /\ pc = "streams" /\ pc' = "write" /\ mem.todo # <<>> /\ UNCHANGED <<args, world>>
      /\ mem'.offset = mem.offset /\ mem'.total = mem.total
      /\ mem'.namespaces = mem.namespaces /\ mem'.todo = mem.todo
      /\ mem'.got = <<>> /\ mem'.streams = <<>> /\ DOMAIN mem' = DOMAIN mem
  BY DEF Stat!StreamsFail, StatInv, StatTypes
<1>2. StatTypes' /\ StatServer'
  BY <1>1 DEF StatInv, StatTypes, StatServer, StatWanted
<1>3. StatFetched'
  BY <1>1 DEF StatFetched
<1>4. StatOnce'
  <2>1. Stat!IsInjective(mem'.streams) /\ Stat!Range(mem'.streams) = {}
    BY <1>1 DEF Stat!IsInjective, Stat!Range
  <2>2. QED
    BY <1>1, <2>1 DEF StatInv, StatOnce
<1>5. QED
  BY <1>1, <1>2, <1>3, <1>4 DEF StatInv, StatNamespaces, Stat!AllOrNothing

LEMMA StatStreamsDone ==
    ASSUME StatInv, Stat!StreamsDone
    PROVE  StatInv'
<1>1. StatTypes' /\ StatServer'
  BY DEF Stat!StreamsDone, StatInv, StatTypes, StatServer, StatWanted
<1>2. StatFetched' /\ StatOnce'
  BY DEF Stat!StreamsDone, StatInv, StatFetched, StatOnce
<1>3. QED
  BY <1>1, <1>2 DEF Stat!StreamsDone, StatInv, StatNamespaces, Stat!AllOrNothing

(* What is written are the active ones of the streams that were fetched.   *)
LEMMA StatWrite ==
    ASSUME StatInv, Stat!Write
    PROVE  StatInv'
<1> DEFINE kept == Stat!Kept(mem.streams, Namespaces \X Active)
<1>1. pc = "write" /\ UNCHANGED <<args, mem>>
  BY DEF Stat!Write
<1>2. /\ kept \in Seq(Stat!Stream)
      /\ Stat!Range(kept) = Stat!Range(mem.streams) \cap (Namespaces \X Active)
      /\ Stat!IsInjective(mem.streams) => Stat!IsInjective(kept)
  BY StatKept DEF StatInv, StatTypes
<1>3. CASE pc' = "dead" /\ UNCHANGED world
  <2>1. StatTypes' /\ StatServer'
    BY <1>1, <1>3 DEF StatInv, StatTypes, StatServer, StatWanted
  <2>2. QED
    BY <1>1, <1>3, <2>1 DEF StatInv, StatNamespaces, StatFetched, StatOnce, Stat!AllOrNothing
<1>4. CASE world' = [world EXCEPT !.out = kept] /\ pc' = "done"
  <2> HIDE DEF kept
  <2>1. /\ world'.out = kept /\ world'.namespaces = world.namespaces
        /\ world'.streams = world.streams /\ world'.changes = world.changes
        /\ world'.disturbed = world.disturbed /\ DOMAIN world' = DOMAIN world
    BY <1>4 DEF StatInv, StatTypes
  <2>2. StatTypes'
    BY <1>1, <1>2, <1>4, <2>1 DEF StatInv, StatTypes
  <2>3. StatServer'
    BY <1>1, <2>1 DEF StatInv, StatServer, StatWanted
  <2>4. Stat!AllOrNothing'
    <3>1. CASE mem.todo # <<>>
      <4>1. mem.streams = <<>>
        BY <1>1, <3>1 DEF StatInv
      <4>2. Stat!Range(kept) = {}
        BY <1>2, <4>1 DEF Stat!Range
      <4>3. kept = <<>>
        BY <1>2, <4>2 DEF Stat!Range
      <4>4. QED
        BY <1>1, <2>1, <3>1, <4>3 DEF Stat!AllOrNothing
    <3>2. CASE mem.todo = <<>>
      <4>1. Stat!Range(mem.todo) = {}
        BY <3>2 DEF Stat!Range
      <4>2. ASSUME ~world.disturbed
            PROVE  args \subseteq Stat!Range(kept)
        <5>1. \A s \in args : s \in Namespaces \X Active
          BY <4>2 DEF StatInv, StatServer, StatWanted, Stat!Wanted, Stat!Stream
        <5>2. \A s \in args : s \in Stat!Range(mem.streams)
          BY <1>1, <3>2, <4>1, <4>2 DEF StatInv, StatFetched
        <5>3. QED
          BY <1>2, <5>1, <5>2
      <4>3. ASSUME world.changes = 0
            PROVE  Stat!Range(kept) \subseteq args /\ Stat!IsInjective(kept)
        <5>1. /\ args = StatWanted /\ Stat!IsInjective(mem.streams)
              /\ \A s \in Stat!Range(mem.streams) :
                    /\ s[1] \in Rtmp \cap Stat!Range(world.namespaces)
                    /\ s[2] \in Stat!Range(world.streams[s[1]])
          BY <1>1, <4>3 DEF StatInv, StatServer, StatOnce
        <5>2. \A s \in Stat!Range(kept) : s \in Stat!Stream /\ s[2] \in Active
          BY <1>2 DEF Stat!Range, Stat!Stream
        <5>3. QED
          BY <1>2, <5>1, <5>2 DEF StatWanted, Stat!Wanted
      <4>4. world.changes = 0 => ~world.disturbed
        BY DEF StatInv, StatServer
      <4>5. /\ world'.disturbed \/ args' \subseteq Stat!Range(world'.out)
            /\ world'.changes = 0 => /\ Stat!Range(world'.out) = args'
                                     /\ Stat!IsInjective(world'.out)
        BY <1>1, <2>1, <4>2, <4>3, <4>4
      <4>6. QED
        BY <1>1, <3>2, <4>5 DEF Stat!AllOrNothing
    <3>3. QED
      BY <3>1, <3>2
  <2>5. QED
    BY <1>4, <2>2, <2>3, <2>4 DEF StatInv, StatNamespaces, StatFetched, StatOnce
<1>5. QED
  BY <1>3, <1>4 DEF Stat!Write

(* One page of the streams of the first namespace to do.                   *)
LEMMA StatStreamPage ==
    ASSUME StatInv, Stat!StreamPage
    PROVE  StatInv'
<1> DEFINE n == Head(mem.todo)
           list == world.streams[n]
           page == Stat!Page(list, StreamsLine)
           items == [k \in DOMAIN page |-> <<n, page[k]>>]
           sofar == mem.got \o items
           more == Stat!MorePages(page, Len(list))
<1>1. pc = "streams" /\ mem.todo # <<>> /\ UNCHANGED <<pc, args, world>>
  BY DEF Stat!StreamPage
<1>2. /\ mem.todo \in Seq(Namespaces) /\ n \in Namespaces /\ list \in Seq(NsStreams)
      /\ mem.got \in Seq(Stat!Stream) /\ mem.streams \in Seq(Stat!Stream)
      /\ mem.offset \in Nat /\ mem.total \in Nat /\ StreamsLine \in Nat /\ Len(list) \in Nat
      /\ DOMAIN list = 1..Len(list)
  BY <1>1, StatAssumption DEF StatInv, StatTypes
<1>3. /\ page \in Seq(NsStreams)
      /\ mem.offset <= Len(list) =>
            /\ Len(page) = IF mem.offset + StreamsLine < Len(list) THEN StreamsLine
                           ELSE Len(list) - mem.offset
            /\ \A i \in 1..Len(page) : page[i] = list[mem.offset + i]
  BY <1>2, StatPage
<1>4. /\ more => mem' = [mem EXCEPT !.got = sofar, !.offset = @ + Len(page),
                                    !.total = Len(list)]
      /\ ~more => mem' = [mem EXCEPT !.streams = @ \o sofar, !.got = <<>>, !.offset = 0,
                                     !.total = 0, !.todo = Tail(@)]
  BY DEF Stat!StreamPage
<1>5. ~more => \/ ~(mem.offset + Len(page) < Len(list))
               \/ Len(list) < StreamsLine
               \/ Len(page) < StreamsLine
  BY <1>2, <1>3 DEF Stat!MorePages
<1> HIDE DEF page, more
<1>6. /\ items \in Seq(Stat!Stream) /\ Len(items) = Len(page) /\ Len(page) \in Nat
      /\ \A i \in 1..Len(page) : items[i] = <<n, page[i]>>
  <2>1. DOMAIN page = 1..Len(page) /\ Len(page) \in Nat
        /\ \A i \in 1..Len(page) : page[i] \in NsStreams
    BY <1>3
  <2>2. items = [k \in 1..Len(page) |-> <<n, page[k]>>]
    BY <2>1
  <2>3. \A i \in 1..Len(page) : <<n, page[i]>> \in Stat!Stream
    BY <1>2, <2>1 DEF Stat!Stream
  <2> HIDE DEF items, n
  <2>4. QED
    BY <2>1, <2>2, <2>3
<1> HIDE DEF items
<1>7. /\ sofar \in Seq(Stat!Stream) /\ Len(sofar) = Len(mem.got) + Len(page)
      /\ \A i \in 1..Len(mem.got) : sofar[i] = mem.got[i]
      /\ \A i \in 1..Len(page) : sofar[Len(mem.got) + i] = items[i]
      /\ Len(mem.got) \in Nat
      /\ DOMAIN sofar = 1..Len(sofar) /\ DOMAIN mem.got = 1..Len(mem.got)
  <2>1. items \in Seq(Stat!Stream)
    BY <1>6
  <2>2. mem.got \in Seq(Stat!Stream)
    BY <1>2
  <2> DEFINE got == mem.got
  <2>3. got \in Seq(Stat!Stream)
    BY <2>2
  <2> HIDE DEF got
  <2>4. /\ got \o items \in Seq(Stat!Stream) /\ Len(got \o items) = Len(got) + Len(items)
        /\ \A i \in 1..Len(got) : (got \o items)[i] = got[i]
        /\ \A i \in 1..Len(items) : (got \o items)[Len(got) + i] = items[i]
        /\ Len(got) \in Nat /\ DOMAIN got = 1..Len(got)
        /\ DOMAIN (got \o items) = 1..Len(got \o items)
    BY <2>1, <2>3, Joined
  <2>5. QED
    BY <1>6, <2>4 DEF got
<1> HIDE DEF sofar, list
<1>8. Stat!Range(sofar) = Stat!Range(mem.got) \cup Stat!Range(items)
  BY <1>2, <1>6, Joined DEF sofar
<1>9. \A i \in 1..Len(page) : items[i] \in Stat!Range(sofar)
  <2>1. DOMAIN items = 1..Len(page)
    BY <1>6
  <2>2. QED
    BY <1>8, <2>1 DEF Stat!Range
(* Until something is deleted: the page ends within the list, and what it  *)
(* ends with is fetched; the last one ends the list.                       *)
<1>10. ASSUME ~world.disturbed
       PROVE  /\ mem.offset + Len(page) <= Len(list)
              /\ ~more => mem.offset + Len(page) = Len(list)
              /\ \A i \in 1..(mem.offset + Len(page)) :
                    StatItem(n, i) \in args => StatItem(n, i) \in Stat!Range(sofar)
  <2>1. /\ mem.offset <= Len(list)
        /\ \A i \in 1..mem.offset :
              StatItem(n, i) \in args => StatItem(n, i) \in Stat!Range(mem.got)
    BY <1>1, <1>10 DEF StatInv, StatFetched, list
  <2>2. /\ Len(page) = IF mem.offset + StreamsLine < Len(list) THEN StreamsLine
                       ELSE Len(list) - mem.offset
        /\ \A i \in 1..Len(page) : page[i] = list[mem.offset + i]
    BY <1>3, <2>1
  <2>3. mem.offset + Len(page) <= Len(list)
    BY <1>2, <1>6, <2>1, <2>2
  <2>4. ~more => mem.offset + Len(page) = Len(list)
    BY <1>2, <1>5, <1>6, <2>1, <2>2
  <2>5. ASSUME NEW i \in 1..(mem.offset + Len(page)), StatItem(n, i) \in args
        PROVE  StatItem(n, i) \in Stat!Range(sofar)
    <3>1. CASE i <= mem.offset
      BY <1>2, <1>8, <2>1, <2>5, <3>1
    <3>2. CASE i > mem.offset
      <4>1. i - mem.offset \in 1..Len(page) /\ mem.offset + (i - mem.offset) = i
        BY <1>2, <1>6, <2>5, <3>2
      <4>2. page[i - mem.offset] = list[i]
        BY <2>2, <4>1
      <4>3. items[i - mem.offset] = StatItem(n, i)
        BY <1>6, <4>1, <4>2 DEF StatItem, list
      <4>4. QED
        BY <1>9, <4>1, <4>3
    <3>3. QED
      BY <1>2, <1>6, <2>5, <3>1, <3>2
  <2>6. QED
    BY <2>3, <2>4, <2>5
(* While nothing changes, exactly that was fetched, in its order.          *)
<1>11. ASSUME world.changes = 0
       PROVE  /\ Len(mem.got) = mem.offset
              /\ \A i \in 1..Len(sofar) : sofar[i] = StatItem(n, i)
              /\ Len(sofar) = mem.offset + Len(page)
  <2>1. /\ Len(mem.got) = mem.offset
        /\ \A i \in 1..mem.offset : mem.got[i] = StatItem(n, i)
    BY <1>1, <1>11 DEF StatInv, StatOnce
  <2>2. /\ mem.offset <= Len(list)
        /\ \A i \in 1..Len(page) : page[i] = list[mem.offset + i]
    <3>1. ~world.disturbed
      BY <1>11 DEF StatInv, StatServer
    <3>2. mem.offset <= Len(list)
      BY <1>1, <3>1 DEF StatInv, StatFetched, list
    <3>3. QED
      BY <1>3, <3>2
  <2>3. ASSUME NEW i \in 1..Len(sofar)
        PROVE  sofar[i] = StatItem(n, i)
    <3>1. CASE i <= mem.offset
      BY <1>2, <1>7, <2>1, <2>3, <3>1
    <3>2. CASE i > mem.offset
      <4>1. i - mem.offset \in 1..Len(page) /\ mem.offset + (i - mem.offset) = i
        BY <1>2, <1>6, <1>7, <2>1, <2>3, <3>2
      <4>2. page[i - mem.offset] = list[i]
        BY <2>2, <4>1
      <4>3. items[i - mem.offset] = StatItem(n, i)
        BY <1>6, <4>1, <4>2 DEF StatItem, list
      <4>4. sofar[mem.offset + (i - mem.offset)] = items[i - mem.offset]
        BY <1>7, <2>1, <4>1
      <4>5. QED
        BY <4>1, <4>3, <4>4
    <3>3. QED
      BY <1>2, <1>6, <1>7, <2>3, <3>1, <3>2
  <2>4. QED
    BY <1>6, <1>7, <2>1, <2>3
<1>12. StatServer'
  BY <1>1 DEF StatInv, StatServer, StatWanted
<1>13. CASE more
  <2>1. /\ mem'.offset = mem.offset + Len(page) /\ mem'.total = Len(list)
        /\ mem'.namespaces = mem.namespaces /\ mem'.todo = mem.todo /\ mem'.got = sofar
        /\ mem'.streams = mem.streams /\ DOMAIN mem' = DOMAIN mem
    BY <1>4, <1>13 DEF StatInv, StatTypes
  <2>2. StatTypes'
    <3>1. mem'.offset \in Nat /\ mem'.total \in Nat
      BY <1>2, <1>6, <2>1
    <3>2. QED
      BY <1>1, <1>7, <2>1, <3>1 DEF StatInv, StatTypes
  <2>3. StatFetched'
    <3>1. ASSUME ~world.disturbed
          PROVE  /\ mem'.offset <= Len(list)
                 /\ \A i \in 1..mem'.offset :
                      StatItem(n, i) \in args => StatItem(n, i) \in Stat!Range(mem'.got)
      BY <1>10, <2>1, <3>1
    <3>2. QED
      BY <1>1, <2>1, <3>1 DEF StatInv, StatFetched, StatItem, list
  <2>4. StatOnce'
    <3>1. ASSUME world.changes = 0
          PROVE  /\ Len(mem'.got) = mem'.offset
                 /\ \A i \in 1..mem'.offset : mem'.got[i] = StatItem(n, i)
      BY <1>11, <2>1, <3>1
    <3>2. QED
      BY <1>1, <2>1, <3>1 DEF StatInv, StatOnce, StatItem
  <2>5. QED
    BY <1>1, <1>12, <2>2, <2>3, <2>4 DEF StatInv, StatNamespaces, Stat!AllOrNothing
<1>14. CASE ~more
  <2> DEFINE rest == Tail(mem.todo)
             all == mem.streams \o sofar
  <2>1. /\ mem'.offset = 0 /\ mem'.total = 0
        /\ mem'.namespaces = mem.namespaces /\ mem'.todo = rest /\ mem'.got = <<>>
        /\ mem'.streams = all /\ DOMAIN mem' = DOMAIN mem
    BY <1>4, <1>14 DEF StatInv, StatTypes
  <2>2. /\ rest \in Seq(Namespaces) /\ Len(mem.todo) \in Nat /\ Len(mem.todo) >= 1
        /\ Len(rest) = Len(mem.todo) - 1
        /\ \A i \in 1..Len(rest) : rest[i] = mem.todo[i + 1]
        /\ n = mem.todo[1] /\ DOMAIN rest = 1..Len(rest) /\ Len(rest) \in Nat
        /\ DOMAIN mem.todo = 1..Len(mem.todo)
    BY <1>1, <1>2
  <2>3. /\ all \in Seq(Stat!Stream) /\ Len(all) = Len(mem.streams) + Len(sofar)
        /\ \A i \in 1..Len(mem.streams) : all[i] = mem.streams[i]
        /\ \A i \in 1..Len(sofar) : all[Len(mem.streams) + i] = sofar[i]
        /\ Len(mem.streams) \in Nat /\ Len(sofar) \in Nat
        /\ DOMAIN mem.streams = 1..Len(mem.streams) /\ DOMAIN all = 1..Len(all)
    <3> DEFINE had == mem.streams
    <3>1. had \in Seq(Stat!Stream) /\ sofar \in Seq(Stat!Stream)
      BY <1>2, <1>7
    <3> HIDE DEF had
    <3>2. /\ had \o sofar \in Seq(Stat!Stream) /\ Len(had \o sofar) = Len(had) + Len(sofar)
          /\ \A i \in 1..Len(had) : (had \o sofar)[i] = had[i]
          /\ \A i \in 1..Len(sofar) : (had \o sofar)[Len(had) + i] = sofar[i]
          /\ Len(had) \in Nat /\ Len(sofar) \in Nat /\ DOMAIN had = 1..Len(had)
          /\ DOMAIN (had \o sofar) = 1..Len(had \o sofar)
      BY <3>1, Joined
    <3>3. QED
      BY <3>2 DEF had
  <2> HIDE DEF rest, all, n
  <2>4. Stat!Range(mem.todo) = {n} \cup Stat!Range(rest)
    <3>1. \A i \in 1..Len(rest) : i + 1 \in 1..Len(mem.todo)
      BY <2>2
    <3>2. \A i \in 1..Len(mem.todo) : i = 1 \/ (i - 1 \in 1..Len(rest) /\ (i - 1) + 1 = i)
      BY <2>2
    <3>3. \A i \in 1..Len(mem.todo) : i = 1 \/ mem.todo[i] = rest[i - 1]
      BY <2>2, <3>2
    <3>4. ASSUME NEW x
          PROVE  x \in Stat!Range(mem.todo) <=> x = n \/ x \in Stat!Range(rest)
      <4>1. x \in Stat!Range(mem.todo) <=> \E i \in 1..Len(mem.todo) : mem.todo[i] = x
        BY <2>2 DEF Stat!Range
      <4>2. x \in Stat!Range(rest) <=> \E i \in 1..Len(rest) : rest[i] = x
        BY <2>2 DEF Stat!Range
      <4>3. \A i \in 1..Len(rest) : rest[i] = mem.todo[i + 1]
        BY <2>2
      <4>4. 1 \in 1..Len(mem.todo) /\ n = mem.todo[1]
        BY <2>2
      <4>5. QED
        BY <3>1, <3>2, <3>3, <4>1, <4>2, <4>3, <4>4
    <3>5. QED
      BY <3>4
  <2>5. Stat!Range(all) = Stat!Range(mem.streams) \cup Stat!Range(sofar)
    BY <1>2, <1>7, Joined DEF all
  <2>6. StatTypes'
    BY <1>1, <2>1, <2>2, <2>3 DEF StatInv, StatTypes
  <2>7. ASSUME ~world.disturbed, NEW s \in args
        PROVE  s[1] \in Stat!Range(rest) \/ s \in Stat!Range(all)
    <3>1. s[1] \in Stat!Range(mem.todo) \/ s \in Stat!Range(mem.streams)
      BY <1>1, <2>7 DEF StatInv, StatFetched
    <3>2. ASSUME s[1] = n
          PROVE  s \in Stat!Range(sofar)
      <4>1. s \in Stat!Stream /\ s[2] \in Stat!Range(list)
        BY <2>7, <3>2 DEF StatInv, StatServer, StatWanted, Stat!Wanted, list
      <4>2. PICK i \in 1..Len(list) : s[2] = list[i]
        BY <1>2, <4>1 DEF Stat!Range
      <4>3. s = StatItem(n, i)
        BY <3>2, <4>1, <4>2 DEF Stat!Stream, StatItem, list
      <4>4. QED
        BY <1>10, <1>14, <2>7, <4>2, <4>3
    <3>3. QED
      BY <2>4, <2>5, <3>1, <3>2
  <2>8. StatFetched'
    <3>1. rest # <<>> => 0 <= Len(world.streams[Head(rest)])
      <4>1. rest # <<>> => Head(rest) \in Namespaces
        BY <2>2
      <4>2. rest # <<>> => Len(world.streams[Head(rest)]) \in Nat
        BY <4>1 DEF StatInv, StatTypes
      <4>3. QED
        BY <4>2
    <3>2. QED
      BY <1>1, <2>1, <2>7, <3>1 DEF StatFetched
  <2>9. ASSUME world.changes = 0
        PROVE  /\ Stat!IsInjective(rest) /\ Stat!IsInjective(all)
               /\ Stat!Range(rest) \subseteq Rtmp \cap Stat!Range(world.namespaces)
               /\ \A s \in Stat!Range(all) :
                     /\ s[1] \in Rtmp \cap Stat!Range(world.namespaces)
                     /\ s[1] \notin Stat!Range(rest)
                     /\ s[2] \in Stat!Range(world.streams[s[1]])
    <3>1. /\ Stat!IsInjective(mem.todo) /\ Stat!IsInjective(mem.streams)
          /\ Stat!Range(mem.todo) \subseteq Rtmp \cap Stat!Range(world.namespaces)
          /\ \A s \in Stat!Range(mem.streams) :
                /\ s[1] \in Rtmp \cap Stat!Range(world.namespaces)
                /\ s[1] \notin Stat!Range(mem.todo)
                /\ s[2] \in Stat!Range(world.streams[s[1]])
      BY <1>1, <2>9 DEF StatInv, StatOnce
    <3>2. \A i, j \in 1..Len(mem.todo) : mem.todo[i] = mem.todo[j] => i = j
      BY <2>2, <3>1 DEF Stat!IsInjective
    <3>3. \A i \in 1..Len(rest) : i + 1 \in 1..Len(mem.todo) /\ i + 1 # 1
      BY <2>2
    <3>4. n \notin Stat!Range(rest)
      <4>1. \A i \in 1..Len(rest) : rest[i] # n
        BY <2>2, <3>2, <3>3
      <4>2. QED
        BY <2>2, <4>1 DEF Stat!Range
    <3>5. Stat!IsInjective(rest)
      <4>1. \A i, j \in 1..Len(rest) : rest[i] = rest[j] => i + 1 = j + 1
        BY <2>2, <3>2, <3>3
      <4>2. \A i, j \in 1..Len(rest) : i + 1 = j + 1 => i = j
        OBVIOUS
      <4>3. QED
        BY <2>2, <4>1, <4>2 DEF Stat!IsInjective
    <3>6. mem.offset + Len(page) <= Len(list) /\ Stat!IsInjective(list)
      <4>1. ~world.disturbed /\ Stat!IsInjective(list)
        BY <1>2, <2>9 DEF StatInv, StatServer, list
      <4>2. QED
        BY <1>10, <4>1
    <3>7. /\ Len(sofar) <= Len(list)
          /\ \A i \in 1..Len(sofar) : sofar[i] = <<n, list[i]>> /\ i \in 1..Len(list)
      <4>1. /\ Len(sofar) = mem.offset + Len(page)
            /\ \A i \in 1..Len(sofar) : sofar[i] = <<n, list[i]>>
        BY <1>11, <2>9 DEF StatItem, list
      <4>2. QED
        BY <1>2, <2>3, <3>6, <4>1
    <3>8. \A s \in Stat!Range(sofar) : s[1] = n /\ s[2] \in Stat!Range(list)
      BY <1>2, <1>7, <3>7 DEF Stat!Range
    <3>9. \A i, j \in 1..Len(sofar) : sofar[i] = sofar[j] => i = j
      <4>1. \A i, j \in 1..Len(list) : list[i] = list[j] => i = j
        BY <1>2, <3>6 DEF Stat!IsInjective
      <4>2. \A i, j \in 1..Len(sofar) : sofar[i] = sofar[j] => list[i] = list[j]
        BY <3>7
      <4>3. QED
        BY <3>7, <4>1, <4>2
    <3>10. \A i, j \in 1..Len(mem.streams) : mem.streams[i] = mem.streams[j] => i = j
      BY <2>3, <3>1 DEF Stat!IsInjective
    <3>11. \A i \in 1..Len(mem.streams), j \in 1..Len(sofar) : mem.streams[i] # sofar[j]
      <4>1. n \in Stat!Range(mem.todo)
        BY <2>4
      <4>2. \A i \in 1..Len(mem.streams) : mem.streams[i] \in Stat!Range(mem.streams)
        BY <2>3 DEF Stat!Range
      <4>3. \A j \in 1..Len(sofar) : sofar[j] \in Stat!Range(sofar)
        BY <1>7 DEF Stat!Range
      <4>4. QED
        BY <3>1, <3>8, <4>1, <4>2, <4>3
    <3>12. Stat!IsInjective(all)
      <4>1. ASSUME NEW i \in 1..Len(all), NEW j \in 1..Len(all), all[i] = all[j]
            PROVE  i = j
        <5> DEFINE m == Len(mem.streams)
        <5>1. \/ i \in 1..m
              \/ i - m \in 1..Len(sofar) /\ m + (i - m) = i
          BY <2>3
        <5>2. \/ j \in 1..m
              \/ j - m \in 1..Len(sofar) /\ m + (j - m) = j
          BY <2>3
        <5>3. i \in 1..m => all[i] = mem.streams[i]
          BY <2>3
        <5>4. j \in 1..m => all[j] = mem.streams[j]
          BY <2>3
        <5>5. i - m \in 1..Len(sofar) /\ m + (i - m) = i => all[i] = sofar[i - m]
          BY <2>3
        <5>6. j - m \in 1..Len(sofar) /\ m + (j - m) = j => all[j] = sofar[j - m]
          BY <2>3
        <5>7. i \in Int /\ j \in Int /\ m \in Int /\ (i - m = j - m => i = j)
          BY <2>3
        <5> HIDE DEF m
        <5>8. QED
          BY <3>9, <3>10, <3>11, <4>1, <5>1, <5>2, <5>3, <5>4, <5>5, <5>6, <5>7 DEF m
      <4>2. QED
        BY <2>3, <4>1 DEF Stat!IsInjective
    <3>13. ASSUME NEW s \in Stat!Range(all)
           PROVE  /\ s[1] \in Rtmp \cap Stat!Range(world.namespaces)
                  /\ s[1] \notin Stat!Range(rest)
                  /\ s[2] \in Stat!Range(world.streams[s[1]])
      <4>1. n \in Rtmp \cap Stat!Range(world.namespaces)
        BY <2>4, <3>1
      <4>2. CASE s \in Stat!Range(mem.streams)
        BY <2>4, <3>1, <4>2
      <4>3. CASE s \in Stat!Range(sofar)
        BY <3>4, <3>8, <4>1, <4>3 DEF list
      <4>4. QED
        BY <2>5, <3>13, <4>2, <4>3
    <3>14. QED
      BY <2>4, <3>1, <3>5, <3>12, <3>13
  <2>10. StatOnce'
    <3>1. mem'.todo # <<>> => Len(mem'.got) = 0 /\ 1..mem'.offset = {}
      BY <2>1
    <3>2. QED
      BY <1>1, <2>1, <2>9, <3>1 DEF StatOnce
  <2>11. QED
    BY <1>1, <1>12, <2>6, <2>8, <2>10 DEF StatInv, StatNamespaces, Stat!AllOrNothing
<1>15. QED
  BY <1>13, <1>14

LEMMA StatNext ==
    ASSUME StatInv, Stat!Next
    PROVE  StatInv'
BY StatInsert, StatDelete, StatNsPage, StatStreamPage, StatStreamsDone, StatWrite,
   StatNsFails, StatStreamsFail DEF Stat!Next, Stat!Step

-----------------------------------------------------------------------------
(* multiLineSearch.                                                        *)

(* The least number of a set.                                              *)
LEMMA DumpMin ==
    ASSUME NEW S, S \subseteq Nat, S # {}
    PROVE  Dump!Min(S) \in S /\ \A x \in S : Dump!Min(S) <= x
<1>1. \E x \in S : \A y \in S : x <= y
  BY LeastExists
<1>2. QED
  BY <1>1 DEF Dump!Min

LEMMA DumpMax ==
    ASSUME NEW a \in Nat, NEW b \in Nat
    PROVE  Dump!Max({a, b}) = IF a >= b THEN a ELSE b
<1>1. \E x \in {a, b} : \A y \in {a, b} : x >= y
  OBVIOUS
<1>2. Dump!Max({a, b}) \in {a, b} /\ \A y \in {a, b} : Dump!Max({a, b}) >= y
  BY <1>1 DEF Dump!Max
<1>3. QED
  BY <1>2

LEMMA DumpCardinality == ASSUME NEW S PROVE Dump!Cardinality(S) = Cardinality(S)
BY DEF Dump!Cardinality, Cardinality

(* The lines of the dumps that have to be in the results.                  *)
DumpLines(f) == {f} \X Dump!InMessage(f)
DumpAll == UNION {DumpLines(f) : f \in DOMAIN args}
DumpApart == \A f, g \in DOMAIN args : f # g => args[f].name # args[g].name

DumpTypes ==
    /\ pc \in {"idle", "join", "printed"} /\ args \in Dumps
    /\ DOMAIN world = {"calls", "results"} /\ DOMAIN mem = {"keys", "procs"}
    /\ mem.keys \subseteq Keywords /\ DOMAIN mem.procs \subseteq DOMAIN args
    /\ \A f \in DOMAIN mem.procs : mem.procs[f] \in {"run", "write", "done"}
    /\ \A n \in DOMAIN world.results : world.results[n] \in Seq(DumpAll)

(* What a process has done, and is the only one to have done if no other   *)
(* dump has the name of its own.                                           *)
DumpProc(f) ==
    LET name == args[f].name IN
    /\ mem.procs[f] = "write" => name \in DOMAIN world.results
    /\ DumpApart =>
          /\ mem.procs[f] = "run" => name \notin DOMAIN world.results
          /\ mem.procs[f] = "write" => world.results[name] = <<>>
          /\ mem.procs[f] = "done" =>
                \A l \in DumpLines(f) :
                    /\ name \in DOMAIN world.results
                    /\ \E i \in DOMAIN world.results[name] : world.results[name][i] = l

DumpInv ==
    /\ DumpTypes
    /\ pc # "idle" => DOMAIN mem.procs = DOMAIN args
    /\ pc # "join" => \A f \in DOMAIN mem.procs : mem.procs[f] = "done"
    /\ \A f \in DOMAIN mem.procs : DumpProc(f)

LEMMA DumpFile ==
    ASSUME DumpTypes, NEW f \in DOMAIN args
    PROVE  /\ args[f].lines \in Seq(SUBSET (Keywords \cup {0}))
           /\ Len(args[f].lines) \in Nat
           /\ DOMAIN args[f].lines = 1..Len(args[f].lines)
<1>1. args[f].lines \in Seq(SUBSET (Keywords \cup {0}))
  BY DumpAssumption DEF DumpTypes
<1>2. QED
  BY <1>1, LenProperties

(* A line that is printed is between two separators.                       *)
LEMMA DumpInMessage ==
    ASSUME DumpTypes, NEW f \in DOMAIN args
    PROVE  \A n \in Dump!InMessage(f) :
              \E b \in Dump!Matching(args[f].lines) :
                 /\ b[1] \in 1..Len(args[f].lines) /\ b[2] \in 1..Len(args[f].lines)
                 /\ b = <<b[1], b[2]>> /\ b[1] <= n /\ n < b[2] /\ n \in Nat
                 /\ args[f].lines[b[1]] = {0} /\ args[f].lines[b[2]] = {0}
<1> DEFINE lines == args[f].lines
<1>1. Len(lines) \in Nat /\ DOMAIN lines = 1..Len(lines)
  BY DumpFile
<1>2. ASSUME NEW n \in Dump!InMessage(f)
      PROVE  \E b \in Dump!Matching(lines) :
                 /\ b[1] \in 1..Len(lines) /\ b[2] \in 1..Len(lines)
                 /\ b = <<b[1], b[2]>> /\ b[1] <= n /\ n < b[2] /\ n \in Nat
                 /\ lines[b[1]] = {0} /\ lines[b[2]] = {0}
  <2>1. PICK b \in Dump!Matching(lines) : n \in b[1]..b[2]-1
    BY DEF Dump!InMessage
  <2>2. b \in Dump!Closed(lines)
    BY <2>1 DEF Dump!Matching
  <2> DEFINE seps == {i \in DOMAIN lines : lines[i] = {0}}
  <2>3. b \in seps \X seps
    BY <2>2 DEF Dump!Closed, Dump!Sep
  <2>4. /\ b = <<b[1], b[2]>> /\ b[1] \in DOMAIN lines /\ b[2] \in DOMAIN lines
        /\ lines[b[1]] = {0} /\ lines[b[2]] = {0}
    BY <2>3
  <2> HIDE DEF lines
  <2>5. QED
    BY <1>1, <2>1, <2>4
<1>3. QED
  BY <1>2

(* What a process writes are these lines.                                  *)
LEMMA DumpResult ==
    ASSUME DumpTypes, NEW f \in DOMAIN args
    PROVE  /\ Dump!Result(f) \in Seq(DumpLines(f))
           /\ \A l \in DumpLines(f) :
                 \E i \in DOMAIN Dump!Result(f) : Dump!Result(f)[i] = l
           /\ Dump!Result(f) = <<>> => DumpLines(f) = {}
<1> DEFINE m == Len(args[f].lines)
           list == [i \in 1..m |-> <<f, i>>]
           In == Dump!InMessage(f)
           set == DumpLines(f)
           IsUpto(k) == k = [i \in 0..m |->
                             IF i = 0 THEN <<>>
                             ELSE IF i \in In THEN Append(k[i - 1], <<f, i>>) ELSE k[i - 1]]
           upto == CHOOSE k : IsUpto(k)
           S == {f} \X (1..m)
<1>1. m \in Nat
  BY DumpFile
<1>2. Dump!Result(f) = upto[m]
  BY DEF Dump!Result
<1>3. In \subseteq 1..m
  BY DumpInMessage, <1>1
<1>4. /\ list \in Seq(S) /\ Len(list) = m /\ DOMAIN list = 1..m
      /\ \A i \in 1..m : list[i] = <<f, i>> /\ (list[i] \in set <=> i \in In)
  <2> HIDE DEF m
  <2>1. list \in [1..m -> S]
    OBVIOUS
  <2>2. list \in Seq(S) /\ Len(list) = m
    BY <1>1, <2>1
  <2>3. QED
    BY <2>2 DEF DumpLines
<1> HIDE DEF m, list, set, In, S
<1>5. ASSUME NEW k
      PROVE  IsUpto(k) <=> StatKeeps(k, list, set)
  <2> DEFINE A == [i \in 0..m |-> IF i = 0 THEN <<>>
                             ELSE IF i \in In THEN Append(k[i - 1], <<f, i>>) ELSE k[i - 1]]
             B == [i \in 0..Len(list) |->
                IF i = 0 THEN <<>>
                ELSE IF list[i] \in set THEN Append(k[i - 1], list[i]) ELSE k[i - 1]]
  <2>1. \A i \in 0..m : i # 0 => i \in 1..m
    BY <1>1
  <2>2. A = B
    BY <1>4, <2>1
  <2>3. QED
    BY <2>2 DEF StatKeeps
<1>6. StatKeeps(upto, list, set)
  <2>1. \E k : StatKeeps(k, list, set)
    BY <1>4, StatKeepsExists
  <2>2. \E k : IsUpto(k)
    <3> HIDE DEF IsUpto
    <3> QED
      BY <2>1, <1>5
  <2>3. IsUpto(upto)
    <3> HIDE DEF IsUpto
    <3> QED
      BY <2>2
  <2> HIDE DEF IsUpto, upto
  <2>4. QED
    BY <2>3, <1>5
<1> HIDE DEF upto
<1>7. upto[m] \in Seq(S) /\ Stat!Range(upto[m]) = Stat!Range(list) \cap set
  BY <1>4, <1>6, StatKeepsAll
<1>8. Stat!Range(list) \cap set = set
  <2>1. \A l \in set : \E i \in 1..m : l = <<f, i>>
    BY <1>3 DEF set, DumpLines, In
  <2>2. QED
    BY <1>4, <2>1 DEF Stat!Range
<1>9. \A l : l \in set <=> \E i \in DOMAIN upto[m] : upto[m][i] = l
  BY <1>7, <1>8 DEF Stat!Range
<1>10. upto[m] \in Seq(set)
  <2>1. \A i \in 1..Len(upto[m]) : upto[m][i] \in set
    BY <1>7, <1>9, LenProperties
  <2>2. QED
    BY <1>7, <2>1, IsASeq
<1>11. upto[m] = <<>> => set = {}
  <2>1. upto[m] = <<>> => DOMAIN upto[m] = {}
    OBVIOUS
  <2>2. QED
    BY <1>9, <2>1
<1>12. QED
  BY <1>2, <1>9, <1>10, <1>11 DEF set

LEMMA DumpInit == Dump!Init => DumpInv
<1> SUFFICES ASSUME Dump!Init
             PROVE  DumpInv
  OBVIOUS
<1>1. /\ pc = "idle" /\ args \in Dumps
      /\ world = [calls |-> 0, results |-> <<>>] /\ mem = [keys |-> {}, procs |-> <<>>]
  BY DEF Dump!Init, Dump!None
<1>2. DOMAIN mem.procs = {} /\ DOMAIN world.results = {} /\ mem.keys = {}
  BY <1>1
<1>3. QED
  BY <1>1, <1>2 DEF DumpInv, DumpTypes

(* The lines that have to be printed are of the keywords of the search.    *)
LEMMA DumpSameKeys ==
    ASSUME args' = args, mem'.keys = mem.keys
    PROVE  /\ \A f : DumpLines(f)' = DumpLines(f) /\ Dump!InMessage(f)' = Dump!InMessage(f)
           /\ DumpAll' = DumpAll /\ DumpApart' = DumpApart
<1>1. \A f : Dump!InMessage(f)' = Dump!InMessage(f)
  BY DEF Dump!InMessage, Dump!Matching, Dump!Found, Dump!Closed
<1>2. \A f : DumpLines(f)' = DumpLines(f)
  BY <1>1 DEF DumpLines
<1>3. QED
  BY <1>1, <1>2 DEF DumpAll, DumpApart

LEMMA DumpStart ==
    ASSUME DumpInv, NEW keys \in SUBSET Keywords \ {{}}, Dump!Start(keys)
    PROVE  DumpInv'
<1>1. /\ pc' = "join" /\ args' = args /\ args \in Dumps
      /\ world' = [calls |-> world.calls + 1, results |-> <<>>]
      /\ mem' = [keys |-> keys, procs |-> [f \in DOMAIN args |-> "run"]]
  BY DEF Dump!Start, Dump!None, DumpInv, DumpTypes
<1>2. /\ DOMAIN mem'.procs = DOMAIN args /\ \A f \in DOMAIN args : mem'.procs[f] = "run"
      /\ DOMAIN world'.results = {} /\ mem'.keys = keys
      /\ DOMAIN world' = {"calls", "results"} /\ DOMAIN mem' = {"keys", "procs"}
  BY <1>1
<1>3. DumpTypes'
  BY <1>1, <1>2 DEF DumpTypes
<1>4. \A f \in DOMAIN mem'.procs : DumpProc(f)'
  BY <1>1, <1>2 DEF DumpProc
<1>5. QED
  BY <1>1, <1>2, <1>3, <1>4 DEF DumpInv

LEMMA DumpSearch ==
    ASSUME DumpInv, NEW f \in DOMAIN mem.procs, Dump!Search(f)
    PROVE  DumpInv'
<1> DEFINE name == args[f].name
<1>1. DumpTypes /\ f \in DOMAIN args /\ mem.procs[f] = "run" /\ UNCHANGED <<pc, args>>
  BY DEF DumpInv, DumpTypes, Dump!Search
<1>2. pc = "join"
  BY <1>1 DEF DumpInv, DumpTypes
<1>3. CASE Dump!Result(f) = <<>>
  <2>1. mem' = [mem EXCEPT !.procs[f] = "done"] /\ world' = world
    BY <1>3 DEF Dump!Search
  <2>2. /\ DOMAIN mem' = DOMAIN mem /\ mem'.keys = mem.keys
        /\ DOMAIN mem'.procs = DOMAIN mem.procs /\ mem'.procs[f] = "done"
        /\ \A g \in DOMAIN mem.procs : g # f => mem'.procs[g] = mem.procs[g]
    BY <1>1, <2>1 DEF DumpTypes
  <2>3. DumpTypes'
    BY <1>1, <2>1, <2>2, DumpSameKeys DEF DumpTypes
  <2>4. DumpLines(f) = {}
    BY <1>1, <1>3, DumpResult
  <2>5. ASSUME NEW g \in DOMAIN mem.procs
        PROVE  DumpProc(g)'
    <3>1. DumpProc(g)
      BY DEF DumpInv
    <3>2. CASE g = f
      BY <1>1, <2>1, <2>2, <2>4, <3>2, DumpSameKeys DEF DumpProc
    <3>3. CASE g # f
      BY <1>1, <2>1, <2>2, <3>1, <3>3, DumpSameKeys DEF DumpProc
    <3>4. QED
      BY <3>2, <3>3
  <2>6. QED
    BY <1>1, <1>2, <2>2, <2>3, <2>5 DEF DumpInv
<1>4. CASE Dump!Result(f) # <<>>
  <2>1. /\ mem' = [mem EXCEPT !.procs[f] = "write"]
        /\ world' = [world EXCEPT !.results = Dump!Put(@, name, <<>>)]
    BY <1>4 DEF Dump!Search
  <2>2. /\ DOMAIN mem' = DOMAIN mem /\ mem'.keys = mem.keys
        /\ DOMAIN mem'.procs = DOMAIN mem.procs /\ mem'.procs[f] = "write"
        /\ \A g \in DOMAIN mem.procs : g # f => mem'.procs[g] = mem.procs[g]
    BY <1>1, <2>1 DEF DumpTypes
  <2>3. DOMAIN world' = DOMAIN world /\ world'.results = Dump!Put(world.results, name, <<>>)
    BY <1>1, <2>1 DEF DumpTypes
  <2>4. /\ DOMAIN world'.results = DOMAIN world.results \cup {name}
        /\ world'.results[name] = <<>>
        /\ \A n \in DOMAIN world.results : n # name => world'.results[n] = world.results[n]
    BY <2>3 DEF Dump!Put
  <2>5. <<>> \in Seq(DumpAll)
    OBVIOUS
  <2>6. DumpTypes'
    BY <1>1, <2>2, <2>3, <2>4, <2>5, DumpSameKeys DEF DumpTypes
  <2>7. ASSUME NEW g \in DOMAIN mem.procs
        PROVE  DumpProc(g)'
    <3>1. DumpProc(g) /\ g \in DOMAIN args
      BY <1>1 DEF DumpInv, DumpTypes
    <3>2. CASE g = f
      BY <1>1, <2>2, <2>4, <3>2, DumpSameKeys DEF DumpProc
    <3>3. CASE g # f
      <4>1. DumpApart => args[g].name # name
        BY <1>1, <3>1, <3>3 DEF DumpApart
      <4>2. QED
        BY <1>1, <2>2, <2>4, <3>1, <3>3, <4>1, DumpSameKeys DEF DumpProc
    <3>4. QED
      BY <3>2, <3>3
  <2>8. QED
    BY <1>1, <1>2, <2>2, <2>6, <2>7 DEF DumpInv
<1>5. QED
  BY <1>3, <1>4

(* What is written first and what was there, where it is longer.           *)
LEMMA DumpOver ==
    ASSUME NEW S, NEW s \in Seq(S), NEW t \in Seq(S)
    PROVE  /\ Dump!Over(s, t) \in Seq(S)
           /\ \A i \in DOMAIN s : i \in DOMAIN Dump!Over(s, t) /\ Dump!Over(s, t)[i] = s[i]
<1> DEFINE m == IF Len(s) >= Len(t) THEN Len(s) ELSE Len(t)
           u == [i \in 1..m |-> IF i <= Len(s) THEN s[i] ELSE t[i]]
<1>1. /\ Len(s) \in Nat /\ Len(t) \in Nat /\ DOMAIN s = 1..Len(s) /\ DOMAIN t = 1..Len(t)
      /\ \A i \in DOMAIN s : s[i] \in S
      /\ \A i \in DOMAIN t : t[i] \in S
  OBVIOUS
<1>2. Dump!Over(s, t) = u
  BY <1>1, DumpMax DEF Dump!Over
<1>3. m \in Nat /\ \A i \in 1..m : u[i] \in S
  BY <1>1
<1>4. u \in Seq(S)
  <2>1. u \in [1..m -> S]
    BY <1>3
  <2> HIDE DEF u, m
  <2>2. QED
    BY <1>3, <2>1
<1>5. \A i \in DOMAIN s : i \in DOMAIN u /\ u[i] = s[i]
  BY <1>1
<1>6. QED
  BY <1>2, <1>4, <1>5

LEMMA DumpWriteToFile ==
    ASSUME DumpInv, NEW f \in DOMAIN mem.procs, Dump!WriteToFile(f)
    PROVE  DumpInv'
<1> DEFINE name == args[f].name
           old == world.results[name]
           new == Dump!Over(Dump!Result(f), old)
<1>1. /\ DumpTypes /\ f \in DOMAIN args /\ mem.procs[f] = "write" /\ UNCHANGED <<pc, args>>
      /\ mem' = [mem EXCEPT !.procs[f] = "done"]
      /\ world' = [world EXCEPT !.results[name] = new]
  BY DEF DumpInv, DumpTypes, Dump!WriteToFile
<1>2. pc = "join"
  BY <1>1 DEF DumpInv, DumpTypes
<1>3. name \in DOMAIN world.results
  BY <1>1 DEF DumpInv, DumpProc
<1>4. /\ DOMAIN mem' = DOMAIN mem /\ mem'.keys = mem.keys
      /\ DOMAIN mem'.procs = DOMAIN mem.procs /\ mem'.procs[f] = "done"
      /\ \A g \in DOMAIN mem.procs : g # f => mem'.procs[g] = mem.procs[g]
  BY <1>1 DEF DumpTypes
<1>5. /\ DOMAIN world' = DOMAIN world
      /\ DOMAIN world'.results = DOMAIN world.results
      /\ world'.results[name] = new
      /\ \A n \in DOMAIN world.results : n # name => world'.results[n] = world.results[n]
  <2> HIDE DEF name, new
  <2> QED
    BY <1>1, <1>3 DEF DumpTypes
<1>6. /\ old \in Seq(DumpAll) /\ Dump!Result(f) \in Seq(DumpLines(f))
      /\ \A l \in DumpLines(f) : \E i \in DOMAIN Dump!Result(f) : Dump!Result(f)[i] = l
  BY <1>1, <1>3, DumpResult DEF DumpTypes
<1>7. Dump!Result(f) \in Seq(DumpAll)
  <2>1. DumpLines(f) \subseteq DumpAll
    BY <1>1 DEF DumpAll
  <2> DEFINE r == Dump!Result(f)
  <2> HIDE DEF r
  <2>2. \A i \in 1..Len(r) : r[i] \in DumpAll
    BY <1>6, <2>1, ElementOfSeq DEF r
  <2>3. QED
    BY <1>6, <2>2, IsASeq DEF r
<1>8. /\ new \in Seq(DumpAll)
      /\ \A i \in DOMAIN Dump!Result(f) : i \in DOMAIN new /\ new[i] = Dump!Result(f)[i]
  BY <1>6, <1>7, DumpOver
<1>9. \A l \in DumpLines(f) : \E i \in DOMAIN new : new[i] = l
  BY <1>6, <1>8
<1> HIDE DEF new, old
<1>10. DumpTypes'
  BY <1>1, <1>4, <1>5, <1>8, DumpSameKeys DEF DumpTypes
<1>11. ASSUME NEW g \in DOMAIN mem.procs
       PROVE  DumpProc(g)'
  <2>1. DumpProc(g) /\ g \in DOMAIN args
    BY <1>1 DEF DumpInv, DumpTypes
  <2>2. CASE g = f
    BY <1>1, <1>3, <1>4, <1>5, <1>9, <2>2, DumpSameKeys DEF DumpProc
  <2>3. CASE g # f
    <3>1. DumpApart => args[g].name # name
      BY <1>1, <2>1, <2>3 DEF DumpApart
    <3> HIDE DEF name
    <3>2. QED
      BY <1>1, <1>4, <1>5, <2>1, <2>3, <3>1, DumpSameKeys DEF DumpProc
  <2>4. QED
    BY <2>2, <2>3
<1>12. QED
  BY <1>1, <1>2, <1>4, <1>10, <1>11 DEF DumpInv

LEMMA DumpNext ==
    ASSUME DumpInv, Dump!Next
    PROVE  DumpInv'
<1>1. CASE \E keys \in SUBSET Keywords \ {{}} : Dump!Start(keys)
  BY <1>1, DumpStart
<1>2. CASE \E f \in DOMAIN mem.procs : Dump!Search(f) \/ Dump!WriteToFile(f)
  BY <1>2, DumpSearch, DumpWriteToFile
<1>3. CASE Dump!PrintContents \/ Dump!Exit
  <2>1. /\ UNCHANGED <<args, world, mem>> /\ pc' \in {"idle", "printed"}
        /\ DOMAIN mem.procs = DOMAIN args /\ \A f \in DOMAIN mem.procs : mem.procs[f] = "done"
    <3>1. CASE Dump!PrintContents
      BY <3>1 DEF Dump!PrintContents, DumpInv
    <3>2. CASE Dump!Exit
      BY <3>2 DEF Dump!Exit, DumpInv
    <3>3. QED
      BY <1>3, <3>1, <3>2
  <2>2. DumpTypes'
    BY <2>1, DumpSameKeys DEF DumpInv, DumpTypes
  <2>3. \A f \in DOMAIN mem.procs : DumpProc(f)'
    BY <2>1, DumpSameKeys DEF DumpInv, DumpProc
  <2>4. QED
    BY <2>1, <2>2, <2>3 DEF DumpInv
<1>4. QED
  BY <1>1, <1>2, <1>3 DEF Dump!Next

LEMMA DumpPrinted ==
    ASSUME DumpInv, pc = "printed"
    PROVE  /\ Dump!Lines \subseteq DumpAll
           /\ DumpApart => DumpAll \subseteq Dump!Lines
<1>1. ASSUME NEW l \in Dump!Lines
      PROVE  l \in DumpAll
  <2>1. PICK n \in DOMAIN world.results : \E i \in DOMAIN world.results[n] : world.results[n][i] = l
    BY <1>1 DEF Dump!Lines
  <2>2. world.results[n] \in Seq(DumpAll)
    BY <2>1 DEF DumpInv, DumpTypes
  <2>3. QED
    BY <2>1, <2>2, ElementOfSeq, LenProperties
<1>2. ASSUME DumpApart, NEW l \in DumpAll
      PROVE  l \in Dump!Lines
  <2>1. PICK f \in DOMAIN args : l \in DumpLines(f)
    BY <1>2 DEF DumpAll
  <2>2. f \in DOMAIN mem.procs /\ mem.procs[f] = "done" /\ DumpProc(f)
    BY <2>1 DEF DumpInv
  <2>3. QED
    BY <1>2, <2>1, <2>2 DEF DumpProc, Dump!Lines
<1>3. QED
  BY <1>1, <1>2

(* The lines between two separators of which none is between them, with    *)
(* all keywords and at most one on a line, are those of a message.         *)
LEMMA DumpMatches ==
    ASSUME DumpInv, NEW f \in DOMAIN args,
           NEW i \in DOMAIN args[f].lines, NEW j \in DOMAIN args[f].lines,
           args[f].lines[i] = {0}, args[f].lines[j] = {0}, i < j, Dump!Has(f, i, j),
           \A n \in i+1..j-1 : /\ ~(n \in DOMAIN args[f].lines /\ args[f].lines[n] = {0})
                               /\ Cardinality(args[f].lines[n]) <= 1
    PROVE  \A n \in i..j-1 : n \in Dump!InMessage(f)
<1> DEFINE lines == args[f].lines
           b == <<i, j>>
<1>1. /\ lines \in Seq(SUBSET (Keywords \cup {0})) /\ Len(lines) \in Nat
      /\ DOMAIN lines = 1..Len(lines)
  BY DumpFile DEF DumpInv
<1>2. mem.keys \subseteq Keywords
  BY DEF DumpInv, DumpTypes
<1> DEFINE seps == {k \in DOMAIN lines : lines[k] = {0}}
<1>3. \A k \in seps : ~(i < k /\ k < j)
  <2>1. ASSUME NEW k \in seps, i < k, k < j
        PROVE  FALSE
    <3>1. k \in i+1..j-1
      BY <1>1, <2>1
    <3>2. QED
      BY <2>1, <3>1
  <2>2. QED
    BY <2>1
<1>4. b \in Dump!Closed(lines)
  BY <1>3 DEF Dump!Closed, Dump!Sep
<1>5. ASSUME NEW n \in i+1..j-1
      PROVE  Dump!Found(lines[n]) = lines[n] \cap mem.keys
  <2>1. n \in 1..Len(lines)
    BY <1>1
  <2>2. lines[n] \subseteq Keywords \cup {0}
    BY <1>1, <2>1, ElementOfSeq
  <2> DEFINE line == lines[n]
             here == line \cap mem.keys
  <2>3. IsFiniteSet(line) /\ Cardinality(line) <= 1
    <3>1. IsFiniteSet(Keywords \cup {0})
      BY DumpAssumption, FS_AddElement
    <3>2. QED
      BY <2>2, <3>1, FS_Subset
  <2> HIDE DEF line
  <2>4. CASE here = {}
    BY <2>4 DEF Dump!Found, line
  <2>5. CASE here # {}
    <3>1. PICK k \in here : TRUE
      BY <2>5
    <3>2. Cardinality(line) # 0
      BY <2>3, <3>1, FS_EmptySet
    <3>3. Cardinality(line) = 1
      BY <2>3, <3>2, FS_CardinalityType
    <3>4. PICK x : line = {x}
      BY <2>3, <3>3, FS_Singleton
    <3>5. here = {k}
      BY <3>1, <3>4
    <3>6. here \subseteq Nat
      BY <1>2, DumpAssumption
    <3>7. Dump!Min(here) = k
      BY <3>5, <3>6, DumpMin
    <3>8. Dump!Found(line) = {Dump!Min(here)}
      BY <2>5 DEF Dump!Found
    <3>9. QED
      BY <3>5, <3>7, <3>8 DEF line
  <2>6. QED
    BY <2>4, <2>5
<1>6. \A k \in mem.keys : \E n \in i+1..j-1 : k \in lines[n]
  BY DEF Dump!Has
<1>7. UNION {Dump!Found(lines[n]) : n \in i+1..j-1} = mem.keys
  <2> HIDE DEF lines
  <2>1. \A k \in mem.keys : \E n \in i+1..j-1 : k \in Dump!Found(lines[n])
    BY <1>5, <1>6
  <2>2. QED
    BY <1>5, <2>1
<1>8. b \in Dump!Matching(lines)
  BY <1>4, <1>7 DEF Dump!Matching
<1>9. QED
  BY <1>8 DEF Dump!InMessage

LEMMA DumpProperties == DumpInv => Dump!MessagesFound
<1> SUFFICES ASSUME DumpInv, pc = "printed"
             PROVE  Dump!MessagesFound
  BY DEF Dump!MessagesFound
<1>1. DumpTypes
  BY DEF DumpInv
<1>2. ASSUME NEW l \in Dump!Lines
      PROVE  \E i \in 1..l[2], j \in l[2]+1..Len(args[l[1]].lines) :
                /\ args[l[1]].lines[i] = Dump!Sep /\ args[l[1]].lines[j] = Dump!Sep
                /\ Dump!Has(l[1], i, j)
  <2>1. PICK f \in DOMAIN args : l \in DumpLines(f)
    BY <1>2, DumpPrinted DEF DumpAll
  <2>2. l[1] = f /\ l[2] \in Dump!InMessage(f)
    BY <2>1 DEF DumpLines
  <2> DEFINE lines == args[f].lines
             n == l[2]
  <2>3. PICK b \in Dump!Matching(lines) :
                 /\ b[1] \in 1..Len(lines) /\ b[2] \in 1..Len(lines)
                 /\ b = <<b[1], b[2]>> /\ b[1] <= n /\ n < b[2] /\ n \in Nat
                 /\ lines[b[1]] = {0} /\ lines[b[2]] = {0}
    BY <1>1, <2>2, DumpInMessage
  <2>4. Len(lines) \in Nat /\ DOMAIN lines = 1..Len(lines)
    BY <1>1, DumpFile
  <2>5. b[1] \in 1..n /\ b[2] \in n+1..Len(lines)
    <3> HIDE DEF lines, n
    <3> QED
      BY <2>3, <2>4
  <2>6. Dump!Has(f, b[1], b[2])
    <3>1. ASSUME NEW k \in mem.keys
          PROVE  \E m \in b[1]+1..b[2]-1 : k \in lines[m]
      <4>1. k \in UNION {Dump!Found(lines[m]) : m \in b[1]+1..b[2]-1}
        BY <2>3, <3>1 DEF Dump!Matching
      <4>2. PICK m \in b[1]+1..b[2]-1 : k \in Dump!Found(lines[m])
        BY <4>1
      <4>3. lines[m] \cap mem.keys # {} /\ k = Dump!Min(lines[m] \cap mem.keys)
        BY <4>2 DEF Dump!Found
      <4>4. lines[m] \cap mem.keys \subseteq Nat
        BY <1>1, DumpAssumption DEF DumpTypes
      <4>5. QED
        BY <4>3, <4>4, DumpMin
    <3>2. QED
      BY <3>1 DEF Dump!Has
  <2>7. QED
    BY <2>2, <2>3, <2>5, <2>6 DEF Dump!Sep
<1>3. ASSUME \A f, g \in DOMAIN args : f # g => args[f].name # args[g].name,
             NEW f \in DOMAIN args
      PROVE  LET lines == args[f].lines
                 seps == {i \in DOMAIN lines : lines[i] = Dump!Sep}
             IN  \A i, j \in seps :
                    /\ i < j /\ Dump!Has(f, i, j)
                    /\ \A n \in i+1..j-1 :
                           n \notin seps /\ Dump!Cardinality(lines[n]) <= 1
                    => \A n \in i..j-1 : <<f, n>> \in Dump!Lines
  <2> DEFINE lines == args[f].lines
             seps == {i \in DOMAIN lines : lines[i] = Dump!Sep}
  <2>1. ASSUME NEW i \in seps, NEW j \in seps, i < j, Dump!Has(f, i, j),
               \A n \in i+1..j-1 : n \notin seps /\ Dump!Cardinality(lines[n]) <= 1,
               NEW n \in i..j-1
        PROVE  <<f, n>> \in Dump!Lines
    <3>1. /\ i \in DOMAIN lines /\ j \in DOMAIN lines /\ lines[i] = {0} /\ lines[j] = {0}
          /\ \A m \in i+1..j-1 : ~(m \in DOMAIN lines /\ lines[m] = {0})
      BY <2>1 DEF Dump!Sep
    <3>2. \A m \in i+1..j-1 : Cardinality(lines[m]) <= 1
      BY <2>1, DumpCardinality
    <3>3. n \in Dump!InMessage(f)
      BY <2>1, <3>1, <3>2, DumpMatches
    <3>4. <<f, n>> \in DumpAll
      BY <3>3 DEF DumpAll, DumpLines
    <3>5. QED
      BY <1>3, <3>4, DumpPrinted DEF DumpApart
  <2>2. QED
    BY <2>1
<1>4. QED
  BY <1>2, <1>3 DEF Dump!MessagesFound

-----------------------------------------------------------------------------
(* A function is defined by its first value and a step from one value to   *)
(* the next.                                                               *)
Recursion(k, m, D, base, step) ==
    /\ k \in [0..m -> D] /\ k[0] = base
    /\ \A i \in 1..m : k[i] = step[<<i, k[i - 1]>>]

LEMMA RecursionExists ==
    ASSUME NEW m \in Nat, NEW D, NEW base \in D, NEW step \in [(1..m) \X D -> D]
    PROVE  \E k : Recursion(k, m, D, base, step)
<1> DEFINE IsFun(k, n) == /\ k \in [0..n -> D] /\ k[0] = base
                          /\ \A i \in 1..n : k[i] = step[<<i, k[i - 1]>>]
           T == {n \in Nat : n <= m => \E k : IsFun(k, n)}
<1>1. 0 \in T
  <2>1. IsFun([i \in 0..0 |-> base], 0)
    OBVIOUS
  <2>2. QED
    BY <2>1
<1>2. ASSUME NEW n \in Nat, n \in T
      PROVE  n + 1 \in T
  <2> SUFFICES ASSUME n + 1 <= m
               PROVE  \E k : IsFun(k, n + 1)
    <3> HIDE DEF IsFun
    <3> QED
      OBVIOUS
  <2>1. PICK k : IsFun(k, n)
    <3>1. n <= m
      OBVIOUS
    <3>2. QED
      BY <1>2, <3>1
  <2> DEFINE u == [i \in 0..(n + 1) |-> IF i = n + 1 THEN step[<<n + 1, k[n]>>] ELSE k[i]]
  <2>2. k[n] \in D /\ n + 1 \in 1..m
    BY <2>1
  <2>3. step[<<n + 1, k[n]>>] \in D
    BY <2>2
  <2>4. u \in [0..(n + 1) -> D] /\ u[0] = base
    BY <2>1, <2>3
  <2>5. ASSUME NEW i \in 1..(n + 1)
        PROVE  u[i] = step[<<i, u[i - 1]>>]
    <3>1. CASE i = n + 1
      <4>1. u[i] = step[<<n + 1, k[n]>>] /\ i - 1 = n /\ n \in 0..(n + 1) /\ n # n + 1
        BY <3>1
      <4>2. u[n] = k[n]
        BY <4>1
      <4>3. QED
        BY <3>1, <4>1, <4>2
    <3>2. CASE i # n + 1
      <4>1. i \in 1..n /\ i \in 0..(n + 1) /\ i - 1 \in 0..(n + 1) /\ i - 1 # n + 1
        BY <3>2
      <4>2. u[i] = k[i] /\ u[i - 1] = k[i - 1]
        BY <3>2, <4>1
      <4>3. QED
        BY <2>1, <4>1, <4>2
    <3>3. QED
      BY <3>1, <3>2
  <2>6. IsFun(u, n + 1)
    <3> HIDE DEF u
    <3> QED
      BY <2>4, <2>5
  <2>7. QED
    BY <2>6
<1>3. \A n \in Nat : n \in T
  <2> HIDE DEF T
  <2> QED
    BY <1>1, <1>2, SetInduction
<1>4. \E k : IsFun(k, m)
  <2> HIDE DEF IsFun
  <2>1. m \in T
    <3> HIDE DEF T
    <3> QED
      BY <1>3
  <2>2. QED
    BY <2>1
<1>5. QED
  BY <1>4 DEF Recursion

(* qvsdbg's tables.                                                        *)

(* The partial sums of a sequence.                                         *)
SumsOf(u, s) == u = [i \in 0..Len(s) |-> IF i = 0 THEN 0 ELSE u[i - 1] + s[i]]

PartialSums(u, s) ==
    /\ u \in [0..Len(s) -> Nat] /\ u[0] = 0
    /\ \A i \in 1..Len(s) : u[i] = u[i - 1] + s[i]

LEMMA SumsExist ==
    ASSUME NEW s \in Seq(Nat)
    PROVE  \E u : SumsOf(u, s)
<1> DEFINE m == Len(s)
           step == [p \in (1..m) \X Nat |-> p[2] + s[p[1]]]
<1>1. m \in Nat /\ \A i \in 1..m : s[i] \in Nat
  OBVIOUS
<1> HIDE DEF m
<1>2. step \in [(1..m) \X Nat -> Nat]
  BY <1>1
<1>3. PICK u : Recursion(u, m, Nat, 0, step)
  <2> HIDE DEF step
  <2>1. 0 \in Nat
    OBVIOUS
  <2>2. QED
    BY <1>1, <1>2, <2>1, RecursionExists
<1>4. ASSUME NEW i \in 0..m
      PROVE  u[i] = IF i = 0 THEN 0 ELSE u[i - 1] + s[i]
  <2>1. CASE i = 0
    BY <1>3, <2>1 DEF Recursion
  <2>2. CASE i # 0
    <3>1. i \in 1..m /\ i - 1 \in 0..m
      BY <1>1, <2>2
    <3>2. u[i - 1] \in Nat /\ <<i, u[i - 1]>> \in (1..m) \X Nat
      BY <1>3, <3>1 DEF Recursion
    <3>3. QED
      BY <1>3, <2>2, <3>1, <3>2 DEF Recursion
  <2>3. QED
    BY <2>1, <2>2
<1>5. SumsOf(u, s)
  BY <1>3, <1>4 DEF Recursion, SumsOf, m
<1>6. QED
  BY <1>5

LEMMA SumsArePartial ==
    ASSUME NEW s \in Seq(Nat), NEW sum, SumsOf(sum, s)
    PROVE  PartialSums(sum, s)
<1> DEFINE m == Len(s)
           T == {i \in Nat : i <= m => sum[i] \in Nat}
<1>1. m \in Nat /\ \A i \in 1..m : s[i] \in Nat
  OBVIOUS
<1>2. sum = [i \in 0..m |-> IF i = 0 THEN 0 ELSE sum[i - 1] + s[i]]
  BY DEF SumsOf
<1> HIDE DEF m
<1>3. sum[0] = 0 /\ \A i \in 1..m : sum[i] = sum[i - 1] + s[i]
  <2>1. 0 \in 0..m /\ \A i \in 1..m : i \in 0..m /\ i # 0
    BY <1>1
  <2>2. QED
    BY <1>2, <2>1
<1>4. 0 \in T
  BY <1>3
<1>5. ASSUME NEW n \in Nat, n \in T
      PROVE  n + 1 \in T
  <2> SUFFICES ASSUME n + 1 <= m
               PROVE  sum[n + 1] \in Nat
    OBVIOUS
  <2>1. n + 1 \in 1..m /\ (n + 1) - 1 = n /\ n <= m
    BY <1>1
  <2>2. sum[n] \in Nat
    BY <1>5, <2>1
  <2>3. sum[n + 1] = sum[n] + s[n + 1]
    BY <1>3, <2>1
  <2>4. s[n + 1] \in Nat
    BY <1>1, <2>1
  <2>5. QED
    BY <2>2, <2>3, <2>4
<1>6. \A n \in Nat : n \in T
  <2> HIDE DEF T
  <2> QED
    BY <1>4, <1>5, SetInduction
<1>7. \A i \in 0..m : sum[i] \in Nat
  BY <1>1, <1>6
<1>8. sum \in [0..m -> Nat]
  <2>1. DOMAIN sum = 0..m /\ sum = [i \in 0..m |-> sum[i]]
    BY <1>2
  <2>2. QED
    BY <1>7, <2>1
<1>9. QED
  BY <1>3, <1>8 DEF PartialSums, m

LEMMA SumsGrow ==
    ASSUME NEW s \in Seq(Nat), NEW u, PartialSums(u, s), NEW i \in 0..Len(s)
    PROVE  u[i] \in Nat /\ u[i] <= u[Len(s)] /\ u[Len(s)] \in Nat
<1> DEFINE m == Len(s)
           T == {n \in Nat : i + n <= m => u[i] <= u[i + n]}
<1>1. /\ m \in Nat /\ \A j \in 1..m : s[j] \in Nat
      /\ \A j \in 0..m : u[j] \in Nat
      /\ \A j \in 1..m : u[j] = u[j - 1] + s[j]
  <2>1. m \in Nat /\ \A j \in 1..m : s[j] \in Nat
    OBVIOUS
  <2>2. u \in [0..m -> Nat] /\ \A j \in 1..m : u[j] = u[j - 1] + s[j]
    BY DEF PartialSums
  <2> HIDE DEF m
  <2>3. \A j \in 0..m : u[j] \in Nat
    BY <2>2
  <2>4. QED
    BY <2>1, <2>2, <2>3
<1>2. m \in Nat /\ i \in 0..m
  BY <1>1
<1> HIDE DEF m
<1>3. 0 \in T
  <2>1. u[i] \in Nat /\ i + 0 = i
    BY <1>1, <1>2
  <2>2. QED
    BY <2>1
<1>4. ASSUME NEW n \in Nat, n \in T
      PROVE  n + 1 \in T
  <2> SUFFICES ASSUME i + (n + 1) <= m
               PROVE  u[i] <= u[i + (n + 1)]
    OBVIOUS
  <2> DEFINE j == i + (n + 1)
  <2>1. j \in 1..m /\ j - 1 = i + n /\ j - 1 \in 0..m /\ i + n <= m /\ i \in 0..m
    BY <1>2
  <2>2. u[i] <= u[i + n]
    BY <1>4, <2>1
  <2> HIDE DEF j
  <2>3. u[j] = u[j - 1] + s[j] /\ s[j] \in Nat /\ u[j - 1] \in Nat /\ u[i] \in Nat
    BY <1>1, <2>1
  <2>4. u[i] <= u[j]
    BY <2>1, <2>2, <2>3
  <2>5. QED
    BY <2>4 DEF j
<1>5. \A n \in Nat : n \in T
  <2> HIDE DEF T
  <2> QED
    BY <1>3, <1>4, SetInduction
<1>6. m - i \in Nat /\ i + (m - i) = m
  BY <1>2
<1>7. u[i] <= u[m]
  <2>1. m - i \in T
    <3> HIDE DEF T
    <3> QED
      BY <1>5, <1>6
  <2>2. QED
    BY <1>2, <1>6, <2>1
<1>8. m \in 0..m
  BY <1>2
<1>9. QED
  BY <1>1, <1>2, <1>7, <1>8 DEF m

(* The sum of a sequence is the last of its partial sums.                  *)
LEMMA TablesSum ==
    ASSUME NEW s \in Seq(Nat)
    PROVE  /\ \E u : PartialSums(u, s) /\ Tables!Sum(s) = u[Len(s)]
           /\ Tables!Sum(s) \in Nat
<1> DEFINE sum == CHOOSE u : SumsOf(u, s)
<1>1. SumsOf(sum, s)
  BY SumsExist
<1>2. Tables!Sum(s) = sum[Len(s)]
  BY DEF Tables!Sum, SumsOf
<1> HIDE DEF sum
<1>3. PartialSums(sum, s)
  BY <1>1, SumsArePartial
<1>4. Len(s) \in 0..Len(s)
  OBVIOUS
<1>5. sum[Len(s)] \in Nat
  BY <1>3, <1>4 DEF PartialSums
<1>6. QED
  BY <1>2, <1>3, <1>5

LEMMA TablesSumZero ==
    ASSUME NEW s \in Seq(Nat), \A i \in 1..Len(s) : s[i] = 0
    PROVE  Tables!Sum(s) = 0
<1>1. PICK u : PartialSums(u, s) /\ Tables!Sum(s) = u[Len(s)]
  BY TablesSum
<1> DEFINE T == {n \in Nat : n <= Len(s) => u[n] = 0}
<1>2. 0 \in T
  BY <1>1 DEF PartialSums
<1>3. ASSUME NEW n \in Nat, n \in T
      PROVE  n + 1 \in T
  <2> SUFFICES ASSUME n + 1 <= Len(s)
               PROVE  u[n + 1] = 0
    OBVIOUS
  <2>1. n + 1 \in 1..Len(s) /\ (n + 1) - 1 = n
    OBVIOUS
  <2>2. QED
    BY <1>1, <1>3, <2>1 DEF PartialSums
<1>4. \A n \in Nat : n \in T
  <2> HIDE DEF T
  <2> QED
    BY <1>2, <1>3, SetInduction
<1>5. QED
  BY <1>1, <1>4

LEMMA TablesSumAdds ==
    ASSUME NEW s \in Seq(Nat), NEW k \in DOMAIN s,
           NEW t \in Seq(Nat), t = [s EXCEPT ![k] = @ + 1]
    PROVE  Tables!Sum(t) = Tables!Sum(s) + 1
<1>1. PICK u : PartialSums(u, s) /\ Tables!Sum(s) = u[Len(s)]
  BY TablesSum
<1>2. PICK v : PartialSums(v, t) /\ Tables!Sum(t) = v[Len(t)]
  BY TablesSum
<1> DEFINE m == Len(s)
<1>3. /\ m \in Nat /\ Len(t) = m /\ k \in 1..m
      /\ t[k] = s[k] + 1 /\ \A i \in 1..m : s[i] \in Nat /\ (i # k => t[i] = s[i])
  OBVIOUS
<1>0. m \in Nat /\ k \in 1..m
  OBVIOUS
<1> HIDE DEF m
<1> DEFINE T == {n \in Nat : n <= m => v[n] = IF n < k THEN u[n] ELSE u[n] + 1}
<1>4. 0 \in T
  BY <1>1, <1>2, <1>3 DEF PartialSums
<1>5. ASSUME NEW n \in Nat, n \in T
      PROVE  n + 1 \in T
  <2> SUFFICES ASSUME n + 1 <= m
               PROVE  v[n + 1] = IF n + 1 < k THEN u[n + 1] ELSE u[n + 1] + 1
    OBVIOUS
  <2>1. n + 1 \in 1..m /\ (n + 1) - 1 = n /\ n \in 0..m
    BY <1>0
  <2>2. /\ u[n + 1] = u[n] + s[n + 1] /\ v[n + 1] = v[n] + t[n + 1]
        /\ u[n] \in Nat /\ v[n] \in Nat
    BY <1>1, <1>2, <1>3, <2>1 DEF PartialSums, m
  <2>3. v[n] = IF n < k THEN u[n] ELSE u[n] + 1
    BY <1>5, <2>1, <1>3
  <2>4. s[n + 1] \in Nat /\ t[n + 1] = IF n + 1 = k THEN s[n + 1] + 1 ELSE s[n + 1]
    BY <1>3, <2>1
  <2>5. n \in Nat /\ k \in Nat /\ u[n] \in Nat
    BY <1>3, <2>2
  <2> DEFINE a == s[n + 1]
             c == u[n]
  <2>6. /\ v[n + 1] = (IF n < k THEN c ELSE c + 1) + (IF n + 1 = k THEN a + 1 ELSE a)
        /\ u[n + 1] = c + a /\ a \in Nat /\ c \in Nat
    BY <2>2, <2>3, <2>4
  <2> HIDE DEF a, c
  <2>7. CASE n + 1 < k
    BY <2>5, <2>6, <2>7
  <2>8. CASE n + 1 = k
    BY <2>5, <2>6, <2>8
  <2>9. CASE n + 1 > k
    BY <2>5, <2>6, <2>9
  <2>10. QED
    BY <2>5, <2>7, <2>8, <2>9
<1>6. \A n \in Nat : n \in T
  <2> HIDE DEF T
  <2> QED
    BY <1>4, <1>5, SetInduction
<1>7. v[m] = u[m] + 1
  BY <1>3, <1>6
<1>8. QED
  BY <1>1, <1>2, <1>3, <1>7 DEF m

LEMMA TablesCardinality == ASSUME NEW S PROVE Tables!Cardinality(S) = Cardinality(S)
BY DEF Tables!Cardinality, Cardinality

(* The points that are read among the first lines.                         *)
TablesRead(n) == {i \in 1..n : args.kind = "points" /\ args.lines[i].ok}

TablesTypes ==
    /\ pc \in {"read", "report", "fatal", "panic"} /\ args \in TableLogs
    /\ DOMAIN mem = {"line", "unknown", "localhost", "private", "nodes", "seen",
                     "method", "bps", "uid"}
    /\ mem.line \in Nat \ {0} /\ mem.line <= Len(args.lines) + 1
    /\ mem.unknown \in Nat /\ mem.localhost \in Nat /\ mem.private \in Nat
    /\ mem.nodes \in Seq(Nat) /\ DOMAIN mem.nodes = DOMAIN TableNodes
    /\ mem.uid \in Seq(Nat) /\ DOMAIN mem.uid = {1, 2}
    /\ DOMAIN mem.method = Tables!Methods
    /\ \A m \in Tables!Methods : mem.method[m] \in [{1, 2} -> Nat]

TablesCounted ==
    /\ args.kind = "netstat" =>
          /\ mem.localhost + mem.unknown + Tables!Sum(mem.nodes) = mem.line - 1
          /\ mem.private <= mem.unknown + Tables!Sum(mem.nodes)
    /\ Tables!Sum(mem.uid) = Cardinality(TablesRead(mem.line - 1))
    /\ \A m \in Tables!Methods, s \in {1, 2} : mem.method[m][s] > 0 => s \in mem.seen

TablesInv ==
    /\ TablesTypes /\ TablesCounted
    /\ pc = "report" => mem.line = Len(args.lines) + 1

LEMMA TablesLog ==
    ASSUME args \in TableLogs
    PROVE  /\ Len(args.lines) \in Nat /\ DOMAIN args.lines = 1..Len(args.lines)
           /\ args.kind \in {"netstat", "points"}
           /\ args.kind = "points" => \A i \in 1..Len(args.lines) :
                 args.lines[i].uid \in {1, 2} /\ args.lines[i].stream \in {1, 2}
<1> DEFINE N == [fields : Nat, ip : STRING]
           P == [ok : BOOLEAN, stream : Tables!Streams, method : STRING,
                 uid : Tables!Uids, bps : Seq(Nat)]
           SN == Seq(N)
           SP == Seq(P)
<1>1. args \in [kind : {"netstat"}, lines : SN] \cup [kind : {"points"}, lines : SP]
  BY TablesAssumption
<1>2. \A p \in P : p.uid \in {1, 2} /\ p.stream \in {1, 2}
  BY DEF Tables!Streams, Tables!Uids
<1>3. \A s \in SN : Len(s) \in Nat /\ DOMAIN s = 1..Len(s)
  BY LenProperties
<1>4. \A s \in SP : /\ Len(s) \in Nat /\ DOMAIN s = 1..Len(s)
                    /\ \A i \in 1..Len(s) : s[i] \in P
  BY LenProperties, ElementOfSeq
<1> HIDE DEF SN, SP, P
<1>5. CASE args \in [kind : {"netstat"}, lines : SN]
  BY <1>3, <1>5
<1>6. CASE args \in [kind : {"points"}, lines : SP]
  <2>1. args.kind = "points" /\ args.lines \in SP
    BY <1>6
  <2>2. QED
    BY <1>2, <1>4, <2>1
<1>7. QED
  BY <1>1, <1>5, <1>6

(* One more line is read: a point that is counted, or not.                 *)
LEMMA TablesNextLine ==
    ASSUME NEW n \in Nat
    PROVE  /\ IsFiniteSet(TablesRead(n)) /\ Cardinality(TablesRead(n)) \in Nat
           /\ args.kind = "points" /\ args.lines[n + 1].ok =>
                 Cardinality(TablesRead(n + 1)) = Cardinality(TablesRead(n)) + 1
           /\ ~(args.kind = "points" /\ args.lines[n + 1].ok) =>
                 TablesRead(n + 1) = TablesRead(n)
<1>1. 1..(n + 1) = 1..n \cup {n + 1} /\ n + 1 \notin 1..n
  OBVIOUS
<1>2. IsFiniteSet(TablesRead(n))
  <2>1. TablesRead(n) \subseteq 1..n
    BY DEF TablesRead
  <2>2. IsFiniteSet(1..n)
    BY FS_Interval
  <2>3. QED
    BY <2>1, <2>2, FS_Subset
<1>3. ~(args.kind = "points" /\ args.lines[n + 1].ok) => TablesRead(n + 1) = TablesRead(n)
  BY <1>1 DEF TablesRead
<1>4. ASSUME args.kind = "points", args.lines[n + 1].ok
      PROVE  TablesRead(n + 1) = TablesRead(n) \cup {n + 1} /\ n + 1 \notin TablesRead(n)
  BY <1>1, <1>4 DEF TablesRead
<1>5. QED
  BY <1>2, <1>3, <1>4, FS_AddElement, FS_CardinalityType

LEMMA TablesInit == Tables!Init => TablesInv
<1> SUFFICES ASSUME Tables!Init
             PROVE  TablesInv
  OBVIOUS
<1>1. /\ pc = "read" /\ args \in TableLogs
      /\ mem = [line |-> 1, unknown |-> 0, localhost |-> 0, private |-> 0,
                nodes |-> [x \in DOMAIN TableNodes |-> 0], seen |-> {},
                method |-> [m \in Tables!Methods |-> [x \in {1, 2} |-> 0]],
                bps |-> [x \in {1, 2} |-> 0], uid |-> [x \in {1, 2} |-> 0]]
  BY DEF Tables!Init, Tables!Zero, Tables!Streams, Tables!Uids
<1> DEFINE nodes == [x \in DOMAIN TableNodes |-> 0]
           uid == [x \in {1, 2} |-> 0]
<1>2. nodes \in Seq(Nat) /\ \A i \in 1..Len(nodes) : nodes[i] = 0
  <2>1. Len(TableNodes) \in Nat /\ DOMAIN TableNodes = 1..Len(TableNodes)
    BY TablesAssumption, LenProperties
  <2>2. nodes = [x \in 1..Len(TableNodes) |-> 0]
    BY <2>1
  <2>3. QED
    BY <2>1, <2>2
<1>3. uid \in Seq(Nat) /\ \A i \in 1..Len(uid) : uid[i] = 0
  <2>1. {1, 2} = 1..2
    OBVIOUS
  <2>2. uid = [x \in 1..2 |-> 0]
    BY <2>1
  <2>3. uid = <<0, 0>>
    BY <2>2
  <2>4. <<0, 0>> \in Seq(Nat) /\ Len(<<0, 0>>) = 2
    OBVIOUS
  <2>5. \A i \in 1..2 : uid[i] = 0
    BY <2>2
  <2> HIDE DEF uid
  <2>6. QED
    BY <2>3, <2>4, <2>5
<1>4. Tables!Sum(nodes) = 0 /\ Tables!Sum(uid) = 0
  <2> HIDE DEF nodes, uid
  <2> QED
    BY <1>2, <1>3, TablesSumZero
<1>5. TablesRead(0) = {} /\ Cardinality(TablesRead(0)) = 0
  BY FS_EmptySet DEF TablesRead
<1>6. Len(args.lines) \in Nat
  BY <1>1, TablesLog
<1>7. /\ mem.line = 1 /\ mem.unknown = 0 /\ mem.localhost = 0 /\ mem.private = 0
      /\ mem.nodes = nodes /\ mem.uid = uid /\ mem.seen = {}
      /\ mem.method = [m \in Tables!Methods |-> [x \in {1, 2} |-> 0]]
      /\ DOMAIN mem = {"line", "unknown", "localhost", "private", "nodes", "seen",
                     "method", "bps", "uid"}
      /\ DOMAIN nodes = DOMAIN TableNodes /\ DOMAIN uid = {1, 2}
  BY <1>1
<1> HIDE DEF nodes, uid
<1>8. \A m \in Tables!Methods : mem.method[m] = [x \in {1, 2} |-> 0]
  BY <1>7
<1>9. TablesTypes
  <2>1. /\ DOMAIN mem.method = Tables!Methods
        /\ \A m \in Tables!Methods : mem.method[m] \in [{1, 2} -> Nat]
    BY <1>7, <1>8
  <2>2. mem.line \in Nat \ {0} /\ mem.line <= Len(args.lines) + 1
    BY <1>6, <1>7
  <2>3. QED
    BY <1>1, <1>2, <1>3, <1>7, <2>1, <2>2 DEF TablesTypes
<1>10. TablesCounted
  BY <1>4, <1>5, <1>7, <1>8 DEF TablesCounted
<1>11. QED
  BY <1>1, <1>9, <1>10 DEF TablesInv

LEMMA TablesNetstat ==
    ASSUME TablesInv, Tables!Netstat
    PROVE  TablesInv'
<1> DEFINE read == mem.line - 1
           bad == world' = "unasked" \/ Tables!Known(Tables!Line.ip) = {}
           private == Tables!IsPrivate(Tables!Line.ip)
           local == Tables!Line.ip = Tables!Localhost
           node == Tables!Min(Tables!Known(Tables!Line.ip))
<1>1. /\ TablesTypes /\ TablesCounted /\ pc = "read" /\ UNCHANGED <<pc, args>>
      /\ args.kind = "netstat" /\ ~(mem.line > Len(args.lines))
  BY DEF TablesInv, Tables!Netstat, Tables!Reading, Tables!AtEnd
<1>2. /\ Len(args.lines) \in Nat
      /\ TablesRead(read) = {} /\ TablesRead(mem.line) = {}
  BY <1>1, TablesLog DEF TablesRead, TablesTypes
<1>3. ~(private /\ local)
  BY DEF Tables!IsPrivate, Tables!Localhost
<1>4. ~bad /\ ~local => node \in DOMAIN mem.nodes
  <2>1. Tables!Known(Tables!Line.ip) \subseteq DOMAIN TableNodes
    BY DEF Tables!Known
  <2>2. DOMAIN TableNodes \subseteq Nat
    BY TablesAssumption, LenProperties
  <2>3. Tables!Known(Tables!Line.ip) # {} => node \in Tables!Known(Tables!Line.ip)
    BY <2>1, <2>2, LeastExists DEF Tables!Min
  <2>4. QED
    BY <1>1, <2>1, <2>3 DEF TablesTypes
<1>5. /\ DOMAIN mem' = DOMAIN mem /\ mem'.line = mem.line + 1
      /\ mem'.uid = mem.uid /\ mem'.method = mem.method /\ mem'.seen = mem.seen
      /\ mem'.private = IF private THEN mem.private + 1 ELSE mem.private
      /\ mem'.localhost = IF local THEN mem.localhost + 1 ELSE mem.localhost
      /\ mem'.unknown = IF ~local /\ bad THEN mem.unknown + 1 ELSE mem.unknown
      /\ mem'.nodes = IF ~local /\ ~bad THEN [mem.nodes EXCEPT ![node] = @ + 1] ELSE mem.nodes
  <2> DEFINE counted == IF private THEN [Tables!Advanced EXCEPT !.private = @ + 1]
                                   ELSE Tables!Advanced
  <2>1. IF local THEN mem' = [counted EXCEPT !.localhost = @ + 1]
        ELSE mem' = IF bad THEN [counted EXCEPT !.unknown = @ + 1]
                    ELSE [counted EXCEPT !.nodes[node] = @ + 1]
    BY DEF Tables!Netstat
  <2>2. /\ DOMAIN counted = DOMAIN mem /\ counted.line = mem.line + 1
        /\ counted.uid = mem.uid /\ counted.method = mem.method /\ counted.seen = mem.seen
        /\ counted.private = IF private THEN mem.private + 1 ELSE mem.private
        /\ counted.localhost = mem.localhost /\ counted.unknown = mem.unknown
        /\ counted.nodes = mem.nodes
    <3> HIDE DEF private
    <3> QED
      BY <1>1 DEF Tables!Advanced, TablesTypes
  <2>3. DOMAIN counted = {"line", "unknown", "localhost", "private", "nodes", "seen",
                     "method", "bps", "uid"}
    BY <1>1, <2>2 DEF TablesTypes
  <2> HIDE DEF counted, private, local, bad, node
  <2>4. CASE local
    BY <2>1, <2>2, <2>3, <2>4
  <2>5. CASE ~local /\ bad
    BY <2>1, <2>2, <2>3, <2>5
  <2>6. CASE ~local /\ ~bad
    BY <2>1, <2>2, <2>3, <2>6
  <2>7. QED
    BY <2>4, <2>5, <2>6
<1> HIDE DEF private, local, bad, node
<1>6. /\ mem'.nodes \in Seq(Nat) /\ DOMAIN mem'.nodes = DOMAIN TableNodes
      /\ Tables!Sum(mem.nodes) \in Nat
      /\ Tables!Sum(mem'.nodes) = IF ~local /\ ~bad THEN Tables!Sum(mem.nodes) + 1
                                  ELSE Tables!Sum(mem.nodes)
  <2>1. mem.nodes \in Seq(Nat) /\ DOMAIN mem.nodes = DOMAIN TableNodes
    BY <1>1 DEF TablesTypes
  <2>2. Tables!Sum(mem.nodes) \in Nat
    BY <2>1, TablesSum
  <2>3. CASE ~local /\ ~bad
    <3>1. mem'.nodes = [mem.nodes EXCEPT ![node] = @ + 1] /\ node \in DOMAIN mem.nodes
      BY <1>4, <1>5, <2>3
    <3>2. mem'.nodes \in Seq(Nat) /\ DOMAIN mem'.nodes = DOMAIN mem.nodes
      <4>1. mem.nodes[node] + 1 \in Nat
        BY <2>1, <3>1, ElementOfSeq, LenProperties
      <4>2. QED
        BY <2>1, <3>1, <4>1, ExceptSeq
    <3>3. QED
      BY <2>1, <2>2, <2>3, <3>1, <3>2, TablesSumAdds
  <2>4. CASE ~(~local /\ ~bad)
    BY <1>5, <2>1, <2>2, <2>4
  <2>5. QED
    BY <2>3, <2>4
<1>7. TablesTypes'
  <2>1. mem'.line \in Nat \ {0} /\ mem'.line <= Len(args.lines) + 1
    BY <1>1, <1>2, <1>5 DEF TablesTypes
  <2>2. mem'.unknown \in Nat /\ mem'.localhost \in Nat /\ mem'.private \in Nat
    <3>1. mem.unknown \in Nat /\ mem.localhost \in Nat /\ mem.private \in Nat
      BY <1>1 DEF TablesTypes
    <3>2. QED
      BY <1>5, <3>1
  <2>3. QED
    BY <1>1, <1>5, <1>6, <2>1, <2>2 DEF TablesTypes
<1>8. TablesCounted'
  <2>1. TablesRead(mem.line - 1)' = {}
    BY <1>1 DEF TablesRead
  <2>2. Tables!Sum(mem'.uid) = Cardinality(TablesRead(mem.line - 1)')
    <3>1. Tables!Sum(mem.uid) = Cardinality({})
      BY <1>1, <1>2 DEF TablesCounted
    <3>2. QED
      BY <1>5, <2>1, <3>1
  <2>3. /\ mem'.localhost + mem'.unknown + Tables!Sum(mem'.nodes) = mem'.line - 1
        /\ mem'.private <= mem'.unknown + Tables!Sum(mem'.nodes)
    <3> DEFINE a == mem.localhost
               b == mem.unknown
               c == Tables!Sum(mem.nodes)
               d == mem.private
    <3>1. /\ a \in Nat /\ b \in Nat /\ c \in Nat /\ d \in Nat
          /\ a + b + c = mem.line - 1 /\ d <= b + c /\ mem.line \in Nat
      BY <1>1, <1>6 DEF TablesTypes, TablesCounted
    <3> HIDE DEF a, b, c, d
    <3>2. /\ mem'.localhost = IF local THEN a + 1 ELSE a
          /\ mem'.unknown = IF ~local /\ bad THEN b + 1 ELSE b
          /\ Tables!Sum(mem'.nodes) = IF ~local /\ ~bad THEN c + 1 ELSE c
          /\ mem'.private = IF private THEN d + 1 ELSE d
          /\ mem'.line = mem.line + 1
      BY <1>5, <1>6 DEF a, b, c, d
    <3>3. QED
      BY <1>3, <3>1, <3>2 DEF private, local
  <2>4. QED
    BY <1>1, <1>5, <2>2, <2>3 DEF TablesCounted
<1>9. QED
  BY <1>1, <1>7, <1>8 DEF TablesInv

LEMMA TablesPoint ==
    ASSUME TablesInv, Tables!Point
    PROVE  TablesInv'
<1> DEFINE line == args.lines[mem.line]
           uid == line.uid
           method == line.method
           stream == line.stream
           counted == method \in Tables!Methods
<1>1. /\ TablesTypes /\ TablesCounted /\ pc = "read" /\ UNCHANGED <<pc, args>>
      /\ args.kind = "points" /\ ~(mem.line > Len(args.lines)) /\ line.ok
  BY DEF TablesInv, Tables!Point, Tables!Reading, Tables!AtEnd, Tables!Line
<1>2. Len(args.lines) \in Nat /\ mem.line \in 1..Len(args.lines)
  BY <1>1, TablesLog DEF TablesTypes
<1>3. uid \in {1, 2} /\ stream \in {1, 2}
  BY <1>1, <1>2, TablesLog DEF TablesTypes
<1>4. /\ DOMAIN mem' = DOMAIN mem /\ mem'.line = mem.line + 1
      /\ mem'.unknown = mem.unknown /\ mem'.localhost = mem.localhost
      /\ mem'.private = mem.private /\ mem'.nodes = mem.nodes
      /\ mem'.seen = mem.seen \cup {stream}
      /\ DOMAIN mem'.method = Tables!Methods
      /\ \A m \in Tables!Methods :
            mem'.method[m] = IF counted /\ m = method
                             THEN [mem.method[m] EXCEPT ![stream] = @ + 1]
                             ELSE mem.method[m]
      /\ mem'.uid = [mem.uid EXCEPT ![uid] = @ + 1]
  <2> DEFINE read == [mem EXCEPT !.line = @ + 1]
             mean == Tables!Sum(line.bps) \div Len(line.bps)
             new == [mem.method EXCEPT ![method][stream] = @ + 1]
  <2>1. mem' = [read EXCEPT
                   !.seen = @ \cup {stream},
                   !.method = IF counted THEN new ELSE @,
                   !.uid[uid] = @ + 1,
                   !.bps[stream] = Tables!Max({@, mean})]
    BY DEF Tables!Point, Tables!Advanced, Tables!Line
  <2>2. /\ DOMAIN read = DOMAIN mem /\ read.line = mem.line + 1
        /\ read.unknown = mem.unknown /\ read.localhost = mem.localhost
        /\ read.private = mem.private /\ read.nodes = mem.nodes
        /\ read.seen = mem.seen /\ read.method = mem.method /\ read.uid = mem.uid
        /\ DOMAIN mem = {"line", "unknown", "localhost", "private", "nodes", "seen",
                         "method", "bps", "uid"}
    BY <1>1 DEF TablesTypes
  <2> HIDE DEF read, line, uid, method, stream, mean, counted, new
  <2>3. DOMAIN mem' = DOMAIN mem
    BY <2>1, <2>2
  <2>4. mem'.line = mem.line + 1
    BY <2>1, <2>2
  <2>5. /\ mem'.unknown = mem.unknown /\ mem'.localhost = mem.localhost
        /\ mem'.private = mem.private
    BY <2>1, <2>2
  <2>6. mem'.nodes = mem.nodes
    BY <2>1, <2>2
  <2>7. mem'.seen = mem.seen \cup {stream}
    BY <2>1, <2>2
  <2>8. /\ DOMAIN mem'.method = Tables!Methods
        /\ \A m \in Tables!Methods :
              mem'.method[m] = IF counted /\ m = method
                               THEN [mem.method[m] EXCEPT ![stream] = @ + 1]
                               ELSE mem.method[m]
    <3>1. DOMAIN mem.method = Tables!Methods
      BY <1>1 DEF TablesTypes
    <3>2. CASE ~counted
      BY <2>1, <2>2, <3>1, <3>2
    <3>3. CASE counted
      <4>1. mem'.method = new
        BY <2>1, <2>2, <3>3
      <4>2. QED
        BY <3>1, <3>3, <4>1 DEF new
    <3>4. QED
      BY <3>2, <3>3
  <2>9. mem'.uid = [mem.uid EXCEPT ![uid] = @ + 1]
    BY <2>1, <2>2
  <2>10. QED
    BY <2>3, <2>4, <2>5, <2>6, <2>7, <2>8, <2>9
<1> HIDE DEF line, uid, method, stream
<1>5. /\ mem'.uid \in Seq(Nat) /\ DOMAIN mem'.uid = {1, 2}
      /\ Tables!Sum(mem'.uid) = Tables!Sum(mem.uid) + 1
  <2>1. mem.uid \in Seq(Nat) /\ DOMAIN mem.uid = {1, 2} /\ uid \in DOMAIN mem.uid
    BY <1>1, <1>3 DEF TablesTypes
  <2>2. uid \in 1..Len(mem.uid) /\ mem.uid[uid] + 1 \in Nat
    <3>1. uid \in 1..Len(mem.uid)
      BY <2>1, LenProperties
    <3>2. mem.uid[uid] \in Nat
      BY <2>1, <3>1, ElementOfSeq
    <3>3. QED
      BY <3>1, <3>2
  <2>3. mem'.uid \in Seq(Nat)
    BY <1>4, <2>1, <2>2, ExceptSeq
  <2>4. QED
    BY <1>4, <2>1, <2>3, TablesSumAdds
<1>6. /\ DOMAIN mem'.method = Tables!Methods
      /\ \A m \in Tables!Methods : mem'.method[m] \in [{1, 2} -> Nat]
      /\ \A m \in Tables!Methods, s \in {1, 2} : mem'.method[m][s] > 0 => s \in mem'.seen
  <2>1. /\ DOMAIN mem.method = Tables!Methods
        /\ \A m \in Tables!Methods : mem.method[m] \in [{1, 2} -> Nat]
        /\ \A m \in Tables!Methods, s \in {1, 2} : mem.method[m][s] > 0 => s \in mem.seen
    BY <1>1 DEF TablesTypes, TablesCounted
  <2>2. ASSUME NEW m \in Tables!Methods
        PROVE  /\ mem'.method[m] \in [{1, 2} -> Nat]
               /\ \A s \in {1, 2} : s # stream => mem'.method[m][s] = mem.method[m][s]
    <3> DEFINE f == mem.method[m]
               g == [f EXCEPT ![stream] = @ + 1]
    <3>1. f \in [{1, 2} -> Nat]
      BY <2>1
    <3>2. g \in [{1, 2} -> Nat] /\ \A s \in {1, 2} : s # stream => g[s] = f[s]
      <4> HIDE DEF f
      <4> QED
        BY <1>3, <3>1
    <3>3. mem'.method[m] = IF counted /\ m = method THEN g ELSE f
      BY <1>4
    <3> HIDE DEF f, g
    <3>4. QED
      BY <3>1, <3>2, <3>3 DEF f
  <2>3. QED
    BY <1>4, <2>1, <2>2
<1>7. TablesTypes'
  <2>1. mem'.line \in Nat \ {0} /\ mem'.line <= Len(args.lines) + 1
    BY <1>2, <1>4
  <2>2. QED
    BY <1>1, <1>4, <1>5, <1>6, <2>1 DEF TablesTypes
<1>8. TablesCounted'
  <2>1. TablesRead(mem.line)' = TablesRead(mem.line + 1)
    BY <1>1, <1>4 DEF TablesRead
  <2>2. mem.line - 1 \in Nat /\ (mem.line - 1) + 1 = mem.line /\ (mem.line + 1) - 1 = mem.line
    BY <1>2
  <2>3. TablesRead(mem.line - 1)' = TablesRead(mem.line)
    BY <1>1, <1>4, <2>2 DEF TablesRead
  <2>4. Cardinality(TablesRead(mem.line)) = Cardinality(TablesRead(mem.line - 1)) + 1
    BY <1>1, <2>2, TablesNextLine DEF line
  <2>5. Tables!Sum(mem'.uid) = Cardinality(TablesRead(mem.line - 1)')
    BY <1>1, <1>5, <2>3, <2>4 DEF TablesCounted
  <2>6. QED
    BY <1>1, <1>6, <2>5 DEF TablesCounted
<1>9. QED
  BY <1>1, <1>7, <1>8 DEF TablesInv

LEMMA TablesNext ==
    ASSUME TablesInv, Tables!Next
    PROVE  TablesInv'
<1>1. /\ TablesTypes /\ TablesCounted
  BY DEF TablesInv
<1>2. CASE Tables!SkipPoint
  <2>1. /\ pc = "read" /\ UNCHANGED <<pc, args>> /\ args.kind = "points"
        /\ ~(mem.line > Len(args.lines)) /\ ~args.lines[mem.line].ok
        /\ mem' = [mem EXCEPT !.line = @ + 1]
    BY <1>2 DEF Tables!SkipPoint, Tables!Reading, Tables!AtEnd, Tables!Line, Tables!Advanced
  <2>2. Len(args.lines) \in Nat /\ mem.line \in 1..Len(args.lines)
    BY <1>1, <2>1, TablesLog DEF TablesTypes
  <2>3. /\ DOMAIN mem' = DOMAIN mem /\ mem'.line = mem.line + 1
        /\ mem'.unknown = mem.unknown /\ mem'.localhost = mem.localhost
        /\ mem'.private = mem.private /\ mem'.nodes = mem.nodes /\ mem'.seen = mem.seen
        /\ mem'.method = mem.method /\ mem'.uid = mem.uid
    BY <1>1, <2>1 DEF TablesTypes
  <2>4. TablesTypes'
    BY <1>1, <2>1, <2>2, <2>3 DEF TablesTypes
  <2>5. TablesRead(mem.line - 1)' = TablesRead(mem.line - 1)
    <3>1. mem.line - 1 \in Nat /\ (mem.line - 1) + 1 = mem.line /\ (mem.line + 1) - 1 = mem.line
      BY <2>2
    <3>2. TablesRead(mem.line - 1)' = TablesRead(mem.line)
      BY <2>1, <2>3, <3>1 DEF TablesRead
    <3>3. QED
      BY <2>1, <3>1, <3>2, TablesNextLine
  <2>6. TablesCounted'
    <3>1. Tables!Sum(mem'.uid) = Cardinality(TablesRead(mem.line - 1)')
      BY <1>1, <2>3, <2>5 DEF TablesCounted
    <3>2. args'.kind # "netstat"
      BY <2>1
    <3>3. QED
      BY <1>1, <2>3, <3>1, <3>2 DEF TablesCounted
  <2>7. QED
    BY <2>1, <2>4, <2>6 DEF TablesInv
<1>3. CASE Tables!NetstatDies \/ Tables!PointDies \/ Tables!Report
  <2>1. /\ UNCHANGED <<args, mem>> /\ pc' \in {"fatal", "panic", "report"}
        /\ pc' = "report" => mem.line > Len(args.lines)
    <3>1. CASE Tables!NetstatDies
      BY <3>1 DEF Tables!NetstatDies, Tables!Reading
    <3>2. CASE Tables!PointDies
      BY <3>2 DEF Tables!PointDies, Tables!Reading
    <3>3. CASE Tables!Report
      BY <3>3 DEF Tables!Report, Tables!AtEnd
    <3>4. QED
      BY <1>3, <3>1, <3>2, <3>3
  <2>2. TablesTypes' /\ TablesCounted'
    BY <1>1, <2>1 DEF TablesTypes, TablesCounted, TablesRead
  <2>3. pc' = "report" => mem'.line = Len(args'.lines) + 1
    BY <1>1, <2>1, TablesLog DEF TablesTypes
  <2>4. QED
    BY <2>2, <2>3 DEF TablesInv
<1>4. QED
  BY <1>2, <1>3, TablesNetstat, TablesPoint DEF Tables!Next

LEMMA TablesProperties == TablesInv => Tables!TableComplete
<1> SUFFICES ASSUME TablesInv, pc = "report"
             PROVE  Tables!TableComplete
  BY DEF Tables!TableComplete
<1>1. /\ TablesTypes /\ TablesCounted /\ mem.line = Len(args.lines) + 1
      /\ Len(args.lines) \in Nat /\ DOMAIN args.lines = 1..Len(args.lines)
  BY TablesLog DEF TablesInv, TablesTypes
<1>2. mem.line - 1 = Len(args.lines)
  BY <1>1
<1>3. TablesRead(Len(args.lines)) =
         {i \in DOMAIN args.lines : args.kind = "points" /\ args.lines[i].ok}
  BY <1>1 DEF TablesRead
<1>4. QED
  BY <1>1, <1>2, <1>3, TablesCardinality
     DEF Tables!TableComplete, TablesCounted, Tables!Streams

-----------------------------------------------------------------------------
(* The listings.                                                           *)
LEMMA ListingsCardinality == ASSUME NEW S PROVE Listings!Cardinality(S) = Cardinality(S)
BY DEF Listings!Cardinality, Cardinality

ListingsTypes ==
    /\ pc \in {"devices", "listed", "failed", "qps", "counted", "panic"}
    /\ args \in ListingInputs
    /\ DOMAIN world = {"online", "changes"}
    /\ world.online \in Seq(Nat) /\ world.changes \in Nat
    /\ DOMAIN mem = {"offset", "left", "printed", "line", "start", "duration", "windows"}
    /\ mem.offset \in Nat /\ mem.left \in Int /\ mem.printed \in Seq(Nat)
    /\ mem.line \in Nat \ {0} /\ mem.line <= Len(args.log) + 1 /\ mem.start \in Nat
    /\ mem.windows \in Seq(Nat) /\ Len(mem.windows) > 0

(* The devices that were not printed and are not on a page to come: a      *)
(* change adds at most two.                                                *)
ListingsPrinted(d) == \E i \in 1..Len(mem.printed) : mem.printed[i] = d
ListingsToCome(d) ==
    \E i \in 1..Len(world.online) : world.online[i] = d /\ i > mem.offset
ListingsMissed ==
    {d \in 1..args.devices : d \in args.found /\ ~ListingsPrinted(d) /\ ~ListingsToCome(d)}

(* What is printed while nothing changes: the first page, and again all    *)
(* devices up to the offset.                                               *)
ListingsFirst == IF args.devices <= DevicePage THEN args.devices ELSE DevicePage
ListingsUpto == IF args.devices <= mem.offset THEN args.devices ELSE mem.offset
ListingsTwice ==
    /\ Len(mem.printed) = ListingsFirst + ListingsUpto
    /\ \A i \in 1..ListingsFirst : mem.printed[i] = Listings!Shown(i)
    /\ \A i \in 1..ListingsUpto : mem.printed[ListingsFirst + i] = Listings!Shown(i)
    /\ mem.left = args.devices - mem.offset

ListingsOn == (pc = "devices" /\ mem.left # 0) \/ pc = "listed"

ListingsDevices ==
    /\ IsFiniteSet(ListingsMissed) /\ Cardinality(ListingsMissed) <= 2 * world.changes
    /\ pc = "devices" /\ mem.left = 0 => mem.offset = 0 /\ mem.printed = <<>>
    /\ ListingsOn =>
          \A i \in 1..Len(world.online) :
             world.online[i] # 0 => i <= mem.left + mem.offset
    /\ pc = "listed" => mem.left <= 0
    /\ world.changes = 0 =>
          /\ Len(world.online) = args.devices
          /\ \A i \in 1..args.devices : world.online[i] = i
          /\ ListingsOn => ListingsTwice

LEMMA ListingsLog ==
    ASSUME args \in ListingInputs
    PROVE  /\ Len(args.log) \in Nat /\ DOMAIN args.log = 1..Len(args.log)
           /\ args.devices \in Nat /\ args.found \subseteq Nat \ {0}
           /\ \A i \in 1..Len(args.log) : args.log[i].t \in Nat \ {0}
                                          /\ args.log[i].is \in Listings!Lines
<1> DEFINE L == [t : Nat \ {0}, is : Listings!Lines]
           SL == Seq(L)
           SF == SUBSET (Nat \ {0})
<1>1. args \in [devices : Nat, found : SF, log : SL]
  BY ListingsAssumption
<1>2. \A l \in L : l.t \in Nat \ {0} /\ l.is \in Listings!Lines
  OBVIOUS
<1>3. \A s \in SL : /\ Len(s) \in Nat /\ DOMAIN s = 1..Len(s)
                    /\ \A i \in 1..Len(s) : s[i] \in L
  BY LenProperties, ElementOfSeq
<1>4. \A f \in SF : f \subseteq Nat \ {0}
  OBVIOUS
<1> HIDE DEF SL, L, SF
<1>5. args.log \in SL /\ args.devices \in Nat /\ args.found \in SF
  BY <1>1
<1>6. QED
  BY <1>2, <1>3, <1>4, <1>5

(* Removing an element moves the later ones.                               *)
LEMMA ListingsRemoved ==
    ASSUME NEW S, NEW s \in Seq(S), NEW k \in 1..Len(s)
    PROVE  LET t == Listings!Without(s, k) IN
           /\ t \in Seq(S) /\ Len(t) = Len(s) - 1
           /\ \A i \in 1..Len(t) : t[i] = IF i < k THEN s[i] ELSE s[i + 1]
<1> DEFINE a == SubSeq(s, 1, k - 1)
           b == SubSeq(s, k + 1, Len(s))
           n == Len(s)
<1>1. n \in Nat /\ k \in 1..n /\ \A i \in 1..n : s[i] \in S
  OBVIOUS
<1>2. Listings!Without(s, k) = a \o b
  BY DEF Listings!Without
<1>3. /\ a \in Seq(S) /\ Len(a) = k - 1
      /\ \A i \in 1..(k - 1) : a[i] = s[i]
  <2>1. \A i \in 1..(k - 1) : s[i] \in S
    BY <1>1
  <2>2. 1 \in Int /\ k - 1 \in Int /\ (k - 1) - 1 + 1 = k - 1
    BY <1>1
  <2>3. /\ a \in Seq(S) /\ Len(a) = IF 1 <= k - 1 THEN (k - 1) - 1 + 1 ELSE 0
        /\ \A i \in 1..((k - 1) - 1 + 1) : a[i] = s[1 + i - 1]
    BY <2>1, <2>2, SubSeqProperties
  <2> HIDE DEF a
  <2>4. QED
    BY <1>1, <2>3
<1>4. /\ b \in Seq(S) /\ Len(b) = n - k
      /\ \A i \in 1..(n - k) : b[i] = s[k + i]
  <2>1. \A i \in (k + 1)..n : s[i] \in S
    BY <1>1
  <2>2. k + 1 \in Int /\ n \in Int
    BY <1>1
  <2>3. /\ b \in Seq(S) /\ Len(b) = IF k + 1 <= n THEN n - (k + 1) + 1 ELSE 0
        /\ \A i \in 1..(n - (k + 1) + 1) : b[i] = s[(k + 1) + i - 1]
    BY <2>1, <2>2, SubSeqProperties
  <2> HIDE DEF b
  <2>4. QED
    BY <1>1, <2>3
<1> HIDE DEF a, b, n
<1>5. /\ a \o b \in Seq(S) /\ Len(a \o b) = Len(a) + Len(b)
      /\ \A i \in 1..Len(a) : (a \o b)[i] = a[i]
      /\ \A i \in 1..Len(b) : (a \o b)[Len(a) + i] = b[i]
  <2>1. a \in Seq(S) /\ b \in Seq(S)
    BY <1>3, <1>4
  <2>2. QED
    BY <2>1, Joined
<1>6. Len(a \o b) = n - 1
  BY <1>1, <1>3, <1>4, <1>5
<1>7. ASSUME NEW i \in 1..(n - 1)
      PROVE  (a \o b)[i] = IF i < k THEN s[i] ELSE s[i + 1]
  <2>1. CASE i < k
    <3>1. i \in 1..(k - 1)
      BY <1>1, <2>1
    <3>2. QED
      BY <1>3, <1>5, <2>1, <3>1
  <2>2. CASE i >= k
    <3> DEFINE j == i - (k - 1)
    <3>1. j \in 1..(n - k) /\ (k - 1) + j = i /\ k + j = i + 1 /\ ~(i < k)
      BY <1>1, <2>2
    <3> HIDE DEF j
    <3>2. (a \o b)[Len(a) + j] = b[j] /\ Len(a) + j = i
      BY <1>3, <1>4, <1>5, <3>1
    <3>3. b[j] = s[i + 1]
      BY <1>4, <3>1
    <3>4. QED
      BY <3>1, <3>2, <3>3
  <2>3. i < k \/ i >= k
    BY <1>1
  <2>4. QED
    BY <2>1, <2>2, <2>3
<1>8. QED
  BY <1>2, <1>5, <1>6, <1>7 DEF n

(* A set that is smaller than two more.                                    *)
LEMMA TwoMore ==
    ASSUME NEW S, IsFiniteSet(S), NEW n \in Nat, Cardinality(S) <= n, NEW a, NEW b,
           NEW T, T \subseteq S \cup {a, b}
    PROVE  IsFiniteSet(T) /\ Cardinality(T) <= n + 2
<1> DEFINE U == S \cup {a}
           V == U \cup {b}
<1>1. /\ IsFiniteSet(U) /\ Cardinality(S) \in Nat
      /\ Cardinality(U) = Cardinality(S) \/ Cardinality(U) = Cardinality(S) + 1
  <2>1. Cardinality(U) = Cardinality(S) \/ Cardinality(U) = Cardinality(S) + 1
    BY FS_AddElement
  <2>2. QED
    BY <2>1, FS_AddElement, FS_CardinalityType
<1>2. /\ IsFiniteSet(V)
      /\ Cardinality(V) = Cardinality(U) \/ Cardinality(V) = Cardinality(U) + 1
  <2> HIDE DEF U
  <2> QED
    BY <1>1, FS_AddElement
<1>3. T \subseteq V
  OBVIOUS
<1>4. IsFiniteSet(T) /\ Cardinality(T) <= Cardinality(V) /\ Cardinality(T) \in Nat
  <2> HIDE DEF V
  <2> QED
    BY <1>2, <1>3, FS_Subset, FS_CardinalityType
<1> HIDE DEF U, V
<1>5. QED
  BY <1>1, <1>2, <1>4

LEMMA ListingsChange ==
    ASSUME ListingsTypes, ListingsDevices, Listings!Change
    PROVE  ListingsTypes' /\ ListingsDevices'
<1> DEFINE old == world.online
           new == world'.online
           n == Len(old)
           Earlier == \A i \in 1..Len(new) : new[i] # 0 =>
                         \E j \in 1..n : old[j] = new[i] /\ i <= j
           Stay(a, b) == \A d : \A i \in 1..n :
              old[i] = d /\ i > mem.offset /\ d \notin {a, b} =>
                 \E j \in 1..Len(new) : new[j] = d /\ j > mem.offset
<1>1. /\ pc = "devices" /\ UNCHANGED <<pc, args, mem>>
      /\ DOMAIN world' = {"online", "changes"}
      /\ world'.changes = world.changes + 1
      /\ \/ new = Append(old, 0)
         \/ \E k \in 1..n : new = Listings!Without(old, k)
  <2>1. PICK k \in 0..n :
           world' = [changes |-> world.changes + 1,
                     online |-> IF k = 0 THEN Append(old, 0) ELSE Listings!Without(old, k)]
    BY DEF Listings!Change
  <2>2. new = IF k = 0 THEN Append(old, 0) ELSE Listings!Without(old, k)
    BY <2>1
  <2>3. k # 0 => k \in 1..n
    BY DEF ListingsTypes
  <2>4. DOMAIN world' = {"online", "changes"} /\ world'.changes = world.changes + 1
    BY <2>1
  <2>5. QED
    BY <2>2, <2>3, <2>4 DEF Listings!Change
<1>2. old \in Seq(Nat) /\ n \in Nat /\ world.changes \in Nat /\ mem.offset \in Nat /\ mem.left \in Int
  BY DEF ListingsTypes
<1> HIDE DEF old, new, n
<1>3. new \in Seq(Nat) /\ Earlier /\ \E a, b : Stay(a, b)
  <2>1. CASE new = Append(old, 0)
    <3>1. /\ new \in Seq(Nat) /\ Len(new) = n + 1
          /\ \A i \in 1..n : new[i] = old[i]
          /\ new[n + 1] = 0
      BY <1>2, <2>1, AppendProperties DEF n
    <3>2. \A i \in 1..n : i \in 1..Len(new)
      BY <1>2, <3>1
    <3>3. \A i \in 1..Len(new) : i # n + 1 => i \in 1..n /\ i <= i
      BY <1>2, <3>1
    <3>4. \A i \in 1..Len(new) : new[i] # 0 => \E j \in 1..n : old[j] = new[i] /\ i <= j
      BY <3>1, <3>3
    <3>5. QED
      BY <3>1, <3>2, <3>4
  <2>2. ASSUME NEW k \in 1..n, new = Listings!Without(old, k)
        PROVE  new \in Seq(Nat) /\ Earlier /\ \E a, b : Stay(a, b)
    <3>1. /\ new \in Seq(Nat) /\ Len(new) = n - 1
          /\ \A i \in 1..Len(new) : new[i] = IF i < k THEN old[i] ELSE old[i + 1]
      BY <1>2, <2>2, ListingsRemoved DEF n
    <3>2. \A i \in 1..Len(new) : \E j \in 1..n : old[j] = new[i] /\ i <= j
      <4>1. \A i \in 1..Len(new) : i \in 1..n /\ i + 1 \in 1..n /\ i <= i /\ i <= i + 1
        BY <1>2, <3>1
      <4>2. QED
        BY <3>1, <4>1
    <3> DEFINE a == old[k]
               b == old[mem.offset + 1]
    <3>3. ASSUME NEW d, NEW i \in 1..n, old[i] = d, i > mem.offset, d \notin {a, b}
          PROVE  \E j \in 1..Len(new) : new[j] = d /\ j > mem.offset
      <4>1. i # k /\ i # mem.offset + 1
        BY <3>3
      <4>2. CASE i < k
        <5>1. i \in 1..Len(new)
          BY <1>2, <2>2, <3>1, <4>2
        <5>2. QED
          BY <3>1, <3>3, <4>2, <5>1
      <4>3. CASE i > k
        <5> DEFINE j == i - 1
        <5>1. j \in 1..Len(new) /\ ~(j < k) /\ j + 1 = i /\ j > mem.offset
          <6>1. n \in Nat /\ k \in 1..n /\ Len(new) = n - 1 /\ mem.offset \in Nat
            BY <1>2, <2>2, <3>1
          <6>2. i \in 1..n /\ i > mem.offset /\ i # mem.offset + 1 /\ i > k
            BY <3>3, <4>1, <4>3
          <6>3. QED
            BY <6>1, <6>2
        <5> HIDE DEF j
        <5>2. new[j] = d
          BY <3>1, <3>3, <5>1
        <5>3. QED
          BY <5>1, <5>2
      <4>4. i < k \/ i > k
        BY <2>2, <4>1
      <4>5. QED
        BY <4>2, <4>3, <4>4
    <3>4. Stay(a, b)
      BY <3>3
    <3> HIDE DEF a, b, Stay
    <3>5. QED
      BY <3>1, <3>2, <3>4
  <2>3. QED
    BY <1>1, <2>1, <2>2
<1>4. ListingsTypes'
  BY <1>1, <1>2, <1>3 DEF ListingsTypes, new
<1>5. IsFiniteSet(ListingsMissed)' /\ Cardinality(ListingsMissed)' <= 2 * world'.changes
  <2>1. PICK a, b : Stay(a, b)
    BY <1>3
  <2>2. \A d : d \notin {a, b} /\ ListingsToCome(d) => ListingsToCome(d)'
    BY <1>1, <2>1 DEF ListingsToCome, old, new, n
  <2>3. \A d : ListingsPrinted(d)' = ListingsPrinted(d)
    BY <1>1 DEF ListingsPrinted
  <2>4. ListingsMissed' \subseteq ListingsMissed \cup {a, b}
    BY <1>1, <2>2, <2>3 DEF ListingsMissed
  <2>5. IsFiniteSet(ListingsMissed) /\ Cardinality(ListingsMissed) <= 2 * world.changes
    BY DEF ListingsDevices
  <2>6. 2 * world.changes \in Nat /\ 2 * world'.changes = 2 * world.changes + 2
    BY <1>1, <1>2
  <2>7. IsFiniteSet(ListingsMissed') /\ Cardinality(ListingsMissed') <= 2 * world.changes + 2
    <3> HIDE DEF ListingsMissed
    <3> DEFINE m == 2 * world.changes
    <3> HIDE DEF m
    <3>1. m \in Nat /\ Cardinality(ListingsMissed) <= m
      BY <2>5, <2>6 DEF m
    <3>2. IsFiniteSet(ListingsMissed') /\ Cardinality(ListingsMissed') <= m + 2
      BY <2>4, <2>5, <3>1, TwoMore
    <3>3. QED
      BY <3>2 DEF m
  <2>8. QED
    BY <2>6, <2>7
<1>6. ListingsOn' => \A i \in 1..Len(new) : new[i] # 0 => i <= mem'.left + mem'.offset
  <2>1. SUFFICES ASSUME ListingsOn', NEW i \in 1..Len(new), new[i] # 0
                 PROVE  i <= mem.left + mem.offset
    BY <1>1
  <2>2. ListingsOn
    BY <1>1, <2>1 DEF ListingsOn
  <2>3. PICK j \in 1..n : old[j] = new[i] /\ i <= j
    BY <1>3, <2>1
  <2>4. j <= mem.left + mem.offset
    BY <2>1, <2>2, <2>3 DEF ListingsDevices, old, n
  <2>5. i \in Int /\ j \in Int
    BY <2>1, <2>3
  <2>6. QED
    BY <1>2, <2>3, <2>4, <2>5
<1>7. world'.changes # 0
  BY <1>1, <1>2
<1>8. ListingsDevices'
  <2>1. pc' = "devices" /\ mem'.left = 0 => mem'.offset = 0 /\ mem'.printed = <<>>
    BY <1>1 DEF ListingsDevices
  <2>2. pc' # "listed"
    BY <1>1
  <2>3. QED
    BY <1>5, <1>6, <1>7, <2>1, <2>2 DEF ListingsDevices, new
<1>9. QED
  BY <1>4, <1>8

LEMMA ListingsMin ==
    ASSUME NEW a \in Nat, NEW b \in Nat
    PROVE  Listings!Min({a, b}) = IF a <= b THEN a ELSE b
<1>1. \E x \in {a, b} : \A y \in {a, b} : x <= y
  OBVIOUS
<1>2. Listings!Min({a, b}) \in {a, b} /\ \A y \in {a, b} : Listings!Min({a, b}) <= y
  BY <1>1 DEF Listings!Min
<1>3. QED
  BY <1>2

ListingsLast ==
    IF Len(world.online) <= mem.offset + DevicePage THEN Len(world.online)
                                                    ELSE mem.offset + DevicePage
ListingsPage == SubSeq(world.online, mem.offset + 1, ListingsLast)

ListingsOut == [i \in DOMAIN ListingsPage |-> Listings!Shown(ListingsPage[i])]

LEMMA ListingsPageIs ==
    ASSUME ListingsTypes
    PROVE  /\ ListingsOut \in Seq(Nat) /\ ListingsLast \in Nat
           /\ Len(ListingsOut) = IF mem.offset < ListingsLast THEN ListingsLast - mem.offset ELSE 0
           /\ \A i \in 1..Len(ListingsOut) :
                 ListingsOut[i] = Listings!Shown(world.online[mem.offset + i])
<1> DEFINE s == world.online
           m == mem.offset + 1
           n == ListingsLast
           page == ListingsPage
<1>1. /\ s \in Seq(Nat) /\ mem.offset \in Nat /\ Len(s) \in Nat /\ DevicePage \in Nat
      /\ \A i \in 1..Len(s) : s[i] \in Nat
  <2>1. s \in Seq(Nat) /\ mem.offset \in Nat /\ DevicePage \in Nat
    BY ListingsAssumption DEF ListingsTypes
  <2> HIDE DEF s
  <2>2. QED
    BY <2>1, LenProperties, ElementOfSeq
<1>2. n \in Nat /\ n <= Len(s) /\ m \in Int /\ n \in Int
  BY <1>1 DEF ListingsLast
<1>3. \A i \in m..n : s[i] \in Nat
  BY <1>1, <1>2
<1>4. page = SubSeq(s, m, n)
  BY DEF ListingsPage
<1> HIDE DEF s, n, page
<1>5. /\ page \in Seq(Nat) /\ Len(page) = IF m <= n THEN n - m + 1 ELSE 0
      /\ \A i \in 1..(n - m + 1) : page[i] = s[m + i - 1]
  <2> HIDE DEF m
  <2> QED
    BY <1>2, <1>3, <1>4, SubSeqProperties
<1>6. Len(page) = IF mem.offset < n THEN n - mem.offset ELSE 0
  BY <1>1, <1>2, <1>5
<1>7. ASSUME NEW i \in 1..Len(page)
      PROVE  page[i] = s[mem.offset + i]
  <2>1. i \in 1..(n - m + 1) /\ m + i - 1 = mem.offset + i
    <3>1. mem.offset \in Nat /\ n \in Nat
      BY <1>1, <1>2
    <3>2. mem.offset < n /\ Len(page) = n - mem.offset
      BY <1>6, <3>1
    <3>3. QED
      BY <3>1, <3>2
  <2>2. page[i] = s[m + i - 1]
    BY <1>5, <2>1
  <2>3. QED
    BY <2>1, <2>2
<1>8. /\ ListingsOut \in Seq(Nat) /\ Len(ListingsOut) = Len(page)
      /\ \A i \in 1..Len(page) : ListingsOut[i] = Listings!Shown(page[i])
  <2>1. /\ DOMAIN page = 1..Len(page) /\ Len(page) \in Nat
        /\ \A i \in 1..Len(page) : page[i] \in Nat
    BY <1>5
  <2>2. ListingsOut = [i \in 1..Len(page) |-> Listings!Shown(page[i])]
    BY <2>1 DEF ListingsOut, page
  <2>3. \A i \in 1..Len(page) : Listings!Shown(page[i]) \in Nat
    BY <2>1 DEF Listings!Shown
  <2> DEFINE k == Len(page)
             out == [i \in 1..k |-> Listings!Shown(page[i])]
  <2>4. out \in [1..k -> Nat] /\ \A i \in 1..k : out[i] = Listings!Shown(page[i])
    BY <2>3
  <2> HIDE DEF out
  <2>5. out \in Seq(Nat) /\ Len(out) = k
    BY <2>1, <2>4
  <2>6. QED
    BY <2>2, <2>4, <2>5 DEF out
<1>9. QED
  BY <1>2, <1>6, <1>7, <1>8 DEF s, n

LEMMA ListingsDevicesPage ==
    ASSUME ListingsTypes, ListingsDevices, Listings!DevicesPage
    PROVE  ListingsTypes' /\ ListingsDevices'
<1> DEFINE online == world.online
           n == Len(online)
           page == ListingsOut
           last == ListingsLast
           offset == mem.offset
           P == DevicePage
           N == args.devices
<1>1. /\ online \in Seq(Nat) /\ n \in Nat /\ offset \in Nat /\ P \in Nat \ {0} /\ mem.left \in Int
      /\ mem.printed \in Seq(Nat) /\ Len(mem.printed) \in Nat
      /\ last = IF n <= offset + P THEN n ELSE offset + P
      /\ last \in Nat /\ N \in Nat /\ world.changes \in Nat
  <2>1. /\ online \in Seq(Nat) /\ offset \in Nat /\ mem.left \in Int
        /\ mem.printed \in Seq(Nat) /\ world.changes \in Nat /\ args \in ListingInputs
    BY DEF ListingsTypes
  <2>2. P \in Nat \ {0} /\ N \in Nat
    BY <2>1, ListingsAssumption, ListingsLog
  <2>3. last = IF n <= offset + P THEN n ELSE offset + P
    BY DEF ListingsLast
  <2> HIDE DEF online, offset, P, N, last
  <2>4. n \in Nat /\ Len(mem.printed) \in Nat
    BY <2>1
  <2> HIDE DEF n
  <2>5. last \in Nat
    BY <2>1, <2>2, <2>3, <2>4
  <2>6. QED
    BY <2>1, <2>2, <2>3, <2>4, <2>5
<1>2. /\ page \in Seq(Nat)
      /\ Len(page) = IF offset < last THEN last - offset ELSE 0
      /\ \A i \in 1..Len(page) : page[i] = Listings!Shown(online[offset + i])
  BY ListingsPageIs
<1>3. /\ pc = "devices" /\ UNCHANGED <<args, world>>
      /\ DOMAIN mem' = DOMAIN mem /\ mem'.line = mem.line /\ mem'.start = mem.start
      /\ mem'.windows = mem.windows
      /\ mem'.printed = mem.printed \o page
      /\ mem'.offset = IF mem.left = 0 THEN offset ELSE offset + P
      /\ mem'.left = IF mem.left = 0 THEN n ELSE mem.left - P
      /\ pc' = IF mem'.left <= 0 THEN "listed" ELSE "devices"
  <2>1. Listings!Min({n, offset + P}) = last
    <3>1. offset + P \in Nat /\ n \in Nat
      BY <1>1
    <3> DEFINE b == offset + P
    <3> HIDE DEF b, n
    <3>2. Listings!Min({n, b}) = IF n <= b THEN n ELSE b
      BY <3>1, ListingsMin DEF b
    <3>3. QED
      BY <1>1, <3>2 DEF b
  <2>2. mem' = [mem EXCEPT !.printed = @ \o page,
                           !.offset = IF mem.left = 0 THEN @ ELSE @ + P,
                           !.left = IF mem.left = 0 THEN n ELSE mem.left - P]
    BY <2>1 DEF Listings!DevicesPage, Listings!Left, ListingsPage, ListingsOut
  <2>3. /\ pc = "devices" /\ UNCHANGED <<args, world>>
        /\ pc' = IF mem'.left <= 0 THEN "listed" ELSE "devices"
    BY DEF Listings!DevicesPage, Listings!Stay
  <2>4. DOMAIN mem = {"offset", "left", "printed", "line", "start", "duration", "windows"}
    BY DEF ListingsTypes
  <2> HIDE DEF page, n, P
  <2>5. QED
    BY <2>2, <2>3, <2>4
<1> HIDE DEF online, n, page, last, offset, P, N
<1>4. /\ mem'.printed \in Seq(Nat) /\ Len(mem'.printed) = Len(mem.printed) + Len(page)
      /\ \A i \in 1..Len(mem.printed) : mem'.printed[i] = mem.printed[i]
      /\ \A i \in 1..Len(page) : mem'.printed[Len(mem.printed) + i] = page[i]
      /\ Len(page) \in Nat
  <2>1. mem.printed \in Seq(Nat) /\ page \in Seq(Nat)
    BY <1>1, <1>2
  <2>2. /\ mem.printed \o page \in Seq(Nat)
        /\ Len(mem.printed \o page) = Len(mem.printed) + Len(page)
        /\ \A i \in 1..Len(mem.printed) : (mem.printed \o page)[i] = mem.printed[i]
        /\ \A i \in 1..Len(page) : (mem.printed \o page)[Len(mem.printed) + i] = page[i]
        /\ Len(page) \in Nat
    BY <2>1, Joined
  <2>3. QED
    BY <1>3, <2>2
<1>5. mem'.offset \in Nat /\ mem'.left \in Int /\ offset <= mem'.offset /\ mem'.offset <= offset + P
  BY <1>1, <1>3
<1>6. ListingsTypes'
  BY <1>3, <1>4, <1>5 DEF ListingsTypes
<1>7. ListingsMissed' \subseteq ListingsMissed
  <2>1. \A d : ListingsPrinted(d) => ListingsPrinted(d)'
    <3>1. \A i \in 1..Len(mem.printed) : i \in 1..Len(mem'.printed)
      BY <1>1, <1>4
    <3>2. QED
      BY <1>4, <3>1 DEF ListingsPrinted
  <2>2. ASSUME NEW d \in args.found, ListingsToCome(d)
        PROVE  ListingsPrinted(d)' \/ ListingsToCome(d)'
    <3>1. PICK i \in 1..n : online[i] = d /\ i > offset
      BY <2>2 DEF ListingsToCome, online, n, offset
    <3>2. CASE i <= offset + P
      <4> DEFINE j == i - offset
                 k == Len(mem.printed) + j
      <4>1. j \in 1..Len(page) /\ offset + j = i
        <5>1. offset \in Nat /\ n \in Nat /\ P \in Nat /\ i \in 1..n /\ i > offset /\ i <= offset + P
          BY <1>1, <3>1, <3>2
        <5>2. i <= last
          BY <1>1, <5>1
        <5>3. last \in Nat /\ Len(page) = last - offset
          BY <1>1, <1>2, <5>1, <5>2
        <5>4. QED
          BY <5>1, <5>2, <5>3
      <4>2. k \in 1..Len(mem'.printed)
        BY <1>1, <1>4, <4>1
      <4>3. mem'.printed[k] = d
        <5> HIDE DEF j
        <5>1. mem'.printed[k] = page[j] /\ page[j] = Listings!Shown(online[i])
          BY <1>2, <1>4, <4>1
        <5>2. Listings!Shown(d) = d
          BY <2>2 DEF Listings!Shown
        <5>3. QED
          BY <3>1, <5>1, <5>2
      <4> HIDE DEF k
      <4>4. QED
        BY <4>2, <4>3 DEF ListingsPrinted
    <3>3. CASE i > offset + P
      <4>1. i > mem'.offset
        BY <1>1, <1>5, <3>1, <3>3
      <4>2. QED
        BY <1>3, <3>1, <4>1 DEF ListingsToCome, online, n
    <3>4. i <= offset + P \/ i > offset + P
      BY <1>1, <3>1
    <3>5. QED
      BY <3>2, <3>3, <3>4
  <2>3. QED
    BY <1>3, <2>1, <2>2 DEF ListingsMissed
<1>8. IsFiniteSet(ListingsMissed') /\ Cardinality(ListingsMissed') <= 2 * world'.changes
  <2> DEFINE S == ListingsMissed
             m == 2 * world.changes
  <2>1. IsFiniteSet(S) /\ Cardinality(S) <= m /\ m \in Nat
    BY <1>1 DEF ListingsDevices
  <2> HIDE DEF S, m
  <2>2. /\ IsFiniteSet(ListingsMissed') /\ Cardinality(ListingsMissed') <= Cardinality(S)
        /\ Cardinality(ListingsMissed') \in Nat /\ Cardinality(S) \in Nat
    <3> HIDE DEF ListingsMissed
    <3>1. ListingsMissed' \subseteq S
      BY <1>7 DEF S
    <3>2. QED
      BY <2>1, <3>1, FS_Subset, FS_CardinalityType
  <2>3. Cardinality(ListingsMissed') <= m
    BY <2>1, <2>2
  <2>4. QED
    BY <1>3, <2>2, <2>3 DEF m
<1>9. ListingsOn' => \A i \in 1..n : online[i] # 0 => i <= mem'.left + mem'.offset
  <2>1. CASE mem.left = 0
    <3>1. offset = 0
      BY <1>3, <2>1 DEF ListingsDevices, offset
    <3>2. mem'.left = n /\ mem'.offset = 0
      BY <1>3, <2>1, <3>1
    <3>3. \A i \in 1..n : i <= n + 0
      BY <1>1
    <3>4. QED
      BY <3>2, <3>3
  <2>2. CASE mem.left # 0
    <3>1. \A i \in 1..n : online[i] # 0 => i <= mem.left + offset
      BY <1>3, <2>2 DEF ListingsDevices, ListingsOn, online, n, offset
    <3>2. mem'.left + mem'.offset = mem.left + offset
      BY <1>1, <1>3, <2>2
    <3>3. QED
      BY <3>1, <3>2
  <2>3. QED
    BY <2>1, <2>2
<1>10. ASSUME world.changes = 0
       PROVE  ListingsTwice'
  <2>1. n = N /\ \A i \in 1..N : online[i] = i
    BY <1>10 DEF ListingsDevices, online, n, N
  <2> DEFINE first == ListingsFirst
             upto == ListingsUpto
             new == IF N <= mem'.offset THEN N ELSE mem'.offset
  <2>2. /\ first = IF N <= P THEN N ELSE P
        /\ upto = IF N <= offset THEN N ELSE offset
        /\ ListingsFirst' = first /\ ListingsUpto' = new
    BY <1>3 DEF ListingsFirst, ListingsUpto, N, P, offset
  <2>3. SUFFICES /\ Len(mem'.printed) = first + new
                 /\ \A i \in 1..first : mem'.printed[i] = Listings!Shown(i)
                 /\ \A i \in 1..new : mem'.printed[first + i] = Listings!Shown(i)
                 /\ mem'.left = N - mem'.offset
    <3>1. \A i : Listings!Shown(i)' = Listings!Shown(i)
      BY <1>3 DEF Listings!Shown
    <3>2. QED
      BY <1>3, <2>2, <3>1 DEF ListingsTwice, N
  <2> HIDE DEF first, upto, new
  <2>4. CASE mem.left = 0
    <3>1. offset = 0 /\ Len(mem.printed) = 0
      BY <1>3, <2>4 DEF ListingsDevices, offset
    <3>2. mem'.offset = 0 /\ mem'.left = N
      BY <1>3, <2>1, <2>4, <3>1
    <3>3. last = first /\ Len(page) = first /\ new = 0
      BY <1>1, <1>2, <2>1, <2>2, <3>1, <3>2 DEF new
    <3>4. ASSUME NEW i \in 1..first
          PROVE  mem'.printed[i] = Listings!Shown(i)
      <4>1. i \in 1..N /\ offset + i = i /\ Len(mem.printed) + i = i /\ i \in 1..Len(page)
        BY <1>1, <2>2, <3>1, <3>3
      <4>2. /\ mem'.printed[Len(mem.printed) + i] = page[i]
            /\ page[i] = Listings!Shown(online[offset + i])
        BY <1>2, <1>4, <4>1
      <4>3. QED
        BY <2>1, <4>1, <4>2
    <3>5. QED
      BY <1>1, <1>4, <3>1, <3>2, <3>3, <3>4
  <2>5. CASE mem.left # 0
    <3>1. /\ Len(mem.printed) = first + upto
          /\ \A i \in 1..first : mem.printed[i] = Listings!Shown(i)
          /\ \A i \in 1..upto : mem.printed[first + i] = Listings!Shown(i)
          /\ mem.left = N - offset
      BY <1>3, <1>10, <2>5
         DEF ListingsDevices, ListingsOn, ListingsTwice, first, upto, N, offset
    <3>2. mem'.offset = offset + P /\ mem'.left = mem.left - P
      BY <1>3, <2>5
    <3>3. first \in Nat /\ upto \in Nat /\ new \in Nat
      BY <1>1, <2>2, <3>2 DEF new
    <3>4. Len(page) = new - upto /\ upto <= new /\ (upto < new => upto = offset)
      BY <1>1, <1>2, <2>1, <2>2, <3>2 DEF new
    <3>5. \A i \in 1..first : mem'.printed[i] = Listings!Shown(i)
      <4>1. \A i \in 1..first : i \in 1..Len(mem.printed)
        BY <3>1, <3>3
      <4>2. QED
        BY <1>4, <3>1, <4>1
    <3>6. ASSUME NEW i \in 1..new
          PROVE  mem'.printed[first + i] = Listings!Shown(i)
      <4>1. CASE i <= upto
        <5>1. i \in 1..upto /\ first + i \in 1..Len(mem.printed)
          BY <3>1, <3>3, <4>1
        <5>2. QED
          BY <1>4, <3>1, <5>1
      <4>2. CASE i > upto
        <5> DEFINE j == i - upto
        <5>1. /\ j \in 1..Len(page) /\ Len(mem.printed) + j = first + i /\ offset + j = i
          BY <3>1, <3>3, <3>4, <4>2
        <5>2. i \in 1..N
          BY <1>1, <3>2 DEF new
        <5> HIDE DEF j
        <5>3. /\ mem'.printed[Len(mem.printed) + j] = page[j]
              /\ page[j] = Listings!Shown(online[offset + j])
          BY <1>2, <1>4, <5>1
        <5>4. QED
          BY <2>1, <5>1, <5>2, <5>3
      <4>3. QED
        BY <3>3, <4>1, <4>2
    <3>7. Len(mem'.printed) = first + new
      BY <1>4, <3>1, <3>3, <3>4
    <3>8. mem'.left = N - mem'.offset
      BY <1>1, <3>1, <3>2
    <3>9. QED
      BY <3>5, <3>6, <3>7, <3>8
  <2>6. QED
    BY <2>4, <2>5
<1>11. ListingsDevices'
  <2>1. ~(pc' = "devices" /\ mem'.left = 0) /\ (pc' = "listed" => mem'.left <= 0)
    BY <1>3, <1>5
  <2>2. \A i \in 1..Len(world'.online) :
           ListingsOn' /\ world'.online[i] # 0 => i <= mem'.left + mem'.offset
    BY <1>3, <1>9 DEF online, n
  <2>3. world'.changes = 0 =>
          /\ Len(world'.online) = args'.devices
          /\ \A i \in 1..args'.devices : world'.online[i] = i
          /\ ListingsTwice'
    BY <1>3, <1>10 DEF ListingsDevices
  <2>4. QED
    BY <1>8, <2>1, <2>2, <2>3 DEF ListingsDevices
<1>12. QED
  BY <1>6, <1>11

(* The requests of the user up to a line, and the last of them.            *)
LEMMA ListingsMine ==
    ASSUME NEW n \in Nat
    PROVE  /\ IsFiniteSet(Listings!Mine(n)) /\ Cardinality(Listings!Mine(n)) \in Nat
           /\ Listings!Mine(n) \subseteq 1..n
           /\ args.log[n + 1].is = "request" =>
                 /\ Listings!Mine(n + 1) = Listings!Mine(n) \cup {n + 1}
                 /\ Cardinality(Listings!Mine(n + 1)) = Cardinality(Listings!Mine(n)) + 1
           /\ args.log[n + 1].is # "request" =>
                 Listings!Mine(n + 1) = Listings!Mine(n)
<1>1. 1..(n + 1) = 1..n \cup {n + 1} /\ n + 1 \notin 1..n
  OBVIOUS
<1>2. Listings!Mine(n) \subseteq 1..n
  BY DEF Listings!Mine
<1>3. IsFiniteSet(1..n)
  BY FS_Interval
<1>4. IsFiniteSet(Listings!Mine(n))
  BY <1>2, <1>3, FS_Subset
<1>5. args.log[n + 1].is # "request" => Listings!Mine(n + 1) = Listings!Mine(n)
  BY <1>1 DEF Listings!Mine
<1>6. ASSUME args.log[n + 1].is = "request"
      PROVE  Listings!Mine(n + 1) = Listings!Mine(n) \cup {n + 1} /\ n + 1 \notin Listings!Mine(n)
  BY <1>1, <1>6 DEF Listings!Mine
<1>7. QED
  BY <1>2, <1>4, <1>5, <1>6, FS_AddElement, FS_CardinalityType

LEMMA ListingsRank ==
    ASSUME NEW n \in Nat, NEW i \in Listings!Mine(n)
    PROVE  /\ i \in Nat /\ i <= n /\ Cardinality(Listings!Mine(i)) \in Nat
           /\ Cardinality(Listings!Mine(i)) <= Cardinality(Listings!Mine(n))
<1>1. i \in 1..n
  BY DEF Listings!Mine
<1>2. i \in Nat /\ i <= n /\ \A j \in 1..i : j \in 1..n
  BY <1>1
<1>3. Listings!Mine(i) \subseteq Listings!Mine(n)
  BY <1>2 DEF Listings!Mine
<1>4. QED
  BY <1>2, <1>3, ListingsMine, FS_Subset

(* The windows have the requests one after the other, within a second; the *)
(* open one those since its start.                                         *)
ListingsRead == Listings!Mine(mem.line - 1)
ListingsRankOf(i) == Cardinality(Listings!Mine(i))
ListingsAlready == Len(mem.windows) - 1
ListingsT(i) == args.log[i].t

ListingsWindows(u) ==
    /\ PartialSums(u, mem.windows)
    /\ u[Len(mem.windows)] = Cardinality(ListingsRead)
    /\ mem.start = 0 => ListingsRead = {}
    /\ Listings!Ordered =>
          /\ \A i \in mem.line..Len(args.log) : mem.start <= ListingsT(i)
          /\ \A i \in ListingsRead : u[ListingsAlready] < ListingsRankOf(i) =>
                mem.start <= ListingsT(i) /\ ListingsT(i) - mem.start < RequestWindow
          /\ \A w \in 1..ListingsAlready : \A i, j \in ListingsRead :
                /\ u[w - 1] < ListingsRankOf(i) /\ ListingsRankOf(i) <= u[w]
                /\ u[w - 1] < ListingsRankOf(j) /\ ListingsRankOf(j) <= u[w]
                => ListingsT(i) - ListingsT(j) < RequestWindow

ListingsRequests ==
    /\ \E u : ListingsWindows(u)
    /\ pc = "counted" /\ mem.line <= Len(args.log) => args.log[mem.line].is = "too long"

ListingsInv == ListingsTypes /\ ListingsDevices /\ ListingsRequests

LEMMA ListingsInit == Listings!Init => ListingsInv
<1> SUFFICES ASSUME Listings!Init
             PROVE  ListingsInv
  OBVIOUS
<1> DEFINE N == args.devices
           online == [i \in 1..N |-> i]
<1>1. /\ pc \in {"devices", "qps"} /\ args \in ListingInputs
      /\ world = [online |-> online, changes |-> 0]
      /\ mem = [offset |-> 0, left |-> 0, printed |-> <<>>, line |-> 1,
                start |-> 0, duration |-> 0, windows |-> <<0>>]
  BY DEF Listings!Init
<1>2. N \in Nat /\ Len(args.log) \in Nat /\ \A i \in 1..Len(args.log) : args.log[i].t \in Nat \ {0}
  BY <1>1, ListingsLog
<1>3. online \in Seq(Nat) /\ Len(online) = N /\ \A i \in 1..N : online[i] = i
  <2>1. online \in [1..N -> Nat] /\ \A i \in 1..N : online[i] = i
    BY <1>2
  <2> HIDE DEF online
  <2>2. QED
    BY <1>2, <2>1
<1>4. /\ DOMAIN world = {"online", "changes"} /\ world.online = online /\ world.changes = 0
      /\ DOMAIN mem = {"offset", "left", "printed", "line", "start", "duration", "windows"}
      /\ mem.offset = 0 /\ mem.left = 0 /\ mem.printed = <<>> /\ mem.line = 1
      /\ mem.start = 0 /\ mem.windows = <<0>>
  BY <1>1
<1> HIDE DEF online
<1>5. <<0>> \in Seq(Nat) /\ Len(<<0>>) = 1 /\ <<>> \in Seq(Nat)
  OBVIOUS
<1>6. ListingsTypes
  <2>1. 1 <= Len(args.log) + 1
    BY <1>2
  <2>2. QED
    BY <1>1, <1>3, <1>4, <1>5, <2>1 DEF ListingsTypes
<1>7. ListingsDevices
  <2>1. ListingsMissed = {}
    <3>1. \A d \in 1..N : ListingsToCome(d)
      <4>1. \A d \in 1..N : d \in 1..Len(world.online) /\ world.online[d] = d /\ d > mem.offset
        BY <1>2, <1>3, <1>4
      <4>2. QED
        BY <4>1 DEF ListingsToCome
    <3>2. QED
      BY <3>1 DEF ListingsMissed
  <2>2. IsFiniteSet(ListingsMissed) /\ Cardinality(ListingsMissed) <= 2 * world.changes
    BY <1>4, <2>1, FS_EmptySet
  <2>3. ~ListingsOn
    BY <1>1, <1>4 DEF ListingsOn
  <2>4. QED
    BY <1>1, <1>3, <1>4, <2>2, <2>3 DEF ListingsDevices
<1>8. ListingsRequests
  <2> DEFINE u == [w \in 0..1 |-> 0]
  <2>1. PartialSums(u, <<0>>)
    BY <1>5 DEF PartialSums
  <2>2. ListingsRead = {} /\ Cardinality(ListingsRead) = 0
    BY <1>4, FS_EmptySet DEF ListingsRead, Listings!Mine
  <2>3. ListingsAlready = 0
    BY <1>4, <1>5 DEF ListingsAlready
  <2>4. \A i \in 1..Len(args.log) : 0 <= ListingsT(i)
    BY <1>2 DEF ListingsT
  <2>5. u[1] = 0
    OBVIOUS
  <2> HIDE DEF u
  <2>6. ListingsWindows(u)
    BY <1>4, <1>5, <2>1, <2>2, <2>3, <2>4, <2>5 DEF ListingsWindows
  <2>7. QED
    BY <1>1, <2>6 DEF ListingsRequests
<1>9. QED
  BY <1>6, <1>7, <1>8 DEF ListingsInv

LEMMA ListingsSame ==
    ASSUME args' = args
    PROVE  /\ \A n : Listings!Mine(n)' = Listings!Mine(n)
           /\ \A i : ListingsRankOf(i)' = ListingsRankOf(i) /\ ListingsT(i)' = ListingsT(i)
           /\ Listings!Ordered' = Listings!Ordered
BY DEF Listings!Mine, ListingsRankOf, ListingsT, Listings!Ordered

(* A line that is not a request of the user.                               *)
LEMMA ListingsOther ==
    ASSUME ListingsTypes, NEW u, ListingsWindows(u), args' = args,
           mem.line <= Len(args.log), args.log[mem.line].is # "request",
           mem'.line = mem.line + 1, mem'.windows = mem.windows,
           mem'.start = mem.start \/ (mem.start = 0 /\ mem'.start = ListingsT(mem.line))
    PROVE  ListingsWindows(u)'
<1> DEFINE n == mem.line - 1
<1>1. n \in Nat /\ n + 1 = mem.line /\ mem'.line - 1 = mem.line /\ mem.line \in 1..Len(args.log)
      /\ Len(args.log) \in Nat
  <2>1. Len(args.log) \in Nat /\ mem.line \in Nat \ {0}
    BY ListingsLog DEF ListingsTypes
  <2>2. QED
    BY <2>1
<1>2. ListingsRead' = ListingsRead
  <2>1. ListingsRead' = Listings!Mine(mem.line)
    BY <1>1, ListingsSame DEF ListingsRead
  <2> HIDE DEF n
  <2>2. Listings!Mine(n + 1) = Listings!Mine(n)
    BY <1>1, ListingsMine
  <2>3. QED
    BY <1>1, <2>1, <2>2 DEF ListingsRead, n
<1>3. ListingsAlready' = ListingsAlready
  BY DEF ListingsAlready
<1>4. ListingsT(mem.line) \in Nat \ {0}
  BY <1>1, ListingsLog DEF ListingsTypes, ListingsT
<1>5. mem'.start = 0 => mem.start = 0
  BY <1>4
<1>6. Listings!Ordered => \A i \in mem'.line..Len(args.log) : mem'.start <= ListingsT(i)
  <2>1. SUFFICES ASSUME Listings!Ordered, NEW i \in mem.line + 1..Len(args.log)
                 PROVE  mem'.start <= ListingsT(i)
    OBVIOUS
  <2>2. i \in mem.line..Len(args.log) /\ i \in 1..Len(args.log) /\ mem.line < i
    BY <1>1
  <2>3. mem.start <= ListingsT(i)
    BY <2>1, <2>2 DEF ListingsWindows
  <2>4. ListingsT(mem.line) <= ListingsT(i)
    <3>1. DOMAIN args.log = 1..Len(args.log)
      BY ListingsLog DEF ListingsTypes
    <3>2. QED
      BY <1>1, <2>1, <2>2, <3>1 DEF Listings!Ordered, ListingsT
  <2>5. QED
    BY <2>3, <2>4
<1>7. \A i \in ListingsRead : mem.start # 0
  BY DEF ListingsWindows
<1>8. \A i \in ListingsRead : mem'.start = mem.start
  BY <1>7
<1>9. QED
  BY <1>2, <1>3, <1>5, <1>6, <1>8, ListingsSame DEF ListingsWindows

(* What is read of a line that is one.                                     *)
LEMMA ListingsLine ==
    ASSUME ListingsTypes, NEW u, ListingsWindows(u), args' = args,
           mem.line <= Len(args.log), args.log[mem.line].is = "request",
           mem'.line = mem.line + 1
    PROVE  /\ ListingsRead' = ListingsRead \cup {mem.line}
           /\ Cardinality(ListingsRead') = Cardinality(ListingsRead) + 1
           /\ ListingsRankOf(mem.line) = Cardinality(ListingsRead) + 1
           /\ Cardinality(ListingsRead) \in Nat
           /\ \A i \in ListingsRead : /\ ListingsRankOf(i) \in Nat
                                      /\ ListingsRankOf(i) <= Cardinality(ListingsRead)
                                      /\ ListingsT(i) \in Nat
           /\ ListingsT(mem.line) \in Nat \ {0}
           /\ Listings!Ordered => \A i \in mem.line..Len(args.log) :
                                     ListingsT(mem.line) <= ListingsT(i)
<1> DEFINE n == mem.line - 1
<1>1. n \in Nat /\ n + 1 = mem.line /\ mem'.line - 1 = mem.line /\ mem.line \in 1..Len(args.log)
      /\ Len(args.log) \in Nat
  <2>1. Len(args.log) \in Nat /\ mem.line \in Nat \ {0}
    BY ListingsLog DEF ListingsTypes
  <2>2. QED
    BY <2>1
<1>2. /\ \A i \in 1..Len(args.log) : ListingsT(i) \in Nat \ {0}
      /\ DOMAIN args.log = 1..Len(args.log)
  BY ListingsLog DEF ListingsTypes, ListingsT
<1>3. ListingsRead' = Listings!Mine(mem.line)
  BY <1>1, ListingsSame DEF ListingsRead
<1>4. ListingsRead = Listings!Mine(n)
  BY DEF ListingsRead
<1> HIDE DEF n
<1>5. /\ Listings!Mine(n + 1) = Listings!Mine(n) \cup {n + 1}
      /\ Cardinality(Listings!Mine(n + 1)) = Cardinality(Listings!Mine(n)) + 1
      /\ Cardinality(Listings!Mine(n)) \in Nat
  BY <1>1, ListingsMine
<1>6. ASSUME NEW i \in ListingsRead
      PROVE  /\ ListingsRankOf(i) \in Nat
             /\ ListingsRankOf(i) <= Cardinality(ListingsRead)
             /\ ListingsT(i) \in Nat
  <2>1. /\ i \in Nat /\ i <= n /\ Cardinality(Listings!Mine(i)) \in Nat
        /\ Cardinality(Listings!Mine(i)) <= Cardinality(Listings!Mine(n))
    BY <1>1, <1>4, ListingsRank
  <2>2. i \in 1..n
    BY <1>1, <1>4, ListingsMine
  <2>3. i \in 1..Len(args.log)
    BY <1>1, <2>2
  <2>4. QED
    BY <1>2, <1>4, <2>1, <2>3 DEF ListingsRankOf
<1>7. ASSUME Listings!Ordered, NEW i \in mem.line..Len(args.log)
      PROVE  ListingsT(mem.line) <= ListingsT(i)
  <2>1. i \in 1..Len(args.log) /\ (i = mem.line \/ mem.line < i)
    BY <1>1
  <2>2. CASE i = mem.line
    BY <1>1, <1>2, <2>2
  <2>3. CASE mem.line < i
    BY <1>1, <1>2, <1>7, <2>1, <2>3 DEF Listings!Ordered, ListingsT
  <2>4. QED
    BY <2>1, <2>2, <2>3
<1>8. QED
  BY <1>1, <1>2, <1>3, <1>4, <1>5, <1>6, <1>7 DEF ListingsRankOf

LEMMA ListingsCountLine ==
    ASSUME ListingsTypes, NEW u, ListingsWindows(u), Listings!CountLine
    PROVE  mem'.windows \in Seq(Nat) /\ Len(mem'.windows) > 0 /\ \E v : ListingsWindows(v)'
<1> DEFINE line == mem.line
           t == ListingsT(line)
           started == IF mem.start = 0 THEN t ELSE mem.start
           over == t - started >= RequestWindow
           old == mem.windows
           new == mem'.windows
           n == Len(old)
           read == ListingsRead
           count == Cardinality(read)
           counted == [old EXCEPT ![n] = @ + 1]
<1>1. /\ line <= Len(args.log) /\ args.log[line].is = "request" /\ args' = args
      /\ mem'.line = line + 1 /\ mem'.start = IF over THEN t ELSE started
      /\ new = IF over THEN Append(old, 1) ELSE [old EXCEPT ![n] = @ + 1]
  <2>1. /\ line <= Len(args.log) /\ args.log[line].is = "request" /\ args' = args
        /\ mem' = [mem EXCEPT
              !.line = @ + 1, !.duration = t - started,
              !.start = IF over THEN t ELSE started,
              !.windows = IF over THEN Append(@, 1) ELSE counted]
    BY DEF Listings!CountLine, Listings!NextLine, Listings!AtEnd, Listings!Line,
           Listings!Started, Listings!Stay, ListingsT
  <2>2. Len(args.log) \in Nat /\ line \in Nat
    BY ListingsLog DEF ListingsTypes
  <2>3. DOMAIN mem = {"offset", "left", "printed", "line", "start", "duration", "windows"}
    BY DEF ListingsTypes
  <2> HIDE DEF line, t, started, over, counted
  <2>4. QED
    BY <2>1, <2>2, <2>3 DEF line, counted
<1>2. /\ old \in Seq(Nat) /\ n \in Nat \ {0} /\ mem.start \in Nat
      /\ RequestWindow \in Nat \ {0} /\ line \in Nat /\ Len(args.log) \in Nat
  BY ListingsAssumption, ListingsLog DEF ListingsTypes
<1>3. /\ ListingsRead' = read \cup {line} /\ Cardinality(ListingsRead') = count + 1
      /\ ListingsRankOf(line) = count + 1 /\ count \in Nat /\ t \in Nat \ {0}
      /\ \A i \in read : /\ ListingsRankOf(i) \in Nat /\ ListingsRankOf(i) <= count
                         /\ ListingsT(i) \in Nat
      /\ Listings!Ordered => \A i \in line..Len(args.log) : t <= ListingsT(i)
  BY <1>1, ListingsLine
<1>4. /\ PartialSums(u, old) /\ u[n] = count
      /\ \A i \in read : mem.start # 0
      /\ Listings!Ordered =>
          /\ \A i \in line..Len(args.log) : mem.start <= ListingsT(i)
          /\ \A i \in read : u[n - 1] < ListingsRankOf(i) =>
                mem.start <= ListingsT(i) /\ ListingsT(i) - mem.start < RequestWindow
          /\ \A w \in 1..(n - 1) : \A i, j \in read :
                /\ u[w - 1] < ListingsRankOf(i) /\ ListingsRankOf(i) <= u[w]
                /\ u[w - 1] < ListingsRankOf(j) /\ ListingsRankOf(j) <= u[w]
                => ListingsT(i) - ListingsT(j) < RequestWindow
  BY DEF ListingsWindows, ListingsAlready
<1> HIDE DEF line, t, started, over, old, new, read, count
<1>5. \A w \in 0..n : u[w] \in Nat /\ u[w] <= count
  <2> HIDE DEF n
  <2>1. ASSUME NEW w \in 0..n
        PROVE  u[w] \in Nat /\ u[w] <= count
    BY <1>2, <1>4, SumsGrow DEF n
  <2>2. QED
    BY <2>1
<1>6. u[0] = 0 /\ \A i \in 1..n : u[i] = u[i - 1] + old[i]
  BY <1>4 DEF PartialSums
<1>7. \A i \in 1..n : old[i] \in Nat
  BY <1>2
<1> HIDE DEF n
<1>8. /\ started \in Nat \ {0} /\ started = IF mem.start = 0 THEN t ELSE mem.start
      /\ over <=> t - started >= RequestWindow
  BY <1>2, <1>3 DEF started, over
<1>9. \A i \in read : started = mem.start
  BY <1>4, <1>8
<1>10. Listings!Ordered => started <= t
  <2>1. line \in line..Len(args.log)
    BY <1>1, <1>2
  <2>2. Listings!Ordered => mem.start <= t
    BY <1>4, <2>1 DEF t
  <2>3. t <= t
    BY <1>3
  <2>4. QED
    BY <1>8, <2>2, <2>3
<1>11. ASSUME Listings!Ordered, NEW w \in 1..n, NEW i \in read, NEW j \in read,
              u[w - 1] < ListingsRankOf(i), ListingsRankOf(i) <= u[w],
              u[w - 1] < ListingsRankOf(j), ListingsRankOf(j) <= u[w]
       PROVE  ListingsT(i) - ListingsT(j) < RequestWindow
  <2>1. w \in 1..(n - 1) \/ w = n
    BY <1>2
  <2>2. CASE w \in 1..(n - 1)
    BY <1>4, <1>11, <2>2
  <2>3. CASE w = n
    <3>1. /\ mem.start <= ListingsT(i) /\ ListingsT(i) - mem.start < RequestWindow
          /\ mem.start <= ListingsT(j)
      BY <1>4, <1>11, <2>3
    <3>2. ListingsT(i) \in Nat /\ ListingsT(j) \in Nat
      BY <1>3
    <3>3. QED
      BY <1>2, <3>1, <3>2
  <2>4. QED
    BY <2>1, <2>2, <2>3
<1>12. ASSUME NEW w \in 0..n, NEW i \in read \cup {line}, ListingsRankOf(i) <= u[w]
       PROVE  i \in read
  BY <1>3, <1>5, <1>12
<1>13. ASSUME Listings!Ordered, NEW i \in line + 1..Len(args.log)
       PROVE  started <= ListingsT(i) /\ t <= ListingsT(i)
  <2>1. i \in line..Len(args.log)
    BY <1>2
  <2>2. QED
    BY <1>3, <1>4, <1>8, <1>13, <2>1
<1>14. CASE over
  <2>0. PICK v : v = [w \in 0..(n + 1) |-> IF w = n + 1 THEN count + 1 ELSE u[w]]
    OBVIOUS
  <2>1. /\ new \in Seq(Nat) /\ Len(new) = n + 1
        /\ \A i \in 1..n : new[i] = old[i]
        /\ new[n + 1] = 1
    BY <1>1, <1>2, <1>14, AppendProperties DEF n
  <2>2. v[n + 1] = count + 1 /\ \A w \in 0..n : v[w] = u[w]
    BY <1>2, <2>0
  <2>3. \A w \in 0..(n + 1) : v[w] \in Nat
    <3>1. count + 1 \in Nat /\ \A w \in 0..(n + 1) : w = n + 1 \/ w \in 0..n
      BY <1>2, <1>3
    <3>2. QED
      BY <1>5, <2>0, <3>1
  <2>4. v \in [0..(n + 1) -> Nat]
    BY <2>0, <2>3
  <2>5. \A i \in 1..(n + 1) : v[i] = v[i - 1] + new[i]
    <3>1. ASSUME NEW i \in 1..n
          PROVE  v[i] = v[i - 1] + new[i]
      <4>1. i \in 0..n /\ i - 1 \in 0..n
        BY <1>2
      <4>2. QED
        BY <1>6, <2>1, <2>2, <4>1
    <3>2. v[n + 1] = v[(n + 1) - 1] + new[n + 1]
      <4>1. n \in 0..n /\ (n + 1) - 1 = n
        BY <1>2
      <4>2. QED
        BY <1>4, <2>1, <2>2, <4>1
    <3>3. \A i \in 1..(n + 1) : i \in 1..n \/ i = n + 1
      BY <1>2
    <3>4. QED
      BY <3>1, <3>2, <3>3
  <2>6. PartialSums(v, new)
    <3>1. v[0] = 0
      BY <1>2, <1>6, <2>2
    <3>2. QED
      BY <2>1, <2>4, <2>5, <3>1 DEF PartialSums
  <2>7. mem'.start = t /\ mem'.start # 0
    BY <1>1, <1>3, <1>14
  <2>8. ListingsAlready' = n
    BY <1>2, <2>1 DEF ListingsAlready, new
  <2>9. ASSUME Listings!Ordered, NEW i \in read \cup {line}, v[n] < ListingsRankOf(i)
        PROVE  t <= ListingsT(i) /\ ListingsT(i) - t < RequestWindow
    <3>1. v[n] = count
      BY <1>2, <1>4, <2>2
    <3>2. i = line
      BY <1>3, <2>9, <3>1
    <3>3. ListingsT(i) = t
      BY <3>2 DEF t
    <3>4. QED
      BY <1>2, <1>3, <3>3
  <2>10. ASSUME Listings!Ordered, NEW w \in 1..n,
                NEW i \in read \cup {line}, NEW j \in read \cup {line},
                v[w - 1] < ListingsRankOf(i), ListingsRankOf(i) <= v[w],
                v[w - 1] < ListingsRankOf(j), ListingsRankOf(j) <= v[w]
         PROVE  ListingsT(i) - ListingsT(j) < RequestWindow
    <3>1. w \in 0..n /\ w - 1 \in 0..n
      BY <1>2
    <3>2. v[w] = u[w] /\ v[w - 1] = u[w - 1]
      BY <2>2, <3>1
    <3>3. i \in read /\ j \in read
      BY <1>12, <2>10, <3>1, <3>2
    <3>4. QED
      BY <1>11, <2>10, <3>2, <3>3
  <2>11. ListingsWindows(v)'
    <3>1. v[Len(mem'.windows)] = Cardinality(ListingsRead')
      BY <1>3, <2>1, <2>2 DEF new
    <3>2. PartialSums(v, mem'.windows)
      BY <2>6 DEF new
    <3>3. ASSUME Listings!Ordered'
          PROVE  /\ \A i \in mem'.line..Len(args'.log) : mem'.start <= ListingsT(i)'
                 /\ \A i \in ListingsRead' : v[ListingsAlready'] < ListingsRankOf(i)' =>
                       /\ mem'.start <= ListingsT(i)'
                       /\ ListingsT(i)' - mem'.start < RequestWindow
                 /\ \A w \in 1..ListingsAlready' : \A i, j \in ListingsRead' :
                       /\ v[w - 1] < ListingsRankOf(i)' /\ ListingsRankOf(i)' <= v[w]
                       /\ v[w - 1] < ListingsRankOf(j)' /\ ListingsRankOf(j)' <= v[w]
                       => ListingsT(i)' - ListingsT(j)' < RequestWindow
      <4>1. Listings!Ordered
        BY <1>1, <3>3, ListingsSame
      <4>2. \A i \in mem'.line..Len(args'.log) : mem'.start <= ListingsT(i)
        BY <1>1, <1>13, <2>7, <4>1
      <4>3. \A i \in read \cup {line} : v[n] < ListingsRankOf(i) =>
                mem'.start <= ListingsT(i) /\ ListingsT(i) - mem'.start < RequestWindow
        BY <2>7, <2>9, <4>1
      <4>4. \A w \in 1..n : \A i, j \in read \cup {line} :
                /\ v[w - 1] < ListingsRankOf(i) /\ ListingsRankOf(i) <= v[w]
                /\ v[w - 1] < ListingsRankOf(j) /\ ListingsRankOf(j) <= v[w]
                => ListingsT(i) - ListingsT(j) < RequestWindow
        BY <2>10, <4>1
      <4>5. QED
        BY <1>1, <1>3, <2>8, <4>2, <4>3, <4>4, ListingsSame
    <3>4. QED
      BY <2>7, <3>1, <3>2, <3>3 DEF ListingsWindows
  <2>12. QED
    BY <1>2, <2>1, <2>11 DEF new
<1>15. CASE ~over
  <2>0. PICK v : v = [w \in 0..n |-> IF w = n THEN count + 1 ELSE u[w]]
    OBVIOUS
  <2>1. /\ new \in Seq(Nat) /\ Len(new) = n
        /\ \A i \in 1..n : i # n => new[i] = old[i]
        /\ new[n] = old[n] + 1
    <3>1. new = [old EXCEPT ![n] = old[n] + 1] /\ n \in 1..Len(old) /\ old[n] + 1 \in Nat
      BY <1>1, <1>2, <1>7, <1>15 DEF n
    <3>2. QED
      BY <1>2, <3>1, ExceptSeq DEF n
  <2>2. v[n] = count + 1 /\ \A w \in 0..(n - 1) : v[w] = u[w]
    BY <1>2, <2>0
  <2>3. \A w \in 0..n : v[w] \in Nat
    BY <1>3, <1>5, <2>0
  <2>4. v \in [0..n -> Nat]
    BY <2>0, <2>3
  <2>5. \A i \in 1..n : v[i] = v[i - 1] + new[i]
    <3>1. ASSUME NEW i \in 1..(n - 1)
          PROVE  v[i] = v[i - 1] + new[i]
      <4>1. i \in 0..(n - 1) /\ i - 1 \in 0..(n - 1) /\ i \in 1..n /\ i # n
        BY <1>2
      <4>2. QED
        BY <1>6, <2>1, <2>2, <4>1
    <3>2. v[n] = v[n - 1] + new[n]
      <4>1. n - 1 \in 0..(n - 1) /\ n \in 1..n /\ n - 1 \in 0..n
        BY <1>2
      <4>2. u[n] = u[n - 1] + old[n] /\ v[n - 1] = u[n - 1] /\ new[n] = old[n] + 1
        BY <1>6, <2>1, <2>2, <4>1
      <4>3. u[n - 1] \in Nat /\ old[n] \in Nat
        BY <1>5, <1>7, <4>1
      <4>4. QED
        BY <1>4, <2>2, <4>2, <4>3
    <3>3. \A i \in 1..n : i \in 1..(n - 1) \/ i = n
      BY <1>2
    <3>4. QED
      BY <3>1, <3>2, <3>3
  <2>6. PartialSums(v, new)
    <3>1. v[0] = 0
      BY <1>2, <1>6, <2>2
    <3>2. QED
      BY <2>1, <2>4, <2>5, <3>1 DEF PartialSums
  <2>7. mem'.start = started /\ mem'.start # 0
    BY <1>1, <1>8, <1>15
  <2>8. ListingsAlready' = n - 1
    BY <1>2, <2>1 DEF ListingsAlready, new
  <2>9. ASSUME Listings!Ordered, NEW i \in read \cup {line}, v[n - 1] < ListingsRankOf(i)
        PROVE  started <= ListingsT(i) /\ ListingsT(i) - started < RequestWindow
    <3>1. v[n - 1] = u[n - 1]
      BY <1>2, <2>2
    <3>2. CASE i \in read
      BY <1>4, <1>9, <2>9, <3>1, <3>2
    <3>3. CASE i = line
      <4>1. ListingsT(i) = t
        BY <3>3 DEF t
      <4>2. QED
        BY <1>2, <1>3, <1>8, <1>10, <1>15, <2>9, <4>1
    <3>4. QED
      BY <3>2, <3>3
  <2>10. ASSUME Listings!Ordered, NEW w \in 1..(n - 1),
                NEW i \in read \cup {line}, NEW j \in read \cup {line},
                v[w - 1] < ListingsRankOf(i), ListingsRankOf(i) <= v[w],
                v[w - 1] < ListingsRankOf(j), ListingsRankOf(j) <= v[w]
         PROVE  ListingsT(i) - ListingsT(j) < RequestWindow
    <3>1. w \in 0..(n - 1) /\ w - 1 \in 0..(n - 1) /\ w \in 0..n /\ w \in 1..n
      BY <1>2
    <3>2. v[w] = u[w] /\ v[w - 1] = u[w - 1]
      BY <2>2, <3>1
    <3>3. i \in read /\ j \in read
      BY <1>12, <2>10, <3>1, <3>2
    <3>4. QED
      BY <1>11, <2>10, <3>1, <3>2, <3>3
  <2>11. ListingsWindows(v)'
    <3>1. v[Len(mem'.windows)] = Cardinality(ListingsRead')
      BY <1>3, <2>1, <2>2 DEF new
    <3>2. PartialSums(v, mem'.windows)
      BY <2>6 DEF new
    <3>3. ASSUME Listings!Ordered'
          PROVE  /\ \A i \in mem'.line..Len(args'.log) : mem'.start <= ListingsT(i)'
                 /\ \A i \in ListingsRead' : v[ListingsAlready'] < ListingsRankOf(i)' =>
                       /\ mem'.start <= ListingsT(i)'
                       /\ ListingsT(i)' - mem'.start < RequestWindow
                 /\ \A w \in 1..ListingsAlready' : \A i, j \in ListingsRead' :
                       /\ v[w - 1] < ListingsRankOf(i)' /\ ListingsRankOf(i)' <= v[w]
                       /\ v[w - 1] < ListingsRankOf(j)' /\ ListingsRankOf(j)' <= v[w]
                       => ListingsT(i)' - ListingsT(j)' < RequestWindow
      <4>1. Listings!Ordered
        BY <1>1, <3>3, ListingsSame
      <4>2. \A i \in mem'.line..Len(args'.log) : mem'.start <= ListingsT(i)
        BY <1>1, <1>13, <2>7, <4>1
      <4>3. \A i \in read \cup {line} : v[n - 1] < ListingsRankOf(i) =>
                mem'.start <= ListingsT(i) /\ ListingsT(i) - mem'.start < RequestWindow
        BY <2>7, <2>9, <4>1
      <4>4. \A w \in 1..(n - 1) : \A i, j \in read \cup {line} :
                /\ v[w - 1] < ListingsRankOf(i) /\ ListingsRankOf(i) <= v[w]
                /\ v[w - 1] < ListingsRankOf(j) /\ ListingsRankOf(j) <= v[w]
                => ListingsT(i) - ListingsT(j) < RequestWindow
        BY <2>10, <4>1
      <4>5. QED
        BY <1>1, <1>3, <2>8, <4>2, <4>3, <4>4, ListingsSame
    <3>4. QED
      BY <2>7, <3>1, <3>2, <3>3 DEF ListingsWindows
  <2>12. QED
    BY <1>2, <2>1, <2>11 DEF new
<1>16. QED
  BY <1>14, <1>15

(* A step that reads a line leaves the devices, and a step of the devices  *)
(* leaves what was read.                                                   *)
LEMMA ListingsDevicesStay ==
    ASSUME ListingsDevices, args' = args, world' = world, mem'.offset = mem.offset,
           mem'.left = mem.left, mem'.printed = mem.printed,
           pc' \notin {"devices", "listed"}
    PROVE  ListingsDevices'
<1>1. ListingsMissed' = ListingsMissed
  BY DEF ListingsMissed, ListingsPrinted, ListingsToCome
<1>2. ~ListingsOn'
  BY DEF ListingsOn
<1>3. QED
  BY <1>1, <1>2 DEF ListingsDevices

LEMMA ListingsWindowsStay ==
    ASSUME NEW u, ListingsWindows(u), args' = args, mem'.line = mem.line,
           mem'.start = mem.start, mem'.windows = mem.windows
    PROVE  ListingsWindows(u)'
<1>1. ListingsRead' = ListingsRead /\ ListingsAlready' = ListingsAlready
  BY ListingsSame DEF ListingsRead, ListingsAlready
<1>2. QED
  BY <1>1, ListingsSame DEF ListingsWindows

LEMMA ListingsRequestsStay ==
    ASSUME ListingsRequests, args' = args, mem'.line = mem.line, mem'.start = mem.start,
           mem'.windows = mem.windows, pc' # "counted"
    PROVE  ListingsRequests'
<1>1. PICK u : ListingsWindows(u)
  BY DEF ListingsRequests
<1>2. ListingsWindows(u)'
  BY <1>1, ListingsWindowsStay
<1>3. QED
  BY <1>2 DEF ListingsRequests

LEMMA ListingsNextLine ==
    ASSUME ListingsInv, Listings!SkipLine \/ Listings!OtherLine \/ Listings!CountLine
    PROVE  ListingsInv'
<1>1. PICK u : ListingsTypes /\ ListingsDevices /\ ListingsWindows(u)
  BY DEF ListingsInv, ListingsRequests
<1>2. /\ pc = "qps" /\ pc' = "qps" /\ args' = args /\ world' = world
      /\ mem.line <= Len(args.log)
  BY DEF Listings!SkipLine, Listings!OtherLine, Listings!CountLine, Listings!NextLine,
         Listings!AtEnd, Listings!Stay
<1>3. /\ Len(args.log) \in Nat /\ mem.line \in Nat \ {0} /\ mem.start \in Nat
      /\ DOMAIN mem = {"offset", "left", "printed", "line", "start", "duration", "windows"}
  BY <1>1, ListingsLog DEF ListingsTypes
<1>4. mem.line <= Len(args.log) /\ mem.line \in 1..Len(args.log)
  BY <1>2, <1>3
<1>5. ListingsT(mem.line) \in Nat
  BY <1>1, <1>4, ListingsLog DEF ListingsTypes, ListingsT
<1>6. /\ DOMAIN mem' = DOMAIN mem /\ mem'.offset = mem.offset /\ mem'.left = mem.left
      /\ mem'.printed = mem.printed /\ mem'.line = mem.line + 1
      /\ mem'.start \in {mem.start, ListingsT(mem.line)}
  <2>1. CASE Listings!SkipLine
    BY <1>3, <2>1 DEF Listings!SkipLine
  <2>2. CASE Listings!OtherLine
    BY <1>3, <2>2 DEF Listings!OtherLine, Listings!Started, Listings!Line, ListingsT
  <2>3. CASE Listings!CountLine
    <3> DEFINE over == Listings!Line.t - Listings!Started >= RequestWindow
               start == IF over THEN Listings!Line.t ELSE Listings!Started
               counted == [mem.windows EXCEPT ![Len(mem.windows)] = @ + 1]
               windows == IF over THEN Append(mem.windows, 1) ELSE counted
               t == Listings!Line.t - Listings!Started
    <3>1. mem' = [mem EXCEPT !.line = @ + 1, !.duration = t, !.start = start, !.windows = windows]
      BY <2>3 DEF Listings!CountLine
    <3>2. start \in {mem.start, ListingsT(mem.line)}
      BY DEF Listings!Started, Listings!Line, ListingsT
    <3> HIDE DEF start, windows, t
    <3>3. QED
      BY <1>3, <3>1, <3>2
  <2>4. QED
    BY <2>1, <2>2, <2>3
<1>7. /\ mem'.windows \in Seq(Nat) /\ Len(mem'.windows) > 0
      /\ \E v : ListingsWindows(v)'
  <2>1. CASE Listings!SkipLine
    <3>1. /\ mem'.windows = mem.windows /\ mem'.start = mem.start
          /\ args.log[mem.line].is # "request"
      BY <1>3, <2>1 DEF Listings!SkipLine, Listings!Line
    <3>2. ListingsWindows(u)'
      BY <1>1, <1>2, <1>4, <1>6, <3>1, ListingsOther
    <3>3. QED
      BY <1>1, <3>1, <3>2 DEF ListingsTypes
  <2>2. CASE Listings!OtherLine
    <3>1. /\ mem'.windows = mem.windows /\ args.log[mem.line].is # "request"
          /\ mem'.start = IF mem.start = 0 THEN ListingsT(mem.line) ELSE mem.start
      BY <1>3, <2>2 DEF Listings!OtherLine, Listings!Line, Listings!Started, ListingsT
    <3>2. mem'.start = mem.start \/ (mem.start = 0 /\ mem'.start = ListingsT(mem.line))
      BY <3>1
    <3>3. ListingsWindows(u)'
      BY <1>1, <1>2, <1>4, <1>6, <3>1, <3>2, ListingsOther
    <3>4. QED
      BY <1>1, <3>1, <3>3 DEF ListingsTypes
  <2>3. CASE Listings!CountLine
    BY <1>1, <2>3, ListingsCountLine
  <2>4. QED
    BY <2>1, <2>2, <2>3
<1>8. ListingsTypes'
  <2>1. mem'.line \in Nat \ {0} /\ mem'.line <= Len(args.log) + 1 /\ mem'.start \in Nat
    BY <1>3, <1>4, <1>5, <1>6
  <2>2. QED
    BY <1>1, <1>2, <1>6, <1>7, <2>1 DEF ListingsTypes
<1>9. ListingsDevices'
  BY <1>1, <1>2, <1>6, ListingsDevicesStay
<1>10. ListingsRequests'
  BY <1>2, <1>7 DEF ListingsRequests
<1>11. QED
  BY <1>8, <1>9, <1>10 DEF ListingsInv

LEMMA ListingsNext ==
    ASSUME ListingsInv, Listings!Next
    PROVE  ListingsInv'
<1>1. CASE Listings!Change
  <2>1. ListingsTypes' /\ ListingsDevices'
    BY <1>1, ListingsChange DEF ListingsInv
  <2>2. ListingsRequests'
    BY <1>1, ListingsRequestsStay DEF ListingsInv, Listings!Change
  <2>3. QED
    BY <2>1, <2>2 DEF ListingsInv
<1>2. CASE Listings!DevicesPage
  <2>1. ListingsTypes' /\ ListingsDevices'
    BY <1>2, ListingsDevicesPage DEF ListingsInv
  <2>2. /\ args' = args /\ mem'.line = mem.line /\ mem'.start = mem.start
        /\ mem'.windows = mem.windows /\ pc' # "counted"
    <3> DEFINE page == SubSeq(world.online, mem.offset + 1,
                             Listings!Min({Len(world.online), mem.offset + DevicePage}))
               left == Listings!Left(Len(world.online))
               offset == IF mem.left = 0 THEN mem.offset ELSE mem.offset + DevicePage
               printed == mem.printed \o [i \in DOMAIN page |-> Listings!Shown(page[i])]
    <3>1. mem' = [mem EXCEPT !.printed = printed, !.offset = offset, !.left = left]
      BY <1>2 DEF Listings!DevicesPage
    <3>2. DOMAIN mem = {"offset", "left", "printed", "line", "start", "duration", "windows"}
      BY DEF ListingsInv, ListingsTypes
    <3>3. args' = args /\ pc' # "counted"
      BY <1>2 DEF Listings!DevicesPage, Listings!Stay
    <3> HIDE DEF printed, offset, left
    <3>4. QED
      BY <3>1, <3>2, <3>3
  <2>3. ListingsRequests'
    BY <2>2, ListingsRequestsStay DEF ListingsInv
  <2>4. QED
    BY <2>1, <2>3 DEF ListingsInv
<1>3. CASE Listings!DevicesFail \/ Listings!QpsEnd \/ Listings!PanicLine
  <2> DEFINE AtEnd == mem.line <= Len(args.log) => args.log[mem.line].is = "too long"
  <2>1. /\ args' = args /\ world' = world /\ mem' = mem
        /\ pc' \in {"failed", "counted", "panic"} /\ (pc' = "counted" => AtEnd)
    <3>1. CASE Listings!DevicesFail
      BY <3>1 DEF Listings!DevicesFail, Listings!Stay
    <3>2. CASE Listings!QpsEnd
      BY <3>2 DEF Listings!QpsEnd, Listings!Stay, Listings!AtEnd, Listings!Line
    <3>3. CASE Listings!PanicLine
      BY <3>3 DEF Listings!PanicLine, Listings!Stay
    <3>4. QED
      BY <1>3, <3>1, <3>2, <3>3
  <2>2. ListingsTypes'
    BY <2>1 DEF ListingsInv, ListingsTypes
  <2>3. ListingsDevices'
    BY <2>1, ListingsDevicesStay DEF ListingsInv
  <2>4. ListingsRequests'
    <3>1. PICK u : ListingsWindows(u)
      BY DEF ListingsInv, ListingsRequests
    <3>2. ListingsWindows(u)'
      BY <2>1, <3>1, ListingsWindowsStay
    <3>3. pc' = "counted" => AtEnd'
      BY <2>1
    <3>4. QED
      BY <3>2, <3>3 DEF ListingsRequests
  <2>5. QED
    BY <2>2, <2>3, <2>4 DEF ListingsInv
<1>4. QED
  BY <1>1, <1>2, <1>3, ListingsNextLine DEF Listings!Next

LEMMA ListingsListed ==
    ASSUME ListingsInv
    PROVE  Listings!DevicesListed
<1> DEFINE N == args.devices
           P == DevicePage
           At(d) == {i \in DOMAIN mem.printed : mem.printed[i] = d}
           missed == {d \in 1..N : d \in args.found /\ Listings!Times(d) = 0}
<1>1. SUFFICES ASSUME pc = "listed"
               PROVE  /\ world.changes = 0 =>
                           \A d \in 1..N : d \in args.found =>
                              Listings!Times(d) = IF d <= P THEN 2 ELSE 1
                      /\ Listings!Cardinality(missed) <= 2 * world.changes
  BY DEF Listings!DevicesListed
<1>2. /\ N \in Nat /\ P \in Nat \ {0} /\ mem.offset \in Nat /\ mem.left \in Int
      /\ DOMAIN mem.printed = 1..Len(mem.printed) /\ Len(mem.printed) \in Nat
      /\ world.changes \in Nat /\ Len(world.online) \in Nat
  BY ListingsLog, ListingsAssumption DEF ListingsInv, ListingsTypes
<1>3. \A d : Listings!Times(d) = Cardinality(At(d)) /\ IsFiniteSet(At(d))
  <2>1. IsFiniteSet(1..Len(mem.printed))
    BY <1>2, FS_Interval
  <2>2. \A d : At(d) \subseteq 1..Len(mem.printed)
    BY <1>2
  <2>3. QED
    BY <2>1, <2>2, FS_Subset, ListingsCardinality DEF Listings!Times
<1>4. Cardinality(missed) <= 2 * world.changes
  <2>1. ASSUME NEW d \in 1..N, Listings!Times(d) = 0
        PROVE  ~ListingsPrinted(d)
    <3>1. At(d) = {}
      <4> HIDE DEF At
      <4> QED
        BY <1>3, <2>1, FS_EmptySet
    <3>2. QED
      BY <1>2, <3>1 DEF ListingsPrinted
  <2>2. ASSUME NEW d \in 1..N
        PROVE  ~ListingsToCome(d)
    <3>1. ASSUME NEW i \in 1..Len(world.online), world.online[i] = d
          PROVE  i <= mem.offset
      <4>1. d # 0
        BY <1>2
      <4>2. i <= mem.left + mem.offset /\ mem.left <= 0
        BY <1>1, <3>1, <4>1 DEF ListingsInv, ListingsDevices, ListingsOn
      <4>3. QED
        BY <1>2, <4>2
    <3>2. QED
      BY <1>2, <3>1 DEF ListingsToCome
  <2>3. missed \subseteq ListingsMissed
    BY <2>1, <2>2 DEF ListingsMissed
  <2>4. IsFiniteSet(ListingsMissed) /\ Cardinality(ListingsMissed) <= 2 * world.changes
    BY DEF ListingsInv, ListingsDevices
  <2> HIDE DEF missed
  <2>5. /\ Cardinality(missed) <= Cardinality(ListingsMissed)
        /\ Cardinality(missed) \in Nat /\ Cardinality(ListingsMissed) \in Nat
    BY <2>3, <2>4, FS_Subset, FS_CardinalityType
  <2>6. QED
    BY <1>2, <2>4, <2>5
<1>5. ASSUME world.changes = 0, NEW d \in 1..N, d \in args.found
      PROVE  Cardinality(At(d)) = IF d <= P THEN 2 ELSE 1
  <2> DEFINE first == ListingsFirst
  <2>1. first = IF N <= P THEN N ELSE P
    BY DEF ListingsFirst
  <2>2. ListingsUpto = N
    <3>1. mem.left = N - mem.offset /\ mem.left <= 0
      BY <1>1, <1>5 DEF ListingsInv, ListingsDevices, ListingsOn, ListingsTwice
    <3>2. N <= mem.offset
      BY <1>2, <3>1
    <3>3. QED
      BY <3>2 DEF ListingsUpto
  <2>3. /\ Len(mem.printed) = first + N
        /\ \A i \in 1..first : mem.printed[i] = Listings!Shown(i)
        /\ \A i \in 1..N : mem.printed[first + i] = Listings!Shown(i)
    BY <1>1, <1>5, <2>2 DEF ListingsInv, ListingsDevices, ListingsOn, ListingsTwice
  <2> HIDE DEF first
  <2>4. first \in Nat /\ first <= N
    BY <1>2, <2>1
  <2>5. ASSUME NEW i \in 1..(first + N)
        PROVE  mem.printed[i] = Listings!Shown(IF i <= first THEN i ELSE i - first)
    <3>1. CASE i <= first
      <4>1. i \in 1..first
        BY <2>4, <3>1
      <4>2. QED
        BY <2>3, <3>1, <4>1
    <3>2. CASE i > first
      <4> DEFINE j == i - first
      <4>1. j \in 1..N /\ first + j = i /\ ~(i <= first)
        BY <1>2, <2>4, <3>2
      <4> HIDE DEF j
      <4>2. mem.printed[i] = Listings!Shown(j)
        BY <2>3, <4>1
      <4>3. QED
        BY <4>1, <4>2 DEF j
    <3>3. i <= first \/ i > first
      BY <1>2, <2>4
    <3>4. QED
      BY <3>1, <3>2, <3>3
  <2>6. DOMAIN mem.printed = 1..(first + N)
    BY <1>2, <2>3
  <2>7. At(d) = {i \in 1..(first + N) : (IF i <= first THEN i ELSE i - first) = d}
    <3>1. \A e : Listings!Shown(e) = d <=> e = d
      <4>1. d # 0
        BY <1>2
      <4>2. QED
        BY <1>5, <4>1 DEF Listings!Shown
    <3>2. QED
      BY <2>5, <2>6, <3>1
  <2> HIDE DEF At
    <2>9. CASE d <= P
    <3>1. d <= first /\ first + d # d
      BY <1>2, <2>1, <2>9
    <3>2. At(d) = {first + d} \cup {d}
      <4>1. \A i \in 1..(first + N) :
               (IF i <= first THEN i ELSE i - first) = d <=> i = first + d \/ i = d
        BY <1>2, <2>4, <3>1
      <4>2. first + d \in 1..(first + N) /\ d \in 1..(first + N)
        BY <1>2, <2>4
      <4>3. QED
        BY <2>7, <4>1, <4>2
    <3> DEFINE S == {first + d}
    <3>3. IsFiniteSet(S) /\ Cardinality(S) = 1 /\ d \notin S
      BY <3>1, FS_Singleton
    <3> HIDE DEF S
    <3>4. Cardinality(S \cup {d}) = 2
      BY <3>3, FS_AddElement
    <3>5. QED
      BY <2>9, <3>2, <3>4 DEF S
  <2>10. CASE d > P
    <3>1. d > first
      BY <1>2, <2>1, <2>10
    <3>2. At(d) = {first + d}
      <4>1. \A i \in 1..(first + N) :
               (IF i <= first THEN i ELSE i - first) = d <=> i = first + d
        BY <1>2, <2>4, <3>1
      <4>2. first + d \in 1..(first + N)
        BY <1>2, <2>4
      <4>3. QED
        BY <2>7, <4>1, <4>2
    <3>3. Cardinality({first + d}) = 1
      BY FS_Singleton
    <3>4. ~(d <= P)
      BY <1>2, <2>10
    <3>5. QED
      BY <3>2, <3>3, <3>4
  <2>11. d <= P \/ d > P
    BY <1>2
  <2>12. QED
    BY <2>9, <2>10, <2>11
<1>6. Listings!Cardinality(missed) = Cardinality(missed)
  BY ListingsCardinality
<1> HIDE DEF missed, At
<1>7. QED
  BY <1>3, <1>4, <1>5, <1>6

(* Two functions of partial sums are the same.                             *)
LEMMA SumsAreThose ==
    ASSUME NEW s \in Seq(Nat), NEW u, PartialSums(u, s), NEW v, PartialSums(v, s)
    PROVE  \A i \in 0..Len(s) : v[i] = u[i]
<1> DEFINE m == Len(s)
           T == {n \in Nat : n <= m => v[n] = u[n]}
<1>1. m \in Nat
  OBVIOUS
<1>2. /\ u[0] = 0 /\ v[0] = 0
      /\ \A i \in 1..m : u[i] = u[i - 1] + s[i] /\ v[i] = v[i - 1] + s[i]
  BY DEF PartialSums
<1> HIDE DEF m
<1>3. 0 \in T
  BY <1>2
<1>4. ASSUME NEW n \in Nat, n \in T
      PROVE  n + 1 \in T
  <2> SUFFICES ASSUME n + 1 <= m
               PROVE  v[n + 1] = u[n + 1]
    OBVIOUS
  <2>1. n + 1 \in 1..m /\ (n + 1) - 1 = n /\ n <= m
    BY <1>1
  <2>2. v[n] = u[n]
    BY <1>4, <2>1
  <2>3. QED
    BY <1>2, <2>1, <2>2
<1>5. \A n \in Nat : n \in T
  <2> HIDE DEF T
  <2> QED
    BY <1>3, <1>4, SetInduction
<1>6. \A n \in 0..m : n \in Nat /\ n <= m
  BY <1>1
<1>7. QED
  BY <1>5, <1>6 DEF m

LEMMA ListingsCounted ==
    ASSUME ListingsInv
    PROVE  Listings!RequestsCounted
<1> DEFINE L == mem.line - 1
           n == Len(mem.windows)
           all == Listings!Mine(L)
           sums == CHOOSE u : SumsOf(u, mem.windows)
           In(w) == {i \in all : sums[w - 1] < ListingsRankOf(i) /\ ListingsRankOf(i) <= sums[w]}
<1>1. SUFFICES ASSUME pc = "counted"
               PROVE  /\ mem.line <= Len(args.log) => args.log[mem.line].is = "too long"
                      /\ sums[n] = Cardinality(all)
                      /\ Listings!Ordered => \A w \in DOMAIN mem.windows : \A i, j \in In(w) :
                            ListingsT(i) - ListingsT(j) < RequestWindow
  BY ListingsCardinality
     DEF Listings!RequestsCounted, SumsOf, ListingsRankOf, ListingsT
<1>2. /\ mem.windows \in Seq(Nat) /\ n \in Nat \ {0} /\ DOMAIN mem.windows = 1..n
      /\ L \in Nat /\ mem.line - 1 = L /\ mem.start \in Nat
      /\ \A i \in 1..L : ListingsT(i) \in Nat
  <2>1. mem.line \in Nat \ {0} /\ mem.line <= Len(args.log) + 1
    BY DEF ListingsInv, ListingsTypes
  <2>2. /\ mem.windows \in Seq(Nat) /\ Len(mem.windows) > 0 /\ mem.start \in Nat
        /\ args \in ListingInputs
    BY DEF ListingsInv, ListingsTypes
  <2>3. L \in Nat /\ \A i \in 1..L : ListingsT(i) \in Nat
    <3>1. Len(args.log) \in Nat /\ \A i \in 1..Len(args.log) : ListingsT(i) \in Nat
      BY <2>2, ListingsLog DEF ListingsT
    <3>2. \A i \in 1..L : i \in 1..Len(args.log)
      BY <2>1, <3>1
    <3>3. QED
      BY <2>1, <3>1, <3>2
  <2>4. QED
    BY <2>1, <2>2, <2>3
<1>3. PICK u : ListingsWindows(u)
  BY DEF ListingsInv, ListingsRequests
<1>4. PartialSums(u, mem.windows) /\ u[n] = Cardinality(all)
  BY <1>2, <1>3 DEF ListingsWindows, ListingsRead
<1>5. PartialSums(sums, mem.windows)
  <2>1. SumsOf(sums, mem.windows)
    BY <1>2, SumsExist
  <2> HIDE DEF sums
  <2>2. QED
    BY <1>2, <2>1, SumsArePartial
<1> HIDE DEF sums
<1>6. \A i \in 0..n : sums[i] = u[i]
  BY <1>2, <1>4, <1>5, SumsAreThose
<1>7. ASSUME Listings!Ordered, NEW w \in 1..n, NEW i \in In(w), NEW j \in In(w)
      PROVE  ListingsT(i) - ListingsT(j) < RequestWindow
  <2>1. w \in 0..n /\ w - 1 \in 0..n
    BY <1>2
  <2>2. /\ i \in ListingsRead /\ j \in ListingsRead
        /\ u[w - 1] < ListingsRankOf(i) /\ ListingsRankOf(i) <= u[w]
        /\ u[w - 1] < ListingsRankOf(j) /\ ListingsRankOf(j) <= u[w]
    BY <1>2, <1>6, <1>7, <2>1 DEF ListingsRead
  <2>3. CASE w < n
    <3>1. w \in 1..ListingsAlready
      BY <1>2, <2>3 DEF ListingsAlready
    <3>2. QED
      BY <1>3, <1>7, <2>2, <3>1 DEF ListingsWindows
  <2>4. CASE w = n
    <3>1. ListingsAlready = w - 1
      BY <2>4 DEF ListingsAlready
    <3>2. /\ mem.start <= ListingsT(i) /\ ListingsT(i) - mem.start < RequestWindow
          /\ mem.start <= ListingsT(j)
      BY <1>3, <1>7, <2>2, <3>1 DEF ListingsWindows
    <3>3. i \in 1..L /\ j \in 1..L
      BY <1>2, <1>7 DEF Listings!Mine
    <3>4. ListingsT(i) \in Nat /\ ListingsT(j) \in Nat /\ RequestWindow \in Nat
      BY <1>2, <3>3, ListingsAssumption
    <3>5. QED
      BY <1>2, <3>2, <3>4
  <2>5. w < n \/ w = n
    BY <1>2
  <2>6. QED
    BY <2>3, <2>4, <2>5
<1>8. sums[n] = Cardinality(all)
  <2>1. n \in 0..n
    BY <1>2
  <2>2. QED
    BY <1>4, <1>6, <2>1
<1>9. mem.line <= Len(args.log) => args.log[mem.line].is = "too long"
  BY <1>1 DEF ListingsInv, ListingsRequests
<1>10. QED
  BY <1>2, <1>7, <1>8, <1>9

LEMMA ListingsProperties ==
    ListingsInv => Listings!DevicesListed /\ Listings!RequestsCounted
BY ListingsListed, ListingsCounted

-----------------------------------------------------------------------------
(* The tool that runs is in its invariant.                                 *)
ToolsInv ==
    /\ tool = "tools" => ParserInv
    /\ tool = "qvs_dbg" => DbgInv
    /\ tool = "qvsdbg" => PullInv
    /\ tool = "gb28181" => DeviceInv
    /\ tool = "talk" => ChannelInv
    /\ tool = "rtc" => RtcInv
    /\ tool = "watch" => WatchInv
    /\ tool = "streamd_log" => StreamdInv
    /\ tool = "k8s" => K8sInv
    /\ tool = "caches" => CachesInv
    /\ tool = "statistics" => StatInv
    /\ tool = "multiLineSearch" => DumpInv
    /\ tool = "tables" => TablesInv
    /\ tool = "devices" => ListingsInv

(* Each tool starts in its invariant.                                      *)
LEMMA ToolsInit == Init => ToolsInv
<1> SUFFICES ASSUME Init
             PROVE  ToolsInv
  OBVIOUS
<1>1. \/ tool = "tools" /\ ParserInv
      \/ tool = "qvs_dbg" /\ DbgInv
      \/ tool = "qvsdbg" /\ PullInv
      \/ tool = "gb28181" /\ DeviceInv
      \/ tool = "talk" /\ ChannelInv
      \/ tool = "rtc" /\ RtcInv
      \/ tool = "watch" /\ WatchInv
      \/ tool = "streamd_log" /\ StreamdInv
      \/ tool = "k8s" /\ K8sInv
      \/ tool = "caches" /\ CachesInv
      \/ tool = "statistics" /\ StatInv
      \/ tool = "multiLineSearch" /\ DumpInv
      \/ tool = "tables" /\ TablesInv
      \/ tool = "devices" /\ ListingsInv
  BY ParserInit, DbgInit, PullInit, DeviceInit, ChannelInit, RtcInit, WatchInit,
     StreamdInit, K8sInit, CachesInit, StatInit, DumpInit, TablesInit, ListingsInit
     DEF Init
<1>2. QED
  BY <1>1 DEF ToolsInv

(* A stuttering step keeps every invariant: they speak of the variables.   *)
LEMMA ToolsStutter ==
    ASSUME ToolsInv, UNCHANGED vars
    PROVE  ToolsInv'
<1> USE DEF vars
<1>1. ParserInv' = ParserInv
  BY DEF ParserInv, Parser!InviteLine, Parser!CreateLine, Parser!SipReport, Parser!RtpReport
<1>2. DbgInv' = DbgInv
  BY DEF DbgInv
<1>3. PullInv' = PullInv
  BY DEF PullInv, Pull!DeletedAfter
<1>4. DeviceInv' = DeviceInv
  BY DEF DeviceInv, DeviceTypes, DeviceAnswers, DeviceAlone, DeviceWhole, Device!KindOf
<1>5. ChannelInv' = ChannelInv
  BY DEF ChannelInv, ChannelServer, Channel!InvitedToChannel, Channel!Media
<1>6. RtcInv' = RtcInv
  BY DEF RtcInv
<1>7. WatchInv' = WatchInv
  BY DEF WatchInv, Watch!SeenIsTold
<1>8. StreamdInv' = StreamdInv
  BY DEF StreamdInv, StreamdTypes, StreamdControl, StreamdCounted, StreamdWritten,
         StreamdCount, StreamdListed, StreamdOpen, StreamdIsOut, StreamdPast,
         StreamdStored, StreamdThrough
<1>9. K8sInv' = K8sInv
  BY DEF K8sInv, K8sTypes, K8sControl, K8sCounted, K8sOnce, K8sDialled, K8sRunning, K8sSent
<1>10. CachesInv' = CachesInv
  BY DEF CachesInv
<1>11. StatInv' = StatInv
  BY DEF StatInv, StatTypes, StatServer, StatNamespaces, StatFetched, StatOnce, StatWanted,
         StatItem, Stat!AllOrNothing
<1>12. DumpInv' = DumpInv
  BY DEF DumpInv, DumpTypes, DumpProc, DumpApart, DumpAll, DumpLines, Dump!InMessage,
         Dump!Matching, Dump!Found, Dump!Closed
<1>13. TablesInv' = TablesInv
  BY DEF TablesInv, TablesTypes, TablesCounted, TablesRead
<1>14. ListingsInv' = ListingsInv
  BY DEF ListingsInv, ListingsTypes, ListingsDevices, ListingsMissed, ListingsPrinted,
         ListingsToCome, ListingsOn, ListingsTwice, ListingsFirst, ListingsUpto,
         ListingsRequests, ListingsWindows, ListingsRead, ListingsRankOf,
         ListingsAlready, ListingsT, Listings!Mine, Listings!Ordered, Listings!Shown
<1>15. QED
  BY <1>1, <1>2, <1>3, <1>4, <1>5, <1>6, <1>7, <1>8, <1>9, <1>10, <1>11, <1>12, <1>13,
     <1>14 DEF ToolsInv

(* A step is one of the tool that runs, and the tool stays.                *)
LEMMA ToolsNext ==
    ASSUME ToolsInv, [Next]_vars
    PROVE  ToolsInv'
<1>1. CASE UNCHANGED vars
  BY <1>1, ToolsStutter
<1>2. CASE Is("tools") /\ Parser!Next
  BY <1>2, ParserNext DEF ToolsInv, Is
<1>3. CASE Is("qvs_dbg") /\ Dbg!Next
  BY <1>3, DbgNext DEF ToolsInv, Is
<1>4. CASE Is("qvsdbg") /\ Pull!Next
  BY <1>4, PullNext DEF ToolsInv, Is
<1>5. CASE Is("gb28181") /\ Device!Next
  BY <1>5, DeviceNext DEF ToolsInv, Is
<1>6. CASE Is("talk") /\ Channel!Next
  BY <1>6, ChannelNext DEF ToolsInv, Is
<1>7. CASE Is("rtc") /\ Rtc!Next
  BY <1>7, RtcNext DEF ToolsInv, Is
<1>8. CASE Is("watch") /\ Watch!Next
  BY <1>8, WatchNext DEF ToolsInv, Is
<1>9. CASE Is("streamd_log") /\ Streamd!Next
  BY <1>9, StreamdNext DEF ToolsInv, Is
<1>10. CASE Is("k8s") /\ K8s!Next
  BY <1>10, K8sNext DEF ToolsInv, Is
<1>11. CASE Is("caches") /\ Caches!Next
  BY <1>11, CachesNext DEF ToolsInv, Is
<1>12. CASE Is("statistics") /\ Stat!Next
  BY <1>12, StatNext DEF ToolsInv, Is
<1>13. CASE Is("multiLineSearch") /\ Dump!Next
  BY <1>13, DumpNext DEF ToolsInv, Is
<1>14. CASE Is("tables") /\ Tables!Next
  BY <1>14, TablesNext DEF ToolsInv, Is
<1>15. CASE Is("devices") /\ Listings!Next
  BY <1>15, ListingsNext DEF ToolsInv, Is
<1>16. QED
  BY <1>1, <1>2, <1>3, <1>4, <1>5, <1>6, <1>7, <1>8, <1>9, <1>10, <1>11, <1>12, <1>13,
     <1>14, <1>15 DEF Next

(* ToolsInv is an invariant of every tool, for all values of the constants *)
(* that the assumptions allow.                                             *)
THEOREM SpecToolsInv == Spec => []ToolsInv
<1>1. ToolsInv /\ [Next]_vars => ToolsInv'
  BY ToolsNext
<1>2. QED
  BY ToolsInit, <1>1, PTL DEF Spec

-----------------------------------------------------------------------------
(* However copies fail and logs, lists and files change meanwhile, a       *)
(* report is put together from what one call or fetch brought.             *)
THEOREM NeverMixedHolds == Spec => []NeverMixed
<1>1. ToolsInv => NeverMixed
  BY ParserNeverMixed, DbgProperties, PullProperties, CachesProperties DEF ToolsInv, NeverMixed
<1>2. QED
  BY <1>1, SpecToolsInv, PTL

(* What tools and the pull-failure analysis report to come after the       *)
(* invite, or after the creation of the channel, does.                     *)
THEOREM ReportedAfterHolds == Spec => []ReportedAfter
<1>1. ToolsInv => ReportedAfter
  BY ParserReportedAfter, PullProperties DEF ToolsInv, ReportedAfter
<1>2. QED
  BY <1>1, SpecToolsInv, PTL

(* However the stream of the platform is cut, no catalog request is        *)
(* answered twice; main is never left waiting for an answer that was       *)
(* given, and what a watcher saw is told.                                  *)
THEOREM AnsweredOnceHolds == Spec => []AnsweredOnce
<1>1. ToolsInv => AnsweredOnce
  BY PullProperties, DeviceProperties DEF ToolsInv, AnsweredOnce, WatchInv
<1>2. QED
  BY <1>1, SpecToolsInv, PTL

(* A device is invited to a channel that exists, and a leak test that      *)
(* returns has had all its handshakes.                                     *)
THEOREM NoFailureHiddenHolds == Spec => []NoFailureHidden
<1>1. RtcInv => Rtc!ReturnHidesNoFailure
  BY DEF RtcInv, Rtc!ReturnHidesNoFailure
<1>2. ToolsInv => NoFailureHidden
  BY <1>1 DEF ToolsInv, NoFailureHidden, ChannelInv
<1>3. QED
  BY <1>2, SpecToolsInv, PTL

(* Whatever the order of the goroutines, what they find is written, or     *)
(* printed, once, and none is left out; the unsynchronised count stays     *)
(* within its bounds.                                                      *)
THEOREM GatheredHolds == Spec => []Gathered
<1>1. ToolsInv => Gathered
  BY StreamdProperties, K8sProperties DEF ToolsInv, Gathered
<1>2. QED
  BY <1>1, SpecToolsInv, PTL

(* However streams are inserted while statistics reads page by page, what  *)
(* it writes is nothing after a failed request, and otherwise every active *)
(* rtmp stream that was there at the start; all of them once if nothing    *)
(* changes.                                                                *)
THEOREM AllOrNothingHolds == Spec => []AllOrNothing
<1>1. ToolsInv => AllOrNothing
  BY DEF ToolsInv, AllOrNothing, StatInv
<1>2. QED
  BY <1>1, SpecToolsInv, PTL

(* However often multiLineSearch is called, the messages it prints are     *)
(* those of the dumps with the keywords; every line of a log is in the     *)
(* table of its stream; of the devices of a listing, each one that comes   *)
(* or goes hides at most two, and no request is lost between two windows.  *)
THEOREM NothingLeftOutHolds == Spec => []NothingLeftOut
<1>1. ToolsInv => NothingLeftOut
  BY DumpProperties, TablesProperties, ListingsProperties DEF ToolsInv, NothingLeftOut
<1>2. QED
  BY <1>1, SpecToolsInv, PTL
=============================================================================
