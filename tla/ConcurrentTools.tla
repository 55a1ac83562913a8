--------------------------- MODULE ConcurrentTools ---------------------------
(***************************************************************************)
(* The tools that work while something else does: goroutines of their own, *)
(* nodes that rotate their logs, servers whose lists change, requests that *)
(* are acted upon late, earlier calls of themselves; and the tables that   *)
(* qvsdbg makes of a node's log.  One of them runs: its state is in the    *)
(* variables that all of them have, the other tools are not there.         *)
(***************************************************************************)
EXTENDS Integers, Sequences, FiniteSets

CONSTANTS
    ToolsLogs, Ten, Second,          \* tools: the logs; create_channel lines and
                                     \* milliseconds that are looked at
    DbgInputs, MaxRotations,         \* qvs-dbg
    MaxFetches,                      \* bound: fetches of each of the two
    PullInputs, DeleteLogs,          \* qvsdbg
    MaxPullCalls,
    DeviceInputs, MaxKeepalives,     \* gb28181
    MaxSsrc, MaxTalkCalls,           \* talk
    Players, Deadline, Timeout,      \* rtc
    WatchedStreams, MaxObserved,     \* watch
    Windows, Files,                  \* streamd-log
    KubeNodes, KubeInputs,           \* k8s
    MaxChanges, MaxLowBwCalls,       \* caches
    Namespaces, Rtmp, NsStreams,     \* statistics
    Active, NsLine, StreamsLine, NsAtStart, StreamsAtStart, MaxListChanges,
    Keywords, Dumps, TooLarge, MaxSearches,         \* multiLineSearch
    TableLogs, TableNodes,                          \* qvsdbg's tables
    ListingInputs, DevicePage, RequestWindow, MaxDeviceChanges   \* devices

VARIABLES tool, pc, args, world, mem

vars == <<tool, pc, args, world, mem>>

Parser == INSTANCE LogParser WITH Logs <- ToolsLogs
Dbg == INSTANCE QvsDbg WITH Inputs <- DbgInputs
Pull == INSTANCE PullFail WITH
    Inputs <- PullInputs, Deletes <- DeleteLogs, MaxCalls <- MaxPullCalls
Device == INSTANCE GbDevice WITH Inputs <- DeviceInputs
Channel == INSTANCE MediaChannel WITH MaxCalls <- MaxTalkCalls
Rtc == INSTANCE RtcLeakTest
Watch == INSTANCE Watchers WITH Streams <- WatchedStreams
Streamd == INSTANCE StreamdLog
K8s == INSTANCE K8sProbe WITH Nodes <- KubeNodes, Inputs <- KubeInputs
Caches == INSTANCE NodeCaches WITH MaxCalls <- MaxLowBwCalls
Stat == INSTANCE Statistics WITH
    Streams <- NsStreams, Line <- StreamsLine, MaxChanges <- MaxListChanges
Dump == INSTANCE SipDumpSearch WITH Keys <- Keywords, MaxCalls <- MaxSearches
Tables == INSTANCE QvsdbgTables WITH Logs <- TableLogs, Nodes <- TableNodes
Listings == INSTANCE QvsListings WITH
    Inputs <- ListingInputs, Page <- DevicePage, Window <- RequestWindow,
    MaxChanges <- MaxDeviceChanges

(* A timeout is not negative.  The lines of a log are in a sequence and    *)
(* have a time, or a date of one of two formats or none.  A platform sends *)
(* messages of four kinds.  There is a window, there are finitely many     *)
(* files and nodes, and the lists that k8s compares are of those nodes.  A *)
(* server lists a namespace or a stream once.  The keywords of a search    *)
(* are finitely many numbers, and a line of a dump is those it has, or a   *)
(* separator.  A log that a table is made of has lines of one kind, whose  *)
(* streams and users are those of the table.  The lines of an access log   *)
(* have a time after 0; a page and a window have a size.                   *)
ASSUME TimeoutAssumption == Timeout \in Nat
ASSUME ToolsLogsAssumption ==
    LET Lines == Seq([kind : STRING, ts : Int, sess : Int, ok : BOOLEAN])
    IN  ToolsLogs \subseteq [sip : Lines, rtp : Lines] /\ Ten \in Nat
ASSUME DeleteLogsAssumption ==
    DeleteLogs \subseteq
        [split : BOOLEAN, lines : Seq([fmt : Pull!Formats \cup {"none"}, t : Int])]
ASSUME DeviceAssumption ==
    \A input \in DeviceInputs : input.script \in Seq(Device!Kinds)
ASSUME StreamdAssumption == Windows \in Nat \ {0} /\ IsFiniteSet(Files)
ASSUME KubeAssumption ==
    /\ IsFiniteSet(KubeNodes)
    /\ KubeInputs \subseteq [notReady : SUBSET KubeNodes, known : SUBSET KubeNodes,
                             public : SUBSET KubeNodes, serve : SUBSET KubeNodes]
ASSUME StatAssumption ==
    /\ NsLine \in Nat /\ StreamsLine \in Nat
    /\ NsAtStart \subseteq {list \in Seq(Namespaces) : Stat!IsInjective(list)}
    /\ StreamsAtStart \subseteq
          [Namespaces -> {list \in Seq(NsStreams) : Stat!IsInjective(list)}]
ASSUME DumpAssumption ==
    /\ Keywords \subseteq Nat /\ IsFiniteSet(Keywords)
    /\ \A dump \in Dumps : \A f \in DOMAIN dump :
           dump[f].lines \in Seq(SUBSET (Keywords \cup {0}))
ASSUME TablesAssumption ==
    /\ TableLogs \subseteq
          [kind : {"netstat"}, lines : Seq([fields : Nat, ip : STRING])]
          \cup [kind : {"points"},
                lines : Seq([ok : BOOLEAN, stream : Tables!Streams, method : STRING,
                             uid : Tables!Uids, bps : Seq(Nat)])]
    /\ TableNodes \in Seq(SUBSET STRING)
ASSUME ListingsAssumption ==
    /\ ListingInputs \subseteq
          [devices : Nat, found : SUBSET (Nat \ {0}),
           log : Seq([t : Nat \ {0}, is : Listings!Lines])]
    /\ DevicePage \in Nat \ {0} /\ RequestWindow \in Nat \ {0}

-----------------------------------------------------------------------------
Init ==
    \/ tool = "tools" /\ Parser!Init
    \/ tool = "qvs_dbg" /\ Dbg!Init
    \/ tool = "qvsdbg" /\ Pull!Init
    \/ tool = "gb28181" /\ Device!Init
    \/ tool = "talk" /\ Channel!Init
    \/ tool = "rtc" /\ Rtc!Init
    \/ tool = "watch" /\ Watch!Init
    \/ tool = "streamd_log" /\ Streamd!Init
    \/ tool = "k8s" /\ K8s!Init
    \/ tool = "caches" /\ Caches!Init
    \/ tool = "statistics" /\ Stat!Init
    \/ tool = "multiLineSearch" /\ Dump!Init
    \/ tool = "tables" /\ Tables!Init
    \/ tool = "devices" /\ Listings!Init

Is(name) == tool = name /\ UNCHANGED tool

Next ==
    \/ Is("tools") /\ Parser!Next
    \/ Is("qvs_dbg") /\ Dbg!Next
    \/ Is("qvsdbg") /\ Pull!Next
    \/ Is("gb28181") /\ Device!Next
    \/ Is("talk") /\ Channel!Next
    \/ Is("rtc") /\ Rtc!Next
    \/ Is("watch") /\ Watch!Next
    \/ Is("streamd_log") /\ Streamd!Next
    \/ Is("k8s") /\ K8s!Next
    \/ Is("caches") /\ Caches!Next
    \/ Is("statistics") /\ Stat!Next
    \/ Is("multiLineSearch") /\ Dump!Next
    \/ Is("tables") /\ Tables!Next
    \/ Is("devices") /\ Listings!Next

(* Requests are answered, goroutines run and remote commands end.          *)
Fairness ==
    /\ WF_vars(Is("statistics") /\ Stat!Step)
    /\ WF_vars(Is("streamd_log") /\ Streamd!Main)
    /\ \A j \in (1..Windows) \X Files : WF_vars(Is("streamd_log") /\ Streamd!Goroutine(j))
    /\ WF_vars(Is("k8s") /\ K8s!Next)

Spec == Init /\ [][Next]_vars /\ Fairness

-----------------------------------------------------------------------------
(* What is put together in one report or answer is of one call: the logs   *)
(* of tools and qvs-dbg are of one fetch, if the old ones could be deleted *)
(* and the directories that are named are those that are read, the report  *)
(* on pull failures is empty or whole, and LowBw works on what was fetched *)
(* last.                                                                   *)
NeverMixed ==
    /\ tool = "tools" => Parser!NeverMixed
    /\ tool = "qvs_dbg" => Dbg!OneFetch
    /\ tool = "qvsdbg" => Pull!ReportWhole
    /\ tool = "caches" => Caches!ReportsLastFetch

(* What a report says happened after the invite, or after the creation of  *)
(* the channel, did; but for a log that cannot be split into lines.        *)
ReportedAfter ==
    /\ tool = "tools" => Parser!ReportedAfter
    /\ tool = "qvsdbg" => Pull!DeletedAfter

(* Every partner gets what it waits for, once: main the answers to the     *)
(* invite, the platform its catalog, the operator what a watcher saw.      *)
AnsweredOnce ==
    /\ tool = "qvsdbg" => Pull!NeverLeftWaiting
    /\ tool = "gb28181" => Device!AnsweredOnce
    /\ tool = "watch" => Watch!SeenIsTold

(* No failed step is taken for a good one, but for the two of MediaChannel *)
(* that stay hidden: a device is invited to the channel that exists, a     *)
(* leak test that returns had all its handshakes.                          *)
NoFailureHidden ==
    /\ tool = "talk" => Channel!InvitedToChannel
    /\ tool = "rtc" => Rtc!ReturnHidesNoFailure

(* What goroutines find is gathered: each result once, none left out.      *)
Gathered ==
    /\ tool = "streamd_log" => Streamd!Gathered /\ Streamd!CountWithin
    /\ tool = "k8s" => K8s!AllServingPrinted

(* statistics writes nothing after a failed request, and otherwise every   *)
(* stream that it should.                                                  *)
AllOrNothing == tool = "statistics" => Stat!AllOrNothing

(* Every message of a dump that has the keywords is printed, and no other  *)
(* text; every line of a log (up to one that is too long for the scanner)  *)
(* and every device of a listing that it is about is counted.              *)
NothingLeftOut ==
    /\ tool = "multiLineSearch" => Dump!MessagesFound
    /\ tool = "tables" => Tables!TableComplete
    /\ tool = "devices" => Listings!DevicesListed /\ Listings!RequestsCounted

(* The tools that wait end: streamd-log, k8s, and statistics while nothing *)
(* is deleted and the namespaces stay.                                     *)
ToolsEnd ==
    /\ [](tool = "statistics" /\ Stat!Undisturbed) => <>Stat!Ended
    /\ tool = "streamd_log" => Streamd!Ends
    /\ tool = "k8s" => <>(pc = "printed")
=============================================================================
