# Verification of qvs-tools

TLA+ models, TLC runs and TLAPS proofs for the tools in this repository. The
repository is a collection of Go programs (about thirty directories, most of
them one `main.go`) with which an operations team inspects a live-streaming
CDN: searching logs on many nodes at once, watching nodes, mocking services
and producing reports. There is no common runtime; the programs meet in files,
in redis and in the remote machines they log in to. What can go wrong is
therefore mostly in five places: goroutines that share channels or maps,
remote commands and writes that fail half-way, state that is lost or left over
when a tool is started again, long-running loops that must keep making
progress, and passes over data whose parts (logs of two nodes, tables of two
reports) must belong together.

## 1. Inventory

| component | state it keeps | operations | hard behaviour | what makes it correct |
|---|---|---|---|---|
| **qvsdbg parallel search** `qvsdbg/pysearch.go` (`ParaleelTask`), `parser.go`, `exec.go` | goroutine per node, `WaitGroup`, result channel; result files on the nodes | `Run`, `doTask`, the closer; handlers that run remote commands; the python script on the node | order of sends, `Done` and `close`; failing commands; files of an earlier search | no send on a closed channel; every answer joins the result exactly once; `Run` returns and leaves nothing behind |
| **qvsdbg themisd search** `pysearch.go:253-309` | `resultChan`, `exitChan`, `WaitGroup` | `searchThemisd`, `doRunCmd` | first answer wins, two unbuffered channels, `select` on a closed one | when it returns, what it leaves behind, when it spins |
| **qvsdbg pull-failure analysis** `stream_pull_fail.go`, `main.go`, and its tables | goroutines of one analysis, a report | `Run`'s options, `streamPullFail`, `ParseNetstat`, `ParsePoint` | a goroutine that ends the process, channels that are received last | the report is empty or whole, nothing waits for ever |
| **tools**, **qvs-dbg** | `~/logs`, filled by this or an earlier call | fetch, choose a log file, search it, go on to the rtp node | stale or rotated log files, logs of two calls put together | one report is of one fetch; what is said to follow the invite does |
| **tailf-log** | `LastLogFile`, one outer context, a child context per goroutine | `Run` every second, a tailing goroutine per file | hand-over while reads are under way; a context that stays cancelled; files deleted under it | no hand-over hangs, at most one late line, the newest file is followed |
| **mock-netprobe-srv stream reports** | `streamReportMap` (three map levels), redis keys | http handler `StreamReport`, publishing loop in `Run` | maps shared without a lock | no mixed record, no acknowledged report lost, redis becomes current |
| **mock-netprobe-srv nodes** | `nodes`, `nodeExtras`, redis hash | `FillBw`, `FillAreaBw`, `FillIspBw`, `ClearBw`, `SetNodeRuntimeState`, `SetLowThresholdTime`, `Run` | half-changed snapshots, defaults written and overwritten on each tick | bandwidth bounds, no default over a set time, redis becomes current |
| **miku-tools record files** `node/node_monitor.go` | one package-level `*os.File`, day files per directory | `writeToFile`, `writeToFile2`, `writeDataToFile`, `deleteOldFiles`, `FindLatestFile` | one handle for all directories, midnight, failed writes, restarts | records stay apart, retention |
| **miku-tools node monitor** | `AllNodeInfoMap` | `nodeMonitor` every 15 s, `rawNodesMonitor` every 30 s | old record written on change; map lost on restart; write failures | files plus map are a run-length encoding of the polls; the raw files have every poll; records and counts agree on what is bad |
| **miku-tools pcdn error monitor** | none of its own | `pcdnErrMonitor` | schedulers that do not answer, process exits | dumps apart, retained, cleaned |
| **miku-tools unavailability report** `stream/nodeinfo.go` | pairs per node | `GetNodeUnavailableDetail` and its helpers | pairing of records, missing days | what a report does and does not contain |
| **miku-tools hash ring** `staging.go` | `ring`, `originNodes`, weights | `AddNode`, `AddNodes`, `RemoveNode`, `GetNode` by hash or by bandwidth share, `HashRingMap` | spots that collide, state that every addition makes again or adds up | a stream has a node that is there; a change moves its neighbours only; shares are fair |
| **miku-tools staging reports** | `/tmp/nodejson`, `/tmp/allNodes.json`, counters of a pass | `LowBw`, `LowBw2`, `Load`, `DumpNodes`, `CalcTotalBw`, `GenNodes`, `DumpAllNodes`, `DnsRecords`, `DelDns` | a dump that is older than the nodes; tests in an order; a deletion that stops at an error | counters reconcile; only what was asked for is deleted |
| **miku-tools stream analysis** | snapshots from redis, a window of polls | `dumpStreams`, `BuildBucketStreamsInfo`, `dumpStream`, `HlsChk`, `LoopPlaycheck`, `Pcdns`, `LoopPcdn`, `K8s` | partial data, root nodes among the others, a channel that is closed by a third goroutine | tables agree, windows are exact, every node is printed |
| **miku-tools gb28181 and rtc tools** `qvs/` | a simulated device, channels on a media server, players | register, catalog, keepalive; `Talk`, `Invite`; leak test; listings; watching loops | a tcp stream cut anywhere, also inside a Call-ID, answers without a code, calls that fail after they acted, timeouts, lists that change between two pages | one answer per request; no failure taken for success; nobody left out |
| **statistics** | namespaces, streams fetched so far | paginated fetches, `out.json` | lists that change between two pages, failed requests | the file holds everything or nothing; the loops end |
| **m3u8-ayalysis**, **hlsdbg** | the last segment's times; last sequence number | line parser with gaps; poll of a live playlist | missing lines, a server that starts again at zero | gaps add up; every segment of a polled playlist is shown |
| **streamd-log** | `count`, result file, `WaitGroup` per window | parallel search of hdfs files, window by window | unlocked counter, shared result file, failing commands | the result is complete and in order when the user is notified; how far the counter can be off |
| **wecom-notify** | the stream asked last | poll and notify | a notification that fails | what was seen is told |
| **area-not-cover** | tables by isp, area, province | the coverage report of `main` | tests in an order, data without a province | rows reconcile with nodes and users |
| mock-netprobe-srv area queries, mock-lived, pathquery-tool, douyu-ratio, elk, qvs-callback-notify, http command lines, scripts | none that lasts | one-shot | I/O | - |
| gb-parse | - | does not compile at this commit | - | - |
| websocket/mongoose.c | third party | - | - | - |

How they interact: `NodeMonitor` writes the files that `NodeReport` reads, and
shares `DailyFile`'s handle with `pcdnErrMonitor`. `mock-netprobe-srv`
publishes to the redis keys that the production scheduler reads. The searches
of `qvsdbg` share `RunCmd`; each search owns its channels. `LowBw` and
`DumpAllNodes` leave the files that later commands of `miku-tools` may work on.
The other programs do not meet.

Facts about this commit that shaped the choice of models:

* `qvsdbg`'s `getNodes`, `runSipLsCmd` and `searchLogsAllService` run a command
  line without its `ssh`, which works only where the shell knows the jump box's
  name as a command. `PullFail` has both environments (`alias`).
* The packages `staging` and `stream` of `miku-tools` do not build: a `model`
  package is missing, and a mechanical renaming has left identifiers such as
  `nodeDiIpv6Cnt` and `rediNewClusterClient`, which are read as what they were
  renamed from. `miku-tools/parser.go` names methods that were moved away. The
  models are of the functions as they are written; the order of `sort.Sort` and
  the node type, which are the missing package's, are external.
* `rootnode.go:28` declares a local `AllRootNodesMapByNodeId`; the package's
  variable of that name stays empty. `StreamReports` has it so. The csv of `dumpCsv`
  has columns for root and for leaf nodes (`streams.go:198`, by the keys of `:140` and
  `getNodeType`, `:130`); with the empty map every serving node is a leaf, and the root
  columns are 0. `TablesAgree` does not ask for either: it sums the two.
* `pcdn.go:253-258` logs `skip node` for a node that already reports the stream, but its
  `continue` is that of the inner loop, so nobody is skipped; and `skipRoot` looks in the
  map that stays empty. `PcdnChecks` has it so, and `PcdnChecked` only says that the
  selected node is one with a public v4 address.
* `FindLatestFile` returns a path and `genFileName` a base name. The comparison
  of the two never succeeds, so the record file is opened for every write.
  That is wasteful, and it is what makes the shared handle safe: see
  `DumpsStayApart` and its mutant.

## 2. Modules

| module | models | composes |
|---|---|---|
| `Gather` | the promise of `ParaleelTask.Run`: every task is collected once, then `Run` returns | abstract |
| `ParallelTask` | the goroutines, the `WaitGroup`, the closer and the channel | implements `Gather` |
| `ParallelTaskProofs` | proofs of both for any number of parameters and nodes | extends `SipSearch` |
| `SipSearch` | the handler of `GetSipMsgs`: copy the script, run it | extends and implements `ParallelTask` |
| `ThemisdSearch`, `ThemisdSearchProofs` | `searchThemisd` and `doRunCmd`; proofs for any finite set of nodes | |
| `TailfLog`, `TailfLogProofs` | `Logger.Run` and the tailing goroutines; the log directory is external; proofs for any files and bounds | |
| `NetprobeReports`, `NetprobeReportsProofs` | `StreamReport` in concurrent handlers, the report half of `Run`; proofs for any nodes, streams and requests | |
| `NetprobeNodes`, `NetprobeNodesProofs` | the handlers that change nodes, the node half of `Run`; proofs for any nodes, ips and groups | |
| `DailyFile` | the shared file handle, writes, retention, midnight | extended by the next two |
| `PcdnErrMonitor`, `PcdnErrMonitorProofs` | `pcdnErrMonitor`; proofs for any number of schedulers and days | extends `DailyFile` |
| `NodeMonitor` | `nodeMonitor`, `rawNodesMonitor` | extends `DailyFile` |
| `HashRing`, `HashRingProofs` | the ring and the weighted choice; proofs for any length, nodes and hashes | |
| **`ConcurrentTools`**, `ConcurrentToolsProofs` | the tools that work while servers, nodes, goroutines or earlier calls change what they read, one of which runs; proofs for any logs, lists, nodes, streams and bounds | the next fourteen |
| `LogParser` | `tools`: fetches and searches of sip and rtp logs | |
| `QvsDbg` | `qvs-dbg`, while the nodes rotate their logs | also run alone (`MCQvsDbg`) |
| `PullFail` | `qvsdbg`'s `Run` and `streamPullFail` with its goroutines | |
| `GbDevice` | the simulated gb28181 device on a tcp stream | |
| `MediaChannel` | `Talk`, `TalkTest`, `Invite` against media and sip server | |
| `RtcLeakTest` | `rtcMemLeakTest`: players, deadlines, panics | |
| `Watchers` | wecom-notify, `SipRaw`, `Tcpdump`, `Perf` | |
| `Statistics` | `getAllNamespaces`, `getAllRtmpStreams`, `main`; the server's lists are external | |
| `StreamdLog` | `main`, `fetchLog10Min`, `wecomNotify` of streamd-log | |
| `K8sProbe` | `K8s`: the dialing goroutines, the closer, `main`'s loop | |
| `NodeCaches` | which snapshot a command works on: redis, `/tmp/nodejson`, `/tmp/allNodes.json` | |
| `SipDumpSearch` | `multiLineSearch.py`: a process per dump file, result files on the node | |
| `QvsdbgTables` | `ParseNetstat` and `ParsePoint`, line by line | |
| `QvsListings` | `getDevices` page by page, `Qps` by windows | |
| **`MCBatchTools`** | the tools that go over data, count and report, one of which runs | `NodeMonitor` and the next seven |
| `NodeReport` | `LoadNodePoint`, `BuildNodeUnavailableDetailMap`, `GetNodeUnavailableDetail` | reads what `NodeMonitor` writes |
| `NodeFunnels` | the counting reports over nodes and ips, among them `buildNodeInfo` and `fillIpStatus`; the sample of `GenNodes` | |
| `AreaCover` | `area-not-cover`'s table | |
| `StreamReports` | `dumpStreams`, `BuildBucketStreamsInfo`, `dumpStream`, `HlsChk` | |
| `HlsTools` | the playlist parser of m3u8-ayalysis, hlsdbg's polling loop | |
| `PcdnChecks` | `LoopPlaycheck`, `Pcdns`, `LoopPcdn`, `getPcdnFromSchedAPI` | |
| `DnsRecords` | `Res`, `DnsRecords`, `DelDns` | |
| other `MC...` | model values and definitions for TLC | |

*Composition.* The tools that do not meet at run time are checked together: each
module has the same four variables, `pc` (the control point), `args` (what the
call was given, never changed while it runs), `world` (what outlives the call:
files, servers, nodes) and `mem` (the process's own variables); a variable
`tool`, constant in each behaviour, says which of them runs. So one run explores
the disjoint union of their state spaces. There are two such compositions. In
`ConcurrentTools` something moves while the tool works: goroutines of its own, nodes
that rotate logs, servers whose lists change, requests that are acted upon late,
earlier calls; `QvsdbgTables`, which reads a log alone, is there because it is proved
about with them. `ConcurrentTools` has assumptions on its constants; `MCConcurrentTools`
has the values for TLC. In `MCBatchTools` the tool goes over data alone; `NodeMonitor`
there keeps its own variables, because it is built on `DailyFile`.

### How state and actions correspond to the code

*ParallelTask.* `main`, `spawned`, `task[i]` and `closer` are the control points
of `Run`, its `for` loop, each `doTask` and the closing goroutine. `wg` is the
counter; `open` says that `resultChan` is not closed. A send on an unbuffered
channel and its receive are one step (`Deliver`). A log is named by its task;
`finalResult` is the order in which texts were appended. What a handler returns
is either empty or a log.

*SipSearch.* Refines the one step `Handle` into the two remote commands. An
error of either becomes an empty answer, as in the code, and the copy may have
truncated the script on the node. A script that exits with 0 prints all matches of
its node or leaves some out (`LeavesOut`): the last message of a dump, which nothing
closes; what the dumps of two services with one name write over each other; what a
process that died had not written; small results; and above 5M it prints an error in
place of the matches. `SipDumpSearch` models how; here only that it happens. `failed`
and `shown` remember what happened for the properties.

*ThemisdSearch.* `doRunCmd` is a worker with two sends; the caller selects on
both channels. The branch that receives from `exitChan` is left out because no
worker is ever at that send while the loop runs; this is not assumed but
proved (`ExitBranchIsDead`).

*TailfLog.* `recency` is the directory as the walk sees it. `ctxDone` is the
outer context, which is created once per run and never again, `cancelled` the
child contexts. `Read` is one `ReadString`. A file deleted between the walk and
the open ends the process, one deleted during the walk ends `Run`.

*NetprobeReports.* Each request's handler has its own control point; the reads and
writes of the shared maps are separate steps, those of a bucket's map (`CheckBucket`,
`MakeBucket`) and those of a stream's (`CheckStream`, `MakeStream`). A map is named
after the request that made it, so one that was replaced is still there for a loop
that ranges over it. A store into a stream that a new bucket map does not have panics
(`StorePanics`; net/http recovers). The innermost map of a report is never changed
after it is stored, so an entry is the request that reported it. `shared` is a history
variable: the streams whose map, or whose bucket's, two handlers may both have made.
When two accesses of a map overlap the Go runtime may end the process (`Fatal`) or not
notice.

*NetprobeNodes.* A handler changes the ips of its group one by one (`jobs`),
`Run` sets times and marshals ip by ip. Bandwidths are whole MBps.

*DailyFile.* A path is `<<directory, day>>`. Writes that fail (the open, the
write) are logged and dropped, as in the code; a directory that cannot be made
ends the process. What was last written on day `d` counts as older than `k`
days surely from day `d + k + 1` and possibly from day `d + k`.

*PcdnErrMonitor, NodeMonitor.* One action per step of the loop body, `Restart` for the
operator. `pc` says which of the two commands of `NodeMonitor` runs; its time is
counted in polls; `polled`, `before` and `lost` are history variables for the property
only.

*NodeReport.* `args` is an arbitrary content of the files; the reader goes
through it line by line.

*HashRing.* `ring` maps occupied spots to nodes; every change of the nodes makes it
again, as in the code, while the weights are made by `AddNodes` and added to those of
earlier calls; a draw before any (`DrawWithoutWeight`) sets the total to 1, which the
next call adds to (`early`). Two nodes may share a spot, and either may be the one
that is found there: they come from a Go map and the sort is not stable.

*LogParser, QvsDbg.* A log is a sequence of lines of a kind, with a time and a
session; `world` is `~/logs`, as the call that fetched each of its logs. The `rm`
before a fetch may fail: `tools` does not look (`Fetch`), `qvs-dbg` ends
(`DeleteFails`). With `-logpath` the sip logs of `tools` go elsewhere
(`CopyElsewhere`). `qvs-dbg` deletes `~/logs`, copies to `-l` and reads a fixed
directory; `Dirs` are the three, which may be one. In `QvsDbg` `Rotate` may happen
between any two commands, so that the file that a node listed is not there any more
when it is copied. Every search is an action with its early return.

*PullFail.* `world` is the report that outlives a call, `mem` the two goroutines of
`streamPullFail` and the parts it has so far. A log that cannot be split into lines is
taken as it is, by `FirstAfter` too. `log.Fatalln` in any goroutine ends
all of them (`Exit`).

*SipDumpSearch.* One process per dump file; the result file is named after the
dump's base name only, so that two services may share one. The main process
prints after it has joined them.

*GbDevice.* A message of the platform is five pieces, cut where what the code looks
for ends; a `Read` takes any number of those that have arrived and may end inside one,
and the device acts on what it got in one `Read`, as in the code: it answers with the
first Call-ID in it or an empty one, or panics when the Call-ID's line is cut.
*MediaChannel.* A request may fail before or after the server acted on it; a video
request that was given up may be acted upon later (`ActLate`); and of an answer only
the code in its JSON counts, so that one without any is good, with ssrc 0
(`CreateBare`). *RtcLeakTest.* Time in steps of 10 s; a panic of any player ends the
process.

*QvsListings, Statistics.* One action per request; the server's list changes
between any two. `getDevices` prints the devices of one province and isp (`Shown`); a
line of the access log may panic `Qps`, and one that is longer than the scanner's
buffer ends its loop. In `Statistics` the `Total` that the namespace loop tests is that
of the first page, since the later pages are read into a variable of the loop's
body; `changes`, `disturbed` and `atStart` are history variables.

*StreamdLog.* A goroutine is its window and its file. `count++` is a read and a
write (`Load`, `Store`); `WriteString` holds the file's lock and is one step.
*K8sProbe.* The buffered channel, the counter and the closer are modelled step by
step; a node that is dialed answers or does not.

*NodeFunnels, AreaCover, StreamReports, PcdnChecks, DnsRecords, QvsdbgTables,
HlsTools.* A pass over a sequence: one action per element, with all the tests in
the code's order and all the counters. A node, an ip or a line is a record of
what the tests can tell apart; which tests it passes is its field `ok`. A line or report
that panics ends the pass (`PanicLine`, `HlsUnknownNode`). `SegmentsShown` counts a
segment of hlsdbg as often as it was in a playlist that was taken, as the code does.

## 3. Runs

| run | bounds | fairness | shows |
|---|---|---|---|
| `parallel_task` | 4 parameters | WF of every step but `Handle` | no send on the closed channel, the result is complete, no goroutine is left, `Run` returns once all handlers answered, and `Gather` is implemented |
| `sip_search` | 3 nodes, every combination of matches, scripts, failures and of what a script leaves out | none | a match is missing only because of an error or of what its script left out; no old script answers; refinement of `ParallelTask` |
| `themisd_search` | the 4 nodes of the code | WF of every goroutine, commands end | one answer suffices to return; without any it never returns; a found line leaves the winner, the closer and the channel behind |
| `themisd_exit_signal` | as above | as above | *violation*: the winner's exit signal is never received |
| `tailf_log` | 2 files, 2 lines each, 4 goroutines | WF of `Run` and of each goroutine | hand-overs |
| `netprobe_reports` | 2 nodes, 2 streams of a bucket, 2 requests, 1 failed write | WF of the loop and the handlers | no mixed record, acknowledged reports, current redis |
| `netprobe_nodes` | 2 nodes, 3 ips, 2 requests | WF of loop and handlers, SF of each node's write | bandwidth bound, no fallback, current redis |
| `pcdn_err_monitor` | 2 schedulers, 3 days, retention 1 | WF of the process and of its restart, SF of each scheduler's success | dumps apart, kept, cleaned |
| `hash_ring` | 3 nodes, 3 streams, 10 spots of which one is shared, lists of up to 3 pairs with and without ips | none | who answers, and who may move |
| `concurrent_tools` | below | WF of statistics' `Step`, of streamd-log's `main` and goroutines, of k8s' steps | logs, reports and answers are not mixed, left out or invented, what is written is whole, what is searched, listed or counted leaves nothing out, the waiting tools end |
| `batch_tools` | below | none | records tell what happened, counters and tables reconcile |
| `qvs_dbg_refetch` | 2 rotations, 2 fetches | none | *violation*: with `-f` and a directory of one's own, what is read is not what was fetched |

`concurrent_tools` and `batch_tools` check, under one name each, the properties of their
modules that answer the same question:

| property | stands for |
|---|---|
| `NeverMixed` | `LogParser!NeverMixed`, `QvsDbg!OneFetch`: a report's logs are of one fetch, unless the unchecked `rm` of `tools` failed, and if `-l` and `~/logs` are what `qvs-dbg` reads; `PullFail!ReportWhole`: the report is empty or whole; `NodeCaches!ReportsLastFetch`: `LowBw` works on what was fetched last |
| `ReportedAfter` | `LogParser!ReportedAfter`, `PullFail!DeletedAfter`: what is reported to follow the invite, or the creation of the channel, does; but for a deletion log that cannot be split into lines |
| `AnsweredOnce` | `PullFail!NeverLeftWaiting`; `GbDevice!AnsweredOnce`: no Call-ID is answered twice, a request that is read alone is answered, and while reads end with messages nothing is answered without a Call-ID; `Watchers!SeenIsTold` |
| `NothingLeftOut` | `SipDumpSearch!MessagesFound`: what is printed is what this search found; `QvsdbgTables!TableComplete`, `QvsListings!DevicesListed` and `RequestsCounted` |
| `NoFailureHidden` | `MediaChannel!InvitedToChannel`: no invite after a failure the tool was told; the two that stay hidden are an answer without a code and a delete acted upon late; `RtcLeakTest!ReturnHidesNoFailure` |
| `AllOrNothing` | `Statistics!AllOrNothing`: `out.json` |
| `Gathered` | `StreamdLog!Gathered` and `CountWithin`, `K8sProbe!AllServingPrinted` |
| `RecordsTold` | `NodeMonitor!RunLengthEncoded` and `EveryPollWritten`, `NodeReport!PairsReported` |
| `CountsReconcile` | `NodeFunnels!ReportsCompare`, `AreaCover!RowsReconcile` and `CountedPerIsp`, `DnsRecords!EachLineOnce`, `PcdnChecks!PcdnChecked` |
| `TablesAgree` | `StreamReports!TablesAgree` |
| `OverTime` | `StreamReports!WindowExact`, `HlsTools!GapsAddUp` and `SegmentsShown` |
| `NothingElse` | `NodeFunnels!SampleSound`, `DnsRecords!DeletesPrefix` |
| `ToolsEnd` | the three tools of `concurrent_tools` that wait: streamd-log and k8s end; statistics ends while the namespaces stay and nothing is deleted |

The mutants break several of the named parts; the last one listed for a property
is the one that stands for it.

*Bounds of the two compositions.* They are definitions of `MCConcurrentTools` and
`MCBatchTools`. Logs and lists are all sequences up to length 3 (4 for one day file of
`NodeReport`) over one representative of each kind of line, or, where the search looks
for longer patterns, a handful of sequences that hold each pattern complete, cut short
and repeated. Nodes and ips are given by which tests they pass: each test fails alone,
and the combinations on which two reports differ are there. Statistics has 3
namespaces in pages of 1, up to 5 streams in pages of 2 and 2 changes of the server's
lists; streamd-log 2 windows of 2 files (the second window is the one that depends on
the first); k8s 3 nodes; the node monitor 2 nodes, 2 statuses, 3 polls over 2 days
with restarts at any point; qvs-dbg 2 rotations and 2 fetches; the gb device the
challenge and up to 3 messages and every way to cut them; the leak test 2 players; and
calls that find what an earlier call left behind are made twice or three times.

*Why the bounds are enough.* In `ParallelTask` and `ThemisdSearch` the interesting
orders involve two goroutines and the closer, and the theorems remove the bound for
the safety properties. In `TailfLog` the first hand-over is the special one (it waits)
and the second the general one; four goroutines give three hand-overs. The safety
properties of `TailfLog`, `NetprobeReports` and `NetprobeNodes` are theorems for all
values, and so are those of the fourteen tools of `ConcurrentTools`: their bounds
matter to the liveness properties only. Two requests suffice for every race on
`streamReportMap`, because each race is between two accesses, and two streams of one
bucket for the shared redis key and for a bucket's map that is made twice (a second
bucket, with two and a half million states, shows nothing else). The third ip of
`NetprobeNodes` is the one in another node. Retention 1 in `PcdnErrMonitor` gives
dumps that are too young, on the boundary, and too old within three days; its safety
theorems hold for all values. Three polls give a status that begins, ends and begins
again, across a midnight; its retention is the 8 days of the code, so no file is
deleted within the two days of that run. The ring's theorems hold for every length,
every set of nodes and every hash; its run has a collision, a key on a spot, a key
between two and one behind the last. A pass over a sequence treats each element by
itself or together with the one before it, so two or three elements show what it does.

*Deadlock* is checked where the system goes on for ever (`parallel_task` has an
explicit stutter at its end). It is switched off where it really may stop:
requests, writers and polls are bounded, goroutines of `ThemisdSearch` block for
ever (that is a result, see the findings), `tailf-log` may die, and the tools of
the two compositions end.

*Fairness.* Go schedules every runnable goroutine, hence weak fairness of the
steps of a goroutine. Nothing bounds a remote command in `ParallelTask`
(`Handle` has no fairness; the liveness property starts where all have
answered). In `ThemisdSearch`, `StreamdLog` and `K8sProbe` the commands are greps
and dials with a deadline, which end. Tickers tick
again, so the loops of `tailf-log`, `mock-netprobe-srv` and the monitors are
weakly fair. That a node's redis write, or a scheduler's answer, succeeds again
and again although it may fail any number of times is strong fairness of that
step for that node; without it nothing could be promised about redis or the
directories. In `NetprobeReports` failures are bounded instead (`MaxFailures`).
The other tools of the compositions promise nothing that needs fairness.

### Findings

* `themisd_exit_signal`: comments call `exitChan` the exit channel and its send
  the exit signal. The winner sends on it after the caller has returned with the
  winner's own result, so nobody receives: that goroutine, its `Done`, the
  closer and the channel stay until the process ends.
* `qvs_dbg_refetch`: the flags' texts promise that `-f` deletes the logs in the
  directory of `-l`, fetches them again and works on those. The code deletes and
  `~/logs`, reads `/home/liyuanquan/logs` and copies to the `-l` directory: with any other
  directory the old copies stay and the new ones are not read. With the default
  directory, for the user whose home it is, the promise holds.
* No run of its own: the comment beside the cutoff of `deleteOldFiles`
  (`node_monitor.go:130`) says three days, the code subtracts eight; `skip node` and the
  root columns of the csv are described with the facts above.

### Hazards without a property

* `pysearch.go:302`: the first value wins even if it is the empty answer of a node
  without a match. The model does so too; no text says it should not.
* `streamd-log/main.go:95`: the exit status is `grep`'s, so what `hdfs` printed
  before it failed counts as the whole file. The model does not tell the parts of
  one file's text apart.
* `rootnode.go:28`: the local map that shadows the package's. The model has it; the
  tables agree with each other either way.
* Of the hazard at `node_monitor.go:263` the loss itself, the status that runs when the
  process ends, is what the code does; `RecordsTold` says that what follows is right.

## 4. Proofs

| theorem | statement |
|---|---|
| `ParallelTaskProofs!Invariance` | `IInv`, for any number of parameters |
| `TypeCorrect`, `ChannelSafe`, `Completeness`, `NoLeak` | its consequences, among them the three safety properties of the run |
| `GatherImplemented` | `ParallelTask` implements `Gather` |
| `SipImplements` | `SipSearch` implements `ParallelTask`, for any number of nodes |
| `ScriptFresh`, `MissingExplainedHolds` | its two safety properties |
| `ThemisdSearchProofs!SearchInvariance` | `SearchInv`, for any finite set of nodes |
| `ExitBranchIsDead`, `SpinNeedsNoAnswer`, `LogReturnedLeaks`, `WithoutAnswerForEver` | its consequences |
| `PcdnErrMonitorProofs!NeverMixed`, `RecentNeverDeleted` | dumps stay apart and are retained, for any number of schedulers and days and any retention |
| `HashRingProofs!RingInvariance` | the ring is made of the nodes that are there, for any length, spots and hashes |
| `AnswersMember` | a stream has a node as long as there is one, and it is one that is there |
| `TailfLogProofs!SpecIInv` | the inductive invariant of `Run` and the tailing goroutines, for any files, lines and hand-overs |
| `LateLinesHolds`, `OnlyNewestHolds` | one late line at most, and only the newest goroutine goes on |
| `RunIsWoken` | while `Run` waits, `ctx` is done or the goroutine that will cancel it still runs |
| `FirstStaysSilent` | from the second goroutine's start on the first prints nothing |
| `NetprobeReportsProofs!SpecKeptInv` | the inductive invariant of handlers, maps and publishing loop, for any nodes, streams, requests and failures |
| `NoMixedReportHolds`, `AcknowledgedKeptHolds` | the two safety properties of the run |
| `NothingIsForgotten` | no step drops an entry of a stream unless two requests overlapped while its map, or its bucket's, was still to be made |
| `NetprobeNodesProofs!SpecNInv`, `TypeCorrect` | the inductive invariant and the types, for any nodes, ips and groups |
| `OverfullHolds`, `NoFallbackHolds` | the bandwidth bound; redis never falls back to a default time |
| `ConcurrentToolsProofs!SpecToolsInv` | `ToolsInv`: the inductive invariants of the fourteen tools, for any values that the assumptions allow |
| `NeverMixedHolds` | tools (unless its `rm` failed), qvs-dbg (in its default directory), the pull-failure analysis and `LowBw` never put two fetches or calls together |
| `ReportedAfterHolds` | what tools and the pull-failure analysis report to come later does, for logs of any length that can be split into lines |
| `AnsweredOnceHolds` | the gb28181 device answers no Call-ID twice, however its stream is cut, and a request that it reads alone; nobody waits for ever; what a watcher saw is told |
| `NoFailureHiddenHolds` | talk invites to the channel that exists, but for the two failures that stay hidden; a leak test that returns hides no failed handshake |
| `GatheredHolds` | streamd-log writes every result once and in order, k8s prints every serving node once, for any windows, files and nodes |
| `AllOrNothingHolds` | `out.json` of statistics has nothing after a failed request, and else every active rtmp stream, for any lists, page sizes and insertions |
| `NothingLeftOutHolds` | the python search prints the messages with the keywords and no other text; every line is in its table; a device is missed only because of a change (two at most for each); no request is lost between two windows - for any dumps, keywords, logs, pages and changes |
| `HashRingProofs!MovesToNeighbours` | an operation moves a stream only from a node that went, to a node that came, or between two nodes that share its spot |

*ParallelTask.* Assumption: `N \in Nat`. "Completeness at the end" is not
inductive: it needs to know what `finalResult` holds in the middle
(`Concatenated`), that the closer passes `wg.Wait` only when nobody is live
(`Counted`: the counter is the number of goroutines before their `Done`) and how
the control points of `Run` and of the closer relate (`Control`). `IInv` is their
conjunction with `TypeOK`; `TypeOK` alone is not inductive either, because only
`Counted` keeps the counter from going below zero. The refinement maps a
`Deliver` to `Collect`, `Return` to `Return` and every other step to a stutter; it
uses `Counted` and `Control` to show that at `Return` everything is collected.

*SipSearch.* The refinement comes first: a returning handler is `Handle`, a
successful copy a stutter. So `IInv` holds of it too, and `SipInv` adds what the
handlers are up to: nothing has failed while one is running, the next command is
the script only once it is copied (`Handling`), and a returned answer is what the
script printed, if it ran (`Answered`). With `Completeness` and `NoLeak` of
`ParallelTask` that gives `MissingExplained`.

*ThemisdSearch.* Assumption: the set of nodes is finite. `SearchInv` has the same
`Counted` and a `Control`, and says where a worker that found a line can be
(`FoundStaysAtSends`): at one of its two sends, and at the second exactly when it
is the winner. From this follow the dead `exitChan` branch, the never-closed
channel, the spin, and that `searchThemisd` never returns once every command has
ended without a line: that state is kept by every step, since a return needs a
result and only a command that found one sends it.

*PcdnErrMonitor.* Assumptions: the days and the retention are natural numbers,
the directories are `1..N`. `PInv == TypeOK /\ DumpsStayApart` is inductive because
of one lemma, `AlwaysOpened`: a base name is never the path that `FindLatestFile`
returns (which needs that a non-empty set of files has one that was written
last: `LatestExists`, by well-foundedness of the days).

*HashRing.* Assumptions: a positive length, at least one spot per node, all spots and
hashes below the length, and "nil" is no node. The invariant is `RingOK` (the ring
was generated from exactly the nodes that are there); no operation needs more,
because each makes the ring again. `MovesToNeighbours` compares two rings: by
`SameSpot`, if the node before and the node after are both in both rings, the search
ends on the same spot in both, and then that spot is of two nodes.

`FairShareHolds` is about the other half of the module, the weighted choice.
`WeightInv` says what the lists mean at each point of two calls of `AddNodes`: the
prefix sums of the list of a call (`TotalRec`) never fall (`TotalGrows`), so the draws
that answer with an element are the numbers of one interval of the length of its
weight (`DrawnInterval`); after an early draw they begin where they would have, and
the last number of the total, one too many, draws nothing. Assumptions: an ip has
integer capacities. Hypothesis of the theorem, `SortKeepsPairs`: sorting pairs gives
pairs. `Sort` is a constant operator, because the order belongs to a package that is
not in the repository; that it keeps pairs is a hypothesis and not an assumption of
the module because TLC cannot go over all sequences.

*TailfLog.* Assumptions: the bounds are natural numbers, at least one goroutine can be
started, "none" is no file. The directory does not matter: who may print is a question
of control points and of three sets, the goroutines that were started, those that were
cancelled (`CancelledOK`: all but the newest, and that one too while `Run` waits) and
those that returned. `ContextOK` is the part that is not seen at once: `ctx` is cancelled
by the first goroutine that returns, that is always goroutine 1, and the second starts
only after it. So every hand-over but the first finds `ctx` done and does not wait, which
is why a late line can be printed at all (`LateOK` allows one) and why only the first
goroutine is silent for good. Part of `TypeOK`, that the list of files stays a sequence
when one is removed, is a fact about `SelectSeq` and stays with TLC.

*NetprobeReports.* Assumption: "none" is no request. The invariant
follows a report through three hands: a handler (`HandlerOK`: what it has done when it
gets to each access), the maps (`MapsOK`: a map is one stream's, and its entries were
reported for that stream) and the loop's own variables, which may be of a map that has
been replaced meanwhile (`LoopOK`) - it is a map of the same stream all the same, which is
why no mixed record can come of it. `MixInv` is inductive by itself. `AcknowledgedKept`
needs two more parts: that a handler that found a map missing, of a stream that is not
shared, is alone with it, or with all of its bucket, until it has made it (`AloneOK`;
without it the make could drop what another has stored), and that what it has stored is
still found through the maps of its bucket and stream (`StoredOK`).

*NetprobeNodes.* Assumptions: the maxima are natural multiples of 10, every ip has a node,
the groups are sets of ips, the default time is no time that is set. `FullAtMost` keeps
the outgoing maximum of an ip that has an incoming one, because every change of `maxOut`
tests `MaxIn`. `NoFallback` is about redis and needs memory: `TimesOK` says that a time
shown in redis is in memory and one in memory was set in `nodeExtras`, from where nothing
is ever removed, and `PassOK` that what the loop has marshalled of an ip is still true.

*ConcurrentTools.* One tool runs in each behaviour, so `ToolsInv` is a conjunction of
implications, and each tool is proved by itself. Assumptions: a timeout is not
negative; the lines of a log form a sequence and have integer times; the dates of the
deletion log are of one of two formats or none; a platform sends messages of four
kinds; there is at least one window and there are finitely many files and nodes. What
the invariants add to the properties:

* *tools.* A copy is of the last fetch or missing if the `rm` of that fetch did not fail
  (`emptied`), because `DeleteOldLogs` precedes every copy; so whatever is read together is
  of one fetch. The report is a function of the logs
  (`SipReport`, `RtpReport`), and the lemmas about `InviteLine`, `SearchLog` and
  `CreateLine` say which lines these find: `CreateLine` the last creation near the invite,
  even if it looks at `Ten` of them only, because a later one that is near would be looked
  at, too. They need that a bounded set of line numbers has a greatest and a least member
  (`LeastExists`, by well-foundedness).
* *qvs-dbg* where the three directories are one, *caches*: which state each file and
  each read is of, at each control point.
* *pull failure.* The report so far is a prefix of the whole one and all of this call
  (`PullParts`), at each control point by its length.
* *gb28181.* `DeviceAnswers`: the Call-ID of an answered message is in the part of the
  stream that was read, and a `Read`, wherever it ends, answers one that was not
  (`CallId` is of what lies between the last end and this one). `DeviceWhole`: reads that
  end where a message does start where one does, so that what one has of a request it has
  whole.
* *talk.* Before the invite the tool's ssrc is that of the server's channel, unless
  the answer had none (`bare`) or a delete that was given up was acted upon since
  (`taken`). *rtc.* Time does not pass a timer that is due. *watch.* A record is made
  only by `Perf`, and `Perf` ends with its first telling.
* *k8s.* `K8sCounted`: the counter is the number of goroutines before their `Done`, so the
  channel is closed after the last send; `K8sOnce`: a node was sent if and only if it is in
  the channel or received, and once.
* *statistics.* Assumptions: the page sizes are natural numbers, and the server's lists are
  sequences without anything twice at the start. A page is a window of the list as it is
  when it is asked for, so the invariant relates what was fetched to the list as it is now:
  the namespaces before the offset are those that were fetched (`StatNamespaces`); of the
  namespace that is being done, the streams before the offset that should be written are
  among those fetched (`StatFetched`): an insertion pushes later ones back, and what slips
  before the offset was inserted, so it is none that was there at the start (`StatInsert`).
  `StatOnce` says, while nothing changes, that it is exactly those, once. The last page is
  recognised by the total or by not being full (`StatStreamPage`). After a deletion nothing
  but the types is claimed, since nothing else is true.
* *streamd-log.* `StreamdCounted` is the same counting per window. `StreamdWritten` keeps
  the file in the order of the windows, because a goroutine of this window writes after
  all those before have ended (`StreamdControl`). `StreamdCount` bounds the unsynchronised
  `count++`: what a goroutine has loaded, and so what it stores, is never more than the
  number of those that have stored, and never less than the number of the windows that are
  through with a file - which is all that can be promised, and is promised.
* *multiLineSearch.* Assumptions: the keywords are finitely many numbers, a line of a dump
  has keywords or is a separator. Two dumps may share a result file, so it holds lines of
  dumps of its name only (`DumpAll`: every line in a result file is one of a message of its
  dump that has the keywords), also where one writes over the beginning of what another
  wrote (`DumpOver`); if no two share one, the file of a process that is done is its whole
  result (`DumpApart`). `DumpMatches` shows, for the messages that the property is about,
  that counting a line for the first keyword in it loses nothing.
* *qvsdbg's tables.* Assumption: the lines of a log are of one kind. The counters of a
  table add up to the lines read so far (`TablesCounted`), for any log.
* *the listings.* Assumptions: times, page and window are positive. `ListingsDevices`:
  a device of those asked for that is neither printed nor on a page to come
  (`ListingsMissed`) got there by a change, and a change adds at most two of them -
  the one that goes and the one that slips over the offset (`ListingsChange`,
  `TwoMore`); the last page is the last because `left` and the offset together reach
  the end of the list. While nothing changes, what is printed is known element by
  element (`ListingsTwice`). `ListingsWindows` says of the windows that are closed,
  and of the open one, which requests they have: request number r is in the window
  where the sum of the counts passes r, so none is lost of those before the end or a
  line that is too long, and in a log in the order of time those of a window are
  within a second.

The inductive invariants are proved and not listed in a cfg, but each was checked
with TLC on the instance of its run first; neither are the type invariants of the modules
without a theorem.

Only model-checked: all liveness properties (fairness and `ENABLED` are out of the
prover's reach) and everything in `MCBatchTools`. What a pass over a sequence computes
is stated there with the library's folds, filters and sorts over the sequence, which
the provers cannot expand. (`RecordsTold` is no theorem for all values besides: its
run-length encoding needs the retention to be longer than the days that are modelled.)
Where a proof needed induction over a sequence, the operator is a recursive function
(`Kept` of `Statistics`, `Total` of `HashRing`, `Result` of `SipDumpSearch`, `Sum` of
`QvsdbgTables`), and the induction is one over a set of numbers (`SetInduction`, from
the well-foundedness of `<`), because the induction theorems of the library take an
operator as parameter: first that a function with the equation exists
(`RecursionExists`, once for all of them with values in a set), then that what holds
of 0 and is kept by the step holds of all. No module of this project has a `RECURSIVE`
operator.

## 5. Not modelled, and why

* `mock-netprobe-srv`: `GeneOfflineData`, `NodeChk` and the area queries: read-only
  listings.
* `staging`, `stream`, `node`: quota listings, one-line queries, path queries, printing
  of tables.
* `qvs`: `Gb` (writes until it fails), `uac` and the rtp senders: fixed sequences of
  packets.
* `statistics`: the counts of devices, uids, channels and storage that `main` does not
  call. `area-not-cover`: the csv helpers that nothing calls.
* hlsdbg's demuxing of a ts file: a library's.
* `util/*.go` but `FindLatestFile`: strings, bits, http requests. The command table,
  the configuration and the mocks of `miku-tools`; mock-lived, pathquery-tool,
  douyu-ratio, elk, qvs-callback-notify, the http command lines and the scripts: one
  request, canned answers or a fixed sequence of commands.
* `gb-parse` (does not compile) and `mongoose.c` (third party).
* Data: texts, names, numbers that no property tells apart, and wall-clock
  times below a day (or a poll), except where a time-out is modelled.

## 6. Plan

Done in the order of importance: parallel search, themisd search, tailf-log,
netprobe reports and nodes, daily files and the monitors, the report, the
paginated statistics, the parallel log download, the log tools (tools, qvs-dbg,
the pull-failure analysis, the python search), the hash ring, the gb28181 and rtc
tools, the reports and caches of staging and stream, the hls tools, k8s, wecom-notify
and area-not-cover.

What is left of the system:

1. A composition of `NodeMonitor` with `NodeReport`: what a report says of the
   polls that were made.

And of the proofs: the tools of `MCBatchTools` whose properties are about single steps
rather than about whole passes: the records of the node monitor, and `DeletesPrefix` of
the dns deletions.
