------------------------------ MODULE HlsTools ------------------------------
(***************************************************************************)
(* Two tools that look for gaps in an hls stream.  m3u8-ayalysis goes over *)
(* the lines of a recording's playlist and compares the times in the names *)
(* of its ts files with the EXTINF durations; hlsdbg polls a live playlist *)
(* and fetches the segments of every one with a new sequence number.       *)
(***************************************************************************)
EXTENDS Integers, Sequences, SequencesExt

CONSTANTS
    Playlists,   \* the recordings: lines [kind: "extinf", "ts", "ts without
                 \* times", "panics" or "other", ok, d: duration, s and e: the
                 \* times in the name]; "panics": an EXTINF without a comma, a
                 \* name with its - or .ts in the wrong place, or a ts whose
                 \* frames are none or have no pts
    Live,        \* the states of the live playlist, a function from 1..n:
                 \* [seq, n: segments]; it goes from one to the next
    NoFrames     \* the segments, by sequence number, without any frame

VARIABLES
    pc,      \* "line", "done", "panic"; "poll", "segments", "gone"
    args,    \* the recording
    world,   \* the state of the live playlist, an index of Live
    mem      \* the parser; or hlsdbg: last sequence number, segments to fetch,
             \* index of the next file, playback started or not; (history)
             \* seen: the sequence numbers that were new, shown: the segments

vars == <<pc, args, world, mem>>

Parser == [n |-> 1, start |-> 0, end |-> 0, duration |-> 0, lastEnd |-> 0, first |-> 0,
           total |-> 0, real |-> 0, gap |-> 0, maxGap |-> 0, minGap |-> 0,
           complaints |-> 0, unpaired |-> FALSE]

Dbg == [lastSeq |-> 0, todo |-> <<>>, index |-> 0, started |-> FALSE,
        seen |-> <<>>, shown |-> <<>>]

Init ==
    \/ pc = "line" /\ args \in Playlists /\ world = 0 /\ mem = Parser
    \/ pc = "poll" /\ args = <<>> /\ world = 1 /\ mem = Dbg

-----------------------------------------------------------------------------
(* m3u8-ayalysis.                                                          *)

MaxOf(a, b) == IF a < b THEN b ELSE a

(* check: a ts is compared when its start, its end and a duration are      *)
(* there, which for all three means not 0; the least gap is one that was   *)
(* 0 only until the next gap comes.                                        *)
Check(p) ==
    LET gap == p.start - p.lastEnd
        c == [p EXCEPT
                !.complaints = @ + (IF p.end - p.start # p.duration THEN 1 ELSE 0)]
        g == IF p.lastEnd = 0 THEN c
             ELSE [c EXCEPT !.gap = @ + gap, !.maxGap = MaxOf(@, gap),
                            !.minGap = IF @ = 0 \/ @ > gap THEN gap ELSE @]
    IN  IF 0 \in {p.start, p.end, p.duration} THEN p
        ELSE [g EXCEPT !.lastEnd = p.end, !.start = 0, !.end = 0, !.duration = 0]

(* parseLine, for a line that can be parsed; (history) unpaired: a         *)
(* duration or a ts was overwritten before it was compared.                *)
Parsed(p, line) ==
    CASE line.kind = "extinf" ->
           [p EXCEPT !.duration = line.d, !.total = @ + line.d,
                     !.unpaired = @ \/ p.duration # 0 \/ line.d = 0]
      [] line.kind = "ts" ->
           LET first == IF p.first = 0 THEN line.s ELSE p.first
           IN  [p EXCEPT !.start = line.s, !.end = line.e, !.first = first,
                         !.real = line.e - first,
                         !.unpaired = @ \/ p.end # 0 \/ 0 \in {line.s, line.e}]
      [] line.kind = "other" -> p

(* Mutant of ParseLine: what was compared is not the last end.             *)
ParseLineKeepsEnd ==
    LET line == args[mem.n]
        p == Check(Parsed(mem, line))
    IN  mem' = [p EXCEPT !.n = @ + 1, !.lastEnd = IF mem.lastEnd # 0 THEN mem.lastEnd ELSE @]

ParseLine ==
    LET p == Check(Parsed(mem, args[mem.n]))
    IN  mem' = [p EXCEPT !.n = @ + 1]

CanParse == mem.n <= Len(args) /\ args[mem.n].ok

Line ==
    /\ pc = "line" /\ CanParse
    /\ ParseLine /\ UNCHANGED <<pc, args, world>>

(* The first line that cannot be parsed, or ts that cannot be fetched and  *)
(* probed, ends the analysis; what was found so far is printed, the end of *)
(* that ts included.                                                       *)
Failed(p, line) ==
    CASE line.kind = "ts" -> Parsed(p, line)
      [] line.kind = "extinf" -> [p EXCEPT !.duration = 0,
                                           !.unpaired = @ \/ p.duration # 0]
      [] line.kind = "ts without times" -> [p EXCEPT !.start = 0, !.end = 0,
                                                     !.unpaired = @ \/ p.end # 0]

BadLine ==
    /\ pc = "line" /\ mem.n <= Len(args) /\ ~CanParse /\ args[mem.n].kind # "panics"
    /\ pc' = "done" /\ mem' = Failed(mem, args[mem.n])
    /\ UNCHANGED <<args, world>>

(* An index out of range: nothing is printed.                              *)
PanicLine ==
    /\ pc = "line" /\ mem.n <= Len(args) /\ args[mem.n].kind = "panics"
    /\ pc' = "panic" /\ UNCHANGED <<args, world, mem>>

Dump ==
    /\ pc = "line" /\ mem.n > Len(args)
    /\ pc' = "done" /\ UNCHANGED <<args, world, mem>>

-----------------------------------------------------------------------------
(* hlsdbg.                                                                 *)

LiveMoves ==
    /\ args = <<>> /\ world \in DOMAIN Live /\ world + 1 \in DOMAIN Live
    /\ world' = world + 1 /\ UNCHANGED <<pc, args, mem>>

Fails == pc \in {"poll", "segments"} /\ pc' = "gone" /\ UNCHANGED <<args, world, mem>>

(* A playlist of the last sequence number is fetched again at once; 0 is   *)
(* the last one at the start.                                              *)
Poll ==
    /\ pc = "poll" /\ mem.lastSeq # Live[world].seq
    /\ LET l == Live[world]
       IN  mem' = [mem EXCEPT !.lastSeq = l.seq, !.seen = Append(@, l),
                              !.todo = [i \in 1..l.n |-> l.seq + i - 1]]
    /\ pc' = "segments" /\ UNCHANGED <<args, world>>

(* Mutant of FetchSegment: a segment without frames ends the playlist.     *)
FetchSegmentStops ==
    LET s == Head(mem.todo)
    IN  mem' = IF s \in NoFrames THEN [mem EXCEPT !.todo = <<>>]
               ELSE [mem EXCEPT !.todo = Tail(@), !.index = @ + 1, !.started = TRUE,
                                !.shown = Append(@, s)]

(* TsMgr.Fetch and Check: a segment without frames is passed over, and its *)
(* file's name is used again; index is also the number of segments in the  *)
(* totals.                                                                 *)
FetchSegment ==
    LET s == Head(mem.todo)
    IN  mem' = IF s \in NoFrames THEN [mem EXCEPT !.todo = Tail(@)]
               ELSE [mem EXCEPT !.todo = Tail(@), !.index = @ + 1, !.started = TRUE,
                                !.shown = Append(@, s)]

Segment ==
    /\ pc = "segments" /\ mem.todo # <<>>
    /\ FetchSegment /\ UNCHANGED <<pc, args, world>>
PollAgain ==
    /\ pc = "segments" /\ mem.todo = <<>>
    /\ pc' = "poll" /\ UNCHANGED <<args, world, mem>>

Next == Line \/ BadLine \/ PanicLine \/ Dump \/ LiveMoves \/ Fails \/ Poll \/ Segment \/ PollAgain

Spec == Init /\ [][Next]_vars

-----------------------------------------------------------------------------
(* The gap that m3u8-ayalysis reports from the ends, the real less the     *)
(* EXTINF duration, is the total of the gaps between the files, unless it  *)
(* has complained of a file or one was not compared.                       *)
GapsAddUp ==
    /\ pc = "done" /\ mem.complaints = 0 /\ ~mem.unpaired
    /\ mem.duration = 0 /\ mem.end = 0
    => mem.real - mem.total = mem.gap

(* hlsdbg has shown, when it polls again, every segment with frames of the *)
(* playlists it took, in order, each in a file; of those there is one of   *)
(* every sequence number seen, none that is 0 at the start.  A segment that*)
(* stays in the list is fetched and added to the totals again: as often as *)
(* it was in a playlist that was taken.                                    *)
SegmentsShown ==
    args = <<>> /\ pc = "poll" =>
        LET segments(l) == [i \in 1..l.n |-> l.seq + i - 1]
            hasFrames(s) == s \notin NoFrames
            all == FlattenSeq([k \in DOMAIN mem.seen |-> segments(mem.seen[k])])
        IN  /\ mem.shown = SelectSeq(all, hasFrames)
            /\ mem.index = Len(mem.shown)
            /\ \A s \in ToSet(mem.shown) :
                   Cardinality({i \in DOMAIN mem.shown : mem.shown[i] = s}) =
                   Cardinality({k \in DOMAIN mem.seen : s \in ToSet(segments(mem.seen[k]))})
            /\ \A k \in DOMAIN mem.seen :
                   mem.seen[k].seq # (IF k = 1 THEN 0 ELSE mem.seen[k - 1].seq)
=============================================================================
