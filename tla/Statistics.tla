----------------------------- MODULE Statistics -----------------------------
(***************************************************************************)
(* statistics: all namespaces are fetched page by page, then the streams   *)
(* of each rtmp namespace page by page, and the active ones are written to *)
(* out.json.  The lists live on the server, where namespaces and streams   *)
(* come and go between two requests; a page is a window of the list as it  *)
(* is at the time of the request.                                          *)
(***************************************************************************)
EXTENDS Naturals, Sequences, Functions

CONSTANTS
    Namespaces, Rtmp,     \* all of them, and those with AccessType "rtmp"
    Streams, Active,      \* those of a namespace, and those pushed lately
    NsLine, Line,         \* page sizes of getNsList (500), getStreams (1000)
    NsAtStart, StreamsAtStart,  \* what the server may have at the start
    MaxChanges            \* bound: changes on the server

VARIABLES
    pc,      \* control point
    args,    \* (history) what out.json should have if nothing changes
    world,   \* the server: namespaces, and streams of each, in its order;
             \* out.json; (history) changes: how many, disturbed: one moved
             \* namespaces or deleted
    mem      \* offset: i; total: what the loop tests, 0 before the first page;
             \* namespaces: all fetched; todo: the rtmp ones not yet done; got:
             \* the streams fetched of the first; streams: all fetched

vars == <<pc, args, world, mem>>

Stream == Namespaces \X Streams

(* The active rtmp streams on the server.                                  *)
Wanted(list, streams) ==
    {s \in Stream : /\ s[1] \in Rtmp \cap Range(list)
                    /\ s[2] \in Active \cap Range(streams[s[1]])}

Init ==
    /\ pc = "namespaces"
    /\ world \in [namespaces : NsAtStart, streams : StreamsAtStart, out : {<<>>},
                   changes : {0}, disturbed : {FALSE}]
    /\ args = Wanted(world.namespaces, world.streams)
    /\ mem = [offset |-> 0, total |-> 0, namespaces |-> <<>>, todo |-> <<>>,
              got |-> <<>>, streams |-> <<>>]

-----------------------------------------------------------------------------
(* The server: an item appears anywhere in a list, or one goes.            *)
With(list, k, x) == SubSeq(list, 1, k - 1) \o <<x>> \o SubSeq(list, k, Len(list))
Without(list, k) == SubSeq(list, 1, k - 1) \o SubSeq(list, k + 1, Len(list))

Inserted(list, all) ==
    {With(list, k, x) : k \in 1..(Len(list) + 1), x \in all \ Range(list)}

Insert ==
    /\ world.changes < MaxChanges
    /\ \/ \E list \in Inserted(world.namespaces, Namespaces) :
             world' = [world EXCEPT !.changes = @ + 1, !.namespaces = list,
                                    !.disturbed = TRUE]
       \/ \E n \in Range(world.namespaces) :
             \E list \in Inserted(world.streams[n], Streams) :
                world' = [world EXCEPT !.changes = @ + 1, !.streams[n] = list]
    /\ UNCHANGED <<pc, args, mem>>

(* A namespace goes with its streams.                                      *)
Delete ==
    /\ world.changes < MaxChanges
    /\ \/ \E k \in DOMAIN world.namespaces :
             world' = [world EXCEPT !.changes = @ + 1, !.disturbed = TRUE,
                                    !.namespaces = Without(@, k),
                                    !.streams[world.namespaces[k]] = <<>>]
       \/ \E n \in Namespaces : \E k \in DOMAIN world.streams[n] :
             world' = [world EXCEPT !.changes = @ + 1, !.disturbed = TRUE,
                                    !.streams[n] = Without(@, k)]
    /\ UNCHANGED <<pc, args, mem>>

(* The answer to ?line=size&offset=offset.                                 *)
Page(list, size) == SubSeq(list, mem.offset + 1,
                           IF mem.offset + size < Len(list) THEN mem.offset + size
                                                            ELSE Len(list))

(* The elements of a list that are in a set, in the order of the list:     *)
(* SelectSeq, as a function that a proof can follow from element to        *)
(* element.                                                                *)
Kept(list, set) ==
    LET kept[i \in 0..Len(list)] ==
            IF i = 0 THEN <<>>
            ELSE IF list[i] \in set THEN Append(kept[i - 1], list[i]) ELSE kept[i - 1]
    IN  kept[Len(list)]

(* Mutant of NsTotal: the loop tests i <= Total.                           *)
NsTotalInclusive == IF mem.total = 0 THEN Len(world.namespaces) + 1 ELSE mem.total

(* The loop tests the Total of the FIRST page: the later ones are read into*)
(* a variable of the loop's body.                                          *)
NsTotal == IF mem.total = 0 THEN Len(world.namespaces) ELSE mem.total

(* getAllNamespaces: one page.  After the last one getAllRtmpNamespaces    *)
(* keeps the rtmp ones.                                                    *)
NsPage ==
    /\ pc = "namespaces"
    /\ LET page == Page(world.namespaces, NsLine)
           sofar == mem.namespaces \o page
       IN  IF mem.offset + Len(page) < NsTotal
           THEN /\ mem' = [mem EXCEPT !.namespaces = sofar, !.total = NsTotal,
                                      !.offset = @ + Len(page)]
                /\ UNCHANGED pc
           ELSE /\ mem' = [mem EXCEPT !.namespaces = sofar, !.total = 0, !.offset = 0,
                                      !.todo = Kept(sofar, Rtmp)]
                /\ pc' = "streams"
    /\ UNCHANGED <<args, world>>

(* A failed request: log.Fatalln.                                          *)
NsFails == pc = "namespaces" /\ pc' = "dead" /\ UNCHANGED <<args, world, mem>>

(* Mutant of MorePages: a first page that is full is taken for the last.   *)
MorePagesNever(page, all) == Len(page) > Line

(* getAllStreamsByNamespace: does the loop go on after this page?  Here the*)
(* Total of the latest page counts, and a page that is not full ends it.   *)
MorePages(page, all) ==
    /\ mem.offset + Len(page) < all
    /\ IF mem.total = 0 THEN all >= Line ELSE Len(page) >= Line

StreamPage ==
    /\ pc = "streams" /\ mem.todo # <<>>
    /\ LET n == Head(mem.todo)
           page == Page(world.streams[n], Line)
           all == Len(world.streams[n])
           sofar == mem.got \o [k \in DOMAIN page |-> <<n, page[k]>>]
       IN  mem' = IF MorePages(page, all)
                  THEN [mem EXCEPT !.got = sofar, !.offset = @ + Len(page), !.total = all]
                  ELSE [mem EXCEPT !.streams = @ \o sofar, !.got = <<>>, !.offset = 0,
                                   !.total = 0, !.todo = Tail(@)]
    /\ UNCHANGED <<pc, args, world>>

(* A failed request: everything fetched is dropped; main logs the error and*)
(* goes on.                                                                *)
StreamsFail ==
    /\ pc = "streams" /\ mem.todo # <<>>
    /\ pc' = "write"
    /\ mem' = [mem EXCEPT !.streams = <<>>, !.got = <<>>]
    /\ UNCHANGED <<args, world>>

StreamsDone ==
    /\ pc = "streams" /\ mem.todo = <<>>
    /\ pc' = "write" /\ UNCHANGED <<args, world, mem>>

(* main: getAllActiveStreams, WriteFile.                                   *)
Write ==
    /\ pc = "write"
    /\ \/ /\ world' = [world EXCEPT !.out = Kept(mem.streams, Namespaces \X Active)]
          /\ pc' = "done"
       \/ pc' = "dead" /\ UNCHANGED world
    /\ UNCHANGED <<args, mem>>

Step == NsPage \/ StreamPage \/ StreamsDone \/ Write

Next == Insert \/ Delete \/ Step \/ NsFails \/ StreamsFail

(* Requests are answered; that one fails is never due.                     *)
Spec == Init /\ [][Next]_vars /\ WF_vars(Step)

-----------------------------------------------------------------------------
(* What is written is all or nothing: nothing after a failed request (the  *)
(* namespaces still to do tell); otherwise, every active rtmp stream there *)
(* was at the start, even if streams are inserted while the lists are read,*)
(* and, if nothing changes, no other and none twice.  (An inserted         *)
(* namespace pushes another one behind the Total of the first page.)       *)
AllOrNothing ==
    pc = "done" =>
        IF mem.todo # <<>> THEN world.out = <<>>
        ELSE /\ world.disturbed \/ args \subseteq Range(world.out)
             /\ world.changes = 0 => Range(world.out) = args /\ IsInjective(world.out)

(* While this holds the tool should end.  (After a deletion it may not: the*)
(* page at the old offset is empty, the Total of the first page is never   *)
(* read again, and the same request is repeated.)                          *)
Undisturbed == ~world.disturbed
Ended == pc \in {"done", "dead"}
=============================================================================
