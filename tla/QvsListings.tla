----------------------------- MODULE QvsListings ----------------------------
(***************************************************************************)
(* miku-tools qvs: getDevices lists the online devices page by page, while *)
(* devices come and go, and Qps counts the sipraw requests of a user in an *)
(* access log by windows of a second.                                      *)
(***************************************************************************)
EXTENDS Integers, Sequences, FiniteSetsExt

CONSTANTS
    Inputs,      \* [devices: how many are online at first, found: those
                 \*  whose address is in the province and isp asked for,
                 \*  log: sequence of [t, is: one of Lines]]
    Page,        \* 1000 devices
    Window,      \* 1e7, a second
    MaxChanges   \* bound: devices that come or go

(* A line of the access log is a sipraw request of the user, another one,  *)
(* one with too few fields or headers that cannot be read, one with a body *)
(* and too few fields after it, or one of more than the scanner's 64 KB.   *)
Lines == {"request", "other", "invalid", "panics", "too long"}

VARIABLES
    pc, args,
    world,   \* online: the devices, in the order of the server (0: one that
             \* was not there at first); changes
    mem      \* offset, left; printed: for each device of the pages itself, or
             \* 0; line: of the log; start, duration; windows: their counts,
             \* the last one is open

vars == <<pc, args, world, mem>>

Init ==
    /\ pc \in {"devices", "qps"}
    /\ args \in Inputs
    /\ world = [online |-> [i \in 1..args.devices |-> i], changes |-> 0]
    /\ mem = [offset |-> 0, left |-> 0, printed |-> <<>>, line |-> 1,
              start |-> 0, duration |-> 0, windows |-> <<0>>]

Stay == UNCHANGED <<args, world>>

-----------------------------------------------------------------------------
Without(list, k) == SubSeq(list, 1, k - 1) \o SubSeq(list, k + 1, Len(list))

(* A device registers, at the end of the list, or one goes.                *)
Change ==
    /\ pc = "devices" /\ world.changes < MaxChanges
    /\ \E i \in 0..Len(world.online) :
           world' = [changes |-> world.changes + 1,
                     online |-> IF i = 0 THEN Append(world.online, 0)
                                ELSE Without(world.online, i)]
    /\ UNCHANGED <<pc, args, mem>>

(* Mutant of Left: a total of a page less is enough.                       *)
LeftStopsEarly(total) == IF mem.left = 0 THEN total - Page ELSE mem.left - Page

(* left: the total of the first page, and then less by a page.             *)
Left(total) == IF mem.left = 0 THEN total ELSE mem.left - Page

(* The filter: of a device without an address, with one that the database  *)
(* does not have, or of another province or isp nothing is printed.        *)
Shown(d) == IF d \in args.found THEN d ELSE 0

(* getDevices: a page; the offset moves on only from the second request.   *)
DevicesPage ==
    /\ pc = "devices"
    /\ LET last == Min({Len(world.online), mem.offset + Page})
           page == SubSeq(world.online, mem.offset + 1, last)
       IN  mem' = [mem EXCEPT !.printed = @ \o [i \in DOMAIN page |-> Shown(page[i])],
                              !.offset = IF mem.left = 0 THEN @ ELSE @ + Page,
                              !.left = Left(Len(world.online))]
    /\ pc' = IF mem'.left <= 0 THEN "listed" ELSE "devices"
    /\ Stay

DevicesFail == pc = "devices" /\ pc' = "failed" /\ Stay /\ UNCHANGED mem

-----------------------------------------------------------------------------
(* A line that is too long is the end for Scan, and nobody asks for its    *)
(* error: the count is printed as if the log ended there.                  *)
Line == args.log[mem.line]
AtEnd == mem.line <= Len(args.log) => Line.is = "too long"
NextLine == pc = "qps" /\ ~AtEnd /\ UNCHANGED pc /\ Stay

SkipLine == NextLine /\ Line.is = "invalid" /\ mem' = [mem EXCEPT !.line = @ + 1]

(* fielesToStruct: fields[10] or [11] of a line that does not have it.     *)
PanicLine ==
    /\ pc = "qps" /\ ~AtEnd /\ Line.is = "panics"
    /\ pc' = "panic" /\ Stay /\ UNCHANGED mem

(* The first readable line starts the first window.                        *)
Started == IF mem.start = 0 THEN Line.t ELSE mem.start

OtherLine ==
    /\ NextLine /\ Line.is = "other"
    /\ mem' = [mem EXCEPT !.line = @ + 1, !.start = Started,
                          !.duration = Line.t - Started]

(* Mutant of CountLine: the line that ends a window is in none.            *)
CountLineDrops ==
    /\ NextLine /\ Line.is = "request"
    /\ LET over == Line.t - Started >= Window
           counted == [mem.windows EXCEPT ![Len(mem.windows)] = @ + 1] IN
       mem' = [mem EXCEPT
          !.line = @ + 1, !.duration = Line.t - Started,
          !.start = IF over THEN Line.t ELSE Started,
          !.windows = IF over THEN Append(@, 0) ELSE counted]

(* A request of the user: of this window, or the first of the next.        *)
CountLine ==
    /\ NextLine /\ Line.is = "request"
    /\ LET over == Line.t - Started >= Window
           counted == [mem.windows EXCEPT ![Len(mem.windows)] = @ + 1] IN
       mem' = [mem EXCEPT
          !.line = @ + 1, !.duration = Line.t - Started,
          !.start = IF over THEN Line.t ELSE Started,
          !.windows = IF over THEN Append(@, 1) ELSE counted]

QpsEnd == pc = "qps" /\ AtEnd /\ pc' = "counted" /\ Stay /\ UNCHANGED mem

Next ==
    \/ Change \/ DevicesPage \/ DevicesFail
    \/ SkipLine \/ PanicLine \/ OtherLine \/ CountLine \/ QpsEnd

Spec == Init /\ [][Next]_vars

-----------------------------------------------------------------------------
(* If nothing changed meanwhile every device of the province and isp is    *)
(* listed, those of the first page twice and the others once; one that goes*)
(* may hide itself and one other.                                          *)
Times(d) == Cardinality({i \in DOMAIN mem.printed : mem.printed[i] = d})

DevicesListed ==
    pc = "listed" =>
        LET missed == {d \in 1..args.devices : d \in args.found /\ Times(d) = 0}
        IN  /\ world.changes = 0 =>
                  \A d \in 1..args.devices :
                      d \in args.found => Times(d) = IF d <= Page THEN 2 ELSE 1
            /\ Cardinality(missed) <= 2 * world.changes

(* When Qps ends it has read the log up to its end or to a line that is    *)
(* longer than the scanner's limit.  No request of what it read is lost    *)
(* between two windows, and in a log in the order of time the requests of a*)
(* window are within a second of each other.  The windows have the requests*)
(* one after the other, as many as they count.                             *)
Mine(n) == {i \in 1..n : args.log[i].is = "request"}
Ordered == \A i, j \in DOMAIN args.log : i < j => args.log[i].t <= args.log[j].t

RequestsCounted ==
    pc = "counted" =>
        LET all == Mine(mem.line - 1)
            upto[w \in 0..Len(mem.windows)] ==
                IF w = 0 THEN 0 ELSE upto[w - 1] + mem.windows[w]
            In(w) == {i \in all : upto[w - 1] < Cardinality(Mine(i))
                                 /\ Cardinality(Mine(i)) <= upto[w]}
        IN  /\ mem.line <= Len(args.log) => args.log[mem.line].is = "too long"
            /\ upto[Len(mem.windows)] = Cardinality(all)
            /\ Ordered => \A w \in DOMAIN mem.windows : \A i, j \in In(w) :
                             args.log[i].t - args.log[j].t < Window
=============================================================================
