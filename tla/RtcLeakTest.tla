---------------------------- MODULE RtcLeakTest -----------------------------
(***************************************************************************)
(* miku-tools qvs: rtcMemLeakTest starts one webrtc player per goroutine   *)
(* and returns after 30 s; each asks for a session, sends a stun request   *)
(* and waits for the answer without a deadline, shakes hands within 10 s,  *)
(* or panics, which ends all of them, and then counts what it reads.  Time *)
(* is counted in steps of 10 s.                                            *)
(***************************************************************************)
EXTENDS Integers, FiniteSets

CONSTANTS Players, Deadline, Timeout   \* goroutines; 30 s; 10 s

VARIABLES
    pc,      \* of rtcMemLeakTest
    args,    \* the players whose server answers a handshake
    world,   \* time
    mem      \* player -> [at, since, count]: its control point, the time
             \* it came there, what it counted since the last report

vars == <<pc, args, world, mem>>

Init ==
    /\ pc = "sleep" /\ args \in SUBSET Players
    /\ world = 0
    /\ mem = [p \in Players |-> [at |-> "session", since |-> 0, count |-> 0]]

Goes(p, l) ==
    /\ pc = "sleep"
    /\ mem' = [mem EXCEPT ![p] = [at |-> l, since |-> world, count |-> 0]]
    /\ UNCHANGED <<pc, args, world>>

(* startRtcPlay: the session, or "" after an error; then Dial and the      *)
(* first sendStunBindingRequest, which look at no answer.                  *)
Session(p) == mem[p].at = "session" /\ Goes(p, "stun")

(* recvStunResponse: an answer, or an error, which is only logged.         *)
StunResponse(p) == mem[p].at = "stun" /\ Goes(p, "handshake")

(* establishDTLS, and the second stun request.                             *)
Handshake(p) == mem[p].at = "handshake" /\ p \in args /\ Goes(p, "read")

(* Mutant of HandshakeFails: the error ends the goroutine only.            *)
HandshakeEndsOne(p) ==
    /\ mem[p].at = "handshake" /\ world >= mem[p].since + Timeout
    /\ Goes(p, "gone")

(* The context's timeout: panic ends the process.                          *)
HandshakeFails(p) ==
    /\ mem[p].at = "handshake" /\ world >= mem[p].since + Timeout
    /\ pc = "sleep" /\ pc' = "panic" /\ UNCHANGED <<args, world, mem>>

(* The read loop: a packet, the report every 5 s, a read timeout (the      *)
(* break leaves the select only), or an error, which ends the goroutine.   *)
Read(p) ==
    /\ mem[p].at = "read" /\ pc = "sleep"
    /\ mem' \in {[mem EXCEPT ![p].count = 1], [mem EXCEPT ![p].count = 0],
                 [mem EXCEPT ![p].at = "gone"]}
    /\ UNCHANGED <<pc, args, world>>

(* A timer that is due is served before the next 10 s pass.                *)
Clock ==
    /\ pc = "sleep" /\ world < Deadline
    /\ ~\E p \in Players : mem[p].at = "handshake" /\ world >= mem[p].since + Timeout
    /\ world' = world + 1 /\ UNCHANGED <<pc, args, mem>>

Return ==
    /\ pc = "sleep" /\ world = Deadline
    /\ pc' = "returned" /\ UNCHANGED <<args, world, mem>>

Next ==
    \/ \E p \in Players : \/ Session(p) \/ StunResponse(p) \/ Handshake(p)
                          \/ HandshakeFails(p) \/ Read(p)
    \/ Clock \/ Return

Spec == Init /\ [][Next]_vars

-----------------------------------------------------------------------------
(* A test that returns has hidden no failed handshake: every player that   *)
(* had its stun answer in time is connected, or was, and one whose server  *)
(* does not shake hands is not among them.                                 *)
ReturnHidesNoFailure ==
    pc = "returned" =>
        \A p \in Players :
            /\ mem[p].at = "handshake" => world <= mem[p].since + Timeout
            /\ p \notin args => mem[p].at \notin {"read", "gone"}
=============================================================================
