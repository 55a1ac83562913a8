------------------------------ MODULE GbDevice ------------------------------
(***************************************************************************)
(* miku-tools qvs: a simulated gb28181 device on one tcp connection.  It   *)
(* registers, is challenged, registers with the digest, and then answers   *)
(* catalog requests while a goroutine sends keepalives.  What the platform *)
(* sends is a stream that a Read cuts anywhere: message m is its pieces    *)
(* 5m - 4 (the start line), 5m - 3 (Call-ID and its value), 5m - 2 (the    *)
(* end of that line), 5m - 1 (CSeq) and 5m (the nonce, or the body), and a *)
(* Read ends after a piece or inside one.                                  *)
(***************************************************************************)
EXTENDS Integers, Sequences, FiniteSetsExt

CONSTANTS
    Inputs,         \* [script]: what the platform sends after the challenge
    MaxKeepalives   \* bound: keepalives

(* MESSAGE is in the start line and the CSeq of a request, and in the CSeq *)
(* of the answer to a keepalive.                                           *)
Requests == {"catalog", "message"}
Kinds == Requests \cup {"ok", "kept"}

VARIABLES
    pc,      \* control point of GbCli
    args,    \* the input
    world,   \* sent: messages sent; read: pieces read, or cut; open: the
             \* connection
    mem      \* auth: the second REGISTER had the nonce; answers: the messages
             \* whose Call-ID was answered, 0: an empty one; keepalives;
             \* goroutine; alone: the message that the last Read had, no more
             \* and no less; whole: every Read ended where a message does

vars == <<pc, args, world, mem>>

Init ==
    /\ pc = "dial"
    /\ args \in Inputs
    /\ world = [sent |-> 0, read |-> 0, open |-> FALSE]
    /\ mem = [auth |-> FALSE, answers |-> <<>>, keepalives |-> 0,
              goroutine |-> FALSE, alone |-> {}, whole |-> TRUE]

Goto(l) == pc' = l /\ UNCHANGED args

(* Every error returns, and the deferred Close ends the connection.        *)
Return ==
    /\ Goto("returned")
    /\ world' = [world EXCEPT !.open = FALSE] /\ UNCHANGED mem

-----------------------------------------------------------------------------
KindOf(m) == IF m = 1 THEN "challenge" ELSE args.script[m - 1]
Sent == 1..world.sent

(* The platform: its messages in order, or the end of the connection.      *)
Send ==
    /\ world.open /\ world.sent <= Len(args.script) /\ pc # "first_register"
    /\ world' = [world EXCEPT !.sent = @ + 1]
    /\ UNCHANGED <<pc, args, mem>>

Hangup ==
    /\ world.open
    /\ world' = [world EXCEPT !.open = FALSE] /\ UNCHANGED <<pc, args, mem>>

Dial ==
    /\ pc = "dial"
    /\ \/ Goto("first_register") /\ world' = [world EXCEPT !.open = TRUE]
       \/ Goto("returned") /\ UNCHANGED world
    /\ UNCHANGED mem

(* createRegisterRequest without a nonce, so without Authorization.        *)
FirstRegister ==
    /\ pc = "first_register" /\ world.open
    /\ Goto("challenge") /\ UNCHANGED <<world, mem>>

(* What a Read may end with: piece n, or the part of it before the cut.    *)
Unread == world.read + 1 .. 5 * world.sent
StillWhole(n, cut) == mem.whole /\ ~cut /\ \E m \in Sent : n = 5 * m

(* extractNonce: 32 characters after "nonce=", or none; it panics when     *)
(* they are cut.                                                           *)
ReadChallenge ==
    /\ pc = "challenge"
    /\ \E n \in Unread, cut \in BOOLEAN :
          LET nonce == IF cut THEN n > 5 ELSE n >= 5 IN
          /\ mem' = [mem EXCEPT !.auth = nonce, !.whole = StillWhole(n, cut)]
          /\ \/ Goto("second_register") /\ world' = [world EXCEPT !.read = n]
             \/ /\ cut /\ n = 5 /\ Goto("panic")
                /\ world' = [world EXCEPT !.read = n, !.open = FALSE]

(* The REGISTER with the digest; its answer is not waited for.             *)
SecondRegister ==
    /\ pc = "second_register" /\ world.open
    /\ Goto("serve")
    /\ mem' = [mem EXCEPT !.goroutine = TRUE] /\ UNCHANGED world

(* The goroutine: every 60 s, until a Write fails.                         *)
KeepAlive ==
    /\ mem.goroutine /\ mem.keepalives < MaxKeepalives
    /\ mem' = IF world.open THEN [mem EXCEPT !.keepalives = @ + 1]
                            ELSE [mem EXCEPT !.goroutine = FALSE]
    /\ UNCHANGED <<pc, args, world>>

(* extractCallID: of the first message whose Call-ID is in the buffer,     *)
(* which has the pieces after lo up to hi whole.                           *)
Ids(lo, hi) == {m \in Sent : 5 * m - 3 > lo /\ 5 * m - 3 <= hi}

(* Mutant of CallId: the buffer is not a new one for each Read.            *)
CallIdOfOld(lo, hi) == IF Ids(0, hi) = {} THEN 0 ELSE Min(Ids(0, hi))

CallId(lo, hi) == IF Ids(lo, hi) = {} THEN 0 ELSE Min(Ids(lo, hi))

(* "MESSAGE" and "Catalog" somewhere in the buffer.                        *)
Asked(lo, hi) ==
    /\ \E m \in Sent :
          \/ KindOf(m) \in Requests /\ 5 * m - 4 > lo /\ 5 * m - 4 <= hi
          \/ KindOf(m) \in Requests \cup {"kept"} /\ 5 * m - 1 > lo /\ 5 * m - 1 <= hi
    /\ \E m \in Sent : KindOf(m) = "catalog" /\ 5 * m > lo /\ 5 * m <= hi

(* What the main loop does with a buffer.  extractCallID panics when the   *)
(* line of the Call-ID is not ended in it.                                 *)
ActOn(n, cut) ==
    LET lo == world.read
        hi == IF cut THEN n - 1 ELSE n
        id == CallId(lo, hi)
        asked == Asked(lo, hi)
        panics == asked /\ id # 0 /\ 5 * id - 3 = hi
        alone == {m \in Sent : ~cut /\ n = 5 * m /\ lo = 5 * m - 5}
    IN  /\ Goto(IF panics THEN "panic" ELSE "serve")
        /\ world' = [world EXCEPT !.read = n, !.open = ~panics]
        /\ mem' = [mem EXCEPT
              !.whole = StillWhole(n, cut), !.alone = alone,
              !.goroutine = ~panics /\ @,
              !.answers = IF asked /\ ~panics THEN Append(@, id) ELSE @]

ReadMessage ==
    /\ pc = "serve" /\ world.open
    /\ \E n \in Unread, cut \in BOOLEAN : ActOn(n, cut)

Fails ==
    /\ pc \in {"first_register", "challenge", "second_register", "serve"}
    /\ ~world.open /\ Return

Next ==
    \/ Send \/ Hangup \/ Dial \/ FirstRegister \/ ReadChallenge
    \/ SecondRegister \/ KeepAlive \/ ReadMessage \/ Fails

Spec == Init /\ [][Next]_vars

-----------------------------------------------------------------------------
(* However the stream is cut, no message's Call-ID is answered twice, and  *)
(* a catalog request that a Read had alone and whole is answered at once   *)
(* with its own.  As long as every Read ends where a message does, no      *)
(* answer is without a Call-ID and the device does not panic.              *)
AnsweredOnce ==
    LET answers == mem.answers IN
    /\ \A a, b \in DOMAIN answers : answers[a] # 0 /\ answers[a] = answers[b] => a = b
    /\ \A m \in mem.alone : KindOf(m) = "catalog" =>
          answers # <<>> /\ answers[Len(answers)] = m
    /\ mem.whole => pc # "panic" /\ \A a \in DOMAIN answers : answers[a] # 0
=============================================================================
