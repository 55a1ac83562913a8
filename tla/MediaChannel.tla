---------------------------- MODULE MediaChannel ----------------------------
(***************************************************************************)
(* miku-tools qvs: Talk, TalkTest and Invite ask the media server to       *)
(* delete and create the channel of a device, and the sip server to invite *)
(* the device to send to that channel, named by its ssrc.  A request may   *)
(* fail before or after the server has acted, and a video request, which   *)
(* is given up after 10 s, may be acted upon later still.  Of an answer    *)
(* only the JSON counts, not the status: one without a code is good.       *)
(***************************************************************************)
EXTENDS Integers

CONSTANTS MaxSsrc, MaxCalls   \* bounds: channels created, calls of the tools

Tools == {"Talk", "TalkTest", "Invite"}
Media(tool) == IF tool = "Invite" THEN "video" ELSE "audio"
Failed == -1

VARIABLES
    pc,      \* control point
    args,    \* the tool that runs, "none" before the first
    world,   \* calls; channel: medium -> ssrc of its channel, 0: none; next;
             \* late: video requests given up; taken: a delete was acted upon
             \* late, since the answer to the creation
    mem      \* ssrc; bare: the answer to the creation had none; invited: the
             \* device was, with ssrc; actual: the channel's ssrc then;
             \* sent: rtp or audio was sent

vars == <<pc, args, world, mem>>

None == [ssrc |-> 0, bare |-> FALSE, invited |-> FALSE, actual |-> 0, sent |-> FALSE]

Init ==
    /\ pc = "idle" /\ args = "none"
    /\ world = [calls |-> 0, channel |-> [m \in {"audio", "video"} |-> 0],
                next |-> 1, late |-> {}, taken |-> FALSE]
    /\ mem = None

-----------------------------------------------------------------------------
(* What the media server does: an existing channel is answered with code   *)
(* 6001 and its ssrc.                                                      *)
Deleted(m) == [world EXCEPT !.channel[m] = 0]

Created(m) ==
    IF world.channel[m] # 0 THEN world
    ELSE [world EXCEPT !.channel[m] = world.next, !.next = @ + 1]

(* A request given up by the tool reaches the server.                      *)
ActLate ==
    /\ \/ /\ "delete" \in world.late
          /\ world' = [Deleted("video") EXCEPT !.late = @ \ {"delete"}, !.taken = TRUE]
       \/ /\ "create" \in world.late /\ world.next <= MaxSsrc
          /\ world' = [Created("video") EXCEPT !.late = @ \ {"create"}]
    /\ UNCHANGED <<pc, args, mem>>

Start(tool) ==
    /\ pc = "idle" /\ world.calls < MaxCalls
    /\ pc' = "delete" /\ args' = tool
    /\ world' = [world EXCEPT !.calls = @ + 1]
    /\ mem' = None

(* Refused; given up.                                                      *)
NotActed == world' = world
GivenUp(r) == Media(args) = "video" /\ world' = [world EXCEPT !.late = @ \cup {r}]

(* deleteAudioChannel, deleteVedioChannel: an error is only logged.        *)
Delete ==
    /\ pc = "delete" /\ pc' = "create"
    /\ world' = Deleted(Media(args)) \/ NotActed \/ GivenUp("delete")
    /\ UNCHANGED <<args, mem>>

(* createAudioChannel, createVideoChannel: the ssrc, 0 and 6001 are good.  *)
Create ==
    /\ pc = "create" /\ world.next <= MaxSsrc
    /\ world' = [Created(Media(args)) EXCEPT !.taken = FALSE]
    /\ mem' = [mem EXCEPT !.ssrc = world'.channel[Media(args)]]
    /\ pc' = "invite" /\ UNCHANGED args

(* An answer whose JSON has no code, of an error for instance: code 0, and *)
(* the ssrc that it does not have is 0.                                    *)
CreateBare ==
    /\ pc = "create" /\ world.next <= MaxSsrc
    /\ \E created \in {world, Created(Media(args))} :
           world' = [created EXCEPT !.taken = FALSE]
    /\ mem' = [mem EXCEPT !.ssrc = 0, !.bare = TRUE]
    /\ pc' = "invite" /\ UNCHANGED args

(* Mutant of CreateFails: the error is not looked at.                      *)
CreateFailsUnseen ==
    /\ pc = "create" /\ NotActed
    /\ mem' = [mem EXCEPT !.ssrc = Failed]
    /\ pc' = "invite" /\ UNCHANGED args

(* An error, its answer lost or never given: -1, and the tool ends.        *)
CreateFails ==
    /\ pc = "create" /\ world.next <= MaxSsrc
    /\ NotActed \/ world' = Created(Media(args)) \/ GivenUp("create")
    /\ mem' = [mem EXCEPT !.ssrc = Failed]
    /\ pc' = "idle" /\ UNCHANGED args

(* sipInvite; only TalkTest goes on if the device refuses.                 *)
Invite ==
    /\ pc = "invite"
    /\ mem' = [mem EXCEPT !.invited = TRUE, !.actual = world.channel[Media(args)]]
    /\ \/ pc' = IF args = "Invite" THEN "idle" ELSE "send"
       \/ args # "TalkTest" /\ pc' = "idle"
    /\ UNCHANGED <<args, world>>

(* Talk appends audio on every tick for ever, whatever the answer is;      *)
(* TalkTest sends one packet, appends once and ends.                       *)
Send ==
    /\ pc = "send"
    /\ mem' = [mem EXCEPT !.sent = TRUE]
    /\ pc' = IF args = "Talk" THEN "send" ELSE "idle"
    /\ UNCHANGED <<args, world>>

Interrupt == pc = "send" /\ args = "Talk" /\ pc' = "idle" /\ UNCHANGED <<args, world, mem>>

Next ==
    \/ ActLate \/ Delete \/ Create \/ CreateBare \/ CreateFails \/ Invite \/ Send \/ Interrupt
    \/ \E tool \in Tools : Start(tool)

Spec == Init /\ [][Next]_vars

-----------------------------------------------------------------------------
(* After a failure that the tool was told the device is not invited; else  *)
(* it is invited to the channel that the media server has, whatever was    *)
(* lost or left over from earlier calls.  But for two failures that stay   *)
(* hidden: an answer without a code, when the ssrc is 0, and a delete that *)
(* was given up and is acted upon after the creation was answered.         *)
InvitedToChannel ==
    mem.invited =>
        /\ mem.ssrc # Failed
        /\ mem.ssrc = 0 <=> mem.bare
        /\ mem.ssrc # mem.actual => mem.bare \/ (world.taken /\ args = "Invite")
=============================================================================
