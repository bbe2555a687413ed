----------------------------- MODULE CliCommands ----------------------------
(***************************************************************************)
(* What the user types in each of the three interfaces, and the way out:   *)
(* the main task drops its sender, waits for the writer and the reader and *)
(* makes the last calls on the ledger.                                     *)
(***************************************************************************)
EXTENDS CliTasks

Others == <<args, nonces, senders, writer, reader, stream, pay, media, life>>

AtPrompt == pc = "room"
Typing(kind) == AtPrompt /\ kind \in args.typed
Legacy(kind) == Typing(kind) /\ ~Conference /\ ~Anonymous
LegacyAnonymous(kind) == Typing(kind) /\ ~Conference /\ Anonymous
Controls(kind) == Typing(kind) /\ Conference

\* End of input, /quit, or q.
Quit ==
    /\ AtPrompt
    /\ pc' = "closing"
    /\ UNCHANGED <<outq, room, ending, hist>> /\ UNCHANGED Others

\* Reading a line of standard input fails, which `?` passes on in all three
\* interfaces; the terminal's keys only end, as Quit does.
InputFails ==
    /\ AtPrompt /\ ~(Conference /\ args.tui)
    /\ pc' = "failed"
    /\ UNCHANGED <<outq, room, ending, hist>> /\ UNCHANGED Others

\* A command whose argument does not parse, or that is refused with `?`.
Mistyped ==
    /\ Legacy("typo")
    /\ pc' = "failed"
    /\ UNCHANGED <<outq, room, ending, hist>> /\ UNCHANGED Others

\* A legacy command's frame: the loop ends when the channel is closed.
Say(kind, frame, new) ==
    /\ Legacy(kind)
    /\ room' = new
    /\ \/ Send(frame) /\ UNCHANGED pc
       \/ Closed /\ pc' = "closing" /\ UNCHANGED outq
    /\ UNCHANGED <<ending, hist>> /\ UNCHANGED Others

\* Participant state, room configuration, moderation, roles, capabilities and
\* recording notices; and what is no command at all.
SayControl == Say("talk", "Control", room)
SayChat == Say("talk", "Chat", room)

\* /lock, /waiting, /guests, /recordlocal, /e2eerequired, /maxparticipants
SayPolicy ==
    /\ room.policy_epoch < MaxEpoch
    /\ Say("policy", "Policy", [room EXCEPT !.policy_epoch = @ + 1])

\* /profile
SayProfile ==
    /\ room.profile_epoch < MaxEpoch
    /\ Say("keys", "Control", [room EXCEPT !.profile_epoch = @ + 1])

\* /e2eekey
SayKey(epoch) ==
    Say("keys", "Control", [room EXCEPT !.e2ee_epoch = IF epoch > @ THEN epoch ELSE @])

\* /e2eeack
SayAck(epoch) ==
    /\ room.e2ee_epoch = 0 \/ epoch <= room.e2ee_epoch
    /\ Say("keys", "Control", room)

\* A typed payment, its amount the unit: it is moved or not, under a transaction
\* that is learnt or not, and declared or not.
Settle(moved, learnt, told) ==
    LET backed == IF learnt = 1 THEN told ELSE 0
    IN /\ hist.lost + moved - backed <= MaxLost
       /\ hist.unbacked + told - backed <= MaxUnbacked
       /\ hist' = [hist EXCEPT !.surplus = @ + moved - told,
                               !.lost = @ + moved - backed,
                               !.unbacked = @ + told - backed]

\* /pay: the payment is declared with or without a transfer behind it.
SayPay ==
    /\ Legacy("pay")
    /\ \E moved \in IF args.pay.config THEN 0 .. 1 ELSE {0} :
       \E learnt \in 0 .. moved :
           \/ Send("Payment") /\ UNCHANGED pc /\ Settle(moved, learnt, 1)
           \/ /\ Closed /\ pc' = "closing" /\ UNCHANGED outq
              /\ Settle(moved, learnt, 0)
    /\ UNCHANGED <<room, ending>> /\ UNCHANGED Others

\* end_command_gate_message
MayEnd == room.host = "self"

\* /end: everybody is kicked, the host included.
SayEnd ==
    /\ Legacy("end") /\ MayEnd
    /\ pc' = "closing"
    /\ \/ Send("End") /\ ending' = TRUE
       \/ Closed /\ UNCHANGED <<outq, ending>>
    /\ UNCHANGED <<room, hist>> /\ UNCHANGED Others
-----------------------------------------------------------------------------
\* An anonymous command's frame: here a closed channel ends the process.
Whisper(kind, frame, new, after) ==
    /\ LegacyAnonymous(kind)
    /\ room' = new
    /\ \/ Send(frame) /\ pc' = after /\ ending' = (ending \/ after = "closing")
       \/ Closed /\ pc' = "failed" /\ UNCHANGED <<outq, ending>>
    /\ UNCHANGED hist /\ UNCHANGED Others

\* /rekey
Rekey ==
    /\ room.key_epoch < MaxEpoch
    /\ Whisper("keys", "GroupKeyUpdate",
               [room EXCEPT !.key_epoch = @ + 1, !.peers = @ \cup {"self"}], "room")

\* /escrow-proof with a well-formed proof.
EscrowProof == Whisper("pay", "EscrowProof", room, "room")

\* Chat, and /end, sealed for every peer.
SealedChat == room.peers # {} /\ Whisper("talk", "EncryptedControl", room, "room")
SealedEnd == room.peers # {} /\ Whisper("end", "EncryptedControl", room, "closing")
-----------------------------------------------------------------------------
\* The anonymous conference tells its media state as the other one does.
Toggled_Always(kind, new) ==
    /\ Controls(kind)
    /\ room' = new
    /\ pc' = "state"
    /\ hist' = [hist EXCEPT !.late = 0]
    /\ UNCHANGED <<outq, ending>> /\ UNCHANGED Others

\* A control of the conference that changes the media state: the state is told
\* in two frames, unless the room is anonymous.
Toggled(kind, new) ==
    /\ Controls(kind)
    /\ room' = new
    /\ pc' = IF Anonymous THEN "room" ELSE "state"
    /\ hist' = [hist EXCEPT !.late = 0]
    /\ UNCHANGED <<outq, ending>> /\ UNCHANGED Others

ToggleMic == Toggled("mic", [room EXCEPT !.mic = ~@])
ToggleCamera == Toggled("video", [room EXCEPT !.camera = ~@, !.share = @ /\ room.camera])
ToggleShare == Toggled("video", [room EXCEPT !.share = ~@, !.camera = @ /\ room.share])

\* p: nothing is told.
Pause ==
    /\ Controls("pause")
    /\ room' = [room EXCEPT !.paused = ~@]
    /\ UNCHANGED <<pc, outq, ending, hist>> /\ UNCHANGED Others

\* ParticipantState, then MediaTrackState; a closed channel is ignored.
Tell(from, frame, to) ==
    /\ pc = from
    /\ pc' = to
    /\ \/ Send(frame)
       \/ Closed /\ UNCHANGED outq
    /\ UNCHANGED <<room, ending, hist>> /\ UNCHANGED Others

TellState == Tell("state", "State", "track")
TellTrack == Tell("track", "Track", "room")

\* End: the conference ends the call on the ledger and tells the hub nothing.
ControlEnd ==
    /\ Controls("end")
    /\ ending' = TRUE
    /\ pc' = "closing"
    /\ UNCHANGED <<outq, room, hist>> /\ UNCHANGED Others
-----------------------------------------------------------------------------
\* The ping sender is left running.
DropSender_Pinging ==
    /\ pc = "closing"
    /\ pc' = "writer"
    /\ senders' = senders \ {"main", "media"}
    /\ media' = IF Conference THEN NoMedia ELSE media
    /\ UNCHANGED <<args, nonces, outq, writer, reader, stream, room, pay, life,
                   ending, hist>>

\* drop(out_tx); the conference aborts its two senders.
DropSender ==
    /\ pc = "closing"
    /\ pc' = "writer"
    /\ senders' = senders \ (IF Conference THEN {"main", "media", "ping"} ELSE {"main"})
    /\ media' = IF Conference THEN NoMedia ELSE media
    /\ UNCHANGED <<args, nonces, outq, writer, reader, stream, room, pay, life,
                   ending, hist>>

\* The conference passes the writer's error on as well.
AwaitWriter_Strict ==
    /\ pc = "writer" /\ Closed
    /\ Proceed(writer = "done", "reader")
    /\ UNCHANGED <<args, nonces, outq, senders, writer, reader, stream, room, pay,
                   media, life, ending, hist>>

\* writer.await: the conference ignores how the writer ended.
AwaitWriter ==
    /\ pc = "writer" /\ Closed
    /\ Proceed(writer = "done" \/ Conference, "reader")
    /\ UNCHANGED <<args, nonces, outq, senders, writer, reader, stream, room, pay,
                   media, life, ending, hist>>

\* reader.await: only the legacy room passes its error on.
AwaitReader ==
    /\ pc = "reader" /\ reader \in {"done", "failed"}
    /\ Proceed(reader = "done" \/ Conference \/ Anonymous,
               IF Anonymous /\ ~Conference THEN "unshield" ELSE "end")
    /\ UNCHANGED <<args, nonces, outq, senders, writer, reader, stream, room, pay,
                   media, life, ending, hist>>

\* One last call on the ledger: its failure is only logged.
LastCall(at, call, wanted, next) ==
    /\ pc = at
    /\ pc' = next
    /\ IF wanted THEN \E r \in {"ok", "failed"} : life' = [life EXCEPT ![call] = r]
       ELSE UNCHANGED life
    /\ UNCHANGED <<args, nonces, outq, senders, writer, reader, stream, room, pay,
                   media, ending, hist>>

should_skip_leave_after_end_Asked == ending

should_skip_leave_after_end == ending /\ life.end = "ok"

Unshield == LastCall("unshield", "unshield", args.anon.unshield, "end")

\* finalize_auto_kaigi_lifecycle
FinalEnd == LastCall("end", "end", args.life.config /\ ending, "leave")
FinalLeave ==
    LastCall("leave", "leave", args.life.config /\ ~should_skip_leave_after_end, "usage")
FinalUsage == LastCall("usage", "usage", args.life.config /\ args.life.usage, "done")

Closing ==
    \/ DropSender \/ AwaitWriter \/ AwaitReader \/ Unshield \/ FinalEnd
    \/ FinalLeave \/ FinalUsage

Command ==
    \/ Quit \/ InputFails \/ Mistyped
    \/ SayControl \/ SayChat \/ SayPolicy \/ SayProfile
    \/ \E epoch \in 1 .. MaxEpoch : SayKey(epoch) \/ SayAck(epoch)
    \/ SayPay \/ SayEnd \/ Rekey \/ EscrowProof \/ SealedChat \/ SealedEnd
    \/ ToggleMic \/ ToggleCamera \/ ToggleShare \/ Pause \/ TellState \/ TellTrack
    \/ ControlEnd
=============================================================================
