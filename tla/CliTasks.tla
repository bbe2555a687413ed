------------------------------ MODULE CliTasks ------------------------------
(***************************************************************************)
(* The tasks that run beside the main task: the writer, the readers of the *)
(* three interfaces, the payment loop, the escrow proof loop, the media    *)
(* sender and the ping sender; and the stream and the ledger around them.  *)
(***************************************************************************)
EXTENDS CliStart

\* Time passes for a link that has not been consumed yet.
LinkTick ==
    /\ pc \in {"start", "consume"}
    /\ args.link.form # None /\ args.link.left > 0
    /\ args' = [args EXCEPT !.link.left = @ - 1]
    /\ UNCHANGED <<pc, nonces, outq, senders, writer, reader, stream, room, pay,
                   media, life, ending, hist>>

\* Time passes for the payment loop, whatever it waits for.
PayTick ==
    /\ Alive /\ pay.at # "off" /\ pay.elapsed < MaxElapsed
    /\ pay' = [pay EXCEPT !.elapsed = @ + 1]
    /\ hist' = IF hist.retro THEN hist ELSE [hist EXCEPT !.drift = @ + room.rate]
    /\ UNCHANGED <<args, pc, nonces, outq, senders, writer, reader, stream, room,
                   media, life, ending>>
-----------------------------------------------------------------------------
\* The stream ends: the hub closes it, always once the client has finished its
\* half, or the connection breaks.
StreamEnds ==
    /\ Alive /\ stream \in {"open", "finished"}
    /\ stream' = "lost"
    /\ UNCHANGED <<args, pc, nonces, outq, senders, writer, reader, room, pay,
                   media, life, ending, hist>>

\* The writer writes the next frame, or fails and drops the receiver.
Write ==
    /\ Alive /\ writer = "run" /\ outq # << >>
    /\ IF stream = "open"
       THEN outq' = Tail(outq) /\ UNCHANGED writer
       ELSE outq' = << >> /\ writer' = "failed"
    /\ UNCHANGED <<args, pc, nonces, senders, reader, stream, room, pay, media,
                   life, ending, hist>>

\* recv returns None: no sender is left, and the stream is finished.
WriterEnds ==
    /\ Alive /\ writer = "run" /\ outq = << >> /\ senders = {}
    /\ IF stream = "open"
       THEN writer' = "done" /\ stream' = "finished"
       ELSE writer' \in {"done", "failed"} /\ UNCHANGED stream
    /\ UNCHANGED <<args, pc, nonces, outq, senders, reader, room, pay, media, life,
                   ending, hist>>

\* The reader's stream ends cleanly or with an error.
ReaderEnds ==
    /\ Alive /\ reader = "run" /\ stream = "lost"
    /\ reader' \in {"done", "failed"}
    /\ UNCHANGED <<args, pc, nonces, outq, senders, writer, stream, room, pay,
                   media, life, ending, hist>>

Reading == Alive /\ reader = "run" /\ stream \in {"open", "finished"}
Hearing(kind) == Reading /\ kind \in args.heard

\* RoomConfig: the legacy reader follows the rate, if it may, and classifies
\* the host; the conference's reader ignores the frame.
ReadRoomConfig(rate, host) ==
    LET follow == is_pay_auto_enabled /\ args.pay.rate = 0
        new == IF follow THEN rate ELSE room.rate
        retro == hist.retro \/ (new # room.rate /\ pay.elapsed > 0)
    IN /\ Hearing("rate") \/ (Hearing("host") /\ rate = room.rate)
       /\ Hearing("host") \/ host = room.host
       /\ ~Anonymous /\ ~Conference
       /\ room' = [room EXCEPT !.rate = new, !.host = host]
       /\ hist' = [hist EXCEPT !.retro = retro, !.drift = IF retro THEN 0 ELSE @]
       /\ UNCHANGED <<args, pc, nonces, outq, senders, writer, reader, stream, pay,
                      media, life, ending>>

\* SessionPolicy replaces the legacy client's policy, its epoch included.
ReadSessionPolicy(epoch) ==
    /\ Hearing("policy") /\ ~Anonymous /\ ~Conference
    /\ room' = [room EXCEPT !.policy_epoch = epoch]
    /\ UNCHANGED <<args, pc, nonces, outq, senders, writer, reader, stream, pay,
                   media, life, ending, hist>>

\* AnonRoster, or a GroupKeyUpdate that adds or removes one peer.
ReadRoster(peers) ==
    /\ Hearing("roster") /\ Anonymous /\ ~Conference
    /\ room' = [room EXCEPT !.peers = {"self"} \cup peers]
    /\ UNCHANGED <<args, pc, nonces, outq, senders, writer, reader, stream, pay,
                   media, life, ending, hist>>

\* AnonGroupKeyRotate replaces epoch and key.
ReadGroupKey(epoch) ==
    /\ Hearing("roster") /\ Anonymous /\ Conference
    /\ room' = [room EXCEPT !.group_epoch = epoch, !.group_key = "key"]
    /\ UNCHANGED <<args, pc, nonces, outq, senders, writer, reader, stream, pay,
                   media, life, ending, hist>>

\* A frame the reader's `?` gives up on: one that does not decode, media whose
\* payload does not, or an envelope of an epoch ahead of the group key.
ReadFails ==
    /\ Hearing("bad")
    /\ reader' = "failed"
    /\ UNCHANGED <<args, pc, nonces, outq, senders, writer, stream, room, pay,
                   media, life, ending, hist>>
-----------------------------------------------------------------------------
\* The payment loop wakes and bills the time since it last did.
Billed == LET numerator == room.rate * pay.elapsed + pay.remainder
          IN [delta |-> numerator \div Minute, remainder |-> numerator % Minute]

PayWake ==
    LET owed == pay.owed + Billed.delta
    IN /\ Alive /\ pay.at = "sleep" /\ pay.elapsed > 0
       /\ pay' = [at |-> IF owed = 0 THEN "sleep"
                         ELSE IF args.pay.config THEN "transfer" ELSE "send",
                  owed |-> owed, remainder |-> Billed.remainder, elapsed |-> 0,
                  delta |-> IF owed > MaxAmount THEN MaxAmount ELSE owed]
       /\ hist' = IF hist.retro THEN hist
                  ELSE [hist EXCEPT !.drift = @ - Billed.delta * Minute]
       /\ UNCHANGED <<args, pc, nonces, outq, senders, writer, reader, stream, room,
                      media, life, ending>>

\* The clock of the last bill is read again when the transfer returns.
PayTransfer_Late ==
    /\ Alive /\ pay.at = "transfer"
    /\ pay' = [pay EXCEPT !.at = "send", !.elapsed = 0]
    /\ hist' = [hist EXCEPT !.surplus = @ + pay.delta]
    /\ UNCHANGED <<args, pc, nonces, outq, senders, writer, reader, stream, room,
                   media, life, ending>>

\* A failed transfer is declared all the same, as /pay does.
PayTransfer_Declared ==
    /\ Alive /\ pay.at = "transfer"
    /\ \E moved \in BOOLEAN :
           /\ pay' = [pay EXCEPT !.at = "send"]
           /\ hist' = IF moved THEN [hist EXCEPT !.surplus = @ + pay.delta] ELSE hist
    /\ UNCHANGED <<args, pc, nonces, outq, senders, writer, reader, stream, room,
                   media, life, ending>>

\* transfer_xor_nano_via_cli: it may fail before the transfer, or after it; the
\* loop then bills again and tries the sum.
PayTransfer ==
    /\ Alive /\ pay.at = "transfer"
    /\ \/ /\ pay' = [pay EXCEPT !.at = "send"]
          /\ hist' = [hist EXCEPT !.surplus = @ + pay.delta]
       \/ /\ pay.owed <= MaxOwed
          /\ pay' = [pay EXCEPT !.at = "sleep", !.delta = 0]
          /\ UNCHANGED hist
       \/ /\ pay.owed <= MaxOwed /\ hist.lost + pay.delta <= MaxLost
          /\ pay' = [pay EXCEPT !.at = "sleep", !.delta = 0]
          /\ hist' = [hist EXCEPT !.surplus = @ + pay.delta, !.lost = @ + pay.delta]
    /\ UNCHANGED <<args, pc, nonces, outq, senders, writer, reader, stream, room,
                   media, life, ending>>

\* The payment is declared to the hub, under a transaction if the loop has a
\* ledger to make one on; the loop ends when it cannot be.
PaySend ==
    LET bare == IF args.pay.config THEN 0 ELSE pay.delta
    IN /\ Alive /\ pay.at = "send"
       /\ \/ /\ Send("Payment") /\ hist.unbacked + bare <= MaxUnbacked
             /\ pay' = [pay EXCEPT !.at = "sleep", !.delta = 0,
                                !.owed = @ - pay.delta]
             /\ hist' = [hist EXCEPT !.surplus = @ - pay.delta,
                                     !.unbacked = @ + bare]
             /\ UNCHANGED senders
          \/ /\ Closed
             /\ pay' = NoPay
             /\ hist' = [hist EXCEPT !.lost = @ + pay.delta - bare, !.drift = 0]
             /\ senders' = senders \ {"pay"}
             /\ UNCHANGED outq
       /\ UNCHANGED <<args, pc, nonces, writer, reader, stream, room, media, life,
                      ending>>

\* The escrow proof loop and the ping sender: one frame per interval, and the
\* end of the task when the channel is closed.
Beat(task, frame) ==
    /\ Alive /\ task \in senders
    /\ \/ Send(frame) /\ UNCHANGED senders
       \/ Closed /\ senders' = senders \ {task} /\ UNCHANGED outq
    /\ UNCHANGED <<args, pc, nonces, writer, reader, stream, room, pay, media, life,
                   ending, hist>>
-----------------------------------------------------------------------------
\* The controls are read before the loop only.
MediaWake_Once ==
    /\ Alive /\ media.at = "sleep" /\ ~room.paused
    /\ media' = [at |-> "video", mic |-> media.mic \/ room.mic,
                 video |-> media.video \/ room.camera \/ room.share]
    /\ UNCHANGED <<args, pc, nonces, outq, senders, writer, reader, stream, room,
                   pay, life, ending, hist>>

\* The media sender wakes and copies the controls.
MediaWake ==
    /\ Alive /\ media.at = "sleep" /\ ~room.paused
    /\ media' = [at |-> "video", mic |-> room.mic, video |-> room.camera \/ room.share]
    /\ UNCHANGED <<args, pc, nonces, outq, senders, writer, reader, stream, room,
                   pay, life, ending, hist>>

\* What it queues for one captured frame: an envelope in an anonymous room,
\* and nothing there before the group key is known.
Sendable == Anonymous => room.group_key # None /\ room.group_epoch > 0
Wrapped(frame) == IF Anonymous THEN "AnonEncryptedPayload" ELSE frame

\* One of the two captures; the adaptive profile decides whether it is due.
MediaSend(at, next, on, frame) ==
    /\ Alive /\ media.at = at
    /\ \/ /\ media' = [media EXCEPT !.at = next]
          /\ UNCHANGED <<outq, senders, hist>>
       \/ /\ on /\ Sendable /\ Send(Wrapped(frame))
          /\ media' = [media EXCEPT !.at = next]
          /\ hist' = IF frame = "Audio" /\ ~room.mic
                     THEN [hist EXCEPT !.late = @ + 1] ELSE hist
          /\ UNCHANGED senders
       \/ /\ on /\ Sendable /\ Closed
          /\ media' = NoMedia
          /\ senders' = senders \ {"media"}
          /\ UNCHANGED <<outq, hist>>
    /\ UNCHANGED <<args, pc, nonces, writer, reader, stream, room, pay, life, ending>>

MediaVideo == MediaSend("video", "audio", media.video, "Video")
MediaAudio == MediaSend("audio", "sleep", media.mic, "Audio")

ProofBeat == Beat("proof", "EscrowProof")
PingBeat == Beat("ping", "Ping")

Task ==
    \/ LinkTick \/ PayTick \/ StreamEnds \/ Write \/ WriterEnds \/ ReaderEnds
    \/ \E rate \in Rates, host \in {"unknown", "self", "other"} :
           ReadRoomConfig(rate, host)
    \/ \E epoch \in 0 .. MaxEpoch : ReadSessionPolicy(epoch) \/ ReadGroupKey(epoch)
    \/ \E peers \in SUBSET {"peer"} : ReadRoster(peers)
    \/ ReadFails
    \/ PayWake \/ PayTransfer \/ PaySend \/ ProofBeat \/ PingBeat
    \/ MediaWake \/ MediaVideo \/ MediaAudio
=============================================================================
