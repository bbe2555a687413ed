------------------------------ MODULE HubConn -------------------------------
(***************************************************************************)
(* The tasks of a connection and what runs between them: the read loop of  *)
(* handle_conn with its decoder, the writer task, the billing task, and    *)
(* the bounded queue that all of them, and the handlers of every other     *)
(* connection, write to.                                                   *)
(*                                                                         *)
(* HubRoom says what the frames do to the room and takes sending for       *)
(* granted.  Here the frames are few - one that changes the presence of a  *)
(* participant, a kick, a denial - and sending is the subject: a delta is  *)
(* numbered under the room's lock, the senders are collected under a       *)
(* second one, and each queue is tried after that.                         *)
(***************************************************************************)
EXTENDS Wire, FiniteSetsExt

CONSTANTS
    Conns,          \* the connections, open when the model starts
    Pending,        \* those that may still be in the waiting room
    QueueCap,       \* the places of a queue (256 in the code)
    Scripts,        \* the sequences of frames that each client may send
    Leavers,        \* clients that may close of their own accord
    Slow,           \* clients that may stop to read their socket
    Debtors         \* participants whose account may run dry

\* A frame that moves the presence sequence, and the moderation frames.
Presence == <<"presence", 0>>
Garbage == <<"garbage", 0>>              \* bytes that are no frame
Kick(d) == <<"kick", d>>
Deny(d) == <<"deny", d>>
ClientFrames == {Presence, Garbage, Zero}
                \cup {Kick(d) : d \in Conns} \cup {Deny(d) : d \in Conns}

ASSUME ConnAssumption ==
    /\ Conns \subseteq Nat \ {0} /\ IsFiniteSet(Conns) /\ Pending \subseteq Conns
    /\ Slow \subseteq Conns /\ Debtors \subseteq Conns
    /\ QueueCap \in Nat \ {0} /\ Leavers \subseteq Conns
    /\ DOMAIN Payload \subseteq ClientFrames
    /\ \A c \in Conns : Scripts[c] \subseteq Seq(DOMAIN Payload \cup {Zero, Garbage})

VARIABLES
    \* the room, under its lock
    participants,      \* the connections with a Participant, which owns a tx
    waiting,           \* those of them that wait for admission
    host_conn_id,      \* its moderator, 0 when there is none
    presence_sequence,
    backpressure_dropped_messages,
    \* the tasks of each connection
    reader,            \* where handle_conn stands
    job,               \* what its handle_frame has still to send
    decoder,           \* the buffer of its FrameDecoder
    writer, biller,    \* its two spawned tasks
    queue,             \* its mpsc channel
    \* the clients and the network
    link,              \* "open", or which side has closed
    net,               \* bytes on their way to the hub
    sent, handled,     \* history: frames sent, and how many were handled
    got, missed        \* history: deltas a client got, and those dropped

roomVars == <<participants, waiting, host_conn_id, presence_sequence,
              backpressure_dropped_messages>>
taskVars == <<reader, job, decoder, writer, biller>>
clientVars == <<link, net, sent, handled, got>>
vars == <<roomVars, taskVars, queue, clientVars, missed>>

Error == [kind |-> "error", n |-> 0]
Close == [kind |-> "close", n |-> 0]
Audit == [kind |-> "audit", n |-> 0]
Delta(n) == [kind |-> "delta", n |-> n]

Messages == [kind : {"error", "close", "audit", "delta"}, n : Nat]

\* A job sends msg to the senders in to, then closes the connections in shut.
Idle == [stage |-> "idle", msg |-> Error, to |-> {}, missed |-> 0,
         shut |-> {}]
Fanout(msg, shut) ==
    [stage |-> "fan", msg |-> msg, to |-> {}, missed |-> 0, shut |-> shut]
Jobs == [stage : {"idle", "fan", "send", "count", "notify", "tell", "shut"},
         msg : Messages, to : SUBSET Conns, missed : Nat,
         shut : SUBSET Conns]

Oldest(S) == IF S = {} THEN 0 ELSE CHOOSE c \in S : \A d \in S : c <= d

\* An encoded frame, or the bytes of something else.
Bytes(f) == CASE f = Zero -> to_be_bytes(0)
              [] f = Garbage -> to_be_bytes(MAX_FRAME_LEN + 1)
              [] OTHER -> encode_framed(f)

ConnTypeOK ==
    /\ participants \subseteq Conns /\ waiting \subseteq participants
    /\ host_conn_id \in Conns \cup {0}
    /\ presence_sequence \in Nat /\ backpressure_dropped_messages \in Nat
    /\ reader \in [Conns -> {"reading", "await", "leaving", "gone", "failed"}]
    /\ job \in [Conns -> Jobs]
    /\ writer \in [Conns -> {"running", "ended"}]
    /\ biller \in [Conns -> {"running", "told", "ended"}]
    /\ \A c \in Conns : Len(queue[c]) <= QueueCap /\ queue[c] \in Seq(Messages)
    /\ link \in [Conns -> {"open", "client closed", "hub closed"}]
    /\ \A c \in Conns : handled[c] <= Len(sent[c])

Init ==
    /\ participants = Conns
    /\ waiting \in SUBSET Pending
    /\ host_conn_id = Oldest(Conns \ waiting)
    /\ presence_sequence = 0 /\ backpressure_dropped_messages = 0
    /\ reader = [c \in Conns |-> "reading"]
    /\ job = [c \in Conns |-> Idle]
    /\ decoder = [c \in Conns |-> <<>>]
    /\ writer = [c \in Conns |-> "running"]
    /\ biller = [c \in Conns |-> "running"]
    /\ queue = [c \in Conns |-> <<>>]
    /\ link = [c \in Conns |-> "open"]
    /\ net = [c \in Conns |-> <<>>]
    /\ sent = [c \in Conns |-> <<>>]
    /\ handled = [c \in Conns |-> 0]
    /\ got = [c \in Conns |-> <<>>]
    /\ missed = [c \in Conns |-> <<>>]
-----------------------------------------------------------------------------
\* Clients.  A frame may be cut into chunks and glued to the next one.
ClientSends(c) ==
    /\ link[c] # "client closed"
    /\ \E script \in Scripts[c] :
           LET f == script[Len(sent[c]) + 1] IN
           /\ Len(sent[c]) < Len(script) /\ IsPrefix(sent[c], script)
           /\ f \in DOMAIN Payload => Encodable(f)
           /\ sent' = [sent EXCEPT ![c] = Append(@, f)]
           /\ net' = [net EXCEPT ![c] = @ \o Bytes(f)]
    /\ UNCHANGED <<roomVars, taskVars, queue, link, handled, got, missed>>

\* A client closes of its own accord, or to answer the Close of the hub.
ClientCloses(c) ==
    /\ link[c] = "hub closed" \/ (link[c] = "open" /\ c \in Leavers)
    /\ link' = [link EXCEPT ![c] = "client closed"]
    /\ UNCHANGED <<roomVars, taskVars, queue, net, sent, handled, got, missed>>
-----------------------------------------------------------------------------
\* Sender::try_send: the message is dropped when the queue is full, or when
\* the writer that owned the receiver has ended.
Accepts(c) == writer[c] = "running" /\ Len(queue[c]) < QueueCap
try_send(c, msg) ==
    queue' = IF Accepts(c) THEN [queue EXCEPT ![c] = Append(@, msg)] ELSE queue

\* The writer task.  Once the Close of either side has been processed, the
\* WebSocket refuses to send, and the task ends and drops what is queued.
Sendable(c) == link[c] # "hub closed" /\ reader[c] \in {"reading", "failed"}

Write_BinaryOnly(c) ==
    /\ writer[c] = "running" /\ queue[c] # <<>> /\ Sendable(c)
    /\ LET msg == Head(queue[c]) IN
       /\ queue' = [queue EXCEPT ![c] = Tail(@)]
       /\ got' = IF msg.kind = "delta" /\ link[c] = "open"
                 THEN [got EXCEPT ![c] = Append(@, msg.n)] ELSE got
    /\ UNCHANGED <<roomVars, taskVars, link, net, sent, handled, missed>>

Write(c) ==
    /\ writer[c] = "running" /\ queue[c] # <<>> /\ Sendable(c)
    /\ LET msg == Head(queue[c]) IN
       /\ queue' = [queue EXCEPT ![c] = Tail(@)]
       /\ got' = IF msg.kind = "delta" /\ link[c] = "open"
                 THEN [got EXCEPT ![c] = Append(@, msg.n)] ELSE got
       /\ link' = IF msg.kind = "close" /\ link[c] = "open"
                  THEN [link EXCEPT ![c] = "hub closed"] ELSE link
    /\ UNCHANGED <<roomVars, taskVars, net, sent, handled, missed>>

WriteFails_Continue(c) ==
    /\ writer[c] = "running" /\ queue[c] # <<>> /\ ~Sendable(c)
    /\ queue' = [queue EXCEPT ![c] = Tail(@)]
    /\ UNCHANGED <<roomVars, taskVars, clientVars, missed>>

WriteFails(c) ==
    /\ writer[c] = "running" /\ queue[c] # <<>> /\ ~Sendable(c)
    /\ queue' = [queue EXCEPT ![c] = <<>>]
    /\ writer' = [writer EXCEPT ![c] = "ended"]
    /\ UNCHANGED <<roomVars, reader, job, decoder, biller, clientVars, missed>>

\* Who still holds a sender of the queue of c: its Participant, its read
\* loop, its billing task, and the handlers that are about to write to it.
HasSender(c) ==
    \/ c \in participants
    \/ reader[c] = "reading"
    \/ biller[c] # "ended"
    \/ \E d \in Conns : c \in job[d].shut \cup job[d].to

WriterEnds(c) ==
    /\ writer[c] = "running" /\ queue[c] = <<>> /\ ~HasSender(c)
    /\ writer' = [writer EXCEPT ![c] = "ended"]
    /\ UNCHANGED <<roomVars, reader, job, decoder, biller, queue, clientVars,
                   missed>>
-----------------------------------------------------------------------------
\* enforce_billing: the task ends with its participant, or once it has told
\* the client why and to close; nobody looks whether the queue took that.
Overdue(c) ==
    /\ biller[c] = "running" /\ c \in (participants \ waiting) \cap Debtors
    /\ try_send(c, Error)
    /\ biller' = [biller EXCEPT ![c] = "told"]
    /\ UNCHANGED <<roomVars, reader, job, decoder, writer, clientVars, missed>>

BillerCloses(c) ==
    /\ biller[c] = "told"
    /\ try_send(c, Close)
    /\ biller' = [biller EXCEPT ![c] = "ended"]
    /\ UNCHANGED <<roomVars, reader, job, decoder, writer, clientVars, missed>>

BillerEnds(c) ==
    /\ biller[c] = "running" /\ c \notin participants
    /\ biller' = [biller EXCEPT ![c] = "ended"]
    /\ UNCHANGED <<roomVars, reader, job, decoder, writer, queue, clientVars,
                   missed>>
-----------------------------------------------------------------------------
\* The read loop of handle_conn.
Reading(c) == reader[c] = "reading" /\ job[c] = Idle

Receive(c) ==
    /\ Reading(c) /\ try_next(decoder[c]).outcome = "none"
    /\ \E n \in 1 .. Len(net[c]) :
           /\ decoder' = [decoder EXCEPT ![c] = @ \o SubSeq(net[c], 1, n)]
           /\ net' = [net EXCEPT ![c] = SubSeq(@, n + 1, Len(@))]
    /\ UNCHANGED <<roomVars, reader, job, writer, biller, queue, link, sent,
                   handled, got, missed>>

\* The next frame of the decoder is f.
NextFrame(c, f) ==
    /\ Reading(c)
    /\ LET d == try_next(decoder[c]) IN
       /\ d.outcome = "frame" /\ d.frame = f
       /\ decoder' = [decoder EXCEPT ![c] = d.rest]
    /\ handled' = [handled EXCEPT ![c] = @ + 1]
    /\ UNCHANGED <<writer, biller, link, net, sent, got, missed>>

\* The decoder fails, and handle_conn returns past handle_disconnect.
DecodeFails(c) ==
    /\ Reading(c) /\ try_next(decoder[c]).outcome = "error"
    /\ reader' = [reader EXCEPT ![c] = "failed"]
    /\ UNCHANGED <<roomVars, job, decoder, writer, biller, queue, clientVars,
                   missed>>

\* The Close of the client: the loop ends and drops its sender.
ReadClose(c) ==
    /\ Reading(c) /\ try_next(decoder[c]).outcome = "none"
    /\ link[c] = "client closed" /\ net[c] = <<>>
    /\ reader' = [reader EXCEPT ![c] = "await"]
    /\ UNCHANGED <<roomVars, job, decoder, writer, biller, queue, clientVars,
                   missed>>

Start(c, j) == job' = [job EXCEPT ![c] = j]
-----------------------------------------------------------------------------
\* handle_frame.  A zero-length frame reads as an Error, which is logged.
HandleZero(c) ==
    /\ NextFrame(c, Zero)
    /\ UNCHANGED <<roomVars, reader, job, queue>>

\* Hello, RoleGrant, RoleRevoke: the sequence moves and the delta is built
\* under the lock.
HandlePresence(c) ==
    /\ NextFrame(c, Presence)
    /\ IF c \in participants \ waiting
       THEN /\ presence_sequence' = presence_sequence + 1
            /\ Start(c, Fanout(Delta(presence_sequence + 1), {}))
       ELSE UNCHANGED <<presence_sequence, job>>
    /\ UNCHANGED <<participants, waiting, host_conn_id, backpressure_dropped_messages,
                   reader, queue>>

\* apply_moderation with Kick keeps the target in the room.
HandleKick(c, d) ==
    /\ NextFrame(c, Kick(d))
    /\ IF c = host_conn_id /\ d \in participants
       THEN Start(c, Fanout(Audit, {d})) ELSE UNCHANGED job
    /\ UNCHANGED <<roomVars, reader, queue>>

\* ... and with DenyFromWaiting removes it.
HandleDeny(c, d) ==
    /\ NextFrame(c, Deny(d))
    /\ IF c = host_conn_id /\ d \in waiting
       THEN /\ participants' = participants \ {d}
            /\ waiting' = waiting \ {d}
            /\ host_conn_id' = IF host_conn_id = d
                               THEN Oldest(participants \ {d})
                               ELSE host_conn_id
            /\ Start(c, Fanout(Audit, {d}))
       ELSE UNCHANGED <<participants, waiting, host_conn_id, job>>
    /\ UNCHANGED <<presence_sequence, backpressure_dropped_messages, reader,
                   queue>>
-----------------------------------------------------------------------------
\* Where a handler goes once its broadcast is over.
Ended(c) == CASE job[c].shut # {} -> [job[c] EXCEPT !.stage = "tell", !.to = {},
                                                      !.missed = 0]
              [] OTHER -> Idle
Finish(c) ==
    /\ Start(c, Ended(c))
    /\ reader' = IF Ended(c) = Idle /\ reader[c] = "leaving"
                 THEN [reader EXCEPT ![c] = "gone"] ELSE reader

\* broadcast_frame: collect the senders under the lock; the room may be gone.
Recipients_Others(c) == participants \ {c}
Recipients(c) == participants
Collect(c) ==
    /\ job[c].stage = "fan"
    /\ IF participants = {} THEN Finish(c)
       ELSE Start(c, [job[c] EXCEPT !.stage = "send", !.to = Recipients(c)])
            /\ UNCHANGED reader
    /\ UNCHANGED <<roomVars, decoder, writer, biller, queue, clientVars, missed>>

\* ... and try each of them, in a loop that never awaits,
CanTry_Blocking(d) == Accepts(d) \/ writer[d] = "ended"
CanTry(d) == TRUE
Fan(c) ==
    LET refusing == {d \in job[c].to : ~Accepts(d)} IN
    /\ job[c].stage = "send" /\ job[c].to # {} /\ \A d \in job[c].to : CanTry(d)
    /\ queue' = [d \in Conns |-> IF d \in job[c].to \ refusing
                                 THEN Append(queue[d], job[c].msg) ELSE queue[d]]
    /\ missed' = [d \in Conns |-> IF d \in refusing
                                  THEN Append(missed[d], job[c].msg) ELSE missed[d]]
    /\ Start(c, [job[c] EXCEPT !.to = {}, !.missed = Cardinality(refusing)])
    /\ UNCHANGED <<roomVars, reader, decoder, writer, biller, clientVars>>

FanDone(c) ==
    /\ job[c].stage = "send" /\ job[c].to = {} /\ job[c].missed = 0
    /\ Finish(c)
    /\ UNCHANGED <<roomVars, decoder, writer, biller, queue, clientVars, missed>>

\* ... count the drops and, unless a notice went out a moment ago, tell the
\* moderators.
Tally_Last(c) == job[c].missed
Tally(c) == backpressure_dropped_messages + job[c].missed
Count(c) ==
    /\ job[c].stage = "send" /\ job[c].to = {} /\ job[c].missed > 0
    /\ backpressure_dropped_messages' =
           IF participants = {} THEN backpressure_dropped_messages ELSE Tally(c)
    /\ \/ Finish(c)
       \/ /\ participants # {}
          /\ Start(c, [job[c] EXCEPT !.stage = "notify", !.to = {host_conn_id} \ {0},
                                     !.missed = 0])
          /\ UNCHANGED reader
    /\ UNCHANGED <<participants, waiting, host_conn_id, presence_sequence,
                   decoder, writer, biller, queue, clientVars, missed>>

\* send_frame_to: an error when the moderator has left since, and the "?"
\* ends the connection that was only sending.
Notify(c) ==
    /\ job[c].stage = "notify"
    /\ \/ /\ job[c].to \subseteq participants
          /\ \/ job[c].to = {} /\ UNCHANGED queue
             \/ \E d \in job[c].to : try_send(d, Error)
          /\ Finish(c)
       \/ /\ ~(job[c].to \subseteq participants)
          /\ Start(c, Idle)
          /\ reader' = [reader EXCEPT ![c] = IF @ = "leaving" THEN "gone"
                                             ELSE "failed"]
          /\ UNCHANGED queue
    /\ UNCHANGED <<roomVars, decoder, writer, biller, clientVars, missed>>

\* The end of a kick or a denial: the reason, then a Close.
Tell(c) ==
    /\ job[c].stage = "tell"
    /\ \E d \in job[c].shut : try_send(d, Error)
    /\ Start(c, [job[c] EXCEPT !.stage = "shut"])
    /\ UNCHANGED <<roomVars, reader, decoder, writer, biller, clientVars, missed>>

Shut(c) ==
    /\ job[c].stage = "shut"
    /\ \E d \in job[c].shut : try_send(d, Close)
    /\ Start(c, Idle)
    /\ UNCHANGED <<roomVars, reader, decoder, writer, biller, clientVars, missed>>
-----------------------------------------------------------------------------
\* handle_conn goes on only when its writer has ended: handle_disconnect
\* removes the participant and announces it to those who stay.
handle_disconnect(c) ==
    /\ reader[c] = "await" /\ writer[c] = "ended"
    /\ participants' = participants \ {c} /\ waiting' = waiting \ {c}
    /\ host_conn_id' = IF host_conn_id = c THEN Oldest(participants')
                       ELSE host_conn_id
    /\ IF c \in participants /\ participants' # {}
       THEN /\ presence_sequence' = presence_sequence + 1
            /\ Start(c, Fanout(Delta(presence_sequence + 1), {}))
            /\ reader' = [reader EXCEPT ![c] = "leaving"]
       ELSE /\ reader' = [reader EXCEPT ![c] = "gone"]
            /\ UNCHANGED <<presence_sequence, job>>
    /\ UNCHANGED <<backpressure_dropped_messages, decoder, writer, biller,
                   queue, clientVars, missed>>

HandlerStep(c) ==
    \/ Collect(c) \/ FanDone(c) \/ Count(c) \/ Notify(c) \/ Tell(c) \/ Shut(c)
    \/ Fan(c)
ReaderStep(c) ==
    \/ Receive(c) \/ DecodeFails(c) \/ ReadClose(c)
    \/ HandleZero(c) \/ HandlePresence(c)
    \/ \E d \in Conns : HandleKick(c, d) \/ HandleDeny(c, d)
ConnStep(c) == HandlerStep(c) \/ ReaderStep(c) \/ handle_disconnect(c)
WriterStep(c) == Write(c) \/ WriteFails(c) \/ WriterEnds(c)
BillerStep(c) == BillerCloses(c) \/ BillerEnds(c)

Next ==
    \E c \in Conns :
        \/ ConnStep(c) \/ WriterStep(c) \/ BillerStep(c)
        \/ Overdue(c) \/ ClientCloses(c) \/ ClientSends(c)

Spec == Init /\ [][Next]_vars

\* Each of the hub's three tasks of a connection runs when it can; the
\* writer of a slow client may wait for its socket for ever, except where
\* the WebSocket refuses at once.  A client answers the Close of the hub,
\* and need do nothing else.
Fairness ==
    \A c \in Conns :
        /\ WF_vars(ConnStep(c)) /\ WF_vars(BillerStep(c))
        /\ WF_vars(IF c \in Slow THEN WriteFails(c) \/ WriterEnds(c)
                   ELSE WriterStep(c))
        /\ WF_vars(link[c] = "hub closed" /\ ClientCloses(c))

FairSpec == Spec /\ Fairness
-----------------------------------------------------------------------------
\* The bytes of a sequence of frames.
Stream(fs) == FoldLeft(LAMBDA bytes, f : bytes \o Bytes(f), <<>>, fs)

\* However the network cuts the byte stream, what the decoder holds and what
\* is still under way is exactly the encoding of the frames not yet handled:
\* handle_frame sees each frame once, in order.
StreamIntact ==
    \A c \in Conns :
        decoder[c] \o net[c] =
            Stream(SubSeq(sent[c], handled[c] + 1, Len(sent[c])))

SumOf(f) == MapThenSumSet(LAMBDA c : f[c], DOMAIN f)
Elements(s) == {s[i] : i \in 1 .. Len(s)}

\* A delta that no handler has still to send to c.
Settled(c, n) ==
    \A d \in Conns : job[d].msg = Delta(n) =>
        /\ job[d].stage # "fan"
        /\ job[d].stage = "send" => c \notin job[d].to

\* Every presence delta reaches every participant that the room still has
\* and whose connection is open: it got it, has it in its queue, will be
\* tried, or its queue was full when it was.
EveryDeltaAccounted ==
    \A c \in participants : link[c] = "open" =>
        \A n \in 1 .. presence_sequence :
            Settled(c, n) =>
                \/ n \in Elements(got[c])
                \/ Delta(n) \in Elements(queue[c] \o missed[c])

\* No drop is forgotten when several handlers count theirs: what the notices
\* report and what is being counted add up to every message that a queue
\* refused.  (An empty room is removed with its counter.)
DropsAddUp ==
    participants # {} =>
        backpressure_dropped_messages
            + SumOf([c \in Conns |-> IF job[c].stage = "send"
                                     THEN job[c].missed ELSE 0])
        = SumOf([c \in Conns |-> Len(missed[c])])

\* A client that stops reading, a full queue or a writer that has ended
\* never holds up the handler of another connection: a handler that has
\* something to send can always go on.
HandlersNeverStall ==
    \A c \in Conns : job[c] # Idle => ENABLED HandlerStep(c)

\* A Close that found its place in the queue of a client that reads ends the
\* read loop of handle_conn, whatever else is queued and whoever sent it.
CloseIsObeyed ==
    \A c \in Conns \ Slow :
        Close \in Elements(queue[c]) ~> reader[c] # "reading"

\* A client that has closed leaves the room as soon as anything is written
\* to it: the writer fails, and handle_conn goes on to handle_disconnect.
LeavesOnceWritten ==
    \A c \in Conns :
        reader[c] = "await" /\ queue[c] # <<>> ~> reader[c] = "gone"

\* The stronger claim: a client that has closed leaves the room.
ClientLeaves ==
    \A c \in Conns : reader[c] = "await" ~> c \notin participants

\* The deltas a client receives have increasing sequences.
PresenceInOrder ==
    \A c \in Conns : \A i \in 2 .. Len(got[c]) : got[c][i - 1] < got[c][i]
=============================================================================
