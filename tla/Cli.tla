-------------------------------- MODULE Cli ---------------------------------
(***************************************************************************)
(* The specification of a `room-chat` process, the fairness of its tasks   *)
(* and its properties.                                                     *)
(***************************************************************************)
EXTENDS CliCommands

ASSUME CliAssumption ==
    /\ Capacity \in Nat /\ Capacity >= 2 /\ MaxAmount \in Nat
    /\ Minute \in Nat \ {0}
    /\ Rates \subseteq Nat
    /\ Args \subseteq RoomChatArgs

Init ==
    /\ args \in Args
    /\ pc = "start"
    /\ nonces = {} /\ outq = << >> /\ senders = {}
    /\ writer = None /\ reader = None /\ stream = None
    /\ room = NewRoom(0) /\ pay = NoPay /\ media = NoMedia
    /\ life = NoCalls /\ ending = FALSE /\ hist = NoHistory

Next == Start \/ Task \/ Command \/ Closing

Spec == Init /\ [][Next]_vars

\* Tokio runs every task that can run, timers fire, the ledger's command line
\* returns, and the hub closes a stream its client has finished.
Fairness ==
    /\ WF_vars(Write) /\ WF_vars(WriterEnds) /\ WF_vars(ReaderEnds)
    /\ WF_vars(stream = "finished" /\ StreamEnds)
    /\ WF_vars(TellState \/ TellTrack)
    /\ WF_vars(Closing)
    /\ WF_vars(PayTick) /\ WF_vars(PayWake) /\ WF_vars(PayTransfer) /\ WF_vars(PaySend)

FairSpec == Spec /\ Fairness
-----------------------------------------------------------------------------
\* The process keeps its types, and its channel its capacity.
CliTypeOK ==
    /\ nonces \subseteq {"nonce"}
    /\ outq \in Seq(Clear \cup Sealed) /\ Len(outq) <= Capacity
    /\ senders \subseteq Tasks
    /\ writer \in {None, "run", "done", "failed"}
    /\ reader \in {None, "run", "done", "failed"}
    /\ stream \in {None, "open", "finished", "lost"}
    /\ pay.remainder < Minute /\ pay.delta <= pay.owed
    /\ hist.late \in Nat /\ ending \in BOOLEAN

\* Nothing is dialled on a signed join link that expired, or ran too far into
\* the future, between its inspection and the consumption of its nonce.
DialsFreshLinks ==
    pc \notin {"start", "consume", "failed"} /\ args.link.form # None =>
        /\ validate_join_link_security(args.link)
        /\ args.link.version = 2 => "nonce" \in nonces

\* While the rate stays what it was when the loop last woke, the loop bills
\* every tick exactly once, to the remainder: none is lost to a slow or failed
\* transfer or to a full channel.
BillsAsMetered ==
    pay.at # "off" /\ ~hist.retro => hist.drift = pay.remainder + room.rate * pay.elapsed

\* What the payment loop has moved on the ledger and is about to declare.
InHand == IF pay.at = "send" /\ args.pay.config THEN pay.delta ELSE 0

\* What the ledger moved and what the hub was told, every Payment frame counted,
\* differ exactly by the payment the loop is about to declare, by what was moved
\* and declared under no transaction (its outcome or its frame was lost), and by
\* what was declared under none: the whole of an unsettled loop, and the /pay
\* whose transfer failed or that has no ledger.  A process with a ledger that
\* types no /pay declares nothing of that kind: however transfers fail, are
\* retried and overlap the channel, all that its hub is told was moved.
PaymentsBacked ==
    /\ hist.surplus = hist.lost + InHand - hist.unbacked
    /\ args.pay.config /\ "pay" \notin args.typed => hist.unbacked = 0

\* An anonymous process queues no frame that shows its identity or media in
\* the clear, in any of its interfaces.
AnonymousStaysSealed ==
    Anonymous => \A i \in DOMAIN outq : outq[i] \in Sealed

\* After the microphone is switched off, at most the packet the media sender
\* had already decided on is queued.
MutedSoon == hist.late <= 1

\* A process that ends in order has left the call on the ledger, unless it
\* ended the call there; an end that fails does not replace the leave.
LeftUnlessEnded ==
    pc = "done" /\ args.life.config => life.leave # "no" \/ life.end = "ok"

\* Once the user quits, the process ends: nothing it waits for waits for it,
\* as long as no timer still holds a sender of the channel.
QuitCompletes ==
    (pc = "closing" /\ senders \cap {"pay", "proof"} = {}) ~> ~Alive

\* The conference makes its last calls on the ledger however its stream ends.
ConferenceLeaves ==
    (pc = "closing" /\ Conference /\ args.life.config)
        ~> (life.leave # "no" \/ life.end = "ok")

\* A process that disconnects submits leave, or end, unless it fails.
LeavesOnDisconnect ==
    (pc = "closing" /\ args.life.config)
        ~> (life.leave # "no" \/ life.end = "ok" \/ pc = "failed")
=============================================================================
