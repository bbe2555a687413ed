----------------------------- MODULE Cli_proofs ------------------------------
(***************************************************************************)
(* The invariants of a `room-chat` process, proved for every command line, *)
(* every rate, every capacity of the channel and every bound.              *)
(***************************************************************************)
EXTENDS Cli, TLAPS

PayLoop == [at : {"off", "sleep", "transfer", "send"}, owed : Nat,
            remainder : Nat, elapsed : Nat, delta : Nat]
MediaSender == [at : {"off", "sleep", "video", "audio"}, mic : BOOLEAN,
                video : BOOLEAN]
Outcomes == {"no", "ok", "failed"}
Calls == [join : Outcomes, end : Outcomes, leave : Outcomes, usage : Outcomes,
          prepay : Outcomes, unshield : Outcomes]
History == [drift : Int, retro : BOOLEAN, surplus : Int, lost : Int,
            unbacked : Int, late : Nat]
RoomFields == {"rate", "host", "policy_epoch", "e2ee_epoch", "profile_epoch",
               "key_epoch", "peers", "group_epoch", "group_key", "mic",
               "camera", "share", "paused"}

Typed ==
    /\ args \in RoomChatArgs
    /\ outq \in Seq(Clear \cup Sealed)
    /\ DOMAIN room = RoomFields /\ room.rate \in Nat /\ room.mic \in BOOLEAN
    /\ pay \in PayLoop /\ pay.delta <= pay.owed /\ pay.remainder < Minute
    /\ media \in MediaSender
    /\ life \in Calls
    /\ hist \in History

\* The main task has not come to the payment loop yet.
BeforeRoom == {"start", "consume", "params", "dial", "open", "hello", "announce",
               "join", "billing", "prepay", "proof", "tasks"}

\* What the main task has not started yet, and what only a transparent
\* process ever reaches.
Staged ==
    /\ pc = "start" => writer = None /\ outq = << >> /\ hist.unbacked = 0
    /\ pc \in BeforeRoom => pay.at = "off"
    /\ pc \in {"billing", "state", "track"} => ~Anonymous
    /\ pay.at # "off" => ~Anonymous
    /\ pay.at = "transfer" => args.pay.config

\* BillsAsMetered starts from nothing.
Metered ==
    /\ BillsAsMetered
    /\ pay.at = "off" => hist.drift = 0

\* A late packet was sent with the microphone off, and the next look at the
\* controls finds it off.
Muted ==
    /\ hist.late <= 1
    /\ hist.late = 1 => /\ ~room.mic
                        /\ media.at \in {"video", "audio"} => ~media.mic

\* The calls are made before the process ends.
Left ==
    pc \in {"usage", "done"} /\ args.life.config
        => life.leave # "no" \/ life.end = "ok"

CliInv ==
    /\ Typed /\ Staged /\ AnonymousStaysSealed /\ DialsFreshLinks
    /\ Metered /\ PaymentsBacked /\ Muted /\ Left

LEMMA InitCli == Init => CliInv
<1> SUFFICES ASSUME Init PROVE CliInv
  OBVIOUS
<1>1. Typed
  <2>1. args \in RoomChatArgs
    BY CliAssumption DEF Init
  <2>2. outq \in Seq(Clear \cup Sealed)
    BY DEF Init
  <2>3. DOMAIN room = RoomFields /\ room.rate \in Nat /\ room.mic \in BOOLEAN
    BY DEF Init, NewRoom, RoomFields
  <2>4. pay \in PayLoop /\ pay.delta <= pay.owed /\ pay.remainder < Minute
    BY CliAssumption DEF Init, NoPay, PayLoop
  <2>5. media \in MediaSender /\ life \in Calls
    BY DEF Init, NoMedia, MediaSender, NoCalls, Calls, Outcomes
  <2>6. hist \in History
    BY DEF Init, NoHistory, History
  <2> QED
    BY <2>1, <2>2, <2>3, <2>4, <2>5, <2>6 DEF Typed
<1>2. Staged
  BY DEF Init, Staged, NoPay, NoHistory
<1>3. AnonymousStaysSealed
  BY DEF Init, AnonymousStaysSealed
<1>4. DialsFreshLinks
  BY DEF Init, DialsFreshLinks
<1>5. Metered /\ PaymentsBacked
  BY DEF Init, Metered, BillsAsMetered, PaymentsBacked, InHand, NoPay, NoHistory
<1>6. Muted /\ Left
  BY DEF Init, Muted, Left, NoHistory
<1> QED
  BY <1>1, <1>2, <1>3, <1>4, <1>5, <1>6 DEF CliInv
-----------------------------------------------------------------------------
\* The defaults of link and environment keep the arguments well formed and
\* leave the rate alone.
LEMMA DefaultsTyped ==
    ASSUME NEW a \in RoomChatArgs
    PROVE  WithDefaults(a) \in RoomChatArgs
<1> DEFINE PrivacyArgs == {None, "transparent", "zk", "zk_roster_v1", "other"}
           b == apply_room_chat_join_link_defaults(a)
           c == apply_room_chat_env_defaults(b)
<1>1. b \in RoomChatArgs
  <2>1. CASE a.link.form = None
    BY <2>1 DEF apply_room_chat_join_link_defaults
  <2>2. CASE a.link.form # None
    <3> DEFINE p == [a.pay EXCEPT !.to = a.pay.to \/ a.link.pay_to]
               l == [a.life EXCEPT !.domain = a.life.domain \/ a.link.domain,
                                   !.call = a.life.call \/ a.link.call]
               q == IF a.privacy = None THEN a.link.privacy ELSE a.privacy
    <3>1. p \in PayArgs
      BY DEF RoomChatArgs, PayArgs
    <3>2. l \in LifeArgs
      BY DEF RoomChatArgs, LifeArgs
    <3>3. q \in PrivacyArgs
      BY DEF RoomChatArgs, JoinLinks
    <3>4. b = [a EXCEPT !.route = TRUE, !.torii = a.torii \/ a.link.torii,
                        !.pay = p, !.life = l, !.privacy = q]
      BY <2>2 DEF apply_room_chat_join_link_defaults
    <3> HIDE DEF p, l, q
    <3> QED
      BY <3>1, <3>2, <3>3, <3>4 DEF RoomChatArgs
  <2> QED
    BY <2>1, <2>2
<1> HIDE DEF b
<1>2. c \in RoomChatArgs
  <2> DEFINE p == [b.pay EXCEPT !.config = b.pay.config \/ "pay_config" \in b.env,
                                !.to = b.pay.to \/ "pay_to" \in b.env]
             l == [b.life EXCEPT
                      !.config = b.life.config \/ "life_config" \in b.env,
                      !.domain = b.life.domain \/ "domain" \in b.env,
                      !.call = b.life.call \/ "call" \in b.env,
                      !.participant = b.life.participant \/ "participant" \in b.env]
             q == IF b.privacy = None /\ "privacy" \in b.env THEN "zk"
                  ELSE b.privacy
  <2>1. p \in PayArgs
    BY <1>1 DEF RoomChatArgs, PayArgs
  <2>2. l \in LifeArgs
    <3>1. b.life \in LifeArgs
      BY <1>1 DEF RoomChatArgs
    <3> QED
      BY <3>1 DEF LifeArgs
  <2>3. q \in PrivacyArgs
    BY <1>1 DEF RoomChatArgs
  <2>4. c = [b EXCEPT !.torii = b.torii \/ "torii" \in b.env,
                      !.pay = p, !.life = l, !.privacy = q]
    BY DEF apply_room_chat_env_defaults
  <2> HIDE DEF p, l, q
  <2> QED
    BY <1>1, <2>1, <2>2, <2>3, <2>4 DEF RoomChatArgs
<1> HIDE DEF c
<1>3. [c EXCEPT !.privacy = normalize_privacy_mode(c.privacy)] \in RoomChatArgs
  BY <1>2 DEF RoomChatArgs, normalize_privacy_mode
<1> QED
  BY <1>3 DEF WithDefaults, b, c

\* Time passes for the link, and for nothing else in the arguments.
LEMMA TickTyped ==
    ASSUME Typed, LinkTick
    PROVE  /\ args' \in RoomChatArgs
           /\ args'.privacy = args.privacy
           /\ args'.pay = args.pay /\ args'.life = args.life
           /\ args'.typed = args.typed
<1>1. args.link \in JoinLinks /\ args.link.left > 0
  BY DEF Typed, RoomChatArgs, LinkTick
<1> DEFINE l == [args.link EXCEPT !.left = args.link.left - 1]
<1>2. l \in JoinLinks
  BY <1>1 DEF JoinLinks
<1>3. args' = [args EXCEPT !.link = l]
  BY DEF LinkTick
<1> HIDE DEF l
<1> QED
  BY <1>2, <1>3 DEF Typed, RoomChatArgs

\* A frame more in the channel, or one fewer.
LEMMA QueueTyped ==
    ASSUME NEW S, NEW q \in Seq(S)
    PROVE  /\ \A f \in S : Append(q, f) \in Seq(S)
           /\ q # << >> => Tail(q) \in Seq(S)
           /\ << >> \in Seq(S)
OBVIOUS
-----------------------------------------------------------------------------
\* The start: only Preflight touches the arguments, and only the last steps
\* start a task.
LEMMA StartStep ==
    ASSUME CliInv, Start
    PROVE  CliInv'
<1> USE DEF CliInv
<1>a. pay' = pay \/ pay' = [NoPay EXCEPT !.at = "sleep"]
  BY DEF Start, Preflight, Consume, HandshakeParams, connect_and_handshake,
         open_kaigi_stream, Hello, Announce, JoinCall, StartBilling, Prepay,
         StartProofs, StartConference
<1>1. Typed'
  <2>1. (args \in RoomChatArgs)'
    BY DefaultsTyped
       DEF Typed, Start, Preflight, Consume, HandshakeParams,
           connect_and_handshake, open_kaigi_stream, Hello, Announce, JoinCall,
           StartBilling, Prepay, StartProofs, StartConference
  <2>2. (outq \in Seq(Clear \cup Sealed))'
    <3>1. \/ outq' = outq
          \/ \E f \in Clear \cup Sealed : outq' = Append(outq, f) \/ outq' = <<f>>
      BY DEF Start, Preflight, Consume, HandshakeParams, connect_and_handshake,
             open_kaigi_stream, Hello, Announce, JoinCall, StartBilling, Prepay,
             StartProofs, StartConference, Send, Clear, Sealed
    <3>2. outq \in Seq(Clear \cup Sealed)
      BY DEF Typed
    <3>3. ASSUME NEW f \in Clear \cup Sealed
          PROVE  Append(outq, f) \in Seq(Clear \cup Sealed)
                 /\ <<f>> \in Seq(Clear \cup Sealed)
      <4> HIDE DEF CliInv
      <4> QED
        BY <3>2
    <3> QED
      BY <3>1, <3>2, <3>3
  <2>3. (DOMAIN room = RoomFields /\ room.rate \in Nat /\ room.mic \in BOOLEAN)'
    <3>1. CASE Hello
      <4>1. args.pay.rate \in Nat
        BY DEF Typed, RoomChatArgs, PayArgs
      <4> QED
        BY <3>1, <4>1 DEF Hello, NewRoom, RoomFields
    <3>2. CASE ~Hello
      BY <3>2 DEF Typed, Start, Preflight, Consume, HandshakeParams,
                  connect_and_handshake, open_kaigi_stream, Announce, JoinCall,
                  StartBilling, Prepay, StartProofs, StartConference
    <3> QED
      BY <3>1, <3>2
  <2>4. (pay \in PayLoop /\ pay.delta <= pay.owed /\ pay.remainder < Minute)'
    BY <1>a, CliAssumption DEF Typed, NoPay, PayLoop
  <2>5. (media \in MediaSender)'
    BY DEF Typed, Start, Preflight, Consume, HandshakeParams,
           connect_and_handshake, open_kaigi_stream, Hello, Announce, JoinCall,
           StartBilling, Prepay, StartProofs, StartConference, NoMedia,
           MediaSender
  <2>7. (hist \in History)'
    BY DEF Typed, Start, Preflight, Consume, HandshakeParams,
           connect_and_handshake, open_kaigi_stream, Hello, Announce, JoinCall,
           StartBilling, Prepay, StartProofs, StartConference
  <2>6. (life \in Calls)'
    BY DEF Typed, Start, Preflight, Consume, HandshakeParams,
           connect_and_handshake, open_kaigi_stream, Hello, Announce, JoinCall,
           StartBilling, Prepay, StartProofs, StartConference, Calls, Outcomes
  <2> QED
    BY <2>1, <2>2, <2>3, <2>4, <2>5, <2>6, <2>7 DEF Typed
<1>2. Staged'
  BY DEF Typed, Staged, BeforeRoom, PayLoop, Start, Preflight, Consume,
         HandshakeParams, connect_and_handshake, open_kaigi_stream, Hello,
         Announce, JoinCall, StartBilling, Prepay, StartProofs,
         StartConference, NoPay, Send, Ready, Proceed, Anonymous, Conference,
         None
<1>3. AnonymousStaysSealed'
  BY DEF Typed, Staged, AnonymousStaysSealed, Sealed, Clear, Start, Preflight,
         Consume, HandshakeParams, connect_and_handshake, open_kaigi_stream,
         Hello, Announce, JoinCall, StartBilling, Prepay, StartProofs,
         StartConference, Send, Ready, Proceed, Anonymous, Conference
<1>4. DialsFreshLinks'
  BY DEF Typed, DialsFreshLinks, parse_join_link_for_inspection,
         validate_join_link_security, Start, Preflight, Consume,
         HandshakeParams, connect_and_handshake, open_kaigi_stream, Hello,
         Announce, JoinCall, StartBilling, Prepay, StartProofs,
         StartConference, Proceed, None
<1>5. pay.at = "off" /\ hist' = hist
  BY DEF Staged, BeforeRoom, Start, Preflight, Consume, HandshakeParams,
         connect_and_handshake, open_kaigi_stream, Hello, Announce, JoinCall,
         StartBilling, Prepay, StartProofs, StartConference
<1>7. Metered'
  <2>1. hist.drift = 0 /\ room'.rate \in Nat
    BY <1>1, <1>5 DEF Metered, Typed
  <2>2. CASE pay' = pay
    BY <1>5, <2>1, <2>2 DEF Metered, BillsAsMetered
  <2>3. CASE pay' = [NoPay EXCEPT !.at = "sleep"]
    BY <1>5, <2>1, <2>3 DEF Metered, BillsAsMetered, NoPay
  <2> QED
    BY <1>a, <2>2, <2>3
<1>8. PaymentsBacked'
  <2>1. pay'.at # "send"
    BY <1>5, <1>a DEF NoPay
  <2>2. args' = args \/ hist.unbacked = 0
    BY DEF Staged, Start, Preflight, Consume, HandshakeParams,
           connect_and_handshake, open_kaigi_stream, Hello, Announce, JoinCall,
           StartBilling, Prepay, StartProofs, StartConference
  <2> QED
    BY <1>5, <2>1, <2>2 DEF PaymentsBacked, InHand
<1>9. Muted'
  <2>1. \/ media' = media
        \/ media' = [NoMedia EXCEPT !.at = "sleep"]
    BY DEF Start, Preflight, Consume, HandshakeParams, connect_and_handshake,
           open_kaigi_stream, Hello, Announce, JoinCall, StartBilling, Prepay,
           StartProofs, StartConference
  <2>2. room' = room \/ room'.mic = FALSE
    BY DEF Start, Preflight, Consume, HandshakeParams, connect_and_handshake,
           open_kaigi_stream, Hello, NewRoom, Announce, JoinCall,
           StartBilling, Prepay, StartProofs, StartConference
  <2> QED
    BY <1>5, <2>1, <2>2 DEF Muted, NoMedia
<1>10. Left'
  BY DEF Left, Start, Preflight, Consume, HandshakeParams,
         connect_and_handshake, open_kaigi_stream, Hello, Announce, JoinCall,
         StartBilling, Prepay, StartProofs, StartConference, Proceed
<1> QED
  BY <1>1, <1>2, <1>3, <1>4, <1>7, <1>8, <1>9, <1>10
-----------------------------------------------------------------------------
\* Time passes for the link: what has been dialled is not touched.
LEMMA LinkTickStep ==
    ASSUME CliInv, LinkTick
    PROVE  CliInv'
<1> USE DEF CliInv
<1>1. /\ args' \in RoomChatArgs /\ args'.privacy = args.privacy
      /\ args'.pay = args.pay /\ args'.life = args.life
      /\ args'.typed = args.typed
  BY TickTyped
<1>2. /\ pc' = pc /\ outq' = outq /\ writer' = writer /\ room' = room
      /\ pay' = pay /\ media' = media /\ life' = life /\ hist' = hist
      /\ pc \in {"start", "consume"}
  BY DEF LinkTick
<1>3. Typed'
  BY <1>1, <1>2 DEF Typed
<1>4. Staged'
  BY <1>1, <1>2 DEF Staged, Anonymous
<1>5. AnonymousStaysSealed'
  BY <1>1, <1>2 DEF AnonymousStaysSealed, Anonymous
<1>6. DialsFreshLinks'
  BY <1>2 DEF DialsFreshLinks
<1>7. Metered' /\ PaymentsBacked' /\ Muted' /\ Left'
  BY <1>1, <1>2 DEF Metered, BillsAsMetered, PaymentsBacked, InHand, Muted, Left
<1> QED
  BY <1>3, <1>4, <1>5, <1>6, <1>7

\* What the payment loop's own steps leave alone.
PayStep == PayTick \/ PayWake \/ PayTransfer \/ PaySend

LEMMA PayFrame ==
    ASSUME CliInv, PayStep
    PROVE  /\ UNCHANGED <<args, pc, nonces, writer, room, media, life>>
           /\ pay.at # "off" /\ ~Anonymous /\ pc \notin BeforeRoom
           /\ hist'.late = hist.late
           /\ outq' = outq \/ outq' = Append(outq, "Payment")
<1>1. /\ UNCHANGED <<args, pc, nonces, writer, room, media, life>>
      /\ outq' = outq \/ outq' = Append(outq, "Payment")
  BY DEF PayStep, PayTick, PayWake, PayTransfer, PaySend, Send
<1>2. pay.at # "off"
  BY DEF PayStep, PayTick, PayWake, PayTransfer, PaySend
<1>3. ~Anonymous /\ pc \notin BeforeRoom
  BY <1>2 DEF CliInv, Staged
<1>4. hist'.late = hist.late
  <2>1. hist \in History
    BY DEF CliInv, Typed
  <2> QED
    BY <2>1 DEF PayStep, PayTick, PayWake, PayTransfer, PaySend, History
<1> QED
  BY <1>1, <1>2, <1>3, <1>4

\* What is left to show of a step of the payment loop.
LEMMA PayRest ==
    ASSUME CliInv, PayStep,
           (pay \in PayLoop /\ pay.delta <= pay.owed /\ pay.remainder < Minute)',
           hist' \in History, Metered', PaymentsBacked',
           pay'.at = "transfer" => args.pay.config
    PROVE  CliInv'
<1> USE DEF CliInv
<1>1. /\ UNCHANGED <<args, pc, nonces, writer, room, media, life>>
      /\ pay.at # "off" /\ ~Anonymous /\ pc \notin BeforeRoom
      /\ hist'.late = hist.late
      /\ outq' = outq \/ outq' = Append(outq, "Payment")
  BY PayFrame
<1>2. Typed'
  <2>1. outq' \in Seq(Clear \cup Sealed)
    <3>1. outq \in Seq(Clear \cup Sealed) /\ "Payment" \in Clear \cup Sealed
      BY DEF Typed, Clear
    <3>2. Append(outq, "Payment") \in Seq(Clear \cup Sealed)
      BY <3>1, QueueTyped
    <3> QED
      BY <1>1, <3>1, <3>2
  <2> QED
    BY <1>1, <2>1 DEF Typed
<1>3. Staged'
  BY <1>1 DEF Staged, BeforeRoom, Anonymous
<1>4. AnonymousStaysSealed' /\ DialsFreshLinks'
  BY <1>1 DEF AnonymousStaysSealed, Anonymous, DialsFreshLinks
<1>5. Muted' /\ Left'
  BY <1>1 DEF Muted, Left
<1> QED
  BY <1>2, <1>3, <1>4, <1>5

LEMMA PayTickStep ==
    ASSUME CliInv, PayTick
    PROVE  CliInv'
<1> USE DEF CliInv
<1>1. /\ pay \in PayLoop /\ pay.delta <= pay.owed /\ pay.remainder < Minute
      /\ hist \in History /\ room.rate \in Nat
  BY DEF Typed
<1>2. /\ pay' = [pay EXCEPT !.elapsed = pay.elapsed + 1]
      /\ hist' = IF hist.retro THEN hist
                 ELSE [hist EXCEPT !.drift = hist.drift + room.rate]
      /\ room' = room /\ args' = args /\ pay.at # "off"
  BY DEF PayTick
<1>3. (pay \in PayLoop /\ pay.delta <= pay.owed /\ pay.remainder < Minute)'
  BY <1>1, <1>2 DEF PayLoop
<1>4. /\ hist' \in History /\ hist'.surplus = hist.surplus
      /\ hist'.lost = hist.lost /\ hist'.unbacked = hist.unbacked
  BY <1>1, <1>2 DEF History
<1>5. /\ pay'.at = pay.at /\ pay'.delta = pay.delta
      /\ pay'.remainder = pay.remainder /\ pay'.elapsed = pay.elapsed + 1
  BY <1>1, <1>2 DEF PayLoop
<1>6. Metered'
  <2>1. CASE hist.retro
    BY <1>2, <1>5, <2>1 DEF Metered, BillsAsMetered
  <2>2. CASE ~hist.retro
    <3>1. hist'.drift = hist.drift + room.rate
      BY <1>1, <1>2, <2>2 DEF History
    <3>2. hist.drift = pay.remainder + room.rate * pay.elapsed
      BY <1>2, <2>2 DEF Metered, BillsAsMetered
    <3>3. room.rate * (pay.elapsed + 1) = room.rate * pay.elapsed + room.rate
      BY <1>1, SMT DEF PayLoop
    <3>4. hist'.drift = pay.remainder + room.rate * (pay.elapsed + 1)
      BY <1>1, <3>1, <3>2, <3>3 DEF PayLoop
    <3> QED
      BY <1>2, <1>5, <3>4 DEF Metered, BillsAsMetered
  <2> QED
    BY <2>1, <2>2
<1>7. PaymentsBacked'
  BY <1>2, <1>4, <1>5 DEF PaymentsBacked, InHand
<1>8. pay'.at = "transfer" => args.pay.config
  BY <1>5 DEF Staged
<1> QED
  BY <1>3, <1>4, <1>6, <1>7, <1>8, PayRest DEF PayStep

\* What a division leaves.
LEMMA DivMod ==
    ASSUME NEW n \in Nat, NEW m \in Nat, m > 0
    PROVE  /\ n \div m \in Nat /\ n % m \in 0 .. (m - 1)
           /\ n = (n \div m) * m + (n % m)
<1>1. n \div m \in Int /\ n \div m >= 0
  OBVIOUS
<1>2. n % m \in 0 .. (m - 1)
  OBVIOUS
<1>3. n = (n \div m) * m + (n % m)
  OBVIOUS
<1> QED
  BY <1>1, <1>2, <1>3

LEMMA PayWakeStep ==
    ASSUME CliInv, PayWake
    PROVE  CliInv'
<1> USE DEF CliInv
<1> DEFINE n == room.rate * pay.elapsed + pay.remainder
           owed == pay.owed + Billed.delta
<1>1. /\ pay \in PayLoop /\ hist \in History /\ room.rate \in Nat
      /\ pay.owed \in Nat /\ pay.elapsed \in Nat /\ pay.remainder \in Nat
  BY DEF Typed, PayLoop
<1>2. n \in Nat
  BY <1>1
<1>3. /\ Billed.delta = n \div Minute /\ Billed.remainder = n % Minute
      /\ Billed.delta \in Nat /\ Billed.remainder \in 0 .. (Minute - 1)
      /\ n = Billed.delta * Minute + Billed.remainder
  <2>1. Billed.delta = n \div Minute /\ Billed.remainder = n % Minute
    BY DEF Billed
  <2> HIDE DEF n
  <2> QED
    BY <1>2, <2>1, DivMod, CliAssumption
<1>4. owed \in Nat
  BY <1>1, <1>3
<1>5. pay' = [at |-> IF owed = 0 THEN "sleep"
                     ELSE IF args.pay.config THEN "transfer" ELSE "send",
              owed |-> owed, remainder |-> Billed.remainder, elapsed |-> 0,
              delta |-> IF owed > MaxAmount THEN MaxAmount ELSE owed]
  BY DEF PayWake
<1>6. /\ hist' = IF hist.retro THEN hist
                 ELSE [hist EXCEPT !.drift = hist.drift - Billed.delta * Minute]
      /\ room' = room /\ args' = args /\ pay.at = "sleep"
  BY DEF PayWake
<1> HIDE DEF owed, n
<1>7. (pay \in PayLoop /\ pay.delta <= pay.owed /\ pay.remainder < Minute)'
  BY <1>3, <1>4, <1>5, CliAssumption DEF PayLoop
<1>8. /\ hist' \in History /\ hist'.surplus = hist.surplus
      /\ hist'.lost = hist.lost /\ hist'.unbacked = hist.unbacked
  <2>1. hist.drift - Billed.delta * Minute \in Int
    BY <1>1, <1>3, CliAssumption DEF History
  <2> QED
    BY <1>1, <1>6, <2>1 DEF History
<1>9. Metered'
  <2>1. CASE hist.retro
    BY <1>5, <1>6, <2>1 DEF Metered, BillsAsMetered
  <2>2. CASE ~hist.retro
    <3>1. hist.drift = n
      BY <1>1, <1>6, <2>2 DEF Metered, BillsAsMetered, n
    <3>2. hist'.drift = n - Billed.delta * Minute
      BY <1>1, <1>6, <2>2, <3>1 DEF History
    <3>3. Billed.delta * Minute \in Int
      BY <1>3, CliAssumption
    <3>4. hist'.drift = Billed.remainder
      <4> DEFINE k == Billed.delta * Minute
                 r == Billed.remainder
      <4>0. Billed.remainder \in Int
        BY <1>3, CliAssumption
      <4>1. n = k + r /\ k \in Int /\ r \in Int /\ hist'.drift = n - k
        BY <1>3, <3>2, <3>3, <4>0
      <4> HIDE DEF k, r
      <4>2. n - k = r
        BY <4>1
      <4> QED
        BY <4>1, <4>2 DEF r
    <3>5. Billed.remainder + room.rate * 0 = Billed.remainder
      BY <1>1, <1>3
    <3> QED
      BY <1>5, <1>6, <3>4, <3>5 DEF Metered, BillsAsMetered
  <2> QED
    BY <2>1, <2>2
<1>10. pay'.at = "transfer" => args.pay.config
  BY <1>5
<1>11. PaymentsBacked'
  <2>1. ~(pay'.at = "send" /\ args.pay.config)
    BY <1>5
  <2>2. InHand = 0 /\ InHand' = 0
    BY <1>6, <2>1 DEF InHand
  <2> QED
    BY <1>6, <1>8, <2>2 DEF PaymentsBacked
<1> QED
  BY <1>7, <1>8, <1>9, <1>10, <1>11, PayRest DEF PayStep

LEMMA PayTransferStep ==
    ASSUME CliInv, PayTransfer
    PROVE  CliInv'
<1>1. /\ pay \in PayLoop /\ pay.delta <= pay.owed /\ pay.remainder < Minute
      /\ hist \in History /\ pay.at = "transfer" /\ args.pay.config
  BY DEF CliInv, Typed, PayTransfer, Staged
<1>2. /\ pay.delta \in Nat /\ hist.surplus \in Int /\ hist.lost \in Int
      /\ hist.unbacked \in Int
  BY <1>1 DEF PayLoop, History
<1>3. room' = room /\ args' = args
  BY DEF PayTransfer
<1>4. /\ hist.surplus = hist.lost - hist.unbacked
      /\ "pay" \notin args.typed => hist.unbacked = 0
  BY <1>1, <1>2 DEF CliInv, PaymentsBacked, InHand
<1>5. Metered
  BY DEF CliInv
<1>6. CASE /\ pay' = [pay EXCEPT !.at = "send"]
           /\ hist' = [hist EXCEPT !.surplus = hist.surplus + pay.delta]
  <2>1. (pay \in PayLoop /\ pay.delta <= pay.owed /\ pay.remainder < Minute)'
    BY <1>1, <1>6 DEF PayLoop
  <2>2. hist' \in History
    BY <1>1, <1>2, <1>6 DEF History
  <2>3. Metered'
    BY <1>1, <1>3, <1>5, <1>6 DEF Metered, BillsAsMetered, PayLoop, History
  <2>4. PaymentsBacked'
    <3>1. InHand' = pay.delta
      BY <1>1, <1>3, <1>6 DEF InHand, PayLoop
    <3>2. /\ hist'.surplus = hist.surplus + pay.delta /\ hist'.lost = hist.lost
          /\ hist'.unbacked = hist.unbacked
      BY <1>1, <1>6 DEF History
    <3> QED
      BY <1>2, <1>3, <1>4, <3>1, <3>2 DEF PaymentsBacked
  <2> QED
    BY <1>1, <2>1, <2>2, <2>3, <2>4, PayRest DEF PayStep
<1>7. CASE /\ pay' = [pay EXCEPT !.at = "sleep", !.delta = 0]
           /\ \/ hist' = hist
              \/ hist' = [hist EXCEPT !.surplus = hist.surplus + pay.delta,
                                      !.lost = hist.lost + pay.delta]
  <2>1. (pay \in PayLoop /\ pay.delta <= pay.owed /\ pay.remainder < Minute)'
    <3>1. pay' \in PayLoop
      BY <1>1, <1>7 DEF PayLoop
    <3>2. pay'.delta = 0 /\ pay'.owed = pay.owed /\ pay'.remainder = pay.remainder
      BY <1>1, <1>7 DEF PayLoop
    <3> QED
      BY <1>1, <3>1, <3>2 DEF PayLoop
  <2>2. /\ hist' \in History /\ hist'.surplus = hist'.lost - hist'.unbacked
        /\ hist'.drift = hist.drift /\ hist'.retro = hist.retro
        /\ hist'.unbacked = hist.unbacked
    <3>1. CASE hist' = hist
      BY <1>1, <1>4, <3>1
    <3>2. CASE hist' = [hist EXCEPT !.surplus = hist.surplus + pay.delta,
                                    !.lost = hist.lost + pay.delta]
      <4>1. hist.surplus + pay.delta \in Int /\ hist.lost + pay.delta \in Int
        BY <1>2
      <4>2. /\ hist' \in History /\ hist'.surplus = hist.surplus + pay.delta
            /\ hist'.lost = hist.lost + pay.delta
            /\ hist'.unbacked = hist.unbacked
            /\ hist'.drift = hist.drift /\ hist'.retro = hist.retro
        BY <1>1, <3>2, <4>1 DEF History
      <4> QED
        BY <1>2, <1>4, <4>2
    <3> QED
      BY <1>7, <3>1, <3>2
  <2>3. Metered'
    BY <1>1, <1>3, <1>5, <1>7, <2>2 DEF Metered, BillsAsMetered, PayLoop
  <2>4. PaymentsBacked'
    <3>1. InHand' = 0
      BY <1>1, <1>7 DEF InHand, PayLoop
    <3>2. hist'.lost \in Int /\ hist'.unbacked \in Int
      BY <2>2 DEF History
    <3> QED
      BY <1>3, <1>4, <2>2, <3>1, <3>2 DEF PaymentsBacked
  <2> QED
    BY <1>1, <2>1, <2>2, <2>3, <2>4, PayRest DEF PayStep
<1> QED
  BY <1>6, <1>7 DEF PayTransfer

LEMMA PaySendStep ==
    ASSUME CliInv, PaySend
    PROVE  CliInv'
<1> DEFINE bare == IF args.pay.config THEN 0 ELSE pay.delta
<1>1. /\ pay \in PayLoop /\ pay.delta <= pay.owed /\ pay.remainder < Minute
      /\ hist \in History /\ pay.at = "send"
  BY DEF CliInv, Typed, PaySend
<1>2. /\ pay.delta \in Nat /\ pay.owed \in Nat /\ bare \in Nat
      /\ hist.surplus \in Int /\ hist.lost \in Int /\ hist.unbacked \in Int
  BY <1>1 DEF PayLoop, History
<1>3. room' = room /\ args' = args
  BY DEF PaySend
<1>4. /\ hist.surplus = hist.lost + pay.delta - bare - hist.unbacked
      /\ args.pay.config => bare = 0
      /\ args.pay.config /\ "pay" \notin args.typed => hist.unbacked = 0
  BY <1>1, <1>2 DEF CliInv, PaymentsBacked, InHand
<1>5. Metered
  BY DEF CliInv
<1>6. \/ /\ pay' = [pay EXCEPT !.at = "sleep", !.delta = 0,
                               !.owed = pay.owed - pay.delta]
         /\ hist' = [hist EXCEPT !.surplus = hist.surplus - pay.delta,
                                 !.unbacked = hist.unbacked + bare]
      \/ /\ pay' = NoPay
         /\ hist' = [hist EXCEPT !.lost = hist.lost + pay.delta - bare,
                                 !.drift = 0]
  BY DEF PaySend
<1> HIDE DEF bare
<1>7. CASE /\ pay' = [pay EXCEPT !.at = "sleep", !.delta = 0,
                                 !.owed = pay.owed - pay.delta]
           /\ hist' = [hist EXCEPT !.surplus = hist.surplus - pay.delta,
                                   !.unbacked = hist.unbacked + bare]
  <2>1. (pay \in PayLoop /\ pay.delta <= pay.owed /\ pay.remainder < Minute)'
    <3>1. pay.owed - pay.delta \in Nat
      BY <1>1, <1>2
    <3>2. pay' \in PayLoop
      BY <1>1, <1>7, <3>1 DEF PayLoop
    <3>3. /\ pay'.delta = 0 /\ pay'.owed = pay.owed - pay.delta
          /\ pay'.remainder = pay.remainder
      BY <1>1, <1>7 DEF PayLoop
    <3> QED
      BY <1>1, <3>1, <3>2, <3>3
  <2>2. /\ hist' \in History /\ hist'.surplus = hist.surplus - pay.delta
        /\ hist'.unbacked = hist.unbacked + bare /\ hist'.lost = hist.lost
        /\ hist'.drift = hist.drift /\ hist'.retro = hist.retro
    <3> DEFINE surplus == hist.surplus - pay.delta
               unbacked == hist.unbacked + bare
    <3>1. surplus \in Int /\ unbacked \in Int
      BY <1>2
    <3>2. hist' = [hist EXCEPT !.surplus = surplus, !.unbacked = unbacked]
      BY <1>7
    <3> HIDE DEF surplus, unbacked
    <3>3. hist' = [drift |-> hist.drift, retro |-> hist.retro,
                   surplus |-> surplus, lost |-> hist.lost,
                   unbacked |-> unbacked, late |-> hist.late]
      BY <1>1, <3>2 DEF History
    <3>4. hist' \in History
      BY <1>1, <3>1, <3>3 DEF History
    <3> QED
      BY <3>3, <3>4 DEF surplus, unbacked
  <2>3. Metered'
    <3>1. /\ pay'.at = "sleep" /\ pay'.remainder = pay.remainder
          /\ pay'.elapsed = pay.elapsed
      BY <1>1, <1>7 DEF PayLoop
    <3> QED
      BY <1>1, <1>3, <1>5, <2>2, <3>1 DEF Metered, BillsAsMetered
  <2>4. PaymentsBacked'
    <3>1. InHand' = 0
      BY <1>1, <1>7 DEF InHand, PayLoop
    <3>2. hist'.surplus = hist'.lost - hist'.unbacked
      BY <1>2, <1>4, <2>2
    <3>3. hist'.lost \in Int /\ hist'.unbacked \in Int
      BY <2>2 DEF History
    <3>4. args'.pay.config /\ "pay" \notin args'.typed => hist'.unbacked = 0
      BY <1>3, <1>4, <2>2
    <3> QED
      BY <3>1, <3>2, <3>3, <3>4 DEF PaymentsBacked
  <2>5. pay'.at # "transfer"
    BY <1>1, <1>7 DEF PayLoop
  <2> QED
    BY <2>1, <2>2, <2>3, <2>4, <2>5, PayRest DEF PayStep
<1>8. CASE /\ pay' = NoPay
           /\ hist' = [hist EXCEPT !.lost = hist.lost + pay.delta - bare,
                                   !.drift = 0]
  <2>1. (pay \in PayLoop /\ pay.delta <= pay.owed /\ pay.remainder < Minute)'
    BY <1>8, CliAssumption DEF PayLoop, NoPay
  <2>2. /\ hist' \in History /\ hist'.drift = 0
        /\ hist'.surplus = hist'.lost - hist'.unbacked
        /\ hist'.unbacked = hist.unbacked
    <3> DEFINE sum == hist.lost + pay.delta - bare
    <3>1. /\ sum \in Int /\ hist.surplus = sum - hist.unbacked
          /\ hist' = [hist EXCEPT !.lost = sum, !.drift = 0]
      BY <1>2, <1>4, <1>8
    <3> HIDE DEF sum
    <3>2. hist' = [drift |-> 0, retro |-> hist.retro, surplus |-> hist.surplus,
                   lost |-> sum, unbacked |-> hist.unbacked,
                   late |-> hist.late]
      BY <1>1, <3>1 DEF History
    <3>3. hist' \in History
      BY <1>1, <3>1, <3>2 DEF History
    <3> QED
      BY <3>1, <3>2, <3>3
  <2>3. Metered'
    BY <1>8, <2>2 DEF Metered, BillsAsMetered, NoPay
  <2>4. PaymentsBacked'
    <3>1. InHand' = 0
      BY <1>8 DEF InHand, NoPay
    <3>2. hist'.lost \in Int /\ hist'.unbacked \in Int
      BY <2>2 DEF History
    <3> QED
      BY <1>3, <1>4, <2>2, <3>1, <3>2 DEF PaymentsBacked
  <2> QED
    BY <1>8, <2>1, <2>2, <2>3, <2>4, PayRest DEF PayStep, NoPay
<1> QED
  BY <1>6, <1>7, <1>8
-----------------------------------------------------------------------------
\* The hub announces a rate: BillsAsMetered survives because a change of rate
\* with unbilled time behind it is marked as such.
LEMMA ReadRoomConfigStep ==
    ASSUME CliInv, NEW rate \in Rates, NEW host, ReadRoomConfig(rate, host)
    PROVE  CliInv'
<1> DEFINE new == IF is_pay_auto_enabled /\ args.pay.rate = 0 THEN rate
                  ELSE room.rate
           retro == hist.retro \/ (new # room.rate /\ pay.elapsed > 0)
           drift == IF retro THEN 0 ELSE hist.drift
<1>1. /\ room' = [room EXCEPT !.rate = new, !.host = host]
      /\ hist' = [hist EXCEPT !.retro = retro, !.drift = drift]
      /\ UNCHANGED <<args, pc, nonces, outq, writer, pay, media, life>>
  BY DEF ReadRoomConfig
<1>2. /\ room.rate \in Nat /\ hist \in History /\ pay \in PayLoop
      /\ DOMAIN room = RoomFields /\ room.mic \in BOOLEAN
  BY DEF CliInv, Typed
<1>3. new \in Nat /\ retro \in BOOLEAN /\ drift \in Int
  BY <1>2, CliAssumption DEF History
<1>4. ~retro => hist.retro = FALSE /\ drift = hist.drift
                /\ (new = room.rate \/ pay.elapsed = 0)
  BY <1>2 DEF History, PayLoop
<1>4a. retro => drift = 0
  OBVIOUS
<1> HIDE DEF new, retro, drift
<1>5. /\ DOMAIN room' = RoomFields /\ room'.rate = new /\ room'.mic = room.mic
  BY <1>1, <1>2 DEF RoomFields
<1>6. /\ hist' \in History /\ hist'.retro = retro /\ hist'.drift = drift
      /\ hist'.surplus = hist.surplus /\ hist'.lost = hist.lost
      /\ hist'.unbacked = hist.unbacked /\ hist'.late = hist.late
  BY <1>1, <1>2, <1>3 DEF History
<1>7. Typed'
  BY <1>1, <1>2, <1>3, <1>5, <1>6 DEF CliInv, Typed
<1>8. Metered'
  <2>1. CASE retro
    BY <1>1, <1>4a, <1>6, <2>1 DEF Metered, BillsAsMetered
  <2>2. CASE ~retro
    <3>1. drift = hist.drift /\ ~hist.retro
      BY <1>4, <2>2
    <3>2. new * pay.elapsed = room.rate * pay.elapsed
      <4>1. pay.elapsed = 0 => new * 0 = 0 /\ room.rate * 0 = 0
        BY <1>2, <1>3
      <4> QED
        BY <1>4, <2>2, <4>1
    <3> QED
      BY <1>1, <1>5, <1>6, <3>1, <3>2 DEF CliInv, Metered, BillsAsMetered
  <2> QED
    BY <2>1, <2>2
<1>9. Staged' /\ AnonymousStaysSealed' /\ DialsFreshLinks' /\ Left'
  BY <1>1, <1>6 DEF CliInv, Staged, AnonymousStaysSealed, Anonymous, DialsFreshLinks,
              Left
<1>10. PaymentsBacked' /\ Muted'
  BY <1>1, <1>5, <1>6 DEF CliInv, PaymentsBacked, InHand, Muted
<1> QED
  BY <1>7, <1>8, <1>9, <1>10 DEF CliInv

\* A step that neither pays, nor records anything, nor sends in the clear.
Quiet ==
    /\ UNCHANGED <<args, pc, nonces, pay, media, life, hist>>
    /\ outq' \in Seq(Clear \cup Sealed)
    /\ outq' = outq \/ pc # "start"
    /\ writer' = writer \/ pc # "start"
    /\ (\A i \in DOMAIN outq : outq[i] \in Sealed)
           => (\A i \in DOMAIN outq' : outq'[i] \in Sealed)
    /\ DOMAIN room' = RoomFields /\ room'.rate = room.rate /\ room'.mic = room.mic

LEMMA QuietStep ==
    ASSUME CliInv, Quiet
    PROVE  CliInv'
<1>1. Typed'
  BY DEF CliInv, Typed, Quiet
<1>2. Staged'
  BY DEF CliInv, Staged, Quiet, Anonymous
<1>3. AnonymousStaysSealed' /\ DialsFreshLinks'
  BY DEF CliInv, AnonymousStaysSealed, DialsFreshLinks, Quiet, Anonymous
<1>4. Metered' /\ PaymentsBacked' /\ Muted' /\ Left'
  BY DEF CliInv, Metered, BillsAsMetered, PaymentsBacked, InHand, Muted, Left,
         Quiet
<1> QED
  BY <1>1, <1>2, <1>3, <1>4 DEF CliInv

\* The channel keeps its frames when one is written, and is as sealed as the
\* frame it gets.
LEMMA QueueSealed ==
    ASSUME NEW q \in Seq(Clear \cup Sealed)
    PROVE  /\ q # << >> => Tail(q) \in Seq(Clear \cup Sealed)
           /\ q # << >> /\ (\A i \in DOMAIN q : q[i] \in Sealed)
                => \A i \in DOMAIN Tail(q) : Tail(q)[i] \in Sealed
           /\ \A f \in Clear \cup Sealed : Append(q, f) \in Seq(Clear \cup Sealed)
           /\ \A f \in Sealed :
                 (\A i \in DOMAIN q : q[i] \in Sealed)
                     => \A i \in DOMAIN Append(q, f) : Append(q, f)[i] \in Sealed
<1>1. q # << >> => Tail(q) \in Seq(Clear \cup Sealed)
  OBVIOUS
<1>2. ASSUME q # << >>, \A i \in DOMAIN q : q[i] \in Sealed
      PROVE  \A i \in DOMAIN Tail(q) : Tail(q)[i] \in Sealed
  BY <1>2
<1>3. \A f \in Clear \cup Sealed : Append(q, f) \in Seq(Clear \cup Sealed)
  OBVIOUS
<1>4. ASSUME NEW f \in Sealed, \A i \in DOMAIN q : q[i] \in Sealed
      PROVE  \A i \in DOMAIN Append(q, f) : Append(q, f)[i] \in Sealed
  BY <1>4
<1> QED
  BY <1>1, <1>2, <1>3, <1>4

LEMMA ChannelStep ==
    ASSUME CliInv,
           \/ StreamEnds \/ Write \/ WriterEnds \/ ReaderEnds \/ ReadFails
           \/ ProofBeat \/ PingBeat
    PROVE  CliInv'
<1>1. /\ UNCHANGED <<args, pc, nonces, room, pay, media, life, hist>>
      /\ \/ outq' = outq
         \/ outq # << >> /\ outq' = Tail(outq)
         \/ outq' = << >>
         \/ outq' = Append(outq, "EscrowProof")
         \/ outq' = Append(outq, "Ping")
  BY DEF StreamEnds, Write, WriterEnds, ReaderEnds, ReadFails, Hearing, Reading,
         ProofBeat, PingBeat, Beat, Send
<1>2. outq \in Seq(Clear \cup Sealed) /\ DOMAIN room = RoomFields
  BY DEF CliInv, Typed
<1>3. "EscrowProof" \in Sealed /\ "Ping" \in Sealed
  BY DEF Sealed
<1>4. /\ outq' \in Seq(Clear \cup Sealed)
      /\ (\A i \in DOMAIN outq : outq[i] \in Sealed)
             => (\A i \in DOMAIN outq' : outq'[i] \in Sealed)
  <2> HIDE DEF Sealed
  <2>1. CASE outq' = << >>
    BY <2>1
  <2>2. CASE outq' # << >>
    BY <1>1, <1>2, <1>3, <2>2, QueueSealed
  <2> QED
    BY <2>1, <2>2
<1>5. /\ writer' = writer \/ writer = "run"
      /\ outq' = outq \/ writer = "run"
  BY DEF StreamEnds, Write, WriterEnds, ReaderEnds, ReadFails, ProofBeat,
         PingBeat, Beat, Send, Ready
<1>6. pc = "start" => writer # "run"
  BY DEF CliInv, Staged, None
<1>7. Quiet
  BY <1>1, <1>2, <1>4, <1>5, <1>6 DEF Quiet
<1> QED
  BY <1>7, QuietStep

LEMMA ReadStep ==
    ASSUME CliInv,
           \/ \E epoch : ReadSessionPolicy(epoch) \/ ReadGroupKey(epoch)
           \/ \E peers : ReadRoster(peers)
    PROVE  CliInv'
<1>1. outq \in Seq(Clear \cup Sealed) /\ DOMAIN room = RoomFields
  BY DEF CliInv, Typed
<1>2. /\ UNCHANGED <<args, pc, nonces, outq, writer, pay, media, life, hist>>
      /\ DOMAIN room' = RoomFields /\ room'.rate = room.rate
      /\ room'.mic = room.mic
  BY <1>1 DEF ReadSessionPolicy, ReadGroupKey, ReadRoster, RoomFields
<1>3. Quiet
  BY <1>1, <1>2 DEF Quiet
<1> QED
  BY <1>3, QuietStep
-----------------------------------------------------------------------------
\* The media sender: a packet is late when the microphone was switched off
\* after the sender looked; the next look forgets the old controls.
LEMMA MediaStep ==
    ASSUME CliInv, MediaWake \/ MediaVideo \/ MediaAudio
    PROVE  CliInv'
<1>1. /\ UNCHANGED <<args, pc, nonces, writer, room, pay, life>>
      /\ \/ outq' = outq
         \/ /\ writer = "run"
            /\ \E f \in {"Video", "Audio"} : outq' = Append(outq, Wrapped(f))
  BY DEF MediaWake, MediaVideo, MediaAudio, MediaSend, Send, Ready
<1>2. /\ outq \in Seq(Clear \cup Sealed) /\ media \in MediaSender
      /\ hist \in History /\ room.mic \in BOOLEAN
  BY DEF CliInv, Typed
<1>3. /\ outq' \in Seq(Clear \cup Sealed)
      /\ Anonymous /\ (\A i \in DOMAIN outq : outq[i] \in Sealed)
             => (\A i \in DOMAIN outq' : outq'[i] \in Sealed)
  <2>1. CASE outq' = outq
    BY <1>2, <2>1
  <2>2. CASE \E f \in {"Video", "Audio"} : outq' = Append(outq, Wrapped(f))
    <3>1. PICK f \in {"Video", "Audio"} : outq' = Append(outq, Wrapped(f))
      BY <2>2
    <3>2. /\ Wrapped(f) \in Clear \cup Sealed
          /\ Anonymous => Wrapped(f) \in Sealed
      BY DEF Wrapped, Clear, Sealed
    <3> QED
      BY <1>2, <3>1, <3>2, QueueSealed
  <2> QED
    BY <1>1, <2>1, <2>2
<1>4. AnonymousStaysSealed'
  BY <1>1, <1>3 DEF CliInv, AnonymousStaysSealed, Anonymous
<1>5. /\ \/ hist' = hist
         \/ /\ media.at = "audio" /\ media.mic /\ ~room.mic
            /\ hist' = [hist EXCEPT !.late = hist.late + 1]
            /\ media'.at = "sleep"
      /\ media' \in MediaSender
      /\ media'.at \in {"video", "audio"} =>
             (media.at \in {"video", "audio"} /\ media'.mic = media.mic)
             \/ media'.mic = room.mic
  <2>1. CASE MediaWake
    <3>1. media' = [at |-> "video", mic |-> room.mic,
                    video |-> room.camera \/ room.share] /\ hist' = hist
      BY <2>1 DEF MediaWake
    <3> QED
      BY <1>2, <3>1 DEF MediaSender
  <2>2. CASE MediaVideo
    <3>1. hist' = hist /\ media.at = "video"
      BY <2>2 DEF MediaVideo, MediaSend
    <3>2. media' = [media EXCEPT !.at = "audio"] \/ media' = NoMedia
      BY <2>2 DEF MediaVideo, MediaSend
    <3>3. CASE media' = [media EXCEPT !.at = "audio"]
      <4>1. media' = [at |-> "audio", mic |-> media.mic, video |-> media.video]
        BY <1>2, <3>3 DEF MediaSender
      <4> QED
        BY <1>2, <3>1, <4>1 DEF MediaSender
    <3>4. CASE media' = NoMedia
      BY <3>1, <3>4 DEF MediaSender, NoMedia
    <3> QED
      BY <3>2, <3>3, <3>4
  <2>3. CASE MediaAudio
    <3>1. /\ media.at = "audio"
          /\ \/ /\ media' = [media EXCEPT !.at = "sleep"]
                /\ \/ hist' = hist
                   \/ /\ media.mic /\ ~room.mic
                      /\ hist' = [hist EXCEPT !.late = hist.late + 1]
             \/ media' = NoMedia /\ hist' = hist
      BY <2>3 DEF MediaAudio, MediaSend
    <3>2. /\ media' \in MediaSender
          /\ media'.at \notin {"video", "audio"}
      <4>1. CASE media' = [media EXCEPT !.at = "sleep"]
        <5>1. media' = [at |-> "sleep", mic |-> media.mic, video |-> media.video]
          BY <1>2, <4>1 DEF MediaSender
        <5> QED
          BY <1>2, <5>1 DEF MediaSender
      <4>2. CASE media' = NoMedia
        BY <4>2 DEF MediaSender, NoMedia
      <4> QED
        BY <3>1, <4>1, <4>2
    <3>3. hist' # hist => media'.at = "sleep"
      BY <1>2, <3>1 DEF MediaSender
    <3> QED
      BY <3>1, <3>2, <3>3
  <2> QED
    BY <2>1, <2>2, <2>3
<1>6. /\ hist' \in History /\ hist'.drift = hist.drift
      /\ hist'.retro = hist.retro /\ hist'.surplus = hist.surplus
      /\ hist'.lost = hist.lost /\ hist'.unbacked = hist.unbacked
  BY <1>2, <1>5 DEF History
<1>7. Muted'
  <2>1. Muted
    BY DEF CliInv
  <2>2. CASE hist' = hist
    BY <1>1, <1>2, <1>5, <2>1, <2>2 DEF Muted
  <2>3. CASE /\ media.at = "audio" /\ media.mic /\ ~room.mic
             /\ hist' = [hist EXCEPT !.late = hist.late + 1]
             /\ media'.at = "sleep"
    <3>1. hist.late = 0
      BY <1>2, <2>1, <2>3 DEF Muted, History
    <3>2. hist'.late = 1
      BY <1>2, <2>3, <3>1 DEF History
    <3> QED
      BY <1>1, <2>3, <3>2 DEF Muted
  <2> QED
    BY <1>5, <2>2, <2>3
<1>8. Typed'
  BY <1>1, <1>3, <1>5, <1>6 DEF CliInv, Typed
<1>9. pc = "start" => outq' = outq
  BY <1>1 DEF CliInv, Staged, None
<1>10. Staged' /\ DialsFreshLinks' /\ Left'
  BY <1>1, <1>6, <1>9 DEF CliInv, Staged, DialsFreshLinks, Left, Anonymous
<1>11. Metered' /\ PaymentsBacked'
  BY <1>1, <1>6 DEF CliInv, Metered, BillsAsMetered, PaymentsBacked, InHand
<1> QED
  BY <1>4, <1>7, <1>8, <1>10, <1>11 DEF CliInv

LEMMA TaskStep ==
    ASSUME CliInv, Task
    PROVE  CliInv'
BY LinkTickStep, PayTickStep, PayWakeStep, PayTransferStep, PaySendStep,
   ReadRoomConfigStep, ReadStep, ChannelStep, MediaStep DEF Task
-----------------------------------------------------------------------------
\* What a command leaves alone, and where it takes the main task.
LEMMA CommandFrame ==
    ASSUME CliInv, Command
    PROVE  /\ UNCHANGED <<args, nonces, writer, pay, media, life>>
           /\ pc \in {"room", "state", "track"}
           /\ pc' \in {"room", "state", "track", "closing", "failed"}
           /\ pc' \in {"state", "track"} => ~Anonymous
<1>1. pc \in {"state", "track"} => ~Anonymous
  BY DEF CliInv, Staged
<1> QED
  BY <1>1
     DEF Command, Quit, InputFails, Mistyped, SayControl, SayChat, SayPolicy, SayProfile,
         SayKey, SayAck, Say, SayPay, SayEnd, Rekey, EscrowProof, SealedChat,
         SealedEnd, Whisper, ToggleMic, ToggleCamera, ToggleShare, Toggled,
         Pause, TellState, TellTrack, Tell, ControlEnd, Others, Typing, AtPrompt,
         Legacy, LegacyAnonymous, Controls

\* A command queues at most one frame, a sealed one in an anonymous room.
LEMMA CommandQueues ==
    ASSUME CliInv, Command
    PROVE  /\ (outq \in Seq(Clear \cup Sealed))'
           /\ AnonymousStaysSealed'
<1>1. \/ outq' = outq
      \/ \E f \in Sealed : outq' = Append(outq, f)
      \/ ~Anonymous /\ \E f \in Clear : outq' = Append(outq, f)
  <2>1. pc \in {"state", "track"} => ~Anonymous
    BY DEF CliInv, Staged
  <2>2. CASE \/ Quit \/ InputFails \/ Mistyped \/ ToggleMic \/ ToggleCamera \/ ToggleShare
             \/ Pause \/ ControlEnd
    BY <2>2 DEF Quit, InputFails, Mistyped, ToggleMic, ToggleCamera, ToggleShare, Toggled,
                Pause, ControlEnd
  <2>3. CASE Rekey \/ EscrowProof \/ SealedChat \/ SealedEnd
    BY <2>3 DEF Rekey, EscrowProof, SealedChat, SealedEnd, Whisper, Send, Sealed
  <2>4. CASE \/ SayControl \/ SayChat \/ SayPolicy \/ SayProfile
             \/ \E epoch \in 1 .. MaxEpoch : SayKey(epoch) \/ SayAck(epoch)
             \/ SayPay \/ SayEnd
    BY <2>4 DEF SayControl, SayChat, SayPolicy, SayProfile, SayKey, SayAck, Say,
                SayPay, SayEnd, Send, Legacy, Clear
  <2>5. CASE TellState \/ TellTrack
    BY <2>1, <2>5 DEF TellState, TellTrack, Tell, Send, Clear
  <2> QED
    BY <2>2, <2>3, <2>4, <2>5 DEF Command
<1>2. outq \in Seq(Clear \cup Sealed) /\ args' = args
  BY CommandFrame DEF CliInv, Typed
<1>3. (outq \in Seq(Clear \cup Sealed))'
  BY <1>1, <1>2, QueueSealed
<1>4. ASSUME Anonymous, \A i \in DOMAIN outq : outq[i] \in Sealed
      PROVE  \A i \in DOMAIN outq' : outq'[i] \in Sealed
  BY <1>1, <1>2, <1>4, QueueSealed
<1> QED
  BY <1>2, <1>3, <1>4 DEF CliInv, AnonymousStaysSealed, Anonymous

\* A command keeps the rate; only a control of the conference moves the
\* microphone, and it starts the count of late packets anew.
LEMMA CommandRoom ==
    ASSUME CliInv, Command
    PROVE  /\ DOMAIN room' = RoomFields /\ room'.rate = room.rate
           /\ room'.mic \in BOOLEAN
           /\ hist' \in History /\ hist'.drift = hist.drift
           /\ hist'.retro = hist.retro
           /\ hist'.surplus - hist.surplus
                  = (hist'.lost - hist.lost) - (hist'.unbacked - hist.unbacked)
           /\ hist'.unbacked = hist.unbacked \/ "pay" \in args.typed
           /\ \/ hist'.late = 0
              \/ hist'.late = hist.late /\ room'.mic = room.mic
<1>1. /\ DOMAIN room = RoomFields /\ room.mic \in BOOLEAN /\ hist \in History
  BY DEF CliInv, Typed
<1>2. hist.surplus \in Int /\ hist.lost \in Int /\ hist.unbacked \in Int
  BY <1>1 DEF History
<1>3. CASE SayPay
  <2>1. PICK moved \in 0 .. 1, learnt \in 0 .. 1, told \in 0 .. 1 :
            Settle(moved, learnt, told)
    BY <1>3 DEF SayPay
  <2> DEFINE backed == IF learnt = 1 THEN told ELSE 0
             surplus == hist.surplus + moved - told
             lost == hist.lost + moved - backed
             unbacked == hist.unbacked + told - backed
  <2>2. hist' = [hist EXCEPT !.surplus = surplus, !.lost = lost,
                             !.unbacked = unbacked]
    BY <2>1 DEF Settle
  <2>3. /\ surplus \in Int /\ lost \in Int /\ unbacked \in Int
        /\ surplus - hist.surplus
               = (lost - hist.lost) - (unbacked - hist.unbacked)
    BY <1>2
  <2> HIDE DEF surplus, lost, unbacked
  <2>4. hist' = [drift |-> hist.drift, retro |-> hist.retro,
                 surplus |-> surplus, lost |-> lost, unbacked |-> unbacked,
                 late |-> hist.late]
    BY <1>1, <2>2 DEF History
  <2>5. hist' \in History
    BY <1>1, <2>3, <2>4 DEF History
  <2>6. room' = room /\ "pay" \in args.typed
    BY <1>3 DEF SayPay, Legacy, Typing
  <2> QED
    BY <1>1, <2>3, <2>4, <2>5, <2>6
<1>4. CASE ToggleMic \/ ToggleCamera \/ ToggleShare
  <2>1. hist' = [hist EXCEPT !.late = 0]
    BY <1>4 DEF ToggleMic, ToggleCamera, ToggleShare, Toggled
  <2>2. hist' = [drift |-> hist.drift, retro |-> hist.retro,
                 surplus |-> hist.surplus, lost |-> hist.lost,
                 unbacked |-> hist.unbacked, late |-> 0]
    BY <1>1, <2>1 DEF History
  <2>3. hist' \in History
    BY <1>1, <2>2 DEF History
  <2>4. hist'.surplus - hist.surplus
            = (hist'.lost - hist.lost) - (hist'.unbacked - hist.unbacked)
    BY <1>2, <2>2
  <2>5. /\ DOMAIN room' = RoomFields /\ room'.rate = room.rate
        /\ room'.mic \in BOOLEAN
    BY <1>1, <1>4 DEF ToggleMic, ToggleCamera, ToggleShare, Toggled, RoomFields
  <2> QED
    BY <2>2, <2>3, <2>4, <2>5
<1>5. CASE ~SayPay /\ ~(ToggleMic \/ ToggleCamera \/ ToggleShare)
  <2>1. hist' = hist
    BY <1>5 DEF Command, Quit, InputFails, Mistyped, SayControl, SayChat, SayPolicy,
                SayProfile, SayKey, SayAck, Say, SayEnd, Rekey, EscrowProof,
                SealedChat, SealedEnd, Whisper, Pause, TellState, TellTrack,
                Tell, ControlEnd
  <2>2. hist'.surplus - hist.surplus
            = (hist'.lost - hist.lost) - (hist'.unbacked - hist.unbacked)
    BY <1>2, <2>1
  <2>3. /\ DOMAIN room' = RoomFields /\ room'.rate = room.rate
        /\ room'.mic = room.mic
    BY <1>1, <1>5
       DEF Command, Quit, InputFails, Mistyped, SayControl, SayChat, SayPolicy, SayProfile,
           SayKey, SayAck, Say, SayEnd, Rekey, EscrowProof, SealedChat,
           SealedEnd, Whisper, Pause, TellState, TellTrack, Tell, ControlEnd,
           RoomFields
  <2> QED
    BY <1>1, <2>1, <2>2, <2>3
<1> QED
  BY <1>3, <1>4, <1>5

LEMMA CommandStep ==
    ASSUME CliInv, Command
    PROVE  CliInv'
<1>1. /\ UNCHANGED <<args, nonces, writer, pay, media, life>>
      /\ pc \in {"room", "state", "track"}
      /\ pc' \in {"room", "state", "track", "closing", "failed"}
      /\ pc' \in {"state", "track"} => ~Anonymous
  BY CommandFrame
<1>2. (outq \in Seq(Clear \cup Sealed))' /\ AnonymousStaysSealed'
  BY CommandQueues
<1>3. /\ DOMAIN room' = RoomFields /\ room'.rate = room.rate
      /\ room'.mic \in BOOLEAN
      /\ hist' \in History /\ hist'.drift = hist.drift
      /\ hist'.retro = hist.retro
  BY CommandRoom
<1>4. /\ hist'.surplus - hist.surplus
             = (hist'.lost - hist.lost) - (hist'.unbacked - hist.unbacked)
      /\ hist'.unbacked = hist.unbacked \/ "pay" \in args.typed
  BY CommandRoom
<1>5. \/ hist'.late = 0
      \/ hist'.late = hist.late /\ room'.mic = room.mic
  BY CommandRoom
<1>6. Typed'
  BY <1>1, <1>2, <1>3 DEF CliInv, Typed
<1>7. Staged' /\ DialsFreshLinks' /\ Left'
  BY <1>1 DEF CliInv, Staged, BeforeRoom, DialsFreshLinks, Left, Anonymous
<1>8. Metered'
  BY <1>1, <1>3 DEF CliInv, Metered, BillsAsMetered
<1>9. PaymentsBacked'
  <2>1. /\ hist.surplus = hist.lost + InHand - hist.unbacked
        /\ args.pay.config /\ "pay" \notin args.typed => hist.unbacked = 0
    BY DEF CliInv, PaymentsBacked
  <2>2. /\ hist.lost \in Int /\ hist.surplus \in Int /\ hist.unbacked \in Int
        /\ hist'.lost \in Int /\ hist'.surplus \in Int
        /\ hist'.unbacked \in Int
    BY <1>3 DEF CliInv, Typed, History
  <2>3. InHand \in Int /\ InHand' = InHand
    BY <1>1 DEF CliInv, Typed, PayLoop, InHand
  <2>4. hist'.surplus = hist'.lost + InHand - hist'.unbacked
    BY <1>4, <2>1, <2>2, <2>3
  <2> QED
    BY <1>1, <1>4, <2>1, <2>3, <2>4 DEF PaymentsBacked
<1>10. Muted'
  BY <1>1, <1>5 DEF CliInv, Muted
<1> QED
  BY <1>2, <1>6, <1>7, <1>8, <1>9, <1>10 DEF CliInv
-----------------------------------------------------------------------------
\* The way out: an aborted media sender, and the calls on the ledger.
LEMMA ClosingStep ==
    ASSUME CliInv, Closing
    PROVE  CliInv'
<1>1. /\ UNCHANGED <<args, nonces, outq, writer, room, pay, hist>>
      /\ media' = media \/ media' = NoMedia
  BY DEF Closing, DropSender, AwaitWriter, AwaitReader, Unshield, FinalEnd,
         FinalLeave, FinalUsage, LastCall
<1>2. life' \in Calls
  <2>1. life \in Calls
    BY DEF CliInv, Typed
  <2> QED
    BY <2>1 DEF Closing, DropSender, AwaitWriter, AwaitReader, Unshield,
                FinalEnd, FinalLeave, FinalUsage, LastCall, Calls, Outcomes
<1>3. Typed'
  <2>1. media' \in MediaSender
    <3>1. media \in MediaSender
      BY DEF CliInv, Typed
    <3>2. NoMedia \in MediaSender
      BY DEF NoMedia, MediaSender
    <3> QED
      BY <1>1, <3>1, <3>2
  <2> QED
    BY <1>1, <1>2, <2>1 DEF CliInv, Typed
<1>4. Staged' /\ AnonymousStaysSealed' /\ DialsFreshLinks'
  <2>1. /\ pc \notin BeforeRoom \cup {"failed"}
        /\ pc' \notin BeforeRoom \cup {"state", "track"}
    BY DEF Closing, DropSender, AwaitWriter, AwaitReader, Unshield, FinalEnd,
           FinalLeave, FinalUsage, LastCall, Proceed, BeforeRoom
  <2> QED
    BY <1>1, <2>1 DEF CliInv, Staged, BeforeRoom, AnonymousStaysSealed,
                      DialsFreshLinks, Anonymous
<1>5. Metered' /\ PaymentsBacked' /\ Muted'
  BY <1>1 DEF CliInv, Metered, BillsAsMetered, PaymentsBacked, InHand, Muted,
              NoMedia
<1>6. Left'
  <2>1. life \in Calls /\ Left
    BY DEF CliInv, Typed
  <2>2. CASE FinalLeave
    <3>1. CASE args.life.config /\ ~should_skip_leave_after_end
      <4>1. PICK r \in {"ok", "failed"} : life' = [life EXCEPT !.leave = r]
        BY <2>2, <3>1 DEF FinalLeave, LastCall
      <4>2. life'.leave = r
        BY <2>1, <4>1 DEF Calls
      <4> QED
        BY <4>2 DEF Left
    <3>2. CASE ~(args.life.config /\ ~should_skip_leave_after_end)
      <4>1. life' = life
        BY <2>2, <3>2 DEF FinalLeave, LastCall
      <4> QED
        BY <1>1, <3>2, <4>1 DEF Left, should_skip_leave_after_end
    <3> QED
      BY <3>1, <3>2
  <2>3. CASE FinalUsage
    <3>1. pc = "usage" /\ life'.leave = life.leave /\ life'.end = life.end
      BY <2>1, <2>3 DEF FinalUsage, LastCall, Calls
    <3> QED
      BY <1>1, <2>1, <3>1 DEF Left
  <2>4. CASE DropSender \/ AwaitWriter \/ AwaitReader \/ Unshield \/ FinalEnd
    <3>1. pc' \notin {"usage", "done"}
      BY <2>4 DEF DropSender, AwaitWriter, AwaitReader, Unshield, FinalEnd,
                  LastCall, Proceed
    <3> QED
      BY <3>1 DEF Left
  <2> QED
    BY <2>2, <2>3, <2>4 DEF Closing
<1> QED
  BY <1>3, <1>4, <1>5, <1>6 DEF CliInv
-----------------------------------------------------------------------------
\* Every state of a `room-chat` process satisfies the inductive invariant: the
\* start, the tasks beside it, what the user types and the way out preserve it.
THEOREM CliCorrect == Spec => []CliInv
<1>1. CliInv /\ [Next]_vars => CliInv'
  <2> SUFFICES ASSUME CliInv, [Next]_vars PROVE CliInv'
    OBVIOUS
  <2>1. CASE UNCHANGED vars
    BY <2>1 DEF vars, CliInv, Typed, Staged, AnonymousStaysSealed,
                DialsFreshLinks, Metered, BillsAsMetered, PaymentsBacked, InHand,
                Muted, Left, Anonymous
  <2> QED
    BY <2>1, StartStep, TaskStep, CommandStep, ClosingStep DEF Next
<1> QED
  BY <1>1, InitCli, PTL DEF Spec

\* A process in an anonymous room queues nothing that shows its identity or
\* its media in the clear, whatever interface, command line, hub or user.
THEOREM CliStaysSealed == Spec => []AnonymousStaysSealed
BY CliCorrect, PTL DEF CliInv

\* Nothing is dialled on a join link that is no longer valid or whose nonce is
\* not registered.
THEOREM CliDialsFreshLinks == Spec => []DialsFreshLinks
BY CliCorrect, PTL DEF CliInv

\* The payment loop bills every tick exactly once at the rate it ran at, for
\* every rate, minute and delay.
THEOREM CliBillsAsMetered == Spec => []BillsAsMetered
<1>1. CliInv => BillsAsMetered
  BY DEF CliInv, Metered
<1> QED
  BY <1>1, CliCorrect, PTL

\* Every amount moved on the ledger and every amount declared to the hub is
\* accounted for, and nothing but /pay and a loop without a ledger declares what
\* was not moved.
THEOREM CliPaymentsBacked == Spec => []PaymentsBacked
BY CliCorrect, PTL DEF CliInv

\* At most one audio packet follows the switch of the microphone.
THEOREM CliMutedSoon == Spec => []MutedSoon
<1>1. CliInv => MutedSoon
  BY DEF CliInv, Muted, MutedSoon
<1> QED
  BY <1>1, CliCorrect, PTL

\* A process that ends in order has left the call or ended it.
THEOREM CliLeft == Spec => []LeftUnlessEnded
<1>1. CliInv => LeftUnlessEnded
  BY DEF CliInv, Left, LeftUnlessEnded
<1> QED
  BY <1>1, CliCorrect, PTL
-----------------------------------------------------------------------------
\* A step changes the channel by one frame, and only where there is room.
LEMMA ChannelBounded ==
    ASSUME CliInv, Len(outq) <= Capacity, Next
    PROVE  Len(outq') <= Capacity
<1>1. outq \in Seq(Clear \cup Sealed) /\ Capacity \in Nat /\ Capacity >= 2
  BY CliAssumption DEF CliInv, Typed
<1>2. \/ outq' = outq
      \/ outq' = << >>
      \/ outq # << >> /\ outq' = Tail(outq)
      \/ \E f : outq' = <<f>>
      \/ Len(outq) < Capacity /\ \E f : outq' = Append(outq, f)
  <2>1. CASE Start
    BY <2>1 DEF Start, Preflight, Consume, HandshakeParams,
                connect_and_handshake, open_kaigi_stream, Hello, Announce,
                JoinCall, StartBilling, Prepay, StartProofs, StartConference,
                Send, Ready
  <2>2. CASE Task
    BY <2>2 DEF Task, LinkTick, PayTick, StreamEnds, Write, WriterEnds,
                ReaderEnds, ReadRoomConfig, ReadSessionPolicy, ReadGroupKey,
                ReadRoster, ReadFails, PayWake, PayTransfer, PaySend, ProofBeat,
                PingBeat, Beat, MediaWake, MediaVideo, MediaAudio, MediaSend,
                Send, Ready
  <2>3. CASE Command
    BY <2>3 DEF Command, Quit, InputFails, Mistyped, SayControl, SayChat, SayPolicy,
                SayProfile, SayKey, SayAck, Say, SayPay, SayEnd, Rekey,
                EscrowProof, SealedChat, SealedEnd, Whisper, ToggleMic,
                ToggleCamera, ToggleShare, Toggled, Pause, TellState, TellTrack,
                Tell, ControlEnd, Send, Ready
  <2>4. CASE Closing
    BY <2>4 DEF Closing, DropSender, AwaitWriter, AwaitReader, Unshield,
                FinalEnd, FinalLeave, FinalUsage, LastCall
  <2> QED
    BY <2>1, <2>2, <2>3, <2>4 DEF Next
<1>3. CASE outq' = outq
  BY <1>3
<1>4. CASE outq' = << >>
  BY <1>1, <1>4
<1>5. CASE outq # << >> /\ outq' = Tail(outq)
  BY <1>1, <1>5
<1>6. CASE \E f : outq' = <<f>>
  <2>1. Len(outq') = 1
    BY <1>6
  <2> QED
    BY <1>1, <2>1
<1>7. CASE Len(outq) < Capacity /\ \E f : outq' = Append(outq, f)
  <2>1. Len(outq') = Len(outq) + 1 /\ Len(outq) \in Nat
    BY <1>1, <1>7
  <2> QED
    BY <1>1, <1>7, <2>1
<1> QED
  BY <1>2, <1>3, <1>4, <1>5, <1>6, <1>7

\* A `room-chat` process keeps its types, and its channel holds no more frames
\* than its capacity.
THEOREM CliTypeCorrect == Spec => []CliTypeOK
<1> DEFINE Rest ==
        /\ nonces \subseteq {"nonce"} /\ senders \subseteq Tasks
        /\ writer \in {None, "run", "done", "failed"}
        /\ reader \in {None, "run", "done", "failed"}
        /\ stream \in {None, "open", "finished", "lost"}
        /\ ending \in BOOLEAN
<1>1. Init => Rest /\ Len(outq) <= Capacity
  <2> SUFFICES ASSUME Init PROVE Rest /\ Len(outq) <= Capacity
    OBVIOUS
  <2>1. Rest
    BY DEF Init
  <2>2. Len(outq) <= Capacity
    <3>1. Len(outq) = 0 /\ Capacity \in Nat
      BY CliAssumption DEF Init
    <3> QED
      BY <3>1
  <2> QED
    BY <2>1, <2>2
<1>2. ASSUME CliInv, Rest, Next PROVE Rest'
  <2>1. CASE Start
    <3>1. /\ nonces' \subseteq nonces \cup {"nonce"} /\ ending' = ending
          /\ senders' \subseteq senders \cup Tasks
      BY <2>1 DEF Start, Preflight, Consume, HandshakeParams,
                  connect_and_handshake, open_kaigi_stream, Hello, Announce,
                  JoinCall, StartBilling, Prepay, StartProofs, StartConference,
                  Tasks
    <3>2. /\ writer' \in {writer, "run"} /\ reader' \in {reader, "run"}
          /\ stream' \in {stream, "open"}
      BY <2>1 DEF Start, Preflight, Consume, HandshakeParams,
                  connect_and_handshake, open_kaigi_stream, Hello, Announce,
                  JoinCall, StartBilling, Prepay, StartProofs, StartConference
    <3> QED
      BY <1>2, <3>1, <3>2
  <2>2. CASE Task
    <3>1. nonces' = nonces /\ ending' = ending /\ senders' \subseteq senders
      BY <2>2 DEF Task, LinkTick, PayTick, StreamEnds, Write, WriterEnds,
                  ReaderEnds, ReadRoomConfig, ReadSessionPolicy, ReadGroupKey,
                  ReadRoster, ReadFails, PayWake, PayTransfer, PaySend,
                  ProofBeat, PingBeat, Beat, MediaWake, MediaVideo, MediaAudio,
                  MediaSend
    <3>2. /\ writer' \in {writer, "done", "failed"}
          /\ reader' \in {reader, "done", "failed"}
          /\ stream' \in {stream, "finished", "lost"}
      BY <2>2 DEF Task, LinkTick, PayTick, StreamEnds, Write, WriterEnds,
                  ReaderEnds, ReadRoomConfig, ReadSessionPolicy, ReadGroupKey,
                  ReadRoster, ReadFails, PayWake, PayTransfer, PaySend,
                  ProofBeat, PingBeat, Beat, MediaWake, MediaVideo, MediaAudio,
                  MediaSend
    <3> QED
      BY <1>2, <3>1, <3>2
  <2>3. CASE Command
    BY <1>2, <2>3
       DEF Command, Quit, InputFails, Mistyped, SayControl, SayChat, SayPolicy, SayProfile,
           SayKey, SayAck, Say, SayPay, SayEnd, Rekey, EscrowProof, SealedChat,
           SealedEnd, Whisper, ToggleMic, ToggleCamera, ToggleShare, Toggled,
           Pause, TellState, TellTrack, Tell, ControlEnd, Others
  <2>4. CASE Closing
    BY <1>2, <2>4
       DEF Closing, DropSender, AwaitWriter, AwaitReader, Unshield, FinalEnd,
           FinalLeave, FinalUsage, LastCall
  <2> QED
    BY <1>2, <2>1, <2>2, <2>3, <2>4 DEF Next
<1>3. /\ CliInv /\ Rest /\ Len(outq) <= Capacity /\ [Next]_vars
      => (Rest /\ Len(outq) <= Capacity)'
  <2>1. CASE UNCHANGED vars
    BY <2>1 DEF vars
  <2>2. CASE Next
    BY <1>2, <2>2, ChannelBounded
  <2> QED
    BY <2>1, <2>2
<1>4. CliInv /\ Rest /\ Len(outq) <= Capacity => CliTypeOK
  BY DEF CliInv, Typed, History, CliTypeOK
<1> QED
  BY <1>1, <1>3, <1>4, CliCorrect, PTL DEF Spec
=============================================================================
