------------------------------ MODULE CliStart ------------------------------
(***************************************************************************)
(* From the command line to the room: the join link, the defaults, the     *)
(* checks of the arguments, the dial through soranet-client, the hello,    *)
(* the lifecycle join and what each interface starts afterwards.           *)
(***************************************************************************)
EXTENDS CliState

\* validate_join_link_security without the replay check.
validate_join_link_security(link) ==
    \/ /\ link.version = 1
       /\ ~link.exp /\ link.nonce = None /\ link.sig = None
    \/ /\ link.version = 2
       /\ link.exp /\ link.left > 0 /\ link.left <= MaxLife
       /\ link.nonce = "hex"
       /\ link.sig = "hex"

\* parse_join_link_for_inspection; an absent link is not parsed.
parse_join_link_for_inspection(link) ==
    \/ link.form = None
    \/ /\ link.form = "ok"
       /\ link.domain = link.call
       /\ validate_join_link_security(link)

\* apply_room_chat_join_link_defaults
apply_room_chat_join_link_defaults(a) ==
    IF a.link.form = None THEN a
    ELSE [a EXCEPT !.route = TRUE,
                   !.torii = @ \/ a.link.torii,
                   !.pay = [a.pay EXCEPT !.to = a.pay.to \/ a.link.pay_to],
                   !.life = [a.life EXCEPT
                                 !.domain = a.life.domain \/ a.link.domain,
                                 !.call = a.life.call \/ a.link.call],
                   !.privacy = IF @ = None THEN a.link.privacy ELSE @]

\* apply_room_chat_env_defaults
apply_room_chat_env_defaults(a) ==
    [a EXCEPT !.torii = @ \/ "torii" \in a.env,
              !.pay = [a.pay EXCEPT
                           !.config = a.pay.config \/ "pay_config" \in a.env,
                           !.to = a.pay.to \/ "pay_to" \in a.env],
              !.life = [a.life EXCEPT
                            !.config = a.life.config \/ "life_config" \in a.env,
                            !.domain = a.life.domain \/ "domain" \in a.env,
                            !.call = a.life.call \/ "call" \in a.env,
                            !.participant = a.life.participant \/ "participant" \in a.env],
              !.privacy = IF @ = None /\ "privacy" \in a.env THEN "zk" ELSE @]

normalize_privacy_mode(mode) == IF mode = "zk_roster_v1" THEN "zk" ELSE mode

WithDefaults(a) ==
    LET b == apply_room_chat_env_defaults(apply_room_chat_join_link_defaults(a))
    IN [b EXCEPT !.privacy = normalize_privacy_mode(@)]

\* quote_anon_escrow_total_nano_checked, before the check that it fits u64.
quote_anon_escrow_total(e) == e.prepay + e.extra * e.minutes

has_anonymous_escrow_overrides(e) ==
    \/ e.prepay > 0 \/ e.extra > 0 \/ e.minutes # 1 \/ e.interval # "default"
    \/ e.id # None \/ e.proof # None \/ e.unshield \/ e.details # None

validate_anonymous_escrow_settings(a) ==
    LET e == a.anon
    IN IF a.privacy # "zk" THEN ~has_anonymous_escrow_overrides(e)
       ELSE /\ a.handle # "bad" /\ e.id # "bad" /\ e.proof # "bad"
            /\ e.extra > 0 => e.prepay > 0 /\ e.minutes > 0
            /\ a.pay.rate = 0 /\ ~a.pay.auto /\ ~a.pay.no_auto /\ ~a.pay.unsettled
            /\ e.prepay > 0 => a.pay.config /\ a.pay.from
            /\ e.details # None => e.unshield
            /\ e.unshield => e.prepay > 0 /\ a.pay.config /\ e.details = "ok"
            /\ e.prepay > 0 => quote_anon_escrow_total(e) <= MaxAmount

has_auto_kaigi_lifecycle_overrides(l) ==
    l.participant \/ l.hex # None \/ l.alias \/ l.issued \/ l.usage \/ l.gas

\* build_auto_kaigi_lifecycle: hex stands for the commitments and nullifiers.
build_auto_kaigi_lifecycle(l) ==
    IF ~l.config THEN ~has_auto_kaigi_lifecycle_overrides(l)
    ELSE /\ l.domain /\ l.call /\ l.participant
         /\ l.alias \/ l.issued => l.hex # None
         /\ l.hex # "bad"
         /\ l.gas => l.usage

\* What is checked before the link's nonce is consumed.
PreflightOK(a) ==
    /\ a.privacy # "other"
    /\ validate_anonymous_escrow_settings(a)
    /\ build_auto_kaigi_lifecycle(a.life)
    /\ a.route
    /\ a.local \/ a.torii

Proceed(ok, next) == pc' = IF ok THEN next ELSE "failed"

Preflight ==
    LET a == WithDefaults(args)
    IN /\ pc = "start"
       /\ IF parse_join_link_for_inspection(args.link)
          THEN args' = a /\ Proceed(PreflightOK(a), "consume")
          ELSE UNCHANGED args /\ pc' = "failed"
       /\ UNCHANGED <<nonces, outq, senders, writer, reader, stream, room, pay,
                      media, life, ending, hist>>

\* The second parse trusts the first one's clock.
Consume_Trusting ==
    /\ pc = "consume"
    /\ pc' = "params"
    /\ nonces' = IF args.link.form = None THEN nonces ELSE nonces \cup {"nonce"}
    /\ UNCHANGED <<args, outq, senders, writer, reader, stream, room, pay, media,
                   life, ending, hist>>

\* parse_join_link: the link is validated again, then its nonce registered by
\* register_join_link_nonce_once.
Consume ==
    LET signed == args.link.form # None /\ args.link.version = 2
        fresh == "nonce" \notin nonces /\ Cardinality(nonces) < MaxNonces
    IN /\ pc = "consume"
       /\ Proceed(parse_join_link_for_inspection(args.link) /\ (signed => fresh),
                  "params")
       /\ nonces' = IF signed /\ pc' = "params" THEN nonces \cup {"nonce"} ELSE nonces
       /\ UNCHANGED <<args, outq, senders, writer, reader, stream, room, pay,
                      media, life, ending, hist>>

\* fetch_handshake_params_from_torii may fail; explicit parameters must decode.
HandshakeParams ==
    /\ pc = "params"
    /\ \E fetched \in BOOLEAN :
           Proceed(IF args.torii THEN fetched ELSE args.params # "bad", "dial")
    /\ UNCHANGED <<args, nonces, outq, senders, writer, reader, stream, room, pay,
                   media, life, ending, hist>>

\* connect_and_handshake: the QUIC connection and the exchange of hellos.
connect_and_handshake ==
    /\ pc = "dial"
    /\ \E connected \in BOOLEAN : Proceed(connected, "open")
    /\ UNCHANGED <<args, nonces, outq, senders, writer, reader, stream, room, pay,
                   media, life, ending, hist>>

\* open_kaigi_stream; the anonymous handle is validated behind it.
open_kaigi_stream ==
    /\ pc = "open"
    /\ \E opened \in BOOLEAN :
           /\ Proceed(opened, IF Anonymous /\ ~Conference THEN "join" ELSE "hello")
           /\ stream' = IF opened THEN "open" ELSE stream
    /\ UNCHANGED <<args, nonces, outq, senders, writer, reader, room, pay, media,
                   life, ending, hist>>

\* The writer is spawned and the first frame queued.
Hello ==
    /\ pc = "hello"
    /\ writer' = "run"
    /\ senders' = {"main"}
    /\ outq' = <<IF Anonymous THEN "AnonHello" ELSE "Hello">>
    /\ room' = [NewRoom(args.pay.rate) EXCEPT
                    !.key_epoch = IF Anonymous /\ ~Conference THEN 1 ELSE 0,
                    !.peers = IF Anonymous /\ ~Conference THEN {"self"} ELSE {}]
    /\ pc' = IF Conference THEN "announce" ELSE IF Anonymous THEN "prepay" ELSE "join"
    /\ UNCHANGED <<args, nonces, reader, stream, pay, media, life, ending, hist>>

\* The conference's second frame.
Announce ==
    /\ pc = "announce"
    /\ \/ Closed /\ pc' = "failed" /\ UNCHANGED outq
       \/ Send(IF Anonymous THEN "GroupKeyUpdate" ELSE "MediaCapability") /\ pc' = "join"
    /\ UNCHANGED <<args, nonces, senders, writer, reader, stream, room, pay, media,
                   life, ending, hist>>

\* run_auto_kaigi_join: its failure is only logged.
JoinCall ==
    /\ pc = "join"
    /\ IF args.life.config
       THEN \E r \in {"ok", "failed"} : life' = [life EXCEPT !.join = r]
       ELSE UNCHANGED life
    /\ pc' = IF Conference THEN "tasks" ELSE IF Anonymous THEN "hello" ELSE "billing"
    /\ UNCHANGED <<args, nonces, outq, senders, writer, reader, stream, room, pay,
                   media, ending, hist>>

is_pay_auto_enabled == args.pay.auto \/ ~args.pay.no_auto
PayLoopEnabled == args.pay.rate > 0 \/ is_pay_auto_enabled

\* The payment arguments are checked, then the payment loop and the reader
\* start.
StartBilling ==
    LET ok == /\ ~(is_pay_auto_enabled /\ args.pay.rate > 0)
              /\ args.pay.config = args.pay.to
              /\ args.pay.config => PayLoopEnabled
              /\ PayLoopEnabled => args.pay.config \/ args.pay.unsettled
    IN /\ pc = "billing"
       /\ Proceed(ok, "room")
       /\ reader' = "run"
       /\ IF ok /\ PayLoopEnabled
          THEN pay' = [NoPay EXCEPT !.at = "sleep"] /\ senders' = senders \cup {"pay"}
          ELSE UNCHANGED <<pay, senders>>
       /\ UNCHANGED <<args, nonces, outq, writer, stream, room, media, life, ending,
                      hist>>

\* run_anon_escrow_prepay: a failure ends the process.
Prepay ==
    /\ pc = "prepay"
    /\ IF args.anon.prepay = 0 THEN pc' = "proof" /\ UNCHANGED life
       ELSE \E r \in {"ok", "failed"} :
                life' = [life EXCEPT !.prepay = r] /\ Proceed(r = "ok", "proof")
    /\ UNCHANGED <<args, nonces, outq, senders, writer, reader, stream, room, pay,
                   media, ending, hist>>

\* The first escrow proof, the loop that repeats it, and the reader.
StartProofs ==
    /\ pc = "proof"
    /\ \/ Closed /\ pc' = "failed" /\ UNCHANGED <<outq, senders, reader>>
       \/ /\ Send("EscrowProof")
          /\ senders' = IF args.anon.interval = "off" THEN senders
                        ELSE senders \cup {"proof"}
          /\ reader' = "run"
          /\ pc' = "room"
    /\ UNCHANGED <<args, nonces, writer, stream, room, pay, media, life, ending, hist>>

\* Reader, media sender and ping sender, then the terminal of the dashboard.
StartConference ==
    /\ pc = "tasks"
    /\ reader' = "run"
    /\ media' = [NoMedia EXCEPT !.at = "sleep"]
    /\ senders' = senders \cup {"media", "ping"}
    /\ \E terminal \in BOOLEAN : Proceed(args.tui => terminal, "room")
    /\ UNCHANGED <<args, nonces, outq, writer, stream, room, pay, life, ending, hist>>

Start ==
    \/ Preflight \/ Consume \/ HandshakeParams \/ connect_and_handshake
    \/ open_kaigi_stream \/ Hello \/ Announce \/ JoinCall \/ StartBilling
    \/ Prepay \/ StartProofs \/ StartConference
=============================================================================
