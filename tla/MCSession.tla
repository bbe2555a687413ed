----------------------------- MODULE MCSession ------------------------------
(***************************************************************************)
(* Instances of Session for TLC.  A session meets one kind of traffic; the *)
(* kinds are explored side by side, not multiplied with each other.        *)
(***************************************************************************)
EXTENDS Session

CONSTANTS ann, bert

Ack == [kind |-> "handshakeAck", session_id |-> "s", resume_token |-> "t"]

\* Frames that move the phase of the link, and two that do not decode.
LinkTraffic ==
    {Ack, [kind |-> "ping"], [kind |-> "error", category |-> "policy"],
     [kind |-> "error"], [kind |-> "mediaProfileNegotiation"],
     [kind |-> "mediaProfileNegotiation", preferred |-> "hdr"],
     [kind |-> "handshakeAck"], [kind |-> "surprise"]}

\* Policies and keys, signed or not, fresh or stale.
PolicyTraffic ==
    {Ack, [kind |-> "sessionPolicy"], [kind |-> "e2eeKeyEpoch", epoch |-> 2]}
    \cup [kind : {"sessionPolicy"}, policy_epoch : {1, 2}, signed : {TRUE}]
    \cup [kind : {"e2eeKeyEpoch"}, epoch : {1, 2}, signed : {TRUE}]

PaymentTraffic ==
    {Ack, [kind |-> "mediaProfileNegotiation"]}
    \cup [kind : {"paymentPolicy"}, required : BOOLEAN]
    \cup [kind : {"paymentSettlement"}, status : {"settled", "blocked", "late"}]

\* The roster: deltas out of order, roles and moderation.
RosterTraffic ==
    {[kind |-> "participantPresenceDelta", sequence |-> 1,
      joined |-> [p \in {ann, bert} |->
                     IF p = ann THEN [role |-> "host"]
                     ELSE [waiting |-> TRUE]]],
     [kind |-> "participantPresenceDelta", sequence |-> 2, left |-> {ann},
      role_changes |-> [p \in {bert} |-> "coHost"]],
     [kind |-> "participantPresenceDelta", left |-> {bert}],
     [kind |-> "roleGrant", target |-> bert, role |-> "coHost", by |-> ann,
      signed |-> TRUE],
     [kind |-> "roleRevoke", target |-> bert, role |-> "coHost",
      by |-> System, signed |-> TRUE]}
    \cup [kind : {"moderationSigned"}, target : {bert}, by : {ann},
          action : {"kick", "admitFromWaiting", "wave"}, signed : {TRUE}]

\* What is told about participants and rotations, in any order.
NoticeTraffic ==
    {[kind |-> "recordingNotice", state |-> TRUE], [kind |-> "pong"]}
    \cup [kind : {"permissionsSnapshot"}, participant_id : {bert},
          epoch : {1, 2}]
    \cup [kind : {"keyRotationAck"}, participant_id : {ann}, ack_epoch : {1, 2}]

Web == [signed |-> TRUE, pay |-> TRUE, web |-> TRUE]
Strict == [signed |-> TRUE, pay |-> TRUE, web |-> FALSE]
Lax == [signed |-> FALSE, pay |-> FALSE, web |-> FALSE]

Given(config, traffic, n) ==
    [config |-> config, traffic |-> traffic, max_requests |-> n]

AllSettings ==
    {Given(Strict, LinkTraffic, 2), Given(Web, PolicyTraffic, 1),
     Given(Strict, PolicyTraffic, 1), Given(Web, PaymentTraffic, 1),
     Given(Strict, PaymentTraffic, 1), Given(Lax, RosterTraffic, 1),
     Given(Lax, NoticeTraffic, 1)}

TwoRetries == <<0, 1>>
=============================================================================
