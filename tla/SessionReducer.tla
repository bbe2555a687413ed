--------------------------- MODULE SessionReducer ---------------------------
(***************************************************************************)
(* reduce and reduce_frame: what every event and frame does to the session *)
(* state, as operators from a state to a state.                            *)
(***************************************************************************)
EXTENDS SessionState

has_required_signature(f, s) == s.config.signed => f.signed

actor_is_authorized(issuer, s) ==
    \/ issuer = System
    \/ /\ issuer \in DOMAIN s.participants
       /\ s.participants[issuer].role \in {"host", "coHost"}

policy_reject(s, code) ==
    LET web == s.config.web \/ s.fallback
    IN [s EXCEPT !.phase = IF web THEN "FallbackActive" ELSE "Error",
                 !.fallback = web,
                 !.last_error = [category |-> "policy", code |-> code]]

\* Mutant: the end of a policy error is taken for a connection.
clear_error_if_matching_Shown(s, code) ==
    IF s.last_error = [category |-> "policy", code |-> code]
    THEN [s EXCEPT !.phase = IF s.fallback THEN "FallbackActive"
                             ELSE "Connected",
                   !.last_error = NoError]
    ELSE s

\* clear_error_if_matching: a policy error of this family is over.
clear_error_if_matching(s, code) ==
    IF s.last_error = [category |-> "policy", code |-> code]
    THEN [s EXCEPT !.phase = IF s.fallback THEN "FallbackActive"
                             ELSE IF s.handshake_complete THEN "Connected"
                             ELSE "Connecting",
                   !.last_error = NoError]
    ELSE s

PaymentDue(s) ==
    /\ s.config.pay
    /\ s.payment_required
    /\ s.settlement_status \in {"pending", "blocked"}

enforce_payment_settlement_policy(s) ==
    IF PaymentDue(s) THEN policy_reject(s, "payment")
    ELSE clear_error_if_matching(s, "payment")

enforce_e2ee_epoch_policy(s) ==
    IF s.e2ee_required /\ s.current_epoch <= 0 THEN policy_reject(s, "e2ee")
    ELSE clear_error_if_matching(s, "e2ee")

Larger(a, b) == IF a > b THEN a ELSE b
-----------------------------------------------------------------------------
OnHandshakeAck(s) ==
    [s EXCEPT !.handshake_complete = TRUE,
              !.resume_token = TRUE,
              !.phase = IF s.fallback THEN "FallbackActive" ELSE "Connected",
              !.last_error = NoError]

\* Mutant: a delta with the last sequence is applied again.
Stale_Again(s, f) == f.sequence < s.presence_sequence

Stale(s, f) == f.sequence <= s.presence_sequence

\* Joins first, then departures, then role changes of those who are left.
OnPresenceDelta(s, f) ==
    LET stay == (DOMAIN s.participants \cup DOMAIN f.joined) \ f.left
        entry(p) == IF p \in DOMAIN f.joined THEN f.joined[p]
                    ELSE s.participants[p]
    IN IF Stale(s, f) THEN s
       ELSE [s EXCEPT
               !.participants =
                   [p \in stay |->
                       IF p \in DOMAIN f.role_changes
                       THEN [entry(p) EXCEPT !.role = f.role_changes[p]]
                       ELSE entry(p)],
               !.presence_sequence = f.sequence]

Unknown(s, p) == p \notin DOMAIN s.participants

OnRoleGrant(s, f) ==
    IF Unknown(s, f.target) THEN s
    ELSE [s EXCEPT !.participants[f.target].role = f.role]

OnRoleRevoke(s, f) ==
    IF Unknown(s, f.target) \/ s.participants[f.target].role # f.role THEN s
    ELSE [s EXCEPT !.participants[f.target].role = "participant"]

OnModeration(s, f) ==
    IF Unknown(s, f.target) THEN s
    ELSE CASE f.action = "mute" ->
                 [s EXCEPT !.participants[f.target].muted = TRUE]
           [] f.action = "videoOff" ->
                 [s EXCEPT !.participants[f.target].video = FALSE]
           [] f.action = "stopShare" ->
                 [s EXCEPT !.participants[f.target].share = FALSE]
           [] f.action = "admitFromWaiting" ->
                 [s EXCEPT !.participants[f.target].waiting = FALSE]
           [] f.action \in {"kick", "denyFromWaiting"} ->
                 [s EXCEPT !.participants =
                     Restrict(@, DOMAIN @ \ {f.target})]

OnPermissionsSnapshot(s, f) ==
    LET known == DOMAIN s.permission_snapshots
    IN IF f.participant_id \in known
             /\ f.epoch <= s.permission_snapshots[f.participant_id]
       THEN s
       ELSE [s EXCEPT !.permission_snapshots =
                [p \in known \cup {f.participant_id} |->
                    IF p = f.participant_id THEN f.epoch ELSE @[p]]]

OnSessionPolicy(s, f) ==
    IF f.policy_epoch < s.policy_epoch THEN s
    ELSE enforce_e2ee_epoch_policy(
            [s EXCEPT !.room_locked = f.room_lock,
                      !.recording = f.recording_policy,
                      !.e2ee_required = f.e2ee_required,
                      !.policy_epoch = f.policy_epoch])

\* The four frames that need a signature and an issuer with a role.
Governed(s, f) ==
    CASE f.kind = "roleGrant" -> OnRoleGrant(s, f)
      [] f.kind = "roleRevoke" -> OnRoleRevoke(s, f)
      [] f.kind = "moderationSigned" -> OnModeration(s, f)
      [] f.kind = "sessionPolicy" -> OnSessionPolicy(s, f)

OnGoverned(s, f) ==
    IF has_required_signature(f, s) /\ actor_is_authorized(f.by, s)
    THEN Governed(s, f)
    ELSE policy_reject(s, "other")

OnMediaProfile(s, f) ==
    [s EXCEPT !.phase =
        IF f.preferred = "hdr" /\ f.negotiated = "sdr" THEN "Degraded"
        ELSE IF s.handshake_complete /\ ~s.fallback THEN "Connected"
        ELSE @]

OnE2eeKeyEpoch(s, f) ==
    IF has_required_signature(f, s)
    THEN enforce_e2ee_epoch_policy(
            [s EXCEPT !.current_epoch = Larger(@, f.epoch)])
    ELSE policy_reject(s, "e2ee")

OnKeyRotationAck(s, f) ==
    [s EXCEPT !.last_ack_epoch = Larger(@, f.ack_epoch)]

OnPaymentPolicy(s, f) ==
    enforce_payment_settlement_policy(
        [s EXCEPT !.payment_required = f.required,
                  !.settlement_status =
                      IF f.required THEN "pending" ELSE "not_required"])

OnPaymentSettlement(s, f) ==
    enforce_payment_settlement_policy(
        [s EXCEPT !.settlement_status = f.status])

OnErrorFrame(s, f) ==
    [s EXCEPT !.phase = IF s.fallback THEN "FallbackActive"
                        ELSE IF f.category = "policy" THEN "Error"
                        ELSE "Degraded",
              !.last_error = [category |-> f.category, code |-> f.code]]

reduce_frame(s, f) ==
    CASE f.kind = "handshakeAck" -> OnHandshakeAck(s)
      [] f.kind = "participantPresenceDelta" -> OnPresenceDelta(s, f)
      [] f.kind = "permissionsSnapshot" -> OnPermissionsSnapshot(s, f)
      [] f.kind \in {"roleGrant", "roleRevoke", "moderationSigned",
                     "sessionPolicy"} -> OnGoverned(s, f)
      [] f.kind = "mediaProfileNegotiation" -> OnMediaProfile(s, f)
      [] f.kind = "recordingNotice" -> [s EXCEPT !.recording = f.state]
      [] f.kind = "e2eeKeyEpoch" -> OnE2eeKeyEpoch(s, f)
      [] f.kind = "keyRotationAck" -> OnKeyRotationAck(s, f)
      [] f.kind = "paymentPolicy" -> OnPaymentPolicy(s, f)
      [] f.kind = "paymentSettlement" -> OnPaymentSettlement(s, f)
      [] f.kind = "error" -> OnErrorFrame(s, f)
      [] f.kind \in {"handshake", "deviceCapability", "ping", "pong"} -> s
-----------------------------------------------------------------------------
TransportError == [category |-> "transport", code |-> "other"]

ConnectRequested(s) ==
    [s EXCEPT !.phase = "Connecting", !.handshake_complete = FALSE,
              !.last_error = NoError]

TransportConnected(s) ==
    [s EXCEPT !.phase = "Connecting", !.last_error = NoError]

\* TransportDisconnected and TransportFailure differ in their texts only.
TransportLost(s) ==
    IF s.fallback
    THEN [s EXCEPT !.phase = "FallbackActive", !.handshake_complete = FALSE]
    ELSE [s EXCEPT !.phase = "Degraded", !.handshake_complete = FALSE,
                   !.last_error = TransportError]

FrameSendFailed(s) ==
    IF s.fallback THEN [s EXCEPT !.phase = "FallbackActive"]
    ELSE [s EXCEPT !.phase = "Degraded", !.last_error = TransportError]

ManualDisconnected(s) ==
    [s EXCEPT !.phase = "Disconnected", !.handshake_complete = FALSE,
              !.last_error = NoError]

FallbackActivated(s) ==
    [s EXCEPT !.phase = "FallbackActive", !.fallback = TRUE,
              !.last_error = TransportError]

FallbackRecovered(s) ==
    [s EXCEPT !.phase = "Disconnected", !.fallback = FALSE]
=============================================================================
