---------------------------- MODULE SessionState ----------------------------
(***************************************************************************)
(* The session state of the native client (kaigi-linux-client), the frames *)
(* it receives and the decoder that makes them out of JSON objects.        *)
(*                                                                         *)
(* Times, names, codecs, URLs and messages are left out: no decision of    *)
(* the client looks at them.  Of an error the reducer tells apart its      *)
(* category and three families of codes ("payment_...", "e2ee_...", the    *)
(* others); of a signature, whether it is there and not blank.             *)
(***************************************************************************)
EXTENDS Integers, Sequences, FiniteSets, Functions

CONSTANTS
    Members,     \* participant ids that occur in frames
    System       \* the issuer "system", which is not a participant id

Phases == {"Disconnected", "Connecting", "Connected", "Degraded",
           "FallbackActive", "Error"}
ParticipantRoles == {"host", "coHost", "participant", "guest"}
ErrorCategories == {"protocol", "policy", "transport"}
ErrorCodes == {"payment", "e2ee", "other"}
SettlementStatuses == {"not_required", "pending", "settled", "blocked"}
Actions == {"mute", "videoOff", "stopShare", "kick", "admitFromWaiting",
            "denyFromWaiting"}

Participant == [role : ParticipantRoles, muted : BOOLEAN, video : BOOLEAN,
                share : BOOLEAN, waiting : BOOLEAN]
SessionError == [category : ErrorCategories, code : ErrorCodes]
NoError == [category |-> "none", code |-> "none"]   \* last_error = None
MeetingConfig == [signed : BOOLEAN,   \* require_signed_moderation
                  pay : BOOLEAN,      \* require_payment_settlement
                  web : BOOLEAN]      \* prefer_web_fallback_on_policy_failure

\* ProtocolSessionState.  The two BTreeMaps keyed by participant id are
\* functions from some of the members.
IsSessionState(s) ==
    /\ DOMAIN s.participants \subseteq Members
    /\ \A p \in DOMAIN s.participants : s.participants[p] \in Participant
    /\ DOMAIN s.permission_snapshots \subseteq Members
    /\ \A p \in DOMAIN s.permission_snapshots :
           s.permission_snapshots[p] \in Int
    /\ s.config \in MeetingConfig
    /\ s.phase \in Phases
    /\ {s.handshake_complete, s.resume_token, s.room_locked, s.e2ee_required,
        s.recording, s.payment_required, s.fallback} \subseteq BOOLEAN
    /\ {s.presence_sequence, s.policy_epoch, s.current_epoch,
        s.last_ack_epoch} \subseteq Int
    /\ s.settlement_status \in SettlementStatuses
    /\ s.last_error \in SessionError \cup {NoError}

\* ProtocolSessionState::initial
initial(config) ==
    [config |-> config, phase |-> "Disconnected",
     handshake_complete |-> FALSE, resume_token |-> FALSE,
     participants |-> <<>>, permission_snapshots |-> <<>>,
     presence_sequence |-> 0, room_locked |-> FALSE, e2ee_required |-> TRUE,
     policy_epoch |-> 0, recording |-> FALSE, current_epoch |-> 0,
     last_ack_epoch |-> 0, payment_required |-> FALSE,
     settlement_status |-> "not_required", fallback |-> FALSE,
     last_error |-> NoError]
-----------------------------------------------------------------------------
(***************************************************************************)
(* decode_frame.  A raw object is a function from some field names to      *)
(* values; a field that is missing, has the wrong type or is out of range  *)
(* is one that is not in its domain (get_bool, get_i64 and get_i32 return  *)
(* None for all three).  The two spellings of names and the optional       *)
(* envelope around the fields are one spelling here.                       *)
(***************************************************************************)
Field(raw, name, default) ==
    IF name \in DOMAIN raw THEN raw[name] ELSE default

\* Numbers, flags and ids are what get_i64, get_i32, get_bool and get_string
\* return; words stay free, the parse_... functions look at them.
IsRaw(raw) ==
    /\ \A name \in {"sequence", "policy_epoch", "epoch", "ack_epoch"} :
           Field(raw, name, 0) \in Int
    /\ \A name \in {"room_lock", "recording_policy", "e2ee_required", "state",
                     "required"} :
           Field(raw, name, FALSE) \in BOOLEAN
    /\ Field(raw, "code", "other") \in ErrorCodes
    /\ "participant_id" \in DOMAIN raw => raw.participant_id \in Members
    /\ LET joined == Field(raw, "joined", <<>>)
       IN /\ DOMAIN joined \subseteq Members
          /\ \A p \in DOMAIN joined :
                 \A name \in {"muted", "video", "share", "waiting"} :
                     Field(joined[p], name, FALSE) \in BOOLEAN

\* Mutant: a word nobody knows is kept.
Word_Kept(raw, name, known, default) == Field(raw, name, default)

\* The parse_... functions map a word they do not know to a default.
Word(raw, name, known, default) ==
    IF Field(raw, name, default) \in known THEN Field(raw, name, default)
    ELSE default

\* The fields whose absence makes decode_frame fail (require_string).
Required ==
    [handshake |-> {"room_id", "participant_id", "participant_name"},
     handshakeAck |-> {"session_id", "resume_token"},
     participantPresenceDelta |-> {},
     roleGrant |-> {"target"}, roleRevoke |-> {"target"},
     permissionsSnapshot |-> {"participant_id"},
     moderationSigned |-> {"target"}, sessionPolicy |-> {},
     deviceCapability |-> {"participant_id"},
     mediaProfileNegotiation |-> {}, recordingNotice |-> {},
     e2eeKeyEpoch |-> {}, keyRotationAck |-> {"participant_id"},
     paymentPolicy |-> {}, paymentSettlement |-> {}, error |-> {},
     ping |-> {}, pong |-> {}]

\* canonical_kind and the errors of decode_frame.
Decodes(raw) ==
    /\ "kind" \in DOMAIN raw
    /\ raw.kind \in DOMAIN Required
    /\ Required[raw.kind] \subseteq DOMAIN raw

parse_participant(raw) ==
    [role |-> Word(raw, "role", ParticipantRoles, "participant"),
     muted |-> Field(raw, "muted", FALSE),
     video |-> Field(raw, "video", TRUE),
     share |-> Field(raw, "share", TRUE),
     waiting |-> Field(raw, "waiting", FALSE)]

decode_presence(raw) ==
    LET joined == Field(raw, "joined", <<>>)
        changes == Field(raw, "role_changes", <<>>)
    IN [kind |-> raw.kind,
        joined |-> [p \in DOMAIN joined |-> parse_participant(joined[p])],
        left |-> Field(raw, "left", {}),
        role_changes |-> [p \in DOMAIN changes |->
                             Word(changes, p, ParticipantRoles, "participant")],
        sequence |-> Field(raw, "sequence", 0)]

\* RoleGrant, RoleRevoke and ModerationSigned name a target and an issuer.
decode_signed(raw) ==
    [kind |-> raw.kind, target |-> raw.target,
     role |-> Word(raw, "role", ParticipantRoles, "participant"),
     action |-> Word(raw, "action", Actions, "mute"),
     by |-> Field(raw, "by", "unknown"),
     signed |-> Field(raw, "signed", FALSE)]

decode_session_policy(raw) ==
    [kind |-> raw.kind,
     room_lock |-> Field(raw, "room_lock", FALSE),
     recording_policy |-> Field(raw, "recording_policy", FALSE),
     e2ee_required |-> Field(raw, "e2ee_required", TRUE),
     policy_epoch |-> Field(raw, "policy_epoch", 0),
     by |-> Field(raw, "by", System),
     signed |-> Field(raw, "signed", FALSE)]

\* The frames with a few optional fields, and those whose fields are unread.
decode_other(raw) ==
    CASE raw.kind = "permissionsSnapshot" ->
            [kind |-> raw.kind, participant_id |-> raw.participant_id,
             epoch |-> Field(raw, "epoch", 0)]
      [] raw.kind = "mediaProfileNegotiation" ->
            [kind |-> raw.kind,
             preferred |-> Word(raw, "preferred", {"hdr"}, "sdr"),
             negotiated |-> Word(raw, "negotiated", {"hdr"}, "sdr")]
      [] raw.kind = "recordingNotice" ->
            [kind |-> raw.kind, state |-> Field(raw, "state", FALSE)]
      [] raw.kind = "e2eeKeyEpoch" ->
            [kind |-> raw.kind, epoch |-> Field(raw, "epoch", 0),
             signed |-> Field(raw, "signed", FALSE)]
      [] raw.kind = "keyRotationAck" ->
            [kind |-> raw.kind, ack_epoch |-> Field(raw, "ack_epoch", 0)]
      [] raw.kind = "paymentPolicy" ->
            [kind |-> raw.kind, required |-> Field(raw, "required", FALSE)]
      [] raw.kind = "paymentSettlement" ->
            [kind |-> raw.kind,
             status |-> Word(raw, "status", SettlementStatuses,
                             "not_required")]
      [] raw.kind = "error" ->
            [kind |-> raw.kind,
             category |-> Word(raw, "category", ErrorCategories, "protocol"),
             code |-> Field(raw, "code", "other")]
      [] OTHER -> [kind |-> raw.kind]

decode_frame(raw) ==
    CASE raw.kind = "participantPresenceDelta" -> decode_presence(raw)
      [] raw.kind \in {"roleGrant", "roleRevoke", "moderationSigned"} ->
            decode_signed(raw)
      [] raw.kind = "sessionPolicy" -> decode_session_policy(raw)
      [] OTHER -> decode_other(raw)
=============================================================================
