------------------------------ MODULE HubAnon -------------------------------
(***************************************************************************)
(* Anonymous rooms: the handlers of AnonHello, GroupKeyUpdate,             *)
(* EncryptedControl and AnonEncryptedPayload, one critical section each.   *)
(* A connection that is no longer a participant, or whose room is gone,    *)
(* gets no answer from them.                                               *)
(***************************************************************************)
EXTENDS HubState

\* The part of validate_anon_participant_handle that depends on the room.
validate_anon_participant_handle(c, handle) ==
    /\ \A d \in Conns \ {c} :
           participants[d].anon => participants[d].handle # handle
    /\ participants[c].handle \in {None, handle}

validate_anonymous_room_capacity_OneMore(c) ==
    \/ c \in AnonJoined(participants)
    \/ Cardinality(AnonJoined(participants)) <= AnonMaxParticipants
validate_anonymous_room_capacity(c) ==
    \/ c \in AnonJoined(participants)
    \/ Cardinality(AnonJoined(participants)) < AnonMaxParticipants

\* x25519 key changes require GroupKeyUpdate
KeyKept(c, key) ==
    c \in AnonJoined(participants) => participants[c].key \in {None, key}

\* A participant that has joined by Hello keeps the room transparent.
transparent_hello_seen_HostOnly ==
    host_conn_id \in Joined(participants) \ AnonJoined(participants)
transparent_hello_seen ==
    Joined(participants) \ AnonJoined(participants) # {}

AnonHelloAccepted(c, f) ==
    /\ validate_anon_participant_handle(c, f.handle)
    /\ validate_anonymous_room_capacity(c)
    /\ anonymous_mode \/ ~transparent_hello_seen
    /\ KeyKept(c, f.key)

\* apply_anon_hello_state: the epoch starts at 1 and survives a repeated hello.
apply_anon_hello_state(p, f) ==
    [p EXCEPT !.anon = TRUE, !.status = "joined", !.handle = f.handle,
              !.key = f.key, !.kepoch = IF @ = 0 THEN 1 ELSE @]

\* The first AnonHello makes a room without transparent participants
\* anonymous; every one rotates the group key.
AnonHello(c, f) ==
    /\ f.kind = "AnonHello"
    /\ Receives(c, f)
    /\ AnonHelloAccepted(c, f)
    /\ c \in Present(participants)
    /\ participants' =
           [participants EXCEPT ![c] = apply_anon_hello_state(@, f)]
    /\ anonymous_mode' = TRUE
    /\ permissions_epoch' = SatInc(permissions_epoch)
    /\ GoTo(c, At("relay", f))
    /\ UNCHANGED <<device_caps_by_conn, roleVars, keyVars,
           signed_action_clock_by_signer, presence_sequence, configVars>>

AnonHelloRefused(c, f) ==
    /\ f.kind = "AnonHello"
    /\ Receives(c, f)
    /\ RoomExists
    /\ ~AnonHelloAccepted(c, f)
    /\ Reply(c)
    /\ UNCHANGED roomVars

\* The sender has joined anonymously under the handle it writes.
SentUnderOwnHandle_AnyHandle(c, f) == c \in AnonJoined(participants)
SentUnderOwnHandle(c, f) ==
    c \in AnonJoined(participants) /\ participants[c].handle = f.handle

should_apply_group_key_update(c, f) == f.epoch > participants[c].kepoch

GroupKeyUpdate(c, f) ==
    /\ f.kind = "GroupKeyUpdate"
    /\ Receives(c, f)
    /\ anonymous_mode
    /\ SentUnderOwnHandle(c, f)
    /\ should_apply_group_key_update(c, f)
    /\ participants' = [participants EXCEPT
           ![c] = [@ EXCEPT !.key = f.key, !.kepoch = f.epoch]]
    /\ GoTo(c, At("relay", f))
    /\ UNCHANGED <<device_caps_by_conn, roleVars, keyVars,
           signed_action_clock_by_signer, presence_sequence, configVars,
           permissions_epoch, anonymous_mode>>

\* validate_encrypted_control_room_recipients
RosterHandles == {participants[c].handle : c \in AnonJoined(participants)}

\* EncryptedControl is bound to the sender's key epoch and the roster;
\* AnonEncryptedPayload only to an epoch of at least 1.
Relayable(c, f) ==
    /\ SentUnderOwnHandle(c, f)
    /\ IF f.kind = "EncryptedControl"
       THEN f.epoch = participants[c].kepoch /\ f.recipients \subseteq RosterHandles
       ELSE f.epoch >= 1

RelayEncrypted(c, f) ==
    /\ f.kind \in {"EncryptedControl", "AnonEncryptedPayload"}
    /\ Receives(c, f)
    /\ anonymous_mode
    /\ Relayable(c, f)
    /\ GoTo(c, At("relay", f))
    /\ UNCHANGED roomVars

\* A repeated GroupKeyUpdate (same epoch, same key) is neither applied nor
\* an error; every other one that is not applied is answered.
SealedRefused(c, f) ==
    /\ f.kind \in {"GroupKeyUpdate", "EncryptedControl", "AnonEncryptedPayload"}
    /\ Receives(c, f)
    /\ RoomExists
    /\ \/ ~anonymous_mode
       \/ /\ c \in Present(participants)
          /\ IF f.kind = "GroupKeyUpdate"
             THEN ~ /\ SentUnderOwnHandle(c, f)
                    /\ \/ should_apply_group_key_update(c, f)
                       \/ f.epoch = participants[c].kepoch
                              /\ f.key = participants[c].key
             ELSE ~Relayable(c, f)
    /\ Reply(c)
    /\ UNCHANGED roomVars
=============================================================================
