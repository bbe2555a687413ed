------------------------------ MODULE HubMedia ------------------------------
(***************************************************************************)
(* Media state, media relay, device capabilities and end-to-end key        *)
(* epochs of joined participants in a transparent room.                    *)
(***************************************************************************)
EXTENDS HubControl

\* The sender has joined and names itself.
SpeaksForItself(c, f) ==
    c \in Joined(participants) /\ participants[c].pid = f.pid

SwitchTo(old, switch) == IF switch = "keep" THEN old ELSE switch = "on"

\* A share that is off may go on while fewer others share than allowed.
share_granted_OneMore(c) ==
    \/ participants[c].share
    \/ Cardinality({d \in Conns \ {c} : participants[d].share})
           <= max_screen_shares
share_granted(c) ==
    \/ participants[c].share
    \/ Cardinality({d \in Conns \ {c} : participants[d].share})
           < max_screen_shares

\* ParticipantState; a refused share leaves the rest of the update in force.
SetParticipantState(c) ==
    /\ Handling(c, "apply", {"ParticipantState"})
    /\ c \in Joined(participants)
    /\ ~lacks_e2ee_key(c)
    /\ LET f == task[c].frame
           p == participants[c]
           share == IF f.share = "on" /\ ~share_granted(c) THEN p.share
                    ELSE SwitchTo(p.share, f.share)
       IN  /\ participants' = [participants EXCEPT ![c] =
                  WithMedia(p, SwitchTo(p.mic, f.mic),
                            SwitchTo(p.video, f.video), share)]
           /\ GoTo(c, At("relay", f))
    /\ UNCHANGED <<device_caps_by_conn, roleVars, keyVars,
           signed_action_clock_by_signer, presence_sequence, configVars,
           permissions_epoch, anonymous_mode>>

\* MediaTrackState: the active track switches the other one off.
SetMediaTrack(c) ==
    /\ Handling(c, "apply", {"MediaTrackState"})
    /\ LET f == task[c].frame
       IN  /\ SpeaksForItself(c, f)
           /\ participants' = [participants EXCEPT ![c] =
                  WithMedia(participants[c], f.mic,
                            f.track = "Camera" /\ f.on,
                            f.track = "ScreenShare" /\ f.on)]
           /\ GoTo(c, At("relay", f))
    /\ UNCHANGED <<device_caps_by_conn, roleVars, keyVars,
           signed_action_clock_by_signer, presence_sequence, configVars,
           permissions_epoch, anonymous_mode>>

RelayedKinds == {"MediaCapability", "VideoSegment", "AudioPacket",
                 "RecordingNotice"}

\* Local recording may start only while the policy allows it.
RelayAllowed(c, f) ==
    /\ SpeaksForItself(c, f)
    /\ f.kind = "RecordingNotice" /\ f.started => policy.local_recording_allowed

\* Frames that are checked and passed on without touching the room.
PassOn(c) ==
    /\ Handling(c, "apply", RelayedKinds)
    /\ RelayAllowed(c, task[c].frame)
    /\ GoTo(c, At("relay", task[c].frame))
    /\ UNCHANGED roomVars

TwoSectionKinds == {"DeviceCapability", "MediaProfileNegotiation"}

\* DeviceCapability and MediaProfileNegotiation check, release the mutex,
\* and act in a second section.
CheckCapability(c) ==
    /\ Handling(c, "apply", TwoSectionKinds)
    /\ SpeaksForItself(c, task[c].frame)
    /\ GoTo(c, At("store", task[c].frame))
    /\ UNCHANGED roomVars

StoreCapability(c) ==
    /\ Handling(c, "store", {"DeviceCapability"})
    /\ LET f == task[c].frame
       IN  /\ device_caps_by_conn' = IF RoomExists
                THEN [device_caps_by_conn EXCEPT ![c] =
                      [known |-> TRUE, hdr_capture |-> f.hdr_capture,
                       hdr_render |-> f.hdr_render]]
                ELSE device_caps_by_conn
           /\ GoTo(c, At("relay", f))
    /\ UNCHANGED <<participants, roleVars, keyVars,
           signed_action_clock_by_signer, presence_sequence, configVars,
           permissions_epoch, anonymous_mode>>

\* resolve_media_profile_negotiation: HDR needs a sender that captures it and
\* another joined participant that renders it.
resolve_media_profile_negotiation(c, f) ==
    [f EXCEPT !.hdr =
        /\ @
        /\ device_caps_by_conn[c].hdr_capture
        /\ \E d \in Joined(participants) \ {c} :
               device_caps_by_conn[d].hdr_render]

ResolveProfile(c) ==
    /\ Handling(c, "store", {"MediaProfileNegotiation"})
    /\ GoTo(c, At("relay", resolve_media_profile_negotiation(c, task[c].frame)))
    /\ UNCHANGED roomVars
-----------------------------------------------------------------------------
E2EEKeyEpochAllowed(c, f) ==
    /\ SpeaksForItself(c, f)
    /\ f.epoch > e2ee_epochs[c]
    /\ ClockAllows("e2ee_key_epoch", f.pid, f.at)

PublishKeyEpoch(c) ==
    /\ Handling(c, "apply", {"E2EEKeyEpoch"})
    /\ LET f == task[c].frame
       IN  /\ E2EEKeyEpochAllowed(c, f)
           /\ AdvanceClock("e2ee_key_epoch", f.pid, f.at)
           /\ e2ee_epochs' = [e2ee_epochs EXCEPT ![c] = f.epoch]
           /\ GoTo(c, At("relay", f))
    /\ UNCHANGED <<participants, device_caps_by_conn, roleVars,
           key_rotation_ack_epochs, presence_sequence, configVars,
           permissions_epoch, anonymous_mode>>

KeyRotationAckAllowed_Ahead(c, f) ==
    /\ SpeaksForItself(c, f)
    /\ f.epoch > key_rotation_ack_epochs[c]
    /\ ClockAllows("key_rotation_ack", f.pid, f.at)
KeyRotationAckAllowed(c, f) ==
    /\ SpeaksForItself(c, f)
    /\ f.epoch <= e2ee_epochs[c]
    /\ f.epoch > key_rotation_ack_epochs[c]
    /\ ClockAllows("key_rotation_ack", f.pid, f.at)

AckKeyRotation(c) ==
    /\ Handling(c, "apply", {"KeyRotationAck"})
    /\ LET f == task[c].frame
       IN  /\ KeyRotationAckAllowed(c, f)
           /\ AdvanceClock("key_rotation_ack", f.pid, f.at)
           /\ key_rotation_ack_epochs' =
                  [key_rotation_ack_epochs EXCEPT ![c] = f.epoch]
           /\ GoTo(c, At("relay", f))
    /\ UNCHANGED <<participants, device_caps_by_conn, roleVars, e2ee_epochs,
           presence_sequence, configVars, permissions_epoch, anonymous_mode>>

MediaAllowed(c, f) ==
    CASE f.kind = "ParticipantState" ->
             c \in Joined(participants) /\ ~lacks_e2ee_key(c)
      [] f.kind \in RelayedKinds -> RelayAllowed(c, f)
      [] f.kind \in TwoSectionKinds \cup {"MediaTrackState"} ->
             SpeaksForItself(c, f)
      [] f.kind = "E2EEKeyEpoch" -> E2EEKeyEpochAllowed(c, f)
      [] f.kind = "KeyRotationAck" -> KeyRotationAckAllowed(c, f)

MediaRefused(c) ==
    /\ Handling(c, "apply", RelayedKinds \cup TwoSectionKinds \cup
           {"ParticipantState", "MediaTrackState", "E2EEKeyEpoch",
            "KeyRotationAck"})
    /\ c \in Present(participants)
    /\ ~MediaAllowed(c, task[c].frame)
    /\ Reply(c)
    /\ UNCHANGED roomVars
=============================================================================
