----------------------------- MODULE HubControl -----------------------------
(***************************************************************************)
(* Plaintext control frames: the anonymous-mode gate they all start with,  *)
(* roles, session policy, room configuration, moderation and the waiting   *)
(* room, and what handlers do after their last section: relay, permissions *)
(* snapshots, notices to the moderators.                                   *)
(***************************************************************************)
EXTENDS HubState

\* Handlers that call validate_plaintext_e2ee_gate in a section of its own.
E2eeGatedKinds == {"MediaTrackState", "VideoSegment", "AudioPacket"}

PlaintextKinds == E2eeGatedKinds \cup
    {"Chat", "ParticipantState", "MediaCapability", "RecordingNotice",
     "RoomConfigUpdate", "RoleGrant", "RoleRevoke", "SessionPolicy",
     "DeviceCapability", "MediaProfileNegotiation", "E2EEKeyEpoch",
     "KeyRotationAck", "Moderation", "ModerationSigned", "Payment"}

StageAfterGate(kind) ==
    CASE kind = "Chat" -> "hello"
      [] kind \in E2eeGatedKinds -> "e2ee"
      [] kind = "ModerationSigned" -> "verify"
      [] OTHER -> "apply"

\* room_is_anonymous, taken and released before the handler's own section.
Gate(c, f) ==
    /\ f.kind \in PlaintextKinds
    /\ Receives(c, f)
    /\ IF anonymous_mode THEN Reply(c)
       ELSE GoTo(c, At(StageAfterGate(f.kind), f))
    /\ UNCHANGED roomVars

Handling(c, stage, kinds) ==
    task[c].stage = stage /\ task[c].frame.kind \in kinds

\* hello_seen, for Chat
HelloSeenGate(c) ==
    /\ Handling(c, "hello", {"Chat"})
    /\ IF c \in Joined(participants) THEN GoTo(c, At("e2ee", task[c].frame))
       ELSE Reply(c)
    /\ UNCHANGED roomVars

\* A plaintext sender without a published key in a room that requires one.
lacks_e2ee_key(c) == policy.e2ee_required /\ e2ee_epochs[c] = 0

\* validate_plaintext_e2ee_gate: a sender that has not joined passes it, to
\* be refused by the handler's own section.
validate_plaintext_e2ee_gate(c) ==
    ~(c \in Joined(participants) /\ ~anonymous_mode /\ lacks_e2ee_key(c))

E2eeGate(c) ==
    /\ Handling(c, "e2ee", E2eeGatedKinds \cup {"Chat"})
    /\ LET f == task[c].frame
       IN  IF validate_plaintext_e2ee_gate(c)
           THEN GoTo(c, At(IF f.kind = "Chat" THEN "relay" ELSE "apply", f))
           ELSE Reply(c)
    /\ UNCHANGED roomVars

\* The section of a handler whose connection has been denied meanwhile: it
\* returns, but for the apply_* functions, which answer "participant missing".
SectionMissing(c) ==
    /\ task[c].stage \in {"verify", "apply"}
    /\ c \notin Present(participants)
    /\ IF task[c].frame.kind \in {"RoleGrant", "RoleRevoke", "SessionPolicy"}
              /\ RoomExists
       THEN ReturnErr(c) ELSE GoTo(c, Idle)
    /\ UNCHANGED roomVars

\* Frames answered to their sender alone whatever the room: frames the hub
\* manages itself, Ping, a wrong version, a bad format or signature.
ReplyOnly(c) ==
    /\ reader[c] = "running"
    /\ task[c].stage = "idle"
    /\ c \notin Present(participants)
    /\ Reply(c)
    /\ UNCHANGED roomVars
-----------------------------------------------------------------------------
\* broadcast_frame to whoever is in the room by now.
Relay(c) ==
    /\ task[c].stage = "relay"
    /\ GoTo(c, Idle)
    /\ UNCHANGED roomVars

\* notify_moderators lists the host and the active co-hosts.
Moderators == ({host_conn_id} \ {None}) \cup co_host_conn_ids

\* broadcast_frame finds a full queue and owes the moderators a notice.
BackpressureNotice(c) ==
    /\ SlowClients
    /\ task[c].stage \in {"relay", "announce"}
    /\ GoTo(c, [task[c] EXCEPT !.to = @ \cup Moderators])
    /\ UNCHANGED roomVars

\* send_frame_to a connection that has left is an error of the sender.
SendFails(c) ==
    /\ task[c].stage \in {"relay", "announce", "sending"}
    /\ ~(task[c].to \subseteq Present(participants))
    /\ ReturnErr(c)
    /\ UNCHANGED roomVars

Sending(c, to) == GoTo(c, [stage |-> "sending", frame |-> NoFrame, to |-> to])

\* broadcast_permissions_snapshots lists the joined participants ...
Announce(c) ==
    /\ task[c].stage = "announce"
    /\ IF anonymous_mode THEN GoTo(c, Idle) ELSE Sending(c, Joined(participants))
    /\ UNCHANGED roomVars

\* ... as notify_moderators lists the moderators; the sender of the Hello is
\* told last that it waits.
Notify(c) ==
    /\ task[c].stage = "notify"
    /\ Sending(c, Moderators \cup {c})
    /\ UNCHANGED roomVars

\* Every listed connection was still there when it was written to.
Sent(c) ==
    /\ task[c].stage = "sending"
    /\ GoTo(c, Idle)
    /\ UNCHANGED roomVars
=============================================================================
