------------------------------ MODULE HubJoin -------------------------------
(***************************************************************************)
(* Entering and leaving a room: handle_conn, handle_disconnect, and the    *)
(* handlers of Hello and AnonHello.                                        *)
(***************************************************************************)
EXTENDS HubState

\* handle_conn: the connection takes the next id and then, in a section of
\* its own, inserts a participant, creating the room when it is the first.
\* Ids are handed out in order, but connections may insert in any order.
Connect(c) ==
    /\ reader[c] = "none"
    /\ reader' = [reader EXCEPT ![c] = "running"]
    /\ participants' = [participants EXCEPT ![c] = Transparent("open", c)]
    /\ UNCHANGED <<task, device_caps_by_conn, roleVars, keyVars,
           signed_action_clock_by_signer, presence_sequence, configVars,
           permissions_epoch, anonymous_mode>>

\* The client's Close message, or the end of the stream, ends the read loop.
Close(c) ==
    /\ reader[c] = "running"
    /\ task[c].stage = "idle"
    /\ reader' = [reader EXCEPT ![c] = "closing"]
    /\ UNCHANGED <<task, roomVars>>

\* "ws recv" or FrameDecoder::try_next fails: the "?" returns past the cleanup.
ReadFails(c) ==
    /\ TransportFaults
    /\ reader[c] = "running"
    /\ task[c].stage = "idle"
    /\ reader' = [reader EXCEPT ![c] = "failed"]
    /\ UNCHANGED <<task, roomVars>>

\* rooms.remove: the next connection finds a room with default state.
RemoveRoom ==
    /\ participants' = [c \in Conns |-> Absent]
    /\ device_caps_by_conn' = [c \in Conns |-> NoCaps]
    /\ host_conn_id' = None
    /\ host_role_owner' = None
    /\ co_host_conn_ids' = {}
    /\ co_host_role_owners' = {}
    /\ e2ee_epochs' = [c \in Conns |-> 0]
    /\ key_rotation_ack_epochs' = [c \in Conns |-> 0]
    /\ signed_action_clock_by_signer' = NoClock
    /\ presence_sequence' = 0
    /\ max_screen_shares' = 1
    /\ policy' = DefaultPolicy
    /\ permissions_epoch' = 0
    /\ anonymous_mode' = FALSE

\* handle_disconnect by the last participant, or when the room is gone.
LeaveLast(c) ==
    /\ reader[c] = "closing"
    /\ Present(Without(c)) = {}
    /\ RemoveRoom
    /\ reader' = [reader EXCEPT ![c] = "done"]
    /\ UNCHANGED task

\* What every disconnect from a surviving room removes.
ForgetConn(c) ==
    /\ participants' = Without(c)
    /\ device_caps_by_conn' = [device_caps_by_conn EXCEPT ![c] = NoCaps]
    /\ e2ee_epochs' = [e2ee_epochs EXCEPT ![c] = 0]
    /\ key_rotation_ack_epochs' = [key_rotation_ack_epochs EXCEPT ![c] = 0]

\* handle_disconnect in a transparent room.  A departing host is succeeded by
\* the lowest connection id left, joined or not; host_role_owner stays.
LeaveTransparent(c) ==
    /\ reader[c] = "closing"
    /\ Present(Without(c)) # {}
    /\ ~anonymous_mode
    /\ ForgetConn(c)
    /\ IF host_conn_id = c
       THEN /\ host_conn_id' = Heir(c)
            /\ co_host_conn_ids' =
                   ActiveCoHosts(Without(c), Heir(c), co_host_role_owners)
            /\ permissions_epoch' = SatInc(permissions_epoch)
       ELSE /\ co_host_conn_ids' = co_host_conn_ids \ {c}
            /\ UNCHANGED <<host_conn_id, permissions_epoch>>
    /\ presence_sequence' =
           SatIncIf(presence_sequence, c \in Present(participants))
    /\ reader' = [reader EXCEPT ![c] = "done"]
    /\ UNCHANGED <<task, host_role_owner, co_host_role_owners,
           signed_action_clock_by_signer, configVars, anonymous_mode>>

\* handle_disconnect in an anonymous room, its first section.  The roster and
\* the key removal are broadcast before the group key rotation below.
LeaveAnonymous(c) ==
    /\ reader[c] = "closing"
    /\ Present(Without(c)) # {}
    /\ anonymous_mode
    /\ ForgetConn(c)
    /\ co_host_conn_ids' = co_host_conn_ids \ {c}
    /\ reader' = [reader EXCEPT ![c] = "leaving"]
    /\ UNCHANGED <<task, host_conn_id, host_role_owner,
           co_host_role_owners, signed_action_clock_by_signer,
           presence_sequence, configVars, permissions_epoch, anonymous_mode>>

\* build_anon_group_key_rotate_frame in the second section: the room found by
\* its id may have been removed, or made anew, since the first.
RotateAfterLeave(c) ==
    /\ reader[c] = "leaving"
    /\ permissions_epoch' = SatIncIf(permissions_epoch, RoomExists)
    /\ reader' = [reader EXCEPT ![c] = "done"]
    /\ UNCHANGED <<task, participants, device_caps_by_conn,
           roleVars, keyVars, signed_action_clock_by_signer,
           presence_sequence, configVars, anonymous_mode>>
-----------------------------------------------------------------------------
\* participant_id_is_guest
participant_id_is_guest(pid) == pid \notin Accounts

\* A joined participant keeps its id; nobody else has joined or waits with it.
IdFree_JoinedOnly(c, pid) ==
    /\ c \in Joined(participants) => participants[c].pid = pid
    /\ \A d \in Joined(participants) \ {c} : participants[d].pid # pid
IdFree(c, pid) ==
    /\ c \in Joined(participants) => participants[c].pid = pid
    /\ \A d \in (Joined(participants) \cup Waiting(participants)) \ {c} :
           participants[d].pid # pid

\* room_lock stops everyone, guest_join_allowed only who has not joined.
DoorOpen_LockOnly(c, pid) ==
    \/ host_conn_id = None
    \/ conn_or_participant_can_moderate(c, pid)
    \/ ~policy.room_lock
DoorOpen(c, pid) ==
    \/ host_conn_id = None
    \/ conn_or_participant_can_moderate(c, pid)
    \/ /\ ~policy.room_lock
       /\ \/ c \in Joined(participants)
          \/ policy.guest_join_allowed
          \/ ~participant_id_is_guest(pid)

validate_join_allowed(c, pid) ==
    /\ IdFree(c, pid)
    /\ DoorOpen(c, pid)
    /\ \/ c \in Joined(participants)
       \/ Cardinality(Joined(participants)) < policy.max_participants

HelloAccepted(c, f) ==
    /\ f.kind = "Hello"
    /\ Receives(c, f)
    /\ RoomExists
    /\ ~anonymous_mode
    /\ validate_join_allowed(c, f.pid)

\* The room is gone (only a denied connection can find that): an error.
HelloNoRoom(c, f) ==
    /\ f.kind = "Hello"
    /\ Receives(c, f)
    /\ ~RoomExists
    /\ ReturnErr(c)
    /\ UNCHANGED roomVars

HelloRefused(c, f) ==
    /\ f.kind = "Hello"
    /\ Receives(c, f)
    /\ RoomExists
    /\ anonymous_mode \/ ~validate_join_allowed(c, f.pid)
    /\ Reply(c)
    /\ UNCHANGED roomVars

\* route_to_waiting_room; a room without a host makes the newcomer host.
routed_to_waiting_room_ByConn(c, pid) ==
    /\ c \notin Joined(participants)
    /\ policy.waiting_room_enabled
    /\ host_conn_id # None
    /\ ~can_moderate_conn(c)
routed_to_waiting_room(c, pid) ==
    /\ c \notin Joined(participants)
    /\ policy.waiting_room_enabled
    /\ host_conn_id # None
    /\ ~conn_or_participant_can_moderate(c, pid)

HelloWaits(c, f) ==
    /\ HelloAccepted(c, f)
    /\ c \in Present(participants)
    /\ routed_to_waiting_room(c, f.pid)
    /\ participants' = [participants EXCEPT ![c] = Transparent("waiting", f.pid)]
    /\ GoTo(c, At("notify", f))
    /\ UNCHANGED <<device_caps_by_conn, roleVars, keyVars,
           signed_action_clock_by_signer, presence_sequence, configVars,
           permissions_epoch, anonymous_mode>>

\* The first Hello in a room without a host takes the host role.
HostVacant_NotJoined == host_conn_id \notin Joined(participants)
HostVacant == host_conn_id = None

ClaimHost(c, pid) ==
    IF HostVacant
    THEN [host |-> c, owner |-> pid, claimed |-> TRUE,
          cohosts |-> ActiveCoHosts(participants, c, co_host_role_owners)]
    ELSE [host |-> host_conn_id, owner |-> host_role_owner, claimed |-> FALSE,
          cohosts |-> co_host_conn_ids]

HelloJoins(c, f) ==
    /\ HelloAccepted(c, f)
    /\ c \in Present(participants)
    /\ ~routed_to_waiting_room(c, f.pid)
    /\ participants' = [participants EXCEPT ![c] = Transparent("joined", f.pid)]
    /\ LET claim == ClaimHost(c, f.pid)
           roles == RestoreRoles(participants', c, f.pid, claim.host,
                                 claim.owner, claim.cohosts)
       IN  /\ host_conn_id' = roles.host
           /\ host_role_owner' = claim.owner
           /\ co_host_conn_ids' = roles.cohosts
           /\ permissions_epoch' =
                  SatIncIf(SatIncIf(permissions_epoch, claim.claimed),
                           roles.changed)
    /\ presence_sequence' = SatInc(presence_sequence)
    /\ GoTo(c, At("announce", f))
    /\ UNCHANGED <<device_caps_by_conn, co_host_role_owners, keyVars,
           signed_action_clock_by_signer, configVars, anonymous_mode>>

\* The connection was denied from the waiting room: "participant missing",
\* found only after a room without a host has made it host.
HelloMissing(c, f) ==
    /\ HelloAccepted(c, f)
    /\ c \notin Present(participants)
    /\ LET claim == ClaimHost(c, f.pid)
       IN  /\ host_conn_id' = claim.host
           /\ host_role_owner' = claim.owner
           /\ co_host_conn_ids' = claim.cohosts
           /\ permissions_epoch' = SatIncIf(permissions_epoch, claim.claimed)
    /\ ReturnErr(c)
    /\ UNCHANGED <<participants, device_caps_by_conn, co_host_role_owners,
           keyVars, signed_action_clock_by_signer, presence_sequence,
           configVars, anonymous_mode>>
=============================================================================
