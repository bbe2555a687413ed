------------------------------- MODULE HubRoom ------------------------------
(***************************************************************************)
(* The room of the hub: the handlers of the modules below, interleaved, and *)
(* the properties that make them correct together.                         *)
(***************************************************************************)
EXTENDS HubJoin, HubAnon, HubModeration, HubMedia

Lifecycle(c) ==
    \/ Connect(c) \/ Close(c) \/ ReadFails(c)
    \/ LeaveLast(c) \/ LeaveTransparent(c)
    \/ LeaveAnonymous(c) \/ RotateAfterLeave(c)

\* The read loop takes a frame and runs the handler's first section.
Receive(c, f) ==
    \/ HelloNoRoom(c, f) \/ HelloRefused(c, f) \/ HelloWaits(c, f)
    \/ HelloJoins(c, f) \/ HelloMissing(c, f)
    \/ AnonHello(c, f) \/ AnonHelloRefused(c, f)
    \/ GroupKeyUpdate(c, f) \/ RelayEncrypted(c, f) \/ SealedRefused(c, f)
    \/ Gate(c, f)

\* A later section of the handler.
Continue(c) ==
    \/ HelloSeenGate(c) \/ E2eeGate(c) \/ SectionMissing(c)
    \/ GrantHost(c) \/ GrantCoHost(c) \/ RevokeCoHost(c)
    \/ UpdatePolicy(c) \/ UpdateRoomConfig(c) \/ ControlRefused(c)
    \/ VerifySigned(c) \/ RegateSigned(c) \/ ModerationRefused(c)
    \/ ModerationFails(c) \/ Mute(c) \/ Admit(c) \/ Deny(c)
    \/ SetParticipantState(c) \/ SetMediaTrack(c) \/ PassOn(c)
    \/ CheckCapability(c) \/ StoreCapability(c) \/ ResolveProfile(c)
    \/ PublishKeyEpoch(c) \/ AckKeyRotation(c) \/ MediaRefused(c)
    \/ Relay(c) \/ Announce(c) \/ Notify(c) \/ Sent(c) \/ SendFails(c)
    \/ BackpressureNotice(c)

Next ==
    \E c \in Conns : \/ Lifecycle(c) \/ ReplyOnly(c) \/ Continue(c)
                     \/ \E f \in Frames : Receive(c, f)

Spec == Init /\ [][Next]_vars
-----------------------------------------------------------------------------
\* The active co-host bindings of a transparent room are those its reserved
\* co-host ids call for, whatever joins, grants, revokes and departures led
\* there (sync_active_co_host_bindings is called wherever it is needed).
CoHostBinding ==
    ~anonymous_mode =>
        \A c \in Conns :
            c \in co_host_conn_ids <=>
                /\ c \in Joined(participants)
                /\ c # host_conn_id
                /\ participants[c].pid \in co_host_role_owners

\* A transparent room in which somebody has joined has a host, and the host
\* is in the room, unless it is a denied connection whose Hello failed.
HostPresent ==
    ~anonymous_mode =>
        /\ Joined(participants) # {} => host_conn_id # None
        /\ host_conn_id # None =>
               \/ host_conn_id \in Present(participants)
               \/ reader[host_conn_id] = "failed"

\* The participant for whom the host role is reserved holds it whenever it
\* has joined: host_role_owner and host_conn_id never contradict each other.
OwnerIsHost ==
    ~anonymous_mode =>
        \A c \in Joined(participants) :
            participants[c].pid = host_role_owner => host_conn_id = c

\* A transparent room in use has a host that is there, and no other than the
\* one the role is reserved for when that one has joined.
HostSound == HostPresent /\ OwnerIsHost

\* Nobody with a reserved moderation role is left in the waiting room.
ReservedNeverWait ==
    ~anonymous_mode =>
        \A c \in Waiting(participants) : ~Reserved(participants[c].pid)

\* No two joined or waiting transparent participants hold one participant id.
UniqueIds ==
    \A c, d \in Joined(participants) \cup Waiting(participants) :
        /\ c # d
        /\ ~participants[c].anon
        /\ ~participants[d].anon
        => participants[c].pid # participants[d].pid

\* A room never mixes anonymous and transparent participants.
ModeExclusion ==
    /\ anonymous_mode => Joined(participants) = AnonJoined(participants)
    /\ ~anonymous_mode => \A c \in Conns : ~participants[c].anon

\* A plaintext frame that passed its checks while the room was transparent is
\* still relayed in a transparent room, by a joined participant: the mode
\* cannot change between the sections of a handler.
PlaintextStaysTransparent ==
    \A c \in Conns :
        /\ task[c].stage \in {"store", "relay", "announce"}
        /\ task[c].frame.kind \in PlaintextKinds
        => ~anonymous_mode /\ c \in Joined(participants)

\* The two modes stay apart, in the roster and in what is about to be relayed.
ModesApart == ModeExclusion /\ PlaintextStaysTransparent

\* Key epochs and device capabilities belong to joined transparent
\* participants, also where the code forgets to remove them (a denial keeps
\* device_caps_by_conn), and no acknowledged epoch is ahead of the key.
KeyedStateOwned ==
    \A c \in Conns :
        /\ (e2ee_epochs[c] # 0 \/ device_caps_by_conn[c].known)
               => c \in Joined(participants) \ AnonJoined(participants)
        /\ key_rotation_ack_epochs[c] <= e2ee_epochs[c]

\* The anonymous roster: handles are unique, every member has a key and an
\* epoch, and it fits the configured capacity.
AnonRosterSound ==
    /\ Cardinality(AnonJoined(participants)) <= AnonMaxParticipants
    /\ \A c \in AnonJoined(participants) :
           /\ participants[c].key # None /\ participants[c].kepoch >= 1
           /\ \A d \in AnonJoined(participants) \ {c} :
                  participants[c].handle # participants[d].handle

\* A sealed frame is relayed in an anonymous room only, for a member of the
\* roster and, for EncryptedControl, under the key epoch it has now.
SealedRelaySound ==
    \A c \in Conns :
        /\ task[c].stage = "relay"
        /\ task[c].frame.kind \in {"GroupKeyUpdate", "EncryptedControl",
                                  "AnonEncryptedPayload"}
        => /\ anonymous_mode
           /\ c \in AnonJoined(participants)
           /\ participants[c].handle = task[c].frame.handle
           /\ task[c].frame.kind # "AnonEncryptedPayload"
                  => participants[c].kepoch = task[c].frame.epoch

\* In a room that requires end-to-end encryption a plaintext frame is relayed
\* only for a sender that has published a key epoch.
PlaintextNeedsKey ==
    \A c \in Conns :
        /\ task[c].stage = "relay"
        /\ task[c].frame.kind \in E2eeGatedKinds \cup {"Chat", "ParticipantState"}
        => ~lacks_e2ee_key(c)

Sharing(ps) == {c \in Conns : ps[c].share}

\* Whoever starts to share its screen leaves the room within its
\* max_screen_shares, unless it does so by a MediaTrackState, which the code
\* accepts whatever the limit.
ShareLimit ==
    [][\A c \in Sharing(participants') \ Sharing(participants) :
           task[c].frame.kind # "MediaTrackState" =>
               Cardinality(Sharing(participants')) <= max_screen_shares]_vars

\* In a locked room with its host present nobody joins but those a moderator
\* admits from the waiting room and those who hold a moderation role; guests
\* are kept out in the same way when the policy excludes them.  And whoever
\* joins by a frame of its own leaves the room within its capacity: only an
\* admission, which does not look at max_participants, can exceed it.
ClosedDoor ==
    [][~anonymous_mode =>
         \A c \in Joined(participants') \ Joined(participants) :
             /\ host_conn_id \in Joined(participants) =>
                    \/ c \in Waiting(participants)
                    \/ can_moderate_conn(c)'
                    \/ /\ ~policy.room_lock
                       /\ participant_id_is_guest(participants'[c].pid)
                              => policy.guest_join_allowed
             /\ ~anonymous_mode' /\ task'[c] # task[c] =>
                    Cardinality(Joined(participants')) <= policy.max_participants]_vars

-----------------------------------------------------------------------------
\* role_kind_for_conn
role_kind_for_conn(c) ==
    IF host_conn_id = c THEN "Host"
    ELSE IF c \in co_host_conn_ids THEN "CoHost" ELSE "Participant"

StayJoined == Joined(participants) \cap Joined(participants')

\* A participant that stays joined never gains a moderation role by a frame
\* of its own: the host grants it, or the host's departure leaves it.
NoSelfPromotion ==
    [][~anonymous_mode' => \A c \in StayJoined :
           ~can_moderate_conn(c) /\ can_moderate_conn(c)' => task'[c] = task[c]]_vars

\* A participant that stays joined loses its moderation role only to a frame
\* of the joined host, or to the return of the host role's owner.
PowerLossJustified ==
    [][~anonymous_mode' => \A c \in StayJoined :
           can_moderate_conn(c) /\ ~can_moderate_conn(c)' =>
               \/ /\ host_conn_id \in Joined(participants)
                  /\ task'[host_conn_id] # task[host_conn_id]
               \/ /\ host_conn_id' \in Joined(participants')
                  /\ participants'[host_conn_id'].pid = host_role_owner']_vars

RoleChanges == \E c \in StayJoined : role_kind_for_conn(c)' # role_kind_for_conn(c)

\* While the host has joined, whoever changes a joined participant's role
\* moves permissions_epoch, which clients compare to tell a new permissions
\* snapshot from an old one.  (A host that only waits may be denied, and a
\* denial hands the host role on without moving the epoch.)
JoinedHostChangeMovesEpoch ==
    [][RoleChanges /\ permissions_epoch < MaxCounter
           /\ host_conn_id \in Joined(participants)
         => permissions_epoch' > permissions_epoch]_vars

\* While the room lives it forgets nothing that guards against replays and
\* reordering: clocks, epochs and sequence never fall, and an anonymous room
\* stays anonymous.
RoomMemory ==
    [][RoomExists /\ RoomExists' =>
         /\ \A tag \in ClockTags, p \in Ids :
                signed_action_clock_by_signer'[tag][p]
                    >= signed_action_clock_by_signer[tag][p]
         /\ policy.policy_epoch' >= policy.policy_epoch
         /\ permissions_epoch' >= permissions_epoch
         /\ presence_sequence' >= presence_sequence
         /\ anonymous_mode => anonymous_mode']_vars
-----------------------------------------------------------------------------
\* The seats of HubAuthority: who has joined, but for anonymous members.
Seats == [c \in Conns |->
             IF participants[c].status = "joined" /\ ~participants[c].anon
             THEN participants[c].pid ELSE None]

SeatedModerators == {c \in Conns : Seats[c] # None /\ can_moderate_conn(c)}

Authority == INSTANCE HubAuthority WITH
    seat <- Seats,
    host <- host_conn_id,
    owner <- host_role_owner,
    cohosts <- co_host_role_owners,
    moderators <- SeatedModerators

\* Whatever joins, admissions, denials, grants, departures and changes of mode
\* fall between each other, authority is what HubAuthority makes of the ids
\* that have joined: it is granted by the host, inherited, reserved across
\* reconnects, and co_host_conn_ids never disagrees.
KeepsAuthority == Authority!Spec
=============================================================================
