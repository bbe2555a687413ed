----------------------------- MODULE MCHubRoom ------------------------------
(***************************************************************************)
(* Instances of HubRoom for TLC: each run gives Frames the slice of the    *)
(* protocol it explores.                                                   *)
(***************************************************************************)
EXTENDS HubRoom, TLC

CONSTANTS alice, bob, carol, h1, h2, h3, k1, k2

Hellos(ids) == [kind : {"Hello"}, pid : ids]

Moderation(by, targets, actions, stamps) ==
    [kind : {"Moderation"}, by : by, target : targets, action : actions,
     at : stamps]

Grants(by, targets, roles, stamps) ==
    [kind : {"RoleGrant"}, by : by, target : targets, role : roles,
     at : stamps]

Revokes(by, targets, stamps) ==
    [kind : {"RoleRevoke"}, by : by, target : targets, role : {"CoHost"},
     at : stamps]

Policies(by, ps, stamps) ==
    [kind : {"SessionPolicy"}, by : by, policy : ps, at : stamps]

\* E2EEKeyEpoch frames, sent at the time that is also the epoch.
Keyed(by, epochs) ==
    {k \in [kind : {"E2EEKeyEpoch"}, pid : by, epoch : epochs, at : epochs] :
         k.at = k.epoch}

\* Roles: who is host or co-host through joins, grants and departures.  A
\* Host grant has stamp 2 to come before or after a CoHost grant of stamp 1.
RoleFrames ==
    Hellos({alice, bob})
    \cup {g \in Grants({alice, bob}, {alice, bob}, {"Host", "CoHost"}, {1, 2}) :
              g.by # g.target /\ (g.role = "Host" <=> g.at = 2)}
    \cup {r \in Revokes({alice, bob}, {alice, bob}, {1}) : r.by # r.target}

Names == Permutations({alice, bob})

WaitingPolicy == [DefaultPolicy EXCEPT !.waiting_room_enabled = TRUE,
                                       !.policy_epoch = 1]

\* The waiting room: alice can turn it on and admit bob; a co-host denies a
\* bob that has inherited the host role while it waits.
WaitingFrames ==
    Hellos({alice, bob, carol})
    \cup Policies({alice}, {WaitingPolicy}, {1})
    \cup Moderation({alice}, {bob}, {"AdmitFromWaiting"}, {1})
    \cup Grants({alice}, {carol}, {"CoHost"}, {1})
    \cup Moderation({carol}, {bob}, {"DenyFromWaiting"}, {1})

\* Policies that close the door, to a guest or because the room is full.
DoorPolicies ==
    {[DefaultPolicy EXCEPT !.room_lock = TRUE, !.policy_epoch = 1],
     [DefaultPolicy EXCEPT !.max_participants = 1, !.policy_epoch = 1],
     [DefaultPolicy EXCEPT !.guest_join_allowed = FALSE, !.policy_epoch = 1]}

\* Both modes: transparent and anonymous clients meet in one room, with the
\* keys and the sealed frames of the anonymous ones, who have more handles
\* than an anonymous room has places.
ModeFrames ==
    Hellos({alice, bob})
    \cup [kind : {"AnonHello"}, handle : {h1, h2}, key : {k1}]
    \cup [kind : {"AnonHello"}, handle : {h3}, key : {k2}]
    \cup [kind : {"GroupKeyUpdate"}, handle : {h1}, key : {k1, k2}, epoch : {1, 2}]
    \cup [kind : {"EncryptedControl"}, handle : {h1}, epoch : {1, 2},
          recipients : {{h2}}]
    \cup [kind : {"AnonEncryptedPayload"}, handle : {h2}, epoch : {0, 1}]
    \cup [kind : {"DeviceCapability"}, pid : {alice}, hdr_capture : {TRUE},
          hdr_render : {TRUE}]
    \cup [kind : {"Chat"}]
    \cup Policies({alice}, {WaitingPolicy} \cup DoorPolicies, {1})

\* Keys, capabilities, media and screen shares of two participants, with a
\* host who changes the limit of shares and stops them.
Share(switch) == [kind |-> "ParticipantState", mic |-> "keep",
                  video |-> "keep", share |-> switch]
MediaFrames ==
    Hellos({alice, bob})
    \cup Keyed({alice, bob}, {1})
    \cup [kind : {"KeyRotationAck"}, pid : {alice}, epoch : {1}, at : {1}]
    \cup [kind : {"DeviceCapability"}, pid : {alice},
          hdr_capture : {TRUE}, hdr_render : {FALSE}]
    \cup [kind : {"DeviceCapability"}, pid : {bob}, hdr_capture : {FALSE},
          hdr_render : {TRUE}]
    \cup [kind : {"MediaProfileNegotiation"}, pid : {alice}, hdr : {TRUE}]
    \cup [kind : {"VideoSegment"}, pid : {alice}]
    \cup [kind : {"MediaTrackState"}, pid : {alice}, mic : {FALSE},
          track : {"ScreenShare"}, on : BOOLEAN]
    \cup {Share("on")}
    \cup [kind : {"RoomConfigUpdate"}, max_screen_shares : {0, 2}, rate : {1}]
    \cup [kind : {"ModerationSigned"}, by : {alice}, target : {All},
          action : {"DisableScreenShare"}, at : {1}]

\* A waiting participant sends plaintext media before it is admitted.
EarlyMediaFrames ==
    Hellos({alice, bob})
    \cup Policies({alice}, {WaitingPolicy}, {1})
    \cup Moderation({alice}, {bob}, {"AdmitFromWaiting"}, {1})
    \cup [kind : {"AudioPacket"}, pid : {bob}]
=============================================================================
