------------------------------ MODULE HubState ------------------------------
(***************************************************************************)
(* The state of one room of the hub (kaigi-hub-echo) and of the tasks that *)
(* serve its connections.  The hub keeps all rooms under one mutex; rooms  *)
(* share nothing else but the connection counter, so one room is modelled. *)
(*                                                                         *)
(* An action of the modules that extend this one is one critical section.  *)
(* A frame handler that takes the mutex several times is several actions:  *)
(* task[c] holds the frame and the stage the handler of connection c has   *)
(* reached, so that the other connections interleave between its sections. *)
(***************************************************************************)
EXTENDS Naturals, FiniteSets

CONSTANTS
    MaxConns,                \* bound: connection ids 1..MaxConns are used
    Pids,                    \* participant ids that clients claim
    Accounts,                \* those that contain '@'; the others are guests
    Handles,                 \* anonymous participant handles
    Keys,                    \* x25519 public keys
    Frames,                  \* the frames clients may send
    DefaultMaxParticipants,  \* DEFAULT_MAX_PARTICIPANTS
    AnonMaxParticipants,     \* --anon-max-participants, normalised to >= 1
    MaxCounter,              \* stands for u64::MAX, where counters saturate
    TransportFaults,         \* whether a read may fail (reset, bad bytes)
    SlowClients              \* whether a client's queue may be full

Conns == 1 .. MaxConns
None == 0
\* "conn-N", the id of a participant that has sent no Hello, is written N.
Ids == Pids \cup Conns
All == 0                 \* ModerationTarget::All, against a participant id

Roles == {"Host", "CoHost", "Participant"}
ModerationActions == {"Kick", "DisableMic", "DisableVideo",
    "DisableScreenShare", "AdmitFromWaiting", "DenyFromWaiting"}
ClockTags == {"moderation", "role_grant", "role_revoke", "session_policy",
    "e2ee_key_epoch", "key_rotation_ack"}
Switch == {"on", "off", "keep"}     \* an Option<bool> of ParticipantState

\* SessionPolicyFrame without its signature, time and author.
Policy == [room_lock : BOOLEAN, waiting_room_enabled : BOOLEAN,
           guest_join_allowed : BOOLEAN, local_recording_allowed : BOOLEAN,
           e2ee_required : BOOLEAN, max_participants : Nat,
           policy_epoch : Nat]

(***************************************************************************)
(* KaigiFrame, the client-to-hub frames that reach a decision of the room. *)
(* Formats, lengths and signatures are abstracted: a frame here passes     *)
(* them, and a frame that does not is the action ReplyOnly.                *)
(***************************************************************************)
Frame ==
         [kind : {"Hello"}, pid : Ids]
    \cup [kind : {"AnonHello"}, handle : Handles, key : Keys]
    \cup [kind : {"GroupKeyUpdate"}, handle : Handles, key : Keys,
          epoch : Nat \ {0}]
    \cup [kind : {"EncryptedControl"}, handle : Handles, epoch : Nat \ {0},
          recipients : SUBSET Handles]
    \cup [kind : {"AnonEncryptedPayload"}, handle : Handles, epoch : Nat]
    \cup [kind : {"Chat"}]
    \cup [kind : {"ParticipantState"}, mic : Switch, video : Switch,
          share : Switch]
    \cup [kind : {"MediaTrackState"}, pid : Ids, mic : BOOLEAN,
          track : {"Camera", "ScreenShare"}, on : BOOLEAN]
    \cup [kind : {"MediaCapability", "VideoSegment", "AudioPacket"}, pid : Ids]
    \cup [kind : {"RecordingNotice"}, pid : Ids, started : BOOLEAN]
    \cup [kind : {"RoomConfigUpdate"}, max_screen_shares : Nat, rate : Nat]
    \cup [kind : {"Payment"}, amount : Nat, hashed : BOOLEAN]
    \cup [kind : {"EscrowProof"}, handle : Handles, escrow : Nat \ {0}]
    \cup [kind : {"RoleGrant", "RoleRevoke"}, by : Ids, target : Ids,
          role : Roles, at : Nat]
    \cup [kind : {"SessionPolicy"}, by : Ids, policy : Policy, at : Nat]
    \cup [kind : {"DeviceCapability"}, pid : Ids, hdr_capture : BOOLEAN,
          hdr_render : BOOLEAN]
    \cup [kind : {"MediaProfileNegotiation"}, pid : Ids, hdr : BOOLEAN]
    \cup [kind : {"E2EEKeyEpoch"}, pid : Ids, epoch : Nat \ {0}, at : Nat]
    \cup [kind : {"KeyRotationAck"}, pid : Ids, epoch : Nat, at : Nat]
    \cup [kind : {"Moderation", "ModerationSigned"}, by : Ids,
          target : Ids \cup {All}, action : ModerationActions, at : Nat]

ASSUME ConnsAssumption == MaxConns \in Nat \ {0}
ASSUME IdsAssumption == /\ None \notin Pids /\ Accounts \subseteq Pids
                        /\ Pids \cap Conns = {}
ASSUME HandlesAssumption == None \notin Handles /\ None \notin Keys
ASSUME FramesAssumption == Frames \subseteq Frame
ASSUME LimitsAssumption == /\ DefaultMaxParticipants \in Nat \ {0}
                           /\ AnonMaxParticipants \in Nat \ {0}
                           /\ MaxCounter \in Nat \ {0}
                           /\ TransportFaults \in BOOLEAN
                           /\ SlowClients \in BOOLEAN

VARIABLES
    \* the connections: one task each, outside the room's mutex
    reader,                   \* where the read loop of handle_conn stands
    task,                     \* the frame in the hands of handle_frame
    \* RoomState; a map that lacks a connection holds None, 0 or Absent there
    participants,
    device_caps_by_conn,
    host_conn_id,
    host_role_owner,
    co_host_conn_ids,
    co_host_role_owners,
    e2ee_epochs,
    key_rotation_ack_epochs,
    signed_action_clock_by_signer,
    presence_sequence,
    max_screen_shares,
    policy,
    permissions_epoch,
    anonymous_mode

connVars == <<reader, task>>
roleVars == <<host_conn_id, host_role_owner, co_host_conn_ids,
              co_host_role_owners>>
keyVars == <<e2ee_epochs, key_rotation_ack_epochs>>
configVars == <<max_screen_shares, policy>>
roomVars == <<participants, device_caps_by_conn, roleVars, keyVars,
              signed_action_clock_by_signer, presence_sequence, configVars,
              permissions_epoch, anonymous_mode>>
vars == <<connVars, roomVars>>
-----------------------------------------------------------------------------
(***************************************************************************)
(* Participants.  hello_seen is status "joined", waiting_room_pending is   *)
(* "waiting", a connection that has sent no Hello is "open".               *)
(***************************************************************************)
Statuses == {"absent", "open", "waiting", "joined"}

Participant == [status : Statuses, pid : Ids \cup {None}, anon : BOOLEAN,
                handle : Handles \cup {None}, key : Keys \cup {None},
                kepoch : Nat, mic : BOOLEAN, video : BOOLEAN, share : BOOLEAN]

Transparent(status, pid) ==
    [status |-> status, pid |-> pid, anon |-> FALSE, handle |-> None,
     key |-> None, kepoch |-> 0, mic |-> FALSE, video |-> FALSE,
     share |-> FALSE]

Absent == Transparent("absent", None)

WithMedia(p, mic, video, share) ==
    [p EXCEPT !.mic = mic, !.video = video, !.share = share]

Present(ps) == {c \in Conns : ps[c].status # "absent"}
Joined(ps) == {c \in Conns : ps[c].status = "joined"}
Waiting(ps) == {c \in Conns : ps[c].status = "waiting"}
AnonJoined(ps) == {c \in Joined(ps) : ps[c].anon}

\* The room is in the hub's map exactly while it has a participant.
RoomExists == Present(participants) # {}

\* keys().min()
MinConn(S) == CHOOSE c \in S : \A d \in S : c <= d

\* The participants without c, and who then has the lowest connection id.
Without(c) == [participants EXCEPT ![c] = Absent]
Heir_TooEarly(c) == MinConn(Present(participants))
Heir(c) == MinConn(Present(Without(c)))

\* saturating_add(1) on a u64
SatInc_Unbounded(n) == n + 1
SatInc(n) == IF n < MaxCounter THEN n + 1 ELSE n
SatIncIf(n, cond) == IF cond THEN SatInc(n) ELSE n

NoCaps == [known |-> FALSE, hdr_capture |-> FALSE, hdr_render |-> FALSE]
Caps == [known : BOOLEAN, hdr_capture : BOOLEAN, hdr_render : BOOLEAN]

DefaultPolicy ==
    [room_lock |-> FALSE, waiting_room_enabled |-> FALSE,
     guest_join_allowed |-> TRUE, local_recording_allowed |-> TRUE,
     e2ee_required |-> TRUE, max_participants |-> DefaultMaxParticipants,
     policy_epoch |-> 0]

NoClock == [tag \in ClockTags |-> [p \in Ids |-> 0]]
-----------------------------------------------------------------------------
(***************************************************************************)
(* Roles.  A role is bound to a connection (host_conn_id,                  *)
(* co_host_conn_ids) and reserved for a participant id across reconnects   *)
(* (host_role_owner, co_host_role_owners).                                 *)
(***************************************************************************)

\* What sync_active_co_host_bindings makes of co_host_conn_ids.
ActiveCoHosts_HostToo(ps, host, owners) ==
    {c \in Joined(ps) : ps[c].pid \in owners}
ActiveCoHosts(ps, host, owners) ==
    {c \in Joined(ps) : c # host /\ ps[c].pid \in owners}

can_moderate_conn(c) == c = host_conn_id \/ c \in co_host_conn_ids

\* participant_id_has_reserved_moderation_role
Reserved(pid) == pid = host_role_owner \/ pid \in co_host_role_owners

conn_or_participant_can_moderate(c, pid) == can_moderate_conn(c) \/ Reserved(pid)

\* restore_reserved_roles_on_join: connection c has become pid in ps, with
\* host and co-hosts as given; ends with sync_active_co_host_bindings and
\* returns whether anything changed.
RestoredHost_Never(c, pid, host, owner) == host
RestoredHost_AnyRole(c, pid, host, owner) == IF Reserved(pid) THEN c ELSE host
RestoredHost(c, pid, host, owner) == IF pid = owner THEN c ELSE host

RestoreRoles(ps, c, pid, host, owner, cohosts) ==
    LET newHost == RestoredHost(c, pid, host, owner)
        newCoHosts == ActiveCoHosts(ps, newHost, co_host_role_owners)
    IN  [host |-> newHost, cohosts |-> newCoHosts,
         changed |-> newHost # host \/ newCoHosts # cohosts]

\* enforce_signed_action_clock: stamps of one signer and one kind of action
\* must increase while the room lives; the first must be at least 1.
ClockAllows_Always(tag, signer, at) == at >= 1
ClockAllows(tag, signer, at) == at > signed_action_clock_by_signer[tag][signer]

AdvanceClock(tag, signer, at) ==
    signed_action_clock_by_signer' =
        [signed_action_clock_by_signer EXCEPT ![tag][signer] = at]

-----------------------------------------------------------------------------
(***************************************************************************)
(* Tasks.  A handler is idle between frames.  After its last section that  *)
(* decides, "relay" broadcasts the frame, "announce" broadcasts and then   *)
(* sends permissions snapshots, "notify" writes to the moderators; in      *)
(* "sending" the recipients were listed under the mutex and are written to *)
(* one by one, each looked up again.                                       *)
(***************************************************************************)
Stages == {"idle", "hello", "e2ee", "verify", "regate", "apply", "store",
           "relay", "announce", "notify", "sending"}
NoFrame == [kind |-> "none"]
Idle == [stage |-> "idle", frame |-> NoFrame, to |-> {}]
At(stage, f) == [stage |-> stage, frame |-> f, to |-> {}]

Readers == {"none", "running", "closing", "leaving", "done", "failed"}

\* The read loop hands frame f to handle_frame.
Receives(c, f) == reader[c] = "running" /\ task[c].stage = "idle" /\ f \in Frames

GoTo(c, t) == task' = [task EXCEPT ![c] = t] /\ UNCHANGED reader

\* handle_frame returns an error: handle_conn returns it with "?", past the
\* call of handle_disconnect, so the participant stays in the room.
ReturnErr(c) ==
    /\ task' = [task EXCEPT ![c] = Idle]
    /\ reader' = [reader EXCEPT ![c] = "failed"]

\* send_error (or another send_frame_to) to the connection's own participant,
\* then return: "participant missing" when it has been denied meanwhile.
Reply(c) == IF c \in Present(participants) THEN GoTo(c, Idle) ELSE ReturnErr(c)

Task == [stage : Stages, frame : Frame \cup {NoFrame}, to : SUBSET Conns]

ConnTypeOK ==
    /\ reader \in [Conns -> Readers]
    /\ task \in [Conns -> Task]

RoomTypeOK ==
    /\ participants \in [Conns -> Participant]
    /\ device_caps_by_conn \in [Conns -> Caps]
    /\ host_conn_id \in Conns \cup {None}
    /\ host_role_owner \in Ids \cup {None}
    /\ co_host_conn_ids \in SUBSET Conns
    /\ co_host_role_owners \in SUBSET Ids
    /\ e2ee_epochs \in [Conns -> Nat]
    /\ key_rotation_ack_epochs \in [Conns -> Nat]
    /\ signed_action_clock_by_signer \in [ClockTags -> [Ids -> Nat]]
    /\ presence_sequence \in 0 .. MaxCounter
    /\ max_screen_shares \in Nat \ {0}
    /\ policy \in Policy
    /\ permissions_epoch \in 0 .. MaxCounter
    /\ anonymous_mode \in BOOLEAN

\* The types of the state; the two counters never pass u64::MAX.
TypeOK == ConnTypeOK /\ RoomTypeOK

Init ==
    /\ reader = [c \in Conns |-> "none"]
    /\ task = [c \in Conns |-> Idle]
    /\ participants = [c \in Conns |-> Absent]
    /\ device_caps_by_conn = [c \in Conns |-> NoCaps]
    /\ host_conn_id = None
    /\ host_role_owner = None
    /\ co_host_conn_ids = {}
    /\ co_host_role_owners = {}
    /\ e2ee_epochs = [c \in Conns |-> 0]
    /\ key_rotation_ack_epochs = [c \in Conns |-> 0]
    /\ signed_action_clock_by_signer = NoClock
    /\ presence_sequence = 0
    /\ max_screen_shares = 1
    /\ policy = DefaultPolicy
    /\ permissions_epoch = 0
    /\ anonymous_mode = FALSE
=============================================================================
