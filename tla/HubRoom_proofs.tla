--------------------------- MODULE HubRoom_proofs ---------------------------
(***************************************************************************)
(* Proofs about the room of the hub, for every number of connections, every *)
(* set of participant ids and every slice of frames.                       *)
(***************************************************************************)
EXTENDS HubRoom, TLAPS, WellFoundedInduction

USE ConnsAssumption, IdsAssumption, LimitsAssumption, FramesAssumption
-----------------------------------------------------------------------------
(***************************************************************************)
(* What a frame of a given kind carries.                                   *)
(***************************************************************************)
\* A Hello names a participant id.
LEMMA HelloFields == ASSUME NEW f \in Frame, f.kind = "Hello"
                     PROVE  f.pid \in Ids
BY DEF Frame

\* An AnonHello or a GroupKeyUpdate names a handle and a key.
LEMMA AnonFields ==
    ASSUME NEW f \in Frame, f.kind \in {"AnonHello", "GroupKeyUpdate"}
    PROVE  /\ f.handle \in Handles /\ f.key \in Keys
           /\ f.kind = "GroupKeyUpdate" => f.epoch \in Nat
BY DEF Frame

\* A role frame names its author, its target and a stamp.
LEMMA RoleFields ==
    ASSUME NEW f \in Frame, f.kind \in {"RoleGrant", "RoleRevoke"}
    PROVE  f.by \in Ids /\ f.target \in Ids /\ f.at \in Nat
BY DEF Frame

\* A SessionPolicy frame carries a policy.
LEMMA PolicyFields ==
    ASSUME NEW f \in Frame, f.kind = "SessionPolicy"
    PROVE  f.by \in Ids /\ f.policy \in Policy /\ f.at \in Nat
BY DEF Frame

\* A moderation frame carries a stamp.
LEMMA ModerationFields ==
    ASSUME NEW f \in Frame, f.kind \in {"Moderation", "ModerationSigned"}
    PROVE  f.at \in Nat
BY DEF Frame

\* A key frame carries its sender, an epoch and a stamp.
LEMMA KeyFields ==
    ASSUME NEW f \in Frame, f.kind \in {"E2EEKeyEpoch", "KeyRotationAck"}
    PROVE  f.pid \in Ids /\ f.epoch \in Nat /\ f.at \in Nat
BY DEF Frame

\* A RoomConfigUpdate asks for a number of screen shares.
LEMMA ConfigFields ==
    ASSUME NEW f \in Frame, f.kind = "RoomConfigUpdate"
    PROVE  f.max_screen_shares \in Nat
BY DEF Frame

\* The other frames that change the room carry Booleans.
LEMMA CapabilityFields ==
    ASSUME NEW f \in Frame, f.kind = "DeviceCapability"
    PROVE  f.hdr_capture \in BOOLEAN /\ f.hdr_render \in BOOLEAN
BY DEF Frame

\* The fields of a MediaTrackState.
LEMMA TrackFields ==
    ASSUME NEW f \in Frame, f.kind = "MediaTrackState"
    PROVE  f.mic \in BOOLEAN /\ f.on \in BOOLEAN
BY DEF Frame

\* The fields of a MediaProfileNegotiation.
LEMMA ProfileFields ==
    ASSUME NEW f \in Frame, f.kind = "MediaProfileNegotiation", NEW b \in BOOLEAN
    PROVE  [f EXCEPT !.hdr = b] \in Frame
BY DEF Frame

-----------------------------------------------------------------------------
(***************************************************************************)
(* The operators the actions are built from.                               *)
(***************************************************************************)
\* Every non-empty set of connection ids has a least element (keys().min()).
LEMMA MinExists ==
    ASSUME NEW S \in SUBSET Nat, S # {}
    PROVE  \E x \in S : \A y \in S : x <= y
<1> DEFINE R == OpToRel(<, Nat)
<1>1. IsWellFoundedOn(R, Nat)
  BY NatLessThanWellFounded, Zenon
<1>2. \A m, n \in Nat : m < n => <<m, n>> \in R
  BY DEF OpToRel
<1> HIDE DEF R
<1>3. PICK x \in S : \A y \in S : ~ (<<y, x>> \in R)
  BY <1>1, WFMin, Zenon
<1>4. \A y \in S : ~ (y < x)
  <2> SUFFICES ASSUME NEW y \in S, y < x PROVE FALSE
    OBVIOUS
  <2>1. x \in Nat /\ y \in Nat
    OBVIOUS
  <2>2. <<y, x>> \in R
    BY <2>1, <1>2, Zenon
  <2> QED BY <2>2, <1>3, Zenon
<1>5. \A y \in S : x <= y
  BY <1>4
<1> QED BY <1>5

\* handle_disconnect and deny_waiting_participant pass the host role to a
\* participant of the room whenever one is left.
LEMMA HeirPresent ==
    ASSUME NEW c, Present(Without(c)) # {}
    PROVE  Heir(c) \in Present(Without(c)) /\ Heir(c) \in Conns
<1> DEFINE S == Present(Without(c))
<1>1. S \in SUBSET Nat /\ S \subseteq Conns
  BY DEF Present, Conns
<1>2. \E x \in S : \A y \in S : x <= y
  BY <1>1, MinExists
<1>3. MinConn(S) \in S
  BY <1>2 DEF MinConn
<1> QED BY <1>1, <1>3 DEF Heir

\* Saturating counters stay within the width of the counter.
LEMMA SatIncType ==
    ASSUME NEW n \in 0 .. MaxCounter, NEW b
    PROVE  SatInc(n) \in 0 .. MaxCounter /\ SatIncIf(n, b) \in 0 .. MaxCounter
BY DEF SatInc, SatIncIf

\* A participant after Hello or connect.
LEMMA TransparentType ==
    ASSUME NEW s \in Statuses, NEW p \in Ids \cup {None}
    PROVE  Transparent(s, p) \in Participant
BY DEF Transparent, Participant

\* What the handlers write into a participant keeps its type.
LEMMA KeyUpdateType ==
    ASSUME NEW p \in Participant, NEW k \in Keys, NEW n \in Nat
    PROVE  [p EXCEPT !.key = k, !.kepoch = n] \in Participant
BY DEF Participant

\* A participant whose media are switched.
LEMMA MediaUpdateType ==
    ASSUME NEW p \in Participant, NEW s \in Statuses,
           NEW m \in BOOLEAN, NEW v \in BOOLEAN, NEW h \in BOOLEAN
    PROVE  /\ WithMedia(p, m, v, h) \in Participant
           /\ WithMedia([p EXCEPT !.status = s], m, v, h) \in Participant
BY DEF Participant, WithMedia

\* A participant after AnonHello.
LEMMA AnonHelloStateType ==
    ASSUME NEW p \in Participant, NEW f, f.handle \in Handles, f.key \in Keys
    PROVE  apply_anon_hello_state(p, f) \in Participant
BY DEF apply_anon_hello_state, Participant, Statuses

\* The value that stands for no participant.
LEMMA AbsentType == Absent \in Participant
BY TransparentType DEF Absent, Statuses

\* The participants after a removal.
LEMMA WithoutType ==
    ASSUME RoomTypeOK, NEW c \in Conns
    PROVE  Without(c) \in [Conns -> Participant]
BY AbsentType DEF Without, RoomTypeOK

\* Co-host bindings are connections.
LEMMA ActiveCoHostsType ==
    ASSUME NEW ps, NEW h, NEW owners
    PROVE  ActiveCoHosts(ps, h, owners) \in SUBSET Conns
BY DEF ActiveCoHosts, Joined

\* The roles restored to a returning participant.
LEMMA RestoreRolesType ==
    ASSUME NEW ps, NEW c \in Conns, NEW pid, NEW h \in Conns \cup {None},
           NEW o, NEW cohosts
    PROVE  /\ RestoreRoles(ps, c, pid, h, o, cohosts).host \in Conns \cup {None}
           /\ RestoreRoles(ps, c, pid, h, o, cohosts).cohosts \in SUBSET Conns
BY ActiveCoHostsType DEF RestoreRoles, RestoredHost

\* The roles after a Hello that may claim the host role.
LEMMA ClaimHostType ==
    ASSUME RoomTypeOK, NEW c \in Conns, NEW pid \in Ids
    PROVE  /\ ClaimHost(c, pid).host \in Conns \cup {None}
           /\ ClaimHost(c, pid).owner \in Ids \cup {None}
           /\ ClaimHost(c, pid).cohosts \in SUBSET Conns
BY ActiveCoHostsType DEF ClaimHost, RoomTypeOK

\* The clocks after an accepted signed action.
LEMMA AdvanceClockType ==
    ASSUME RoomTypeOK, NEW tag \in ClockTags, NEW p, NEW n \in Nat,
           AdvanceClock(tag, p, n)
    PROVE  signed_action_clock_by_signer' \in [ClockTags -> [Ids -> Nat]]
BY DEF AdvanceClock, RoomTypeOK

\* The maps of a room without participants.
LEMMA InitialMaps ==
    /\ NoClock \in [ClockTags -> [Ids -> Nat]]
    /\ NoCaps \in Caps
    /\ DefaultPolicy \in Policy
BY DEF NoClock, NoCaps, Caps, DefaultPolicy, Policy
-----------------------------------------------------------------------------
(***************************************************************************)
(* Tasks.                                                                  *)
(***************************************************************************)
LEMMA IdleType == Idle \in Task
BY DEF Idle, Task, Stages

\* A task at the start of a stage.
LEMMA AtType ==
    ASSUME NEW s \in Stages, NEW f \in Frame
    PROVE  At(s, f) \in Task
BY DEF At, Task

\* A handler that has reached a stage for some kinds of frame holds a frame.
LEMMA TaskFrame ==
    ASSUME ConnTypeOK, NEW c \in Conns, task[c].frame.kind # "none"
    PROVE  task[c].frame \in Frame
BY DEF ConnTypeOK, Task, NoFrame

\* A handler that goes on to another stage.
LEMMA GoToType ==
    ASSUME ConnTypeOK, NEW c \in Conns, NEW t \in Task, GoTo(c, t)
    PROVE  ConnTypeOK'
BY DEF ConnTypeOK, GoTo

\* A handler that fails.
LEMMA ReturnErrType ==
    ASSUME ConnTypeOK, NEW c \in Conns, ReturnErr(c)
    PROVE  ConnTypeOK'
BY IdleType DEF ConnTypeOK, ReturnErr, Readers

\* A handler that answers its sender.
LEMMA ReplyType ==
    ASSUME ConnTypeOK, NEW c \in Conns, Reply(c)
    PROVE  ConnTypeOK'
BY IdleType, GoToType, ReturnErrType DEF Reply

\* A step that changes only tasks keeps the types of the room.
LEMMA RoomUnchanged ==
    ASSUME RoomTypeOK, UNCHANGED roomVars
    PROVE  RoomTypeOK'
BY DEF RoomTypeOK, roomVars, roleVars, keyVars, configVars

-----------------------------------------------------------------------------
(***************************************************************************)
(* Type correctness.                                                       *)
(***************************************************************************)
LEMMA InitType == Init => TypeOK
<1> SUFFICES ASSUME Init PROVE ConnTypeOK /\ RoomTypeOK
  BY DEF TypeOK
<1>1. ConnTypeOK
  BY IdleType DEF Init, ConnTypeOK, Readers
<1>2. /\ participants \in [Conns -> Participant]
      /\ device_caps_by_conn \in [Conns -> Caps]
      /\ signed_action_clock_by_signer \in [ClockTags -> [Ids -> Nat]]
      /\ policy \in Policy
  BY AbsentType, InitialMaps DEF Init
<1>3. /\ host_conn_id \in Conns \cup {None}
      /\ host_role_owner \in Ids \cup {None}
      /\ co_host_conn_ids \in SUBSET Conns
      /\ co_host_role_owners \in SUBSET Ids
      /\ anonymous_mode \in BOOLEAN
  BY DEF Init
<1>4. /\ e2ee_epochs \in [Conns -> Nat]
      /\ key_rotation_ack_epochs \in [Conns -> Nat]
      /\ presence_sequence \in 0 .. MaxCounter
      /\ max_screen_shares \in Nat \ {0}
      /\ permissions_epoch \in 0 .. MaxCounter
  BY DEF Init
<1> QED BY <1>1, <1>2, <1>3, <1>4 DEF RoomTypeOK

\* A connection enters the room, its read loop ends, handle_disconnect runs.
LEMMA LifecycleType ==
    ASSUME TypeOK, NEW c \in Conns, Lifecycle(c)
    PROVE  TypeOK'
<1> USE DEF TypeOK
<1>1. ConnTypeOK'
  BY DEF ConnTypeOK, Readers, Lifecycle, Connect, Close, ReadFails, LeaveLast,
         LeaveTransparent, LeaveAnonymous, RotateAfterLeave
<1>2. CASE Close(c) \/ ReadFails(c)
  BY <1>1, <1>2, RoomUnchanged DEF Close, ReadFails
<1>3. CASE LeaveLast(c)
  <2>1. RemoveRoom
    BY <1>3 DEF LeaveLast
  <2>2. /\ participants' \in [Conns -> Participant]
        /\ device_caps_by_conn' \in [Conns -> Caps]
        /\ signed_action_clock_by_signer' \in [ClockTags -> [Ids -> Nat]]
        /\ policy' \in Policy
    BY <2>1, AbsentType, InitialMaps DEF RemoveRoom
  <2>3. /\ host_conn_id' \in Conns \cup {None}
        /\ host_role_owner' \in Ids \cup {None}
        /\ co_host_conn_ids' \in SUBSET Conns
        /\ co_host_role_owners' \in SUBSET Ids
        /\ anonymous_mode' \in BOOLEAN
    BY <2>1 DEF RemoveRoom
  <2>4. /\ e2ee_epochs' \in [Conns -> Nat]
        /\ key_rotation_ack_epochs' \in [Conns -> Nat]
        /\ presence_sequence' \in 0 .. MaxCounter
        /\ max_screen_shares' \in Nat \ {0}
        /\ permissions_epoch' \in 0 .. MaxCounter
    BY <2>1 DEF RemoveRoom
  <2> QED BY <1>1, <2>2, <2>3, <2>4 DEF RoomTypeOK
<1>4. CASE LeaveTransparent(c)
  <2>1. Without(c) \in [Conns -> Participant]
    BY WithoutType
  <2>2. Heir(c) \in Conns
    BY <1>4, HeirPresent DEF LeaveTransparent
  <2>3. /\ SatInc(permissions_epoch) \in 0 .. MaxCounter
        /\ \A b : SatIncIf(presence_sequence, b) \in 0 .. MaxCounter
    BY SatIncType DEF RoomTypeOK
  <2>4. /\ host_conn_id' \in Conns \cup {None}
        /\ co_host_conn_ids' \in SUBSET Conns
        /\ permissions_epoch' \in 0 .. MaxCounter
        /\ presence_sequence' \in 0 .. MaxCounter
    BY <1>4, <2>2, <2>3, ActiveCoHostsType DEF LeaveTransparent, RoomTypeOK
  <2> QED BY <1>1, <1>4, <2>1, <2>4, InitialMaps
         DEF LeaveTransparent, ForgetConn, RoomTypeOK, configVars
<1>5. CASE LeaveAnonymous(c)
  <2>1. Without(c) \in [Conns -> Participant]
    BY WithoutType
  <2> QED BY <1>1, <1>5, <2>1, InitialMaps
         DEF LeaveAnonymous, ForgetConn, RoomTypeOK, configVars
<1>6. CASE Connect(c)
  <2>1. Transparent("open", c) \in Participant
    BY TransparentType DEF Statuses, Ids
  <2> QED BY <1>1, <1>6, <2>1
         DEF Connect, RoomTypeOK, roleVars, keyVars, configVars
<1>7. CASE RotateAfterLeave(c)
  BY <1>1, <1>7, SatIncType
     DEF RotateAfterLeave, RoomTypeOK, roleVars, keyVars, configVars
<1> QED BY <1>2, <1>3, <1>4, <1>5, <1>7, <1>6 DEF Lifecycle

\* The handlers of Hello.
LEMMA HelloType ==
    ASSUME TypeOK, NEW c \in Conns, NEW f \in Frames,
           \/ HelloNoRoom(c, f) \/ HelloRefused(c, f) \/ HelloWaits(c, f)
           \/ HelloJoins(c, f) \/ HelloMissing(c, f)
    PROVE  TypeOK'
<1> USE DEF TypeOK
<1>1. CASE HelloNoRoom(c, f) \/ HelloRefused(c, f)
  BY <1>1, ReplyType, ReturnErrType, RoomUnchanged DEF HelloNoRoom, HelloRefused
<1> SUFFICES ASSUME HelloWaits(c, f) \/ HelloJoins(c, f) \/ HelloMissing(c, f)
             PROVE  TypeOK'
  BY <1>1
<1>2. f.pid \in Ids /\ f \in Frame
  BY HelloFields DEF HelloWaits, HelloJoins, HelloMissing, HelloAccepted
<1>3. /\ Transparent("waiting", f.pid) \in Participant
      /\ Transparent("joined", f.pid) \in Participant
  BY <1>2, TransparentType DEF Statuses
<1>4. CASE HelloWaits(c, f)
  <2>1. ConnTypeOK'
    BY <1>2, <1>4, GoToType, AtType DEF HelloWaits, Stages
  <2> QED BY <1>3, <1>4, <2>1
         DEF HelloWaits, RoomTypeOK, roleVars, keyVars, configVars
<1> DEFINE claim == ClaimHost(c, f.pid)
<1>5. /\ claim.host \in Conns \cup {None}
      /\ claim.owner \in Ids \cup {None}
      /\ claim.cohosts \in SUBSET Conns
  BY <1>2, ClaimHostType
<1>6. CASE HelloJoins(c, f)
  <2> DEFINE roles == RestoreRoles(participants', c, f.pid, claim.host,
                                   claim.owner, claim.cohosts)
  <2>1. ConnTypeOK'
    BY <1>2, <1>6, GoToType, AtType DEF HelloJoins, Stages
  <2>2. roles.host \in Conns \cup {None} /\ roles.cohosts \in SUBSET Conns
    BY <1>5, RestoreRolesType
  <2>3. permissions_epoch' \in 0 .. MaxCounter
    BY <1>6, SatIncType DEF HelloJoins, RoomTypeOK
  <2>4. presence_sequence' \in 0 .. MaxCounter
    BY <1>6, SatIncType DEF HelloJoins, RoomTypeOK
  <2>5. /\ host_conn_id' = roles.host
        /\ host_role_owner' = claim.owner
        /\ co_host_conn_ids' = roles.cohosts
        /\ participants' =
               [participants EXCEPT ![c] = Transparent("joined", f.pid)]
    BY <1>6 DEF HelloJoins
  <2> HIDE DEF claim, roles
  <2>6. UNCHANGED <<device_caps_by_conn, co_host_role_owners, keyVars,
           signed_action_clock_by_signer, configVars, anonymous_mode>>
    BY <1>6 DEF HelloJoins
  <2> QED BY <1>3, <1>5, <2>1, <2>2, <2>3, <2>4, <2>5, <2>6
         DEF RoomTypeOK, keyVars, configVars
<1>7. CASE HelloMissing(c, f)
  <2>1. ConnTypeOK'
    BY <1>7, ReturnErrType DEF HelloMissing
  <2> HIDE DEF claim
  <2>2. /\ host_conn_id' = claim.host
        /\ host_role_owner' = claim.owner
        /\ co_host_conn_ids' = claim.cohosts
    BY <1>7 DEF HelloMissing, claim
  <2>3. permissions_epoch' \in 0 .. MaxCounter
    BY <1>7, SatIncType DEF HelloMissing, RoomTypeOK
  <2> QED BY <1>5, <1>7, <2>1, <2>2, <2>3
         DEF HelloMissing, RoomTypeOK, keyVars, configVars
<1> QED BY <1>4, <1>6, <1>7

\* The handlers of the anonymous frames.
LEMMA AnonType ==
    ASSUME TypeOK, NEW c \in Conns, NEW f \in Frames,
           \/ AnonHello(c, f) \/ AnonHelloRefused(c, f)
           \/ GroupKeyUpdate(c, f) \/ RelayEncrypted(c, f) \/ SealedRefused(c, f)
    PROVE  TypeOK'
<1> USE DEF TypeOK
<1>1. CASE AnonHelloRefused(c, f) \/ SealedRefused(c, f)
  BY <1>1, ReplyType, RoomUnchanged DEF AnonHelloRefused, SealedRefused
<1>2. f \in Frame /\ At("relay", f) \in Task
  BY AtType DEF Stages
<1>3. CASE RelayEncrypted(c, f)
  BY <1>2, <1>3, GoToType, RoomUnchanged DEF RelayEncrypted
<1>4. CASE AnonHello(c, f)
  <2>1. ConnTypeOK'
    BY <1>2, <1>4, GoToType DEF AnonHello
  <2>2. apply_anon_hello_state(participants[c], f) \in Participant
    <3>1. f.handle \in Handles /\ f.key \in Keys
      BY <1>2, <1>4, AnonFields DEF AnonHello
    <3> QED BY <3>1, AnonHelloStateType DEF RoomTypeOK
  <2>3. permissions_epoch' \in 0 .. MaxCounter
    BY <1>4, SatIncType DEF AnonHello, RoomTypeOK
  <2> QED BY <1>4, <2>1, <2>2, <2>3
         DEF AnonHello, RoomTypeOK, roleVars, keyVars, configVars
<1>5. CASE GroupKeyUpdate(c, f)
  <2>1. ConnTypeOK'
    BY <1>2, <1>5, GoToType DEF GroupKeyUpdate
  <2>2. f.key \in Keys /\ f.epoch \in Nat
    BY <1>2, <1>5, AnonFields DEF GroupKeyUpdate
  <2>3. participants' \in [Conns -> Participant]
    BY <1>5, <2>2, KeyUpdateType DEF GroupKeyUpdate, RoomTypeOK
  <2> QED BY <1>5, <2>1, <2>3
         DEF GroupKeyUpdate, RoomTypeOK, roleVars, keyVars, configVars
<1> QED BY <1>1, <1>3, <1>4, <1>5

\* Gates, refusals and relays leave the room alone.
LEMMA PassiveType ==
    ASSUME TypeOK, NEW c \in Conns,
           \/ \E f \in Frames : Gate(c, f)
           \/ HelloSeenGate(c) \/ E2eeGate(c) \/ SectionMissing(c)
           \/ ControlRefused(c) \/ VerifySigned(c) \/ RegateSigned(c)
           \/ ModerationRefused(c) \/ MediaRefused(c) \/ ReplyOnly(c)
           \/ PassOn(c) \/ CheckCapability(c) \/ ResolveProfile(c)
           \/ Relay(c) \/ Announce(c) \/ Notify(c) \/ Sent(c) \/ SendFails(c)
           \/ BackpressureNotice(c)
    PROVE  TypeOK'
<1> USE DEF TypeOK
<1>1. RoomTypeOK'
  BY RoomUnchanged
     DEF Gate, HelloSeenGate, E2eeGate, SectionMissing, ControlRefused,
         VerifySigned, RegateSigned, ModerationRefused, MediaRefused,
         ReplyOnly, PassOn, CheckCapability, ResolveProfile, Relay, Announce,
         Notify, Sent, SendFails, BackpressureNotice
<1>2. CASE ControlRefused(c) \/ ModerationRefused(c) \/ MediaRefused(c)
               \/ ReplyOnly(c) \/ Relay(c) \/ Sent(c) \/ SendFails(c)
               \/ SectionMissing(c)
  BY <1>1, <1>2, IdleType, GoToType, ReplyType, ReturnErrType
     DEF ControlRefused, ModerationRefused, MediaRefused, ReplyOnly, Relay,
         Sent, SendFails, SectionMissing
<1>3. CASE \E f \in Frames : Gate(c, f)
  <2>1. PICK f \in Frames : Gate(c, f)
    BY <1>3
  <2>2. At(StageAfterGate(f.kind), f) \in Task
    BY AtType DEF StageAfterGate, Stages
  <2> QED BY <1>1, <2>1, <2>2, GoToType, ReplyType DEF Gate
<1>4. CASE HelloSeenGate(c) \/ E2eeGate(c) \/ VerifySigned(c)
               \/ RegateSigned(c) \/ PassOn(c) \/ CheckCapability(c)
  <2>1. task[c].frame \in Frame
    BY <1>4, TaskFrame
       DEF HelloSeenGate, E2eeGate, VerifySigned, RegateSigned, PassOn,
           CheckCapability, Handling, E2eeGatedKinds, RelayedKinds,
           TwoSectionKinds
  <2>2. \A s \in {"e2ee", "relay", "apply", "regate", "store"} :
            At(s, task[c].frame) \in Task
    BY <2>1, AtType DEF Stages
  <2> QED BY <1>1, <1>4, <2>2, GoToType, ReplyType
         DEF HelloSeenGate, E2eeGate, VerifySigned, RegateSigned, PassOn,
             CheckCapability
<1>5. CASE ResolveProfile(c)
  <2> DEFINE f == task[c].frame
  <2>1. f \in Frame /\ f.kind = "MediaProfileNegotiation"
    BY <1>5, TaskFrame DEF ResolveProfile, Handling
  <2>2. resolve_media_profile_negotiation(c, f) \in Frame
    <3> DEFINE b == /\ f.hdr
                    /\ device_caps_by_conn[c].hdr_capture
                    /\ \E d \in Joined(participants) \ {c} :
                           device_caps_by_conn[d].hdr_render
    <3>1. b \in BOOLEAN
      OBVIOUS
    <3> HIDE DEF b
    <3>2. [f EXCEPT !.hdr = b] \in Frame
      BY <2>1, <3>1, ProfileFields
    <3> QED BY <3>2 DEF b, resolve_media_profile_negotiation
  <2>3. At("relay", resolve_media_profile_negotiation(c, f)) \in Task
    BY <2>2, AtType DEF Stages
  <2> QED BY <1>1, <1>5, <2>3, GoToType DEF ResolveProfile
<1>6. CASE Announce(c) \/ Notify(c)
  <2>1. \A to \in SUBSET Conns :
            [stage |-> "sending", frame |-> NoFrame, to |-> to] \in Task
    BY DEF Task, Stages
  <2>2. /\ Joined(participants) \in SUBSET Conns
        /\ Moderators \cup {c} \in SUBSET Conns
    BY DEF Joined, Moderators, RoomTypeOK
  <2> QED BY <1>1, <1>6, <2>1, <2>2, IdleType, GoToType
         DEF Announce, Notify, Sending
<1>7. CASE BackpressureNotice(c)
  <2>1. [task[c] EXCEPT !.to = @ \cup Moderators] \in Task
    <3>1. task[c] \in Task /\ Moderators \in SUBSET Conns
      BY DEF ConnTypeOK, RoomTypeOK, Moderators
    <3>2. ASSUME NEW t \in Task, NEW S \in SUBSET Conns
          PROVE  [t EXCEPT !.to = @ \cup S] \in Task
      BY DEF Task
    <3> QED BY <3>1, <3>2
  <2> QED BY <1>1, <1>7, <2>1, GoToType DEF BackpressureNotice
<1> QED BY <1>2, <1>3, <1>4, <1>5, <1>6, <1>7

\* Role grants and revocations.
LEMMA RoleType ==
    ASSUME TypeOK, NEW c \in Conns,
           GrantHost(c) \/ GrantCoHost(c) \/ RevokeCoHost(c)
    PROVE  TypeOK'
<1> USE DEF TypeOK
<1> DEFINE f == task[c].frame
<1>1. f \in Frame /\ f.kind \in {"RoleGrant", "RoleRevoke"}
  BY TaskFrame DEF GrantHost, GrantCoHost, RevokeCoHost, Handling
<1>2. f.by \in Ids /\ f.target \in Ids /\ f.at \in Nat
  BY <1>1, RoleFields
<1>3. signed_action_clock_by_signer' \in [ClockTags -> [Ids -> Nat]]
  BY <1>2, AdvanceClockType
     DEF GrantHost, GrantCoHost, RevokeCoHost, ClockTags
<1>4. ASSUME NEW p, NEW r, RoleOutcome(c, p, r)
      PROVE  /\ ConnTypeOK'
             /\ permissions_epoch' \in 0 .. MaxCounter
             /\ presence_sequence' \in 0 .. MaxCounter
             /\ UNCHANGED <<participants, device_caps_by_conn, e2ee_epochs,
                    key_rotation_ack_epochs, max_screen_shares, policy,
                    anonymous_mode>>
  <2>1. At("announce", f) \in Task /\ At("relay", f) \in Task
    BY <1>1, AtType DEF Stages
  <2> QED BY <1>4, <2>1, GoToType, SatIncType
         DEF RoleOutcome, RoomTypeOK, keyVars, configVars
<1>5. CASE GrantHost(c)
  <2>1. PICK t \in RoleTargets(f) :
            /\ host_conn_id' = t
            /\ co_host_conn_ids' =
                   ActiveCoHosts(participants, t, co_host_role_owners)
            /\ RoleOutcome(c, \/ host_role_owner # f.target
                              \/ host_conn_id # t
                              \/ co_host_conn_ids' # co_host_conn_ids,
                           host_conn_id # t)
    BY <1>5 DEF GrantHost
  <2>2. t \in Conns
    BY DEF RoleTargets, Joined
  <2>3. co_host_conn_ids' \in SUBSET Conns
    BY <2>1, ActiveCoHostsType
  <2>4. host_role_owner' = f.target /\ UNCHANGED co_host_role_owners
    BY <1>5 DEF GrantHost
  <2> QED BY <1>2, <1>3, <1>4, <2>1, <2>2, <2>3, <2>4 DEF RoomTypeOK
<1>6. ASSUME NEW owners \in SUBSET Ids, ChangeCoHosts(c, owners)
      PROVE  TypeOK'
  <2>1. co_host_conn_ids' \in SUBSET Conns
    BY <1>6, ActiveCoHostsType DEF ChangeCoHosts
  <2>2. \E b : RoleOutcome(c, b, b)
    BY <1>6 DEF ChangeCoHosts
  <2> QED BY <1>3, <1>4, <1>6, <2>1, <2>2 DEF ChangeCoHosts, RoomTypeOK
<1>7. CASE GrantCoHost(c)
  <2>1. co_host_role_owners \cup {f.target} \in SUBSET Ids
    BY <1>2 DEF RoomTypeOK
  <2> QED BY <1>6, <1>7, <2>1 DEF GrantCoHost
<1>8. CASE RevokeCoHost(c)
  <2>1. co_host_role_owners \ {f.target} \in SUBSET Ids
    BY DEF RoomTypeOK
  <2> QED BY <1>6, <1>8, <2>1 DEF RevokeCoHost
<1> QED BY <1>5, <1>7, <1>8

\* Session policy and room configuration.
LEMMA ConfigType ==
    ASSUME TypeOK, NEW c \in Conns, UpdatePolicy(c) \/ UpdateRoomConfig(c)
    PROVE  TypeOK'
<1> USE DEF TypeOK
<1> DEFINE f == task[c].frame
<1>1. f \in Frame
  BY TaskFrame DEF UpdatePolicy, UpdateRoomConfig, Handling
<1>2. At("announce", f) \in Task /\ At("relay", f) \in Task
  BY <1>1, AtType DEF Stages
<1>3. CASE UpdatePolicy(c)
  <2>1. f.by \in Ids /\ f.policy \in Policy /\ f.at \in Nat
    BY <1>1, <1>3, PolicyFields DEF UpdatePolicy, Handling
  <2>2. signed_action_clock_by_signer' \in [ClockTags -> [Ids -> Nat]]
    BY <1>3, <2>1, AdvanceClockType DEF UpdatePolicy, ClockTags
  <2>3. ConnTypeOK'
    BY <1>2, <1>3, GoToType DEF UpdatePolicy
  <2>4. permissions_epoch' \in 0 .. MaxCounter
    BY <1>3, SatIncType DEF UpdatePolicy, RoomTypeOK
  <2> QED BY <1>3, <2>1, <2>2, <2>3, <2>4
         DEF UpdatePolicy, RoomTypeOK, roleVars, keyVars
<1>4. CASE UpdateRoomConfig(c)
  <2>1. f.max_screen_shares \in Nat
    BY <1>1, <1>4, ConfigFields DEF UpdateRoomConfig, Handling
  <2>2. ConnTypeOK'
    BY <1>2, <1>4, GoToType, IdleType DEF UpdateRoomConfig
  <2>3. max_screen_shares' \in Nat \ {0}
    BY <1>4, <2>1 DEF UpdateRoomConfig
  <2> QED BY <1>4, <2>2, <2>3
         DEF UpdateRoomConfig, RoomTypeOK, roleVars, keyVars
<1> QED BY <1>3, <1>4

\* Moderation and the waiting room.
LEMMA ModerationType ==
    ASSUME TypeOK, NEW c \in Conns,
           ModerationFails(c) \/ Mute(c) \/ Admit(c) \/ Deny(c)
    PROVE  TypeOK'
<1> USE DEF TypeOK
<1> DEFINE f == task[c].frame
<1>1. /\ f.kind \in ModerationKinds
      /\ AdvanceClock("moderation", participants[c].pid, f.at)
  BY DEF ModerationFails, Mute, Admit, Deny, Moderates, Handling
<1>2. f \in Frame /\ f.at \in Nat
  BY <1>1, TaskFrame, ModerationFields DEF ModerationKinds
<1>3. signed_action_clock_by_signer' \in [ClockTags -> [Ids -> Nat]]
  BY <1>1, <1>2, AdvanceClockType DEF ClockTags
<1>4. /\ At("relay", f) \in Task
      /\ \A t \in Conns : [At("announce", f) EXCEPT !.to = {t}] \in Task
  BY <1>2 DEF At, Task, Stages
<1>5. CASE ModerationFails(c)
  <2>1. ConnTypeOK'
    BY <1>5, IdleType, GoToType DEF ModerationFails
  <2> QED BY <1>3, <1>5, <2>1
         DEF ModerationFails, RoomTypeOK, roleVars, keyVars, configVars
<1>6. CASE Mute(c)
  <2>1. ConnTypeOK'
    BY <1>4, <1>6, GoToType DEF Mute
  <2>2. ASSUME NEW p \in Participant, NEW a
        PROVE  MutedBy(a, p) \in Participant
    BY DEF MutedBy, Participant
  <2>3. participants' \in [Conns -> Participant]
    <3>1. PICK targets : participants' = [d \in Conns |->
              IF d \in targets THEN MutedBy(f.action, participants[d])
              ELSE participants[d]]
      BY <1>6 DEF Mute
    <3> QED BY <2>2, <3>1 DEF RoomTypeOK
  <2> QED BY <1>3, <1>6, <2>1, <2>3
         DEF Mute, RoomTypeOK, roleVars, keyVars, configVars
<1>7. CASE Admit(c)
  <2> DEFINE roles(t) == RestoreRoles(participants', t, participants[t].pid,
                             host_conn_id, host_role_owner, co_host_conn_ids)
  <2>1. PICK t \in ModerationTargets(f) \cap Waiting(participants) :
            /\ participants' = [participants EXCEPT
                   ![t] = WithMedia([@ EXCEPT !.status = "joined"],
                                    FALSE, FALSE, FALSE)]
            /\ host_conn_id' = roles(t).host
            /\ co_host_conn_ids' = roles(t).cohosts
            /\ permissions_epoch' = SatIncIf(permissions_epoch, roles(t).changed)
            /\ GoTo(c, [At("announce", f) EXCEPT !.to = {t}])
    BY <1>7 DEF Admit
  <2>2. t \in Conns
    BY DEF Waiting
  <2>3. ConnTypeOK'
    BY <1>4, <2>1, <2>2, GoToType
  <2>4. participants' \in [Conns -> Participant]
    BY <2>1, <2>2, MediaUpdateType DEF RoomTypeOK, Statuses
  <2>5. /\ host_conn_id' \in Conns \cup {None}
        /\ co_host_conn_ids' \in SUBSET Conns
    BY <2>1, <2>2, RestoreRolesType DEF RoomTypeOK
  <2>6. /\ permissions_epoch' \in 0 .. MaxCounter
        /\ presence_sequence' \in 0 .. MaxCounter
    BY <1>7, <2>1, SatIncType DEF Admit, RoomTypeOK
  <2> QED BY <1>3, <1>7, <2>3, <2>4, <2>5, <2>6
         DEF Admit, RoomTypeOK, keyVars, configVars
<1>8. CASE Deny(c)
  <2>1. PICK t \in ModerationTargets(f) \cap Waiting(participants) :
            /\ participants' = Without(t)
            /\ e2ee_epochs' = [e2ee_epochs EXCEPT ![t] = 0]
            /\ key_rotation_ack_epochs' =
                   [key_rotation_ack_epochs EXCEPT ![t] = 0]
            /\ IF host_conn_id = t
               THEN /\ host_conn_id' = Heir(t)
                    /\ co_host_conn_ids' = ActiveCoHosts(Without(t), Heir(t),
                                               co_host_role_owners)
               ELSE /\ co_host_conn_ids' = co_host_conn_ids \ {t}
                    /\ UNCHANGED host_conn_id
    BY <1>8 DEF Deny
  <2>2. t \in Conns
    BY DEF Waiting
  <2>3. ConnTypeOK'
    BY <1>4, <1>8, GoToType DEF Deny
  <2>4. participants' \in [Conns -> Participant]
    BY <2>1, <2>2, WithoutType
  <2>5. Heir(t) \in Conns
    <3>1. c \in Joined(participants)
      BY <1>8 DEF Deny, Moderates, ModeratorAllowed
    <3>2. c # t
      BY <3>1 DEF Joined, Waiting
    <3>3. c \in Present(Without(t))
      BY <2>2, <3>1, <3>2 DEF Present, Without, Joined, RoomTypeOK
    <3> QED BY <3>3, HeirPresent
  <2>6. /\ host_conn_id' \in Conns \cup {None}
        /\ co_host_conn_ids' \in SUBSET Conns
    BY <2>1, <2>5, ActiveCoHostsType DEF RoomTypeOK
  <2> QED BY <1>3, <1>8, <2>1, <2>2, <2>3, <2>4, <2>6
         DEF Deny, RoomTypeOK, configVars
<1> QED BY <1>5, <1>6, <1>7, <1>8

\* Media state, capabilities and key epochs.
LEMMA MediaType ==
    ASSUME TypeOK, NEW c \in Conns,
           \/ SetParticipantState(c) \/ SetMediaTrack(c) \/ StoreCapability(c)
           \/ PublishKeyEpoch(c) \/ AckKeyRotation(c)
    PROVE  TypeOK'
<1> USE DEF TypeOK
<1> DEFINE f == task[c].frame
<1>1. f \in Frame
  BY TaskFrame DEF SetParticipantState, SetMediaTrack, StoreCapability,
                   PublishKeyEpoch, AckKeyRotation, Handling
<1>2. ConnTypeOK'
  <2>1. At("relay", f) \in Task
    BY <1>1, AtType DEF Stages
  <2> QED BY <2>1, GoToType DEF SetParticipantState, SetMediaTrack,
             StoreCapability, PublishKeyEpoch, AckKeyRotation
<1>3. participants[c] \in Participant
  BY DEF RoomTypeOK
<1>4. ASSUME NEW m \in BOOLEAN, NEW v \in BOOLEAN, NEW h \in BOOLEAN,
             participants' = [participants EXCEPT
                 ![c] = WithMedia(participants[c], m, v, h)]
      PROVE  participants' \in [Conns -> Participant]
  <2>1. WithMedia(participants[c], m, v, h) \in Participant
    BY <1>3, MediaUpdateType DEF Statuses
  <2> QED BY <1>4, <2>1 DEF RoomTypeOK
<1>5. CASE SetParticipantState(c)
  <2> DEFINE p == participants[c]
             mic == SwitchTo(p.mic, f.mic)
             video == SwitchTo(p.video, f.video)
             share == IF f.share = "on" /\ ~share_granted(c) THEN p.share
                      ELSE SwitchTo(p.share, f.share)
  <2>1. mic \in BOOLEAN /\ video \in BOOLEAN /\ share \in BOOLEAN
    BY <1>3 DEF SwitchTo, Participant
  <2>2. participants' =
            [participants EXCEPT ![c] = WithMedia(p, mic, video, share)]
    BY <1>5, Zenon DEF SetParticipantState
  <2> HIDE DEF mic, video, share
  <2>3. participants' \in [Conns -> Participant]
    BY <1>4, <2>1, <2>2
  <2> QED BY <1>2, <1>5, <2>3
         DEF SetParticipantState, RoomTypeOK, roleVars, keyVars, configVars
<1>6. CASE SetMediaTrack(c)
  <2> DEFINE video == f.track = "Camera" /\ f.on
             share == f.track = "ScreenShare" /\ f.on
  <2>1. f.mic \in BOOLEAN /\ f.on \in BOOLEAN
    BY <1>1, <1>6, TrackFields DEF SetMediaTrack, Handling
  <2>2. video \in BOOLEAN /\ share \in BOOLEAN
    OBVIOUS
  <2>3. participants' = [participants EXCEPT
            ![c] = WithMedia(participants[c], f.mic, video, share)]
    BY <1>6, Zenon DEF SetMediaTrack
  <2> HIDE DEF video, share
  <2>4. participants' \in [Conns -> Participant]
    BY <1>4, <2>1, <2>2, <2>3
  <2> QED BY <1>2, <1>6, <2>4
         DEF SetMediaTrack, RoomTypeOK, roleVars, keyVars, configVars
<1>7. CASE StoreCapability(c)
  <2>1. [known |-> TRUE, hdr_capture |-> f.hdr_capture,
         hdr_render |-> f.hdr_render] \in Caps
    BY <1>1, <1>7, CapabilityFields DEF StoreCapability, Handling, Caps
  <2> QED BY <1>2, <1>7, <2>1
         DEF StoreCapability, RoomTypeOK, roleVars, keyVars, configVars
<1>8. CASE PublishKeyEpoch(c) \/ AckKeyRotation(c)
  <2>1. f.pid \in Ids /\ f.epoch \in Nat /\ f.at \in Nat
    BY <1>1, <1>8, KeyFields DEF PublishKeyEpoch, AckKeyRotation, Handling
  <2>2. signed_action_clock_by_signer' \in [ClockTags -> [Ids -> Nat]]
    BY <1>8, <2>1, AdvanceClockType DEF PublishKeyEpoch, AckKeyRotation, ClockTags
  <2> QED BY <1>2, <1>8, <2>1, <2>2
         DEF PublishKeyEpoch, AckKeyRotation, RoomTypeOK, roleVars, configVars
<1> QED BY <1>5, <1>7, <1>8, <1>6

\* Every step preserves the types.
LEMMA NextType == TypeOK /\ [Next]_vars => TypeOK'
<1> SUFFICES ASSUME TypeOK, [Next]_vars PROVE TypeOK'
  OBVIOUS
<1>1. CASE UNCHANGED vars
  BY <1>1, RoomUnchanged DEF vars, connVars, TypeOK, ConnTypeOK
<1>2. ASSUME NEW c \in Conns, Lifecycle(c) \/ ReplyOnly(c) \/ Continue(c)
      PROVE  TypeOK'
  BY <1>2, LifecycleType, PassiveType, RoleType, ConfigType, ModerationType,
     MediaType DEF Continue
<1>3. ASSUME NEW c \in Conns, NEW f \in Frames, Receive(c, f)
      PROVE  TypeOK'
  BY <1>3, HelloType, AnonType, PassiveType DEF Receive
<1> QED BY <1>1, <1>2, <1>3 DEF Next

\* The room's state keeps its types whatever the clients send and however the
\* handlers interleave; no counter passes u64::MAX (saturating_add).
THEOREM TypeCorrect == Spec => []TypeOK
BY InitType, NextType, PTL DEF Spec

=============================================================================
