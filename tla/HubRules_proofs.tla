--------------------------- MODULE HubRules_proofs ---------------------------
(***************************************************************************)
(* What the hub promises beyond roles and modes: that nobody with a role   *)
(* waits, that the anonymous roster and what is relayed for it are sound,  *)
(* the action properties of HubRoom, and that it implements HubAuthority.  *)
(***************************************************************************)
EXTENDS HubRoles_proofs, FiniteSetTheorems

\* No step leaves somebody with a reserved role in the waiting room: who takes
\* a role has joined, and nobody who waits has its id.
LEMMA ReservedStep ==
    ASSUME TypeOK, RoleInv, ReservedNeverWait, NEW c \in Conns,
           Quiet(c) \/ Loud(c)
    PROVE  ReservedNeverWait'
<1> USE DEF TypeOK
<1>1. ASSUME UNCHANGED <<host_role_owner, co_host_role_owners, anonymous_mode>>,
             \A d \in Waiting(participants') :
                 /\ d \in Waiting(participants)
                 /\ participants'[d].pid = participants[d].pid
      PROVE  ReservedNeverWait'
  BY <1>1 DEF ReservedNeverWait, Reserved
<1>2. CASE Quiet(c)
  <2>1. SameRoster
    BY <1>2, QuietSteps
  <2> QED BY <1>1, <2>1, SameRosterSets DEF SameRoster, roleVars, Waiting
<1>3. CASE LeaveTransparent(c) \/ LeaveAnonymous(c) \/ Deny(c)
  <2>1. PICK t \in Conns : participants' = Without(t)
    BY <1>3, LeaveEffect, LeaveAnonymousEffect, DenyEffect DEF Waiting
  <2>2. UNCHANGED <<host_role_owner, co_host_role_owners, anonymous_mode>>
    BY <1>3 DEF LeaveTransparent, LeaveAnonymous, Deny
  <2> QED BY <1>1, <2>1, <2>2, WithoutSets DEF Waiting
<1>4. CASE LeaveLast(c)
  BY <1>4 DEF LeaveLast, RemoveRoom, ReservedNeverWait, Waiting, Absent,
              Transparent
<1>5. CASE Connect(c)
  <2>1. participants'[c].status = "open"
    BY <1>5, EnterSets DEF Connect
  <2>2. UNCHANGED <<roleVars, anonymous_mode>>
    BY <1>5, OutsideEffect
  <2>3. \A d \in Conns \ {c} : participants'[d] = participants[d]
    BY <1>5, OutsideEffect
  <2> QED BY <1>1, <2>1, <2>2, <2>3 DEF Waiting, roleVars
<1>6. CASE \E f \in Frames : HelloWaits(c, f)
  <2>1. PICK f \in Frames : HelloWaits(c, f)
    BY <1>6
  <2>2. participants'[c].pid = f.pid /\ ~Reserved(f.pid)
    BY <2>1, EnterSets DEF HelloWaits, routed_to_waiting_room,
           conn_or_participant_can_moderate
  <2>3. /\ UNCHANGED <<roleVars, anonymous_mode>>
        /\ \A d \in Conns \ {c} : participants'[d] = participants[d]
    BY <1>6, OutsideEffect
  <2> QED BY <2>2, <2>3 DEF ReservedNeverWait, Reserved, Waiting, roleVars
<1>7. CASE \E f \in Frames : HelloJoins(c, f) \/ HelloMissing(c, f)
  <2>1. PICK f \in Frames : HelloJoins(c, f) \/ HelloMissing(c, f)
    BY <1>7
  <2>2. /\ IdFree(c, f.pid)
        /\ host_role_owner' \in {host_role_owner, f.pid}
        /\ UNCHANGED <<co_host_role_owners, anonymous_mode>>
    BY <2>1, HelloJoinsEffect, HelloMissingEffect
  <2>3. \A d \in Waiting(participants') :
            /\ d # c /\ d \in Waiting(participants)
            /\ participants'[d].pid = participants[d].pid
    <3>1. CASE HelloJoins(c, f)
      BY <3>1, HelloJoinsEffect DEF Waiting
    <3>2. CASE HelloMissing(c, f)
      BY <3>2, HelloMissingEffect DEF Waiting, Present
    <3> QED BY <2>1, <3>1, <3>2
  <2> QED BY <2>2, <2>3 DEF ReservedNeverWait, Reserved, IdFree, Waiting
<1>8. CASE GrantHost(c) \/ GrantCoHost(c) \/ RevokeCoHost(c)
  <2>1. UNCHANGED <<participants, anonymous_mode>>
    BY <1>8, RoleEffect
  <2>2. \E t \in Joined(participants) :
            /\ host_role_owner' \in {host_role_owner, participants[t].pid}
            /\ co_host_role_owners' \subseteq
                   co_host_role_owners \cup {participants[t].pid}
    BY <1>8 DEF GrantHost, GrantCoHost, RevokeCoHost, ChangeCoHosts,
                RoleGrantAllowed, RoleRevokeAllowed, RoleTargets
  <2>3. ~anonymous_mode =>
            \A t \in Joined(participants), d \in Waiting(participants) :
                participants[d].pid # participants[t].pid
    BY DEF RoleInv, UniqueIds, NoneAnonymous, Joined, Waiting
  <2> QED BY <2>1, <2>2, <2>3 DEF ReservedNeverWait, Reserved
<1>9. CASE Admit(c)
  BY <1>1, <1>9, AdmitEffect DEF Waiting
<1>10. CASE \E f \in Frames : AnonHello(c, f)
  BY <1>10, AnonHelloEffect DEF ReservedNeverWait
<1> QED BY <1>2, <1>3, <1>4, <1>5, <1>6, <1>7, <1>8, <1>9, <1>10 DEF Loud

\* Nobody with a reserved moderation role is left in the waiting room.
THEOREM ReservedJoin == Spec => []ReservedNeverWait
<1>1. Init => ReservedNeverWait
  BY DEF Init, ReservedNeverWait, Waiting, Absent, Transparent
<1>2. TypeOK /\ RoleInv /\ ReservedNeverWait /\ [Next]_vars => ReservedNeverWait'
  <2>1. CASE UNCHANGED vars
    BY <2>1 DEF vars, roomVars, roleVars, ReservedNeverWait, Waiting, Reserved
  <2> QED BY <2>1, ReservedStep, StepKinds
<1> QED BY <1>1, <1>2, TypeCorrect, RolesCorrect, PTL DEF Spec
-----------------------------------------------------------------------------
(***************************************************************************)
(* The anonymous roster.                                                   *)
(***************************************************************************)
Keeps(d) ==
    /\ participants'[d].handle = participants[d].handle
    /\ participants'[d].key = participants[d].key
    /\ participants'[d].kepoch = participants[d].kepoch

\* Only AnonHello adds a member to the roster, and only AnonHello and
\* GroupKeyUpdate change what it says of one.
LEMMA RosterKept ==
    ASSUME TypeOK, RoleInv, ModeInv, NEW c \in Conns, Quiet(c) \/ Loud(c),
           ~\E f \in Frames : AnonHello(c, f) \/ GroupKeyUpdate(c, f)
    PROVE  /\ AnonJoined(participants') \subseteq AnonJoined(participants)
           /\ \A d \in AnonJoined(participants') : Keeps(d)
<1> USE DEF TypeOK
<1>1. CASE UNCHANGED participants
  BY <1>1 DEF Keeps
<1>2. ASSUME NEW t \in Conns,
             ~participants'[t].anon \/ participants'[t].status # "joined",
             \A d \in Conns \ {t} : participants'[d] = participants[d]
      PROVE  /\ AnonJoined(participants') \subseteq AnonJoined(participants)
             /\ \A d \in AnonJoined(participants') : Keeps(d)
  BY <1>2 DEF AnonJoined, Joined, Keeps
<1>3. CASE LeaveTransparent(c) \/ LeaveAnonymous(c) \/ Deny(c)
  <2>1. PICK t \in Conns : participants' = Without(t)
    BY <1>3, LeaveEffect, LeaveAnonymousEffect, DenyEffect DEF Waiting
  <2>2. participants'[t].status = "absent"
    BY <2>1 DEF Without, Absent, Transparent, RoomTypeOK
  <2> QED BY <1>2, <2>1, <2>2, WithoutSets
<1>4. CASE LeaveLast(c)
  BY <1>4 DEF LeaveLast, RemoveRoom, AnonJoined, Joined, Absent, Transparent
<1>5. CASE Connect(c) \/ \E f \in Frames : HelloWaits(c, f)
  BY <1>2, <1>5, OutsideEffect
<1>6. CASE \E f \in Frames : HelloJoins(c, f)
  BY <1>2, <1>6, HelloJoinsEffect
<1>7. CASE Admit(c)
  <2>1. PICK t \in Waiting(participants) :
            /\ \A d \in Conns \ {t} : participants'[d] = participants[d]
            /\ participants'[t].anon = participants[t].anon
    BY <1>7, AdmitEffect
  <2>2. task[c].frame.kind \in PlaintextKinds /\ c \in Joined(participants)
    BY <1>7, AdmitEffect DEF Admit, Moderates, Handling, ModerationKinds,
                             PlaintextKinds
  <2>3. ~anonymous_mode
    BY <2>2 DEF ModeInv, StrandedPlaintext
  <2>4. t \in Conns /\ ~participants[t].anon
    BY <2>3 DEF RoleInv, NoneAnonymous, Waiting
  <2> QED BY <1>2, <2>1, <2>4
<1>8. CASE Mute(c)
  <2>1. PICK targets : participants' = [d \in Conns |->
            IF d \in targets THEN MutedBy(task[c].frame.action, participants[d])
            ELSE participants[d]]
    BY <1>8 DEF Mute
  <2>2. ASSUME NEW p \in Participant, NEW a
        PROVE  /\ MutedBy(a, p).status = p.status
               /\ MutedBy(a, p).anon = p.anon
               /\ MutedBy(a, p).handle = p.handle
               /\ MutedBy(a, p).key = p.key
               /\ MutedBy(a, p).kepoch = p.kepoch
    BY DEF MutedBy, Participant
  <2>3. \A d \in Conns : participants[d] \in Participant
    BY DEF RoomTypeOK
  <2> QED BY <2>1, <2>2, <2>3 DEF AnonJoined, Joined, Keeps
<1>9. CASE SetParticipantState(c) \/ SetMediaTrack(c)
  <2>1. ASSUME NEW m, NEW v, NEW h, participants' =
               [participants EXCEPT ![c] = WithMedia(participants[c], m, v, h)]
        PROVE  \A d \in Conns :
                   /\ participants'[d].status = participants[d].status
                   /\ participants'[d].anon = participants[d].anon
                   /\ Keeps(d)
    BY <2>1 DEF WithMedia, RoomTypeOK, Participant, Keeps
  <2>2. CASE SetParticipantState(c)
    <3>1. PICK m, v, h : participants' =
              [participants EXCEPT ![c] = WithMedia(participants[c], m, v, h)]
      BY <2>2, Zenon DEF SetParticipantState
    <3> QED BY <2>1, <3>1 DEF AnonJoined, Joined
  <2>3. CASE SetMediaTrack(c)
    <3>1. PICK m, v, h : participants' =
              [participants EXCEPT ![c] = WithMedia(participants[c], m, v, h)]
      BY <2>3, Zenon DEF SetMediaTrack
    <3> QED BY <2>1, <3>1 DEF AnonJoined, Joined
  <2> QED BY <1>9, <2>2, <2>3
<1>10. CASE \/ Close(c) \/ ReadFails(c) \/ RotateAfterLeave(c) \/ ReplyOnly(c)
            \/ \E f \in Frames : \/ HelloNoRoom(c, f) \/ HelloRefused(c, f)
                                 \/ AnonHelloRefused(c, f)
                                 \/ RelayEncrypted(c, f) \/ SealedRefused(c, f)
                                 \/ Gate(c, f) \/ HelloMissing(c, f)
            \/ HelloSeenGate(c) \/ E2eeGate(c) \/ SectionMissing(c)
  BY <1>1, <1>10 DEF Close, ReadFails, RotateAfterLeave, ReplyOnly,
         HelloNoRoom, HelloRefused, AnonHelloRefused, RelayEncrypted,
         SealedRefused, Gate, HelloMissing, HelloSeenGate, E2eeGate,
         SectionMissing, roomVars
<1>11. CASE \/ UpdatePolicy(c) \/ UpdateRoomConfig(c) \/ ControlRefused(c)
            \/ VerifySigned(c) \/ RegateSigned(c) \/ ModerationRefused(c)
            \/ ModerationFails(c) \/ GrantHost(c) \/ GrantCoHost(c)
            \/ RevokeCoHost(c)
  BY <1>1, <1>11, RoleEffect DEF UpdatePolicy, UpdateRoomConfig, ControlRefused,
         VerifySigned, RegateSigned, ModerationRefused, ModerationFails, roomVars
<1>12. CASE \/ PassOn(c) \/ CheckCapability(c) \/ StoreCapability(c)
            \/ ResolveProfile(c) \/ PublishKeyEpoch(c) \/ AckKeyRotation(c)
            \/ MediaRefused(c) \/ Relay(c) \/ Announce(c) \/ Notify(c)
            \/ Sent(c) \/ SendFails(c) \/ BackpressureNotice(c)
  BY <1>1, <1>12 DEF BackpressureNotice, PassOn, CheckCapability,
         StoreCapability, ResolveProfile, PublishKeyEpoch, AckKeyRotation,
         MediaRefused, Relay, Announce, Notify, Sent, SendFails, roomVars
<1> QED BY <1>3, <1>4, <1>5, <1>6, <1>7, <1>8, <1>9, <1>10, <1>11, <1>12
       DEF Quiet, Loud

\* What AnonHello and GroupKeyUpdate make of the sender, and of nobody else.
LEMMA AnonHelloFields ==
    ASSUME TypeOK, NEW c \in Conns, NEW f \in Frames, AnonHello(c, f)
    PROVE  /\ \A d \in Conns \ {c} : participants'[d] = participants[d]
           /\ participants'[c].status = "joined"
           /\ participants'[c].handle = f.handle
           /\ participants'[c].key = f.key /\ participants'[c].kepoch >= 1
           /\ f.key # None
<1>1. f \in Frame /\ f.kind = "AnonHello"
  BY FramesAssumption DEF AnonHello
<1>2. f.key # None
  BY <1>1, AnonFields, HandlesAssumption
<1>3. participants[c] \in Participant /\ participants[c].kepoch \in Nat
  BY DEF TypeOK, RoomTypeOK, Participant
<1>4. /\ \A d \in Conns \ {c} : participants'[d] = participants[d]
      /\ participants'[c] = apply_anon_hello_state(participants[c], f)
  BY DEF AnonHello, TypeOK, RoomTypeOK
<1> QED BY <1>2, <1>3, <1>4 DEF apply_anon_hello_state, Participant

LEMMA GroupKeyUpdateFields ==
    ASSUME TypeOK, NEW c \in Conns, NEW f \in Frames, GroupKeyUpdate(c, f)
    PROVE  /\ \A d \in Conns \ {c} : participants'[d] = participants[d]
           /\ participants'[c].status = participants[c].status
           /\ participants'[c].anon = participants[c].anon
           /\ participants'[c].handle = participants[c].handle
           /\ participants'[c].key = f.key /\ participants'[c].kepoch = f.epoch
           /\ f.key # None /\ f.epoch >= 1
<1>1. f \in Frame /\ f.kind = "GroupKeyUpdate"
  BY FramesAssumption DEF GroupKeyUpdate
<1>2. f.key # None
  BY <1>1, AnonFields, HandlesAssumption
<1>3. f.epoch \in Nat \ {0}
  BY <1>1 DEF Frame
<1>4. /\ participants[c] \in Participant
      /\ \A d \in Conns \ {c} : participants'[d] = participants[d]
      /\ participants'[c] = [participants[c] EXCEPT !.key = f.key, !.kepoch = f.epoch]
  BY DEF GroupKeyUpdate, TypeOK, RoomTypeOK
<1> QED BY <1>2, <1>3, <1>4 DEF Participant

\* The roster is a finite set, so that its capacity can be compared.
LEMMA RosterFinite ==
    /\ IsFiniteSet(AnonJoined(participants))
    /\ Cardinality(AnonJoined(participants)) \in Nat
<1>1. IsFiniteSet(Conns)
  <2>1. 1 \in Int /\ MaxConns \in Int
    BY ConnsAssumption
  <2> QED BY <2>1, FS_Interval DEF Conns
<1>2. AnonJoined(participants) \subseteq Conns
  BY DEF AnonJoined, Joined
<1> QED BY <1>1, <1>2, FS_Subset, FS_CardinalityType

\* A roster that loses members, or keeps them as they are, stays sound.
LEMMA RosterShrinks ==
    ASSUME AnonRosterSound,
           AnonJoined(participants') \subseteq AnonJoined(participants),
           \A d \in AnonJoined(participants') : Keeps(d)
    PROVE  AnonRosterSound'
<1>1. Cardinality(AnonJoined(participants')) <= AnonMaxParticipants
  <2>1. /\ IsFiniteSet(AnonJoined(participants))
        /\ Cardinality(AnonJoined(participants)) \in Nat
    BY RosterFinite
  <2>2. /\ IsFiniteSet(AnonJoined(participants'))
        /\ Cardinality(AnonJoined(participants'))
               <= Cardinality(AnonJoined(participants))
    BY <2>1, FS_Subset
  <2>3. Cardinality(AnonJoined(participants')) \in Nat
    BY <2>2, FS_CardinalityType
  <2> QED BY <2>1, <2>2, <2>3, LimitsAssumption DEF AnonRosterSound
<1> QED BY <1>1 DEF AnonRosterSound, Keeps

\* A hello keeps the roster sound: its handle is nobody else's and it fits.
LEMMA RosterGrows ==
    ASSUME TypeOK, ModeInv, AnonRosterSound, NEW c \in Conns, NEW f \in Frames,
           AnonHello(c, f)
    PROVE  AnonRosterSound'
<1> DEFINE roster == AnonJoined(participants)
<1>1. /\ \A d \in Conns \ {c} : participants'[d] = participants[d]
      /\ participants'[c].handle = f.handle
      /\ participants'[c].key # None /\ participants'[c].kepoch >= 1
  BY AnonHelloFields
<1>2. AnonJoined(participants') \subseteq roster \cup {c}
  BY <1>1 DEF AnonJoined, Joined
<1>3. Cardinality(AnonJoined(participants')) <= AnonMaxParticipants
  <2>1. IsFiniteSet(roster) /\ Cardinality(roster) \in Nat
    BY RosterFinite
  <2>2. /\ IsFiniteSet(roster \cup {c})
        /\ Cardinality(roster \cup {c}) =
               IF c \in roster THEN Cardinality(roster) ELSE Cardinality(roster) + 1
    BY <2>1, FS_AddElement
  <2>3. /\ IsFiniteSet(AnonJoined(participants'))
        /\ Cardinality(AnonJoined(participants')) <= Cardinality(roster \cup {c})
    BY <1>2, <2>2, FS_Subset
  <2>4. Cardinality(AnonJoined(participants')) \in Nat
    BY <2>3, FS_CardinalityType
  <2>5. c \in roster \/ Cardinality(roster) < AnonMaxParticipants
    BY DEF AnonHello, AnonHelloAccepted, validate_anonymous_room_capacity
  <2>6. Cardinality(roster) <= AnonMaxParticipants
    BY DEF AnonRosterSound
  <2> HIDE DEF roster
  <2> QED BY <2>1, <2>2, <2>3, <2>4, <2>5, <2>6, LimitsAssumption
<1>4. \A d \in roster \ {c} : participants[d].handle # f.handle
  BY DEF AnonHello, AnonHelloAccepted, validate_anon_participant_handle,
         AnonJoined, Joined
<1>5. \A d \in AnonJoined(participants') \ {c} :
          d \in roster /\ participants'[d] = participants[d]
  BY <1>1, <1>2 DEF AnonJoined, Joined
<1> HIDE DEF roster
<1> QED BY <1>1, <1>3, <1>4, <1>5 DEF AnonRosterSound, roster

\* A key update leaves handles and members alone.
LEMMA RosterRekeyed ==
    ASSUME TypeOK, AnonRosterSound, NEW c \in Conns, NEW f \in Frames,
           GroupKeyUpdate(c, f)
    PROVE  AnonRosterSound'
<1>1. \A d \in Conns : /\ participants'[d].status = participants[d].status
                       /\ participants'[d].anon = participants[d].anon
                       /\ participants'[d].handle = participants[d].handle
  BY GroupKeyUpdateFields
<1>2. AnonJoined(participants') = AnonJoined(participants)
  BY <1>1 DEF AnonJoined, Joined
<1>3. \A d \in AnonJoined(participants') :
          participants'[d].key # None /\ participants'[d].kepoch >= 1
  BY <1>2, GroupKeyUpdateFields DEF AnonRosterSound, AnonJoined, Joined
<1> QED BY <1>1, <1>2, <1>3 DEF AnonRosterSound, AnonJoined, Joined

\* Every step keeps the roster sound.
LEMMA RosterStep ==
    TypeOK /\ RoleInv /\ ModeInv /\ AnonRosterSound /\ [Next]_vars
        => AnonRosterSound'
<1> SUFFICES ASSUME TypeOK, RoleInv, ModeInv, AnonRosterSound, [Next]_vars
             PROVE  AnonRosterSound'
  OBVIOUS
<1>1. CASE UNCHANGED vars
  BY <1>1 DEF vars, roomVars, AnonRosterSound
<1>2. ASSUME NEW c \in Conns, Quiet(c) \/ Loud(c)
      PROVE  AnonRosterSound'
  <2>1. CASE \E f \in Frames : AnonHello(c, f) \/ GroupKeyUpdate(c, f)
    BY <2>1, RosterGrows, RosterRekeyed
  <2>2. CASE ~\E f \in Frames : AnonHello(c, f) \/ GroupKeyUpdate(c, f)
    BY <1>2, <2>2, RosterKept, RosterShrinks
  <2> QED BY <2>1, <2>2
<1> QED BY <1>1, <1>2, StepKinds

\* The anonymous roster stays within its capacity, and every member has a
\* handle of its own, a key and a key epoch (validate_anonymous_room_capacity,
\* validate_anon_participant_handle, apply_anon_hello_state).
THEOREM RosterSound == Spec => []AnonRosterSound
<1>1. Init => AnonRosterSound
  <2> SUFFICES ASSUME Init PROVE AnonRosterSound
    OBVIOUS
  <2>1. AnonJoined(participants) = {}
    BY DEF Init, AnonJoined, Joined, Absent, Transparent
  <2> QED BY <2>1, FS_EmptySet, LimitsAssumption DEF AnonRosterSound
<1> QED BY <1>1, RosterStep, TypeCorrect, RolesCorrect, ModesCorrect, PTL DEF Spec
-----------------------------------------------------------------------------
(***************************************************************************)
(* What is relayed for the anonymous roster.                               *)
(***************************************************************************)
SealedKinds == {"GroupKeyUpdate", "EncryptedControl", "AnonEncryptedPayload"}

\* A sealed frame about to be relayed.
RelaysSealed(t) == t.stage = "relay" /\ t.frame.kind \in SealedKinds

\* Only the two sealed handlers start to relay a sealed frame.
LEMMA SealedTask ==
    ASSUME TypeOK, NEW c \in Conns, Quiet(c) \/ Loud(c), RelaysSealed(task'[c])
    PROVE  \/ task'[c].stage = task[c].stage /\ task'[c].frame = task[c].frame
           \/ \E f \in Frames : /\ GroupKeyUpdate(c, f) \/ RelayEncrypted(c, f)
                               /\ task'[c].frame = f
<1> USE DEF TypeOK
<1> DEFINE f == task[c].frame
<1>1. CASE GoTo(c, Idle) \/ ReturnErr(c) \/ Reply(c)
  BY <1>1 DEF GoTo, ReturnErr, Reply, Idle, ConnTypeOK, RelaysSealed
<1>2. ASSUME NEW g, g.kind \notin SealedKinds, NEW s, NEW to,
             \/ GoTo(c, At(s, g))
             \/ GoTo(c, [stage |-> s, frame |-> g, to |-> to])
      PROVE  FALSE
  BY <1>2 DEF GoTo, At, ConnTypeOK, RelaysSealed
<1>3. CASE \/ Connect(c) \/ Close(c) \/ ReadFails(c) \/ LeaveLast(c)
           \/ LeaveTransparent(c) \/ LeaveAnonymous(c) \/ RotateAfterLeave(c)
  BY <1>3 DEF Connect, Close, ReadFails, LeaveLast, LeaveTransparent,
              LeaveAnonymous, RotateAfterLeave
<1>4. CASE \/ ReplyOnly(c) \/ SectionMissing(c) \/ ControlRefused(c)
           \/ ModerationRefused(c) \/ ModerationFails(c) \/ MediaRefused(c)
           \/ Relay(c) \/ Sent(c) \/ SendFails(c)
           \/ \E g \in Frames :
                  \/ HelloNoRoom(c, g) \/ HelloRefused(c, g) \/ HelloMissing(c, g)
                  \/ AnonHelloRefused(c, g) \/ SealedRefused(c, g)
  BY <1>1, <1>4 DEF ReplyOnly, SectionMissing, ControlRefused,
         ModerationRefused, ModerationFails, MediaRefused, Relay, Sent,
         SendFails, HelloNoRoom, HelloRefused, HelloMissing, AnonHelloRefused,
         SealedRefused
<1>5. CASE Announce(c) \/ Notify(c)
  <2>1. \/ GoTo(c, Idle)
        \/ \E to : GoTo(c, [stage |-> "sending", frame |-> NoFrame, to |-> to])
    BY <1>5 DEF Announce, Notify, Sending
  <2> QED BY <1>1, <1>2, <2>1 DEF NoFrame, SealedKinds
<1>6. CASE \E g \in Frames : HelloWaits(c, g) \/ HelloJoins(c, g) \/ AnonHello(c, g)
  <2>1. \E g, s : GoTo(c, At(s, g)) /\ g.kind \in {"Hello", "AnonHello"}
    BY <1>6 DEF HelloWaits, HelloJoins, HelloAccepted, AnonHello
  <2> QED BY <1>2, <2>1 DEF SealedKinds
<1>7. CASE \E g \in Frames : GroupKeyUpdate(c, g) \/ RelayEncrypted(c, g)
  <2>1. PICK g \in Frames : GroupKeyUpdate(c, g) \/ RelayEncrypted(c, g)
    BY <1>7
  <2>2. task'[c].frame = g
    BY <2>1 DEF GroupKeyUpdate, RelayEncrypted, GoTo, At, ConnTypeOK
  <2> QED BY <2>1, <2>2
<1>8. CASE \E g \in Frames : Gate(c, g)
  <2>1. PICK g \in Frames : /\ g.kind \in PlaintextKinds
                            /\ Reply(c) \/ \E s : GoTo(c, At(s, g))
    BY <1>8 DEF Gate
  <2>2. g.kind \notin SealedKinds
    BY <2>1 DEF PlaintextKinds, E2eeGatedKinds, SealedKinds
  <2> QED BY <1>1, <1>2, <2>1, <2>2
<1>9. ASSUME f.kind \in PlaintextKinds,
             \/ GoTo(c, Idle) \/ Reply(c)
             \/ \E s : GoTo(c, At(s, f))
             \/ \E t : GoTo(c, [At("announce", f) EXCEPT !.to = {t}])
      PROVE  FALSE
  <2>1. f.kind \notin SealedKinds
    BY <1>9 DEF PlaintextKinds, E2eeGatedKinds, SealedKinds
  <2>2. ~(GoTo(c, Idle) \/ Reply(c))
    BY DEF GoTo, ReturnErr, Reply, Idle, ConnTypeOK, RelaysSealed
  <2>3. \A s : ~GoTo(c, At(s, f))
    BY <1>2, <2>1
  <2>4. \A t : ~GoTo(c, [At("announce", f) EXCEPT !.to = {t}])
    BY DEF GoTo, At, ConnTypeOK, RelaysSealed
  <2> QED BY <1>9, <2>2, <2>3, <2>4
<1>10. CASE \/ HelloSeenGate(c) \/ VerifySigned(c) \/ RegateSigned(c) \/ E2eeGate(c)
            \/ UpdatePolicy(c) \/ UpdateRoomConfig(c)
            \/ Mute(c) \/ Admit(c) \/ Deny(c)
  <2>1. f.kind \in PlaintextKinds
    BY <1>10 DEF HelloSeenGate, VerifySigned, RegateSigned, E2eeGate,
           UpdatePolicy, UpdateRoomConfig, Mute, Admit, Deny, Moderates,
           Handling, PlaintextKinds, ModerationKinds
  <2>2. \/ GoTo(c, Idle) \/ Reply(c)
        \/ \E s : GoTo(c, At(s, f))
        \/ \E t : GoTo(c, [At("announce", f) EXCEPT !.to = {t}])
    BY <1>10 DEF HelloSeenGate, VerifySigned, RegateSigned, E2eeGate,
           UpdatePolicy, UpdateRoomConfig, Mute, Admit, Deny
  <2> QED BY <1>9, <2>1, <2>2
<1>11. CASE GrantHost(c) \/ GrantCoHost(c) \/ RevokeCoHost(c)
  <2>1. f.kind \in PlaintextKinds
    BY <1>11 DEF GrantHost, GrantCoHost, RevokeCoHost, Handling, PlaintextKinds
  <2>2. \E s : GoTo(c, At(s, f))
    BY <1>11 DEF GrantHost, GrantCoHost, RevokeCoHost, ChangeCoHosts, RoleOutcome
  <2> QED BY <1>9, <2>1, <2>2
<1>12. CASE \/ SetParticipantState(c) \/ SetMediaTrack(c) \/ PassOn(c)
            \/ CheckCapability(c) \/ PublishKeyEpoch(c) \/ AckKeyRotation(c)
            \/ StoreCapability(c)
  <2>1. f.kind \in PlaintextKinds
    BY <1>12 DEF SetParticipantState, SetMediaTrack, PassOn, CheckCapability,
           PublishKeyEpoch, AckKeyRotation, StoreCapability, Handling,
           PlaintextKinds, E2eeGatedKinds, RelayedKinds, TwoSectionKinds
  <2>2. \E s : GoTo(c, At(s, f))
    BY <1>12 DEF SetParticipantState, SetMediaTrack, PassOn, CheckCapability,
           PublishKeyEpoch, AckKeyRotation, StoreCapability
  <2> QED BY <1>9, <2>1, <2>2
<1>13. CASE ResolveProfile(c)
  <2>1. f \in Frame /\ f.kind = "MediaProfileNegotiation"
    BY <1>13, TaskFrame DEF ResolveProfile, Handling
  <2>2. resolve_media_profile_negotiation(c, f).kind \notin SealedKinds
    BY <2>1 DEF resolve_media_profile_negotiation, Frame, SealedKinds
  <2> QED BY <1>2, <1>13, <2>2 DEF ResolveProfile
<1>14. CASE BackpressureNotice(c)
  <2>1. GoTo(c, [task[c] EXCEPT !.to = @ \cup Moderators])
    BY <1>14 DEF BackpressureNotice
  <2> QED BY <2>1 DEF GoTo, ConnTypeOK, Task
<1> QED BY <1>3, <1>4, <1>5, <1>6, <1>7, <1>8, <1>10, <1>11, <1>12, <1>13, <1>14
       DEF Quiet, Loud

\* The sealed frame t may be relayed for d.
MaySend(d, t) ==
    /\ anonymous_mode
    /\ d \in AnonJoined(participants)
    /\ participants[d].handle = t.frame.handle
    /\ t.frame.kind # "AnonEncryptedPayload" => participants[d].kepoch = t.frame.epoch

\* A member of the roster keeps handle and epoch in a step that is not its own
\* AnonHello or GroupKeyUpdate, and not its departure.
LEMMA MemberKept ==
    ASSUME TypeOK, RoleInv, ModeInv, NEW c \in Conns, Quiet(c) \/ Loud(c),
           NEW d \in AnonJoined(participants), anonymous_mode,
           d # c \/ (reader[c] = "running" /\ task[c].stage # "idle")
    PROVE  anonymous_mode' /\ d \in AnonJoined(participants') /\ Keeps(d)
<1>1. RosterMoves(c)
  BY RosterSteps
<1>2. d \in Conns /\ d \in Joined(participants)
  BY DEF AnonJoined, Joined
<1>3. d \in Joined(participants') /\ participants'[d].anon = participants[d].anon
  BY <1>1, <1>2 DEF RosterMoves
<1>4. anonymous_mode' /\ d \in AnonJoined(participants')
  BY <1>1, <1>3 DEF RosterMoves, AnonJoined
<1>5. CASE \E f \in Frames : AnonHello(c, f) \/ GroupKeyUpdate(c, f)
  <2>1. d # c
    BY <1>5 DEF AnonHello, GroupKeyUpdate, Receives
  <2>2. participants'[d] = participants[d]
    BY <1>2, <1>5, <2>1, AnonHelloFields, GroupKeyUpdateFields
  <2> QED BY <1>4, <2>2 DEF Keeps
<1>6. CASE ~\E f \in Frames : AnonHello(c, f) \/ GroupKeyUpdate(c, f)
  BY <1>4, <1>6, RosterKept
<1> QED BY <1>5, <1>6

\* Every step leaves only sealed frames that may be relayed.
LEMMA SealedStep ==
    ASSUME TypeOK, RoleInv, ModeInv, SealedRelaySound, NEW c \in Conns,
           Quiet(c) \/ Loud(c)
    PROVE  SealedRelaySound'
<1> SUFFICES ASSUME NEW d \in Conns, RelaysSealed(task'[d])
             PROVE  MaySend(d, task[d])'
  BY DEF SealedRelaySound, RelaysSealed, SealedKinds, MaySend
<1>1. \A e \in Conns : RelaysSealed(task[e]) => MaySend(e, task[e])
  BY DEF SealedRelaySound, RelaysSealed, SealedKinds, MaySend
<1>2. ASSUME task'[d].stage = task[d].stage, task'[d].frame = task[d].frame
      PROVE  MaySend(d, task[d])'
  <2>1. RelaysSealed(task[d]) /\ MaySend(d, task[d])
    BY <1>1, <1>2 DEF RelaysSealed
  <2>2. reader[d] = "running" /\ task[d].stage # "idle"
    BY <2>1 DEF ModeInv, IdleTask, Idle, RelaysSealed
  <2>3. anonymous_mode' /\ d \in AnonJoined(participants') /\ Keeps(d)
    BY <2>1, <2>2, MemberKept DEF MaySend
  <2> QED BY <1>2, <2>1, <2>3 DEF MaySend, Keeps
<1>3. CASE d # c
  BY <1>2, <1>3, TaskMoves, OtherTasks
<1>4. ASSUME d = c, NEW f \in Frames, GroupKeyUpdate(c, f), task'[c].frame = f
      PROVE  MaySend(d, task[d])'
  <2>1. /\ anonymous_mode' /\ c \in AnonJoined(participants)
        /\ participants[c].handle = f.handle
    BY <1>4 DEF GroupKeyUpdate, SentUnderOwnHandle
  <2>2. /\ participants'[c].status = participants[c].status
        /\ participants'[c].anon = participants[c].anon
        /\ participants'[c].handle = participants[c].handle
        /\ participants'[c].kepoch = f.epoch
    BY <1>4, GroupKeyUpdateFields
  <2> QED BY <1>4, <2>1, <2>2 DEF MaySend, AnonJoined, Joined
<1>5. ASSUME d = c, NEW f \in Frames, RelayEncrypted(c, f), task'[c].frame = f
      PROVE  MaySend(d, task[d])'
  <2>1. /\ anonymous_mode /\ UNCHANGED <<participants, anonymous_mode>>
        /\ Relayable(c, f)
        /\ f.kind \in {"EncryptedControl", "AnonEncryptedPayload"}
    BY <1>5 DEF RelayEncrypted, roomVars
  <2> QED BY <1>5, <2>1 DEF MaySend, Relayable, SentUnderOwnHandle
<1>6. CASE d = c
  BY <1>2, <1>4, <1>5, <1>6, SealedTask
<1> QED BY <1>3, <1>6

\* What the hub relays of an anonymous room was sent by a member of its roster
\* under the handle, and for control under the key epoch, it still has when
\* the frame goes out, although other sections ran in between.
THEOREM SealedRelays == Spec => []SealedRelaySound
<1>1. Init => SealedRelaySound
  BY DEF Init, Idle, SealedRelaySound
<1>2. TypeOK /\ RoleInv /\ ModeInv /\ SealedRelaySound /\ [Next]_vars
          => SealedRelaySound'
  <2>1. CASE UNCHANGED vars
    BY <2>1 DEF vars, connVars, roomVars, SealedRelaySound
  <2> QED BY <2>1, SealedStep, StepKinds
<1> QED BY <1>1, <1>2, TypeCorrect, RolesCorrect, ModesCorrect, PTL DEF Spec
-----------------------------------------------------------------------------
(***************************************************************************)
(* Who gains and who loses a role.  Each action property is stated of one  *)
(* step, from the invariants above, and then of every behaviour.           *)
(***************************************************************************)
\* A step that leaves roster and roles alone changes nobody's role.
LEMMA SameRoles ==
    ASSUME SameRoster
    PROVE  \A c : /\ can_moderate_conn(c)' <=> can_moderate_conn(c)
                  /\ role_kind_for_conn(c)' = role_kind_for_conn(c)
BY DEF SameRoster, roleVars, can_moderate_conn, role_kind_for_conn

\* Somebody leaves and, where it was the host, h succeeds it.
Departs(t, h) ==
    /\ participants' = Without(t)
    /\ IF host_conn_id = t
       THEN /\ host_conn_id' = h
            /\ co_host_conn_ids' = ActiveCoHosts(Without(t), h, co_host_role_owners)
       ELSE /\ co_host_conn_ids' = co_host_conn_ids \ {t}
            /\ UNCHANGED host_conn_id

\* A departure takes no role from those who stay, and gives one to the heir.
LEMMA DepartureRoles ==
    ASSUME TypeOK, CoHostBinding, ~anonymous_mode, NEW t \in Conns, NEW h,
           Departs(t, h), NEW c \in StayJoined
    PROVE  /\ c # t
           /\ can_moderate_conn(c) => can_moderate_conn(c)'
           /\ host_conn_id # t =>
                  /\ can_moderate_conn(c)' => can_moderate_conn(c)
                  /\ role_kind_for_conn(c)' = role_kind_for_conn(c)
<1>1. c \in Conns /\ c \in Joined(participants) /\ c \in Joined(participants')
  BY DEF StayJoined, Joined
<1>2. c # t /\ c \in Joined(Without(t)) /\ Without(t)[c] = participants[c]
  BY <1>1, WithoutSets DEF Departs, TypeOK
<1>3. CASE host_conn_id # t
  BY <1>2, <1>3 DEF Departs, can_moderate_conn, role_kind_for_conn
<1>4. CASE host_conn_id = t
  <2>1. can_moderate_conn(c) => participants[c].pid \in co_host_role_owners
    BY <1>1, <1>2, <1>4 DEF CoHostBinding, can_moderate_conn
  <2>2. participants[c].pid \in co_host_role_owners =>
            c = host_conn_id' \/ c \in co_host_conn_ids'
    BY <1>2, <1>4 DEF Departs, ActiveCoHosts
  <2> QED BY <1>2, <1>4, <2>1, <2>2 DEF can_moderate_conn
<1> QED BY <1>2, <1>3, <1>4

\* Somebody joins, or joins again, and its reserved roles are restored.
Joins(t, pid) ==
    /\ \A d \in Conns \ {t} : participants'[d] = participants[d]
    /\ participants'[t].pid = pid /\ participants'[t].status = "joined"
    /\ host_conn_id' = RestoredHost(t, pid, host_conn_id, host_role_owner)
    /\ co_host_conn_ids' =
           ActiveCoHosts(participants', host_conn_id', co_host_role_owners)
    /\ UNCHANGED <<host_role_owner, co_host_role_owners>>

\* Only the owner of the host role takes a role by joining, the host's.
LEMMA JoinRoles ==
    ASSUME TypeOK, CoHostBinding, OwnerIsHost, ~anonymous_mode,
           NEW t \in Conns, NEW pid, Joins(t, pid),
           t \in Joined(participants) => participants[t].pid = pid,
           NEW c \in StayJoined
    PROVE  /\ can_moderate_conn(c) =>
                  \/ can_moderate_conn(c)'
                  \/ host_conn_id' = t /\ pid = host_role_owner
           /\ c = t /\ can_moderate_conn(c)' => can_moderate_conn(c)
<1>1. c \in Conns /\ c \in Joined(participants) /\ c \in Joined(participants')
  BY DEF StayJoined, Joined
<1>2. participants'[c].pid = participants[c].pid
  BY <1>1 DEF Joins
<1>3. c \in co_host_conn_ids <=>
          c # host_conn_id /\ participants[c].pid \in co_host_role_owners
  BY <1>1 DEF CoHostBinding
<1>4. c \in co_host_conn_ids' <=>
          c # host_conn_id' /\ participants[c].pid \in co_host_role_owners
  BY <1>1, <1>2 DEF Joins, ActiveCoHosts
<1>5. IF pid = host_role_owner THEN host_conn_id' = t
                               ELSE host_conn_id' = host_conn_id
  BY DEF Joins, RestoredHost
<1>6. c = t /\ pid = host_role_owner => host_conn_id = c
  BY <1>1, <1>2 DEF OwnerIsHost, Joins
<1> QED BY <1>3, <1>4, <1>5, <1>6 DEF can_moderate_conn

\* While somebody has joined a transparent room, a Hello finds a host there.
LEMMA HelloRoles ==
    ASSUME TypeOK, RoleInv, NEW c \in Conns, NEW f \in Frames,
           HelloJoins(c, f) \/ HelloMissing(c, f), Joined(participants) # {}
    PROVE  /\ host_conn_id # None
           /\ c \in Joined(participants) => participants[c].pid = f.pid
           /\ HelloJoins(c, f) => Joins(c, f.pid)
           /\ HelloMissing(c, f) => SameRoster
<1>1. ~anonymous_mode /\ IdFree(c, f.pid)
  BY DEF HelloJoins, HelloMissing, HelloAccepted, validate_join_allowed
<1>2. host_conn_id # None
  BY <1>1 DEF RoleInv, HostPresent
<1>3. HelloJoins(c, f) => Joins(c, f.pid)
  BY <1>2, HelloJoinsEffect DEF Joins
<1>4. HelloMissing(c, f) => SameRoster
  BY <1>2, HelloMissingEffect DEF SameRoster, roleVars
<1> QED BY <1>1, <1>2, <1>3, <1>4 DEF IdFree

\* What an admission does, in these terms.
LEMMA AdmitRoles ==
    ASSUME TypeOK, NEW c \in Conns, Admit(c)
    PROVE  \E t \in Waiting(participants) : Joins(t, participants[t].pid)
BY AdmitEffect DEF Joins

\* What a departure or a denial does, in these terms.
LEMMA LeaveRoles ==
    ASSUME TypeOK, NEW c \in Conns, LeaveTransparent(c) \/ Deny(c)
    PROVE  \E t \in Conns : Departs(t, Heir(t))
<1>1. CASE LeaveTransparent(c)
  BY <1>1, LeaveEffect DEF Departs
<1>2. CASE Deny(c)
  <2>1. \E t \in Waiting(participants) : Departs(t, Heir(t))
    BY <1>2, DenyEffect DEF Departs
  <2> QED BY <2>1 DEF Waiting
<1> QED BY <1>1, <1>2

\* A plaintext handler that has found its sender joined is in a transparent room.
LEMMA Transparently ==
    ASSUME ModeInv, NEW c \in Conns,
           GrantHost(c) \/ GrantCoHost(c) \/ RevokeCoHost(c) \/ Admit(c) \/ Deny(c)
    PROVE  /\ c \in Joined(participants) /\ ~anonymous_mode
           /\ can_moderate_conn(c)
           /\ task[c].stage = "apply"
<1>1. task[c].frame.kind \in PlaintextKinds /\ task[c].stage = "apply"
  BY DEF GrantHost, GrantCoHost, RevokeCoHost, Admit, Deny, Moderates, Handling,
         ModerationKinds, PlaintextKinds
<1>2. c \in Joined(participants) /\ can_moderate_conn(c)
  BY DEF GrantHost, GrantCoHost, RevokeCoHost, RoleGrantAllowed,
         RoleRevokeAllowed, SignedByHost, Admit, Deny, Moderates,
         ModeratorAllowed, can_moderate_conn
<1> QED BY <1>1, <1>2 DEF ModeInv, StrandedPlaintext

\* A frame of its own makes nobody a moderator.
LEMMA OwnFrame ==
    ASSUME TypeOK, RoleInv, ModeInv, NEW c \in Conns, Quiet(c) \/ Loud(c),
           ~anonymous_mode', c \in StayJoined, can_moderate_conn(c)'
    PROVE  can_moderate_conn(c)
<1>1. c \in Joined(participants) /\ c \in Joined(participants')
  BY DEF StayJoined
<1>2. CASE Quiet(c)
  BY <1>2, QuietSteps, SameRoles
<1>3. CASE LeaveTransparent(c) \/ LeaveAnonymous(c)
  <2>1. c \notin Joined(participants')
    BY <1>3, LeaveEffect, LeaveAnonymousEffect, WithoutSets DEF TypeOK
  <2> QED BY <1>1, <2>1
<1>4. CASE LeaveLast(c)
  BY <1>1, <1>4 DEF LeaveLast, RemoveRoom, Joined, Absent, Transparent
<1>5. CASE Connect(c) \/ \E f \in Frames : HelloWaits(c, f)
  BY <1>1, <1>5, OutsideEffect DEF Joined
<1>6. CASE \E f \in Frames : HelloJoins(c, f) \/ HelloMissing(c, f)
  <2>1. PICK f \in Frames : HelloJoins(c, f) \/ HelloMissing(c, f)
    BY <1>6
  <2>2. ~anonymous_mode
    BY <2>1 DEF HelloJoins, HelloMissing, HelloAccepted
  <2>3. CASE HelloJoins(c, f)
    <3>1. Joins(c, f.pid) /\ participants[c].pid = f.pid
      BY <1>1, <2>3, HelloRoles
    <3> QED BY <2>2, <3>1, JoinRoles DEF RoleInv
  <2>4. CASE HelloMissing(c, f)
    <3>1. SameRoster
      BY <1>1, <2>4, HelloRoles
    <3> QED BY <3>1, SameRoles
  <2> QED BY <2>1, <2>3, <2>4
<1>7. CASE GrantHost(c) \/ GrantCoHost(c) \/ RevokeCoHost(c) \/ Admit(c) \/ Deny(c)
  BY <1>7, Transparently
<1>8. CASE \E f \in Frames : AnonHello(c, f)
  BY <1>8, AnonHelloEffect
<1> QED BY <1>2, <1>3, <1>4, <1>5, <1>6, <1>7, <1>8 DEF Loud

\* The property of NoSelfPromotion, of one step.
NoOwnPromotion ==
    ~anonymous_mode' => \A c \in StayJoined :
        ~can_moderate_conn(c) /\ can_moderate_conn(c)' => task'[c] = task[c]

LEMMA PromotionStep ==
    ASSUME TypeOK, RoleInv, ModeInv, NEW a \in Conns, Quiet(a) \/ Loud(a)
    PROVE  NoOwnPromotion
<1> SUFFICES ASSUME ~anonymous_mode', NEW c \in StayJoined,
                    ~can_moderate_conn(c), can_moderate_conn(c)'
             PROVE  task'[c] = task[c]
  BY DEF NoOwnPromotion
<1>1. c \in Conns
  BY DEF StayJoined, Joined
<1>2. c # a
  BY OwnFrame
<1> QED BY <1>1, <1>2, TaskMoves, OtherTasks

\* A participant that stays joined never gains a moderation role by a frame of
\* its own (restore_reserved_roles_on_join restores what it holds already).
THEOREM SelfPromotionImpossible == Spec => NoSelfPromotion
<1>1. TypeOK /\ RoleInv /\ ModeInv /\ [Next]_vars => [NoOwnPromotion]_vars
  BY PromotionStep, StepKinds
<1>2. Spec => [][NoOwnPromotion]_vars
  BY <1>1, TypeCorrect, RolesCorrect, ModesCorrect, PTL DEF Spec
<1> QED BY <1>2 DEF NoSelfPromotion, NoOwnPromotion

\* Who may take a moderation role from one that stays joined.
LossJustified ==
    ~anonymous_mode' => \A c \in StayJoined :
        can_moderate_conn(c) /\ ~can_moderate_conn(c)' =>
            \/ /\ host_conn_id \in Joined(participants)
               /\ task'[host_conn_id] # task[host_conn_id]
            \/ /\ host_conn_id' \in Joined(participants')
               /\ participants'[host_conn_id'].pid = host_role_owner'

\* One step takes a role only by the host's frame or the owner's return.
LEMMA LossStep ==
    ASSUME TypeOK, RoleInv, ModeInv, NEW a \in Conns, Quiet(a) \/ Loud(a)
    PROVE  LossJustified
<1> SUFFICES ASSUME ~anonymous_mode', NEW c \in StayJoined,
                    can_moderate_conn(c), ~can_moderate_conn(c)'
             PROVE  \/ /\ host_conn_id \in Joined(participants)
                       /\ task'[host_conn_id] # task[host_conn_id]
                    \/ /\ host_conn_id' \in Joined(participants')
                       /\ participants'[host_conn_id'].pid = host_role_owner'
  BY DEF LossJustified
<1>1. c \in Conns /\ c \in Joined(participants) /\ c \in Joined(participants')
  BY DEF StayJoined, Joined
<1>2. ~SameRoster
  BY SameRoles
<1>3. ASSUME NEW t \in Conns, NEW pid, Joins(t, pid), ~anonymous_mode,
             t \in Joined(participants) => participants[t].pid = pid
      PROVE  /\ host_conn_id' \in Joined(participants')
             /\ participants'[host_conn_id'].pid = host_role_owner'
  <2>1. host_conn_id' = t /\ pid = host_role_owner
    BY <1>3, JoinRoles DEF RoleInv
  <2> QED BY <1>3, <2>1 DEF Joins, Joined
<1>4. CASE GrantHost(a) \/ GrantCoHost(a) \/ RevokeCoHost(a)
  <2>1. host_conn_id = a /\ a \in Joined(participants) /\ task[a].stage = "apply"
    BY <1>4, Transparently DEF GrantHost, GrantCoHost, RevokeCoHost,
           RoleGrantAllowed, RoleRevokeAllowed, SignedByHost
  <2>2. \E s \in {"announce", "relay"} : GoTo(a, At(s, task[a].frame))
    BY <1>4 DEF GrantHost, GrantCoHost, RevokeCoHost, ChangeCoHosts, RoleOutcome
  <2>3. task'[a].stage \in {"announce", "relay"}
    BY <2>2 DEF GoTo, At, TypeOK, ConnTypeOK
  <2> QED BY <2>1, <2>3
<1>5. CASE LeaveTransparent(a) \/ Deny(a)
  <2>1. ~anonymous_mode
    BY <1>5, Transparently DEF LeaveTransparent
  <2>2. PICK t \in Conns : Departs(t, Heir(t))
    BY <1>5, LeaveRoles
  <2> QED BY <2>1, <2>2, DepartureRoles DEF RoleInv
<1>6. CASE Admit(a)
  <2>1. PICK t \in Waiting(participants) : Joins(t, participants[t].pid)
    BY <1>6, AdmitRoles
  <2>2. t \in Conns /\ ~anonymous_mode
    BY <1>6, Transparently DEF Waiting
  <2> QED BY <1>3, <2>1, <2>2
<1>7. CASE \E f \in Frames : HelloJoins(a, f) \/ HelloMissing(a, f)
  <2>1. PICK f \in Frames : HelloJoins(a, f) \/ HelloMissing(a, f)
    BY <1>7
  <2>2. ~anonymous_mode
    BY <2>1 DEF HelloJoins, HelloMissing, HelloAccepted
  <2>3. HelloJoins(a, f)
    BY <1>1, <1>2, <2>1, HelloRoles
  <2>4. /\ Joins(a, f.pid)
        /\ a \in Joined(participants) => participants[a].pid = f.pid
    BY <1>1, <2>3, HelloRoles
  <2> QED BY <1>3, <2>2, <2>4
<1>8. CASE LeaveLast(a)
  BY <1>1, <1>8 DEF LeaveLast, RemoveRoom, Joined, Absent, Transparent
<1>9. CASE Connect(a) \/ \E f \in Frames : HelloWaits(a, f)
  BY <1>9, OutsideEffect DEF roleVars, can_moderate_conn
<1>10. CASE LeaveAnonymous(a) \/ \E f \in Frames : AnonHello(a, f)
  BY <1>10, LeaveAnonymousEffect, AnonHelloEffect
<1> QED BY <1>2, <1>4, <1>5, <1>6, <1>7, <1>8, <1>9, <1>10, QuietSteps DEF Loud

\* Nobody that stays joined loses its moderation role but to a frame of the
\* joined host or to the return of the host role's owner.
THEOREM LossAlwaysJustified == Spec => PowerLossJustified
<1>1. TypeOK /\ RoleInv /\ ModeInv /\ [Next]_vars => [LossJustified]_vars
  BY LossStep, StepKinds
<1>2. Spec => [][LossJustified]_vars
  BY <1>1, TypeCorrect, RolesCorrect, ModesCorrect, PTL DEF Spec
<1> QED BY <1>2 DEF PowerLossJustified, LossJustified

\* saturating_add moves a counter that is not at its end, and never back.
LEMMA SatIncMoves ==
    ASSUME NEW n \in 0 .. MaxCounter
    PROVE  /\ SatInc(n) >= n /\ \A b : SatIncIf(n, b) >= n
           /\ n < MaxCounter => SatInc(n) > n
           /\ n < MaxCounter => \A b : b => SatIncIf(n, b) > n
BY LimitsAssumption DEF SatInc, SatIncIf

\* Role changes are announced under a new permissions epoch.
ChangeMovesEpoch ==
    RoleChanges /\ permissions_epoch < MaxCounter
        /\ host_conn_id \in Joined(participants)
    => permissions_epoch' > permissions_epoch

\* One step that changes a role moves the epoch, while the host has joined.
LEMMA EpochStep ==
    ASSUME TypeOK, RoleInv, ModeInv, NEW a \in Conns, Quiet(a) \/ Loud(a)
    PROVE  ChangeMovesEpoch
<1> SUFFICES ASSUME NEW c \in StayJoined,
                    role_kind_for_conn(c)' # role_kind_for_conn(c),
                    permissions_epoch < MaxCounter,
                    host_conn_id \in Joined(participants)
             PROVE  permissions_epoch' > permissions_epoch
  BY DEF ChangeMovesEpoch, RoleChanges
<1>1. c \in Conns /\ c \in Joined(participants) /\ c \in Joined(participants')
  BY DEF StayJoined, Joined
<1>2. permissions_epoch \in 0 .. MaxCounter
  BY DEF TypeOK, RoomTypeOK
<1>3. \/ permissions_epoch' = SatInc(permissions_epoch)
      \/ \E b : b /\ permissions_epoch' = SatIncIf(permissions_epoch, b)
      => permissions_epoch' > permissions_epoch
  BY <1>2, SatIncMoves
<1>4. ~SameRoster
  BY SameRoles
<1>5. host_conn_id' # host_conn_id \/ co_host_conn_ids' # co_host_conn_ids
  BY DEF role_kind_for_conn
<1>6. CASE GrantHost(a)
  <2>1. PICK t : RoleOutcome(a, \/ host_role_owner # task[a].frame.target
                                \/ host_conn_id # t
                                \/ co_host_conn_ids' # co_host_conn_ids,
                             host_conn_id # t)
                 /\ host_conn_id' = t
    BY <1>6 DEF GrantHost
  <2> QED BY <1>3, <1>5, <2>1 DEF RoleOutcome
<1>7. CASE GrantCoHost(a) \/ RevokeCoHost(a)
  <2>1. PICK owners : ChangeCoHosts(a, owners)
    BY <1>7 DEF GrantCoHost, RevokeCoHost
  <2> QED BY <1>3, <1>5, <2>1 DEF ChangeCoHosts, RoleOutcome
<1>8. CASE Admit(a)
  <2>1. PICK t : LET roles == RestoreRoles(participants', t, participants[t].pid,
                         host_conn_id, host_role_owner, co_host_conn_ids)
                 IN  /\ host_conn_id' = roles.host
                     /\ co_host_conn_ids' = roles.cohosts
                     /\ permissions_epoch' = SatIncIf(permissions_epoch, roles.changed)
    BY <1>8 DEF Admit
  <2> QED BY <1>3, <1>5, <2>1 DEF RestoreRoles
<1>9. CASE \E f \in Frames : HelloJoins(a, f)
  <2>1. PICK f \in Frames : HelloJoins(a, f)
    BY <1>9
  <2>2. host_conn_id # None
    BY <1>1, <2>1, HelloRoles
  <2>3. ClaimHost(a, f.pid) =
            [host |-> host_conn_id, owner |-> host_role_owner, claimed |-> FALSE,
             cohosts |-> co_host_conn_ids]
    BY <2>2 DEF ClaimHost, HostVacant
  <2> DEFINE roles == RestoreRoles(participants', a, f.pid, host_conn_id,
                                   host_role_owner, co_host_conn_ids)
  <2>4. /\ host_conn_id' = roles.host
        /\ co_host_conn_ids' = roles.cohosts
        /\ permissions_epoch' =
               SatIncIf(SatIncIf(permissions_epoch, FALSE), roles.changed)
    BY <2>1, <2>3 DEF HelloJoins
  <2>5. roles.changed
    BY <1>5, <2>4 DEF RestoreRoles
  <2>6. SatIncIf(permissions_epoch, FALSE) = permissions_epoch
    BY DEF SatIncIf
  <2> HIDE DEF roles
  <2> QED BY <1>3, <2>4, <2>5, <2>6
<1>10. CASE \E f \in Frames : HelloMissing(a, f)
  BY <1>1, <1>4, <1>10, HelloRoles
<1>11. CASE LeaveTransparent(a)
  <2>1. ~anonymous_mode /\ Departs(a, Heir(a))
    BY <1>11, LeaveEffect DEF LeaveTransparent, Departs
  <2>2. host_conn_id = a
    BY <2>1, DepartureRoles DEF RoleInv
  <2> QED BY <1>3, <1>11, <2>2 DEF LeaveTransparent
<1>12. CASE Deny(a)
  <2>1. ~anonymous_mode
    BY <1>12, Transparently
  <2>2. PICK t \in Waiting(participants) : Departs(t, Heir(t))
    BY <1>12, DenyEffect DEF Departs
  <2>3. t \in Conns /\ host_conn_id # t
    BY DEF Waiting, Joined
  <2> QED BY <2>1, <2>2, <2>3, DepartureRoles DEF RoleInv
<1>13. CASE LeaveAnonymous(a)
  <2>1. c # a
    BY <1>1, <1>13, LeaveAnonymousEffect, WithoutSets DEF TypeOK
  <2> QED BY <1>13, <2>1 DEF LeaveAnonymous, role_kind_for_conn
<1>14. CASE LeaveLast(a)
  BY <1>1, <1>14 DEF LeaveLast, RemoveRoom, Joined, Absent, Transparent
<1>15. CASE Connect(a) \/ \E f \in Frames : HelloWaits(a, f) \/ AnonHello(a, f)
  BY <1>5, <1>15, OutsideEffect DEF roleVars, AnonHello
<1> QED BY <1>4, <1>6, <1>7, <1>8, <1>9, <1>10, <1>11, <1>12, <1>13, <1>14, <1>15,
           QuietSteps DEF Loud

\* While the host has joined, whoever changes a joined participant's role moves
\* permissions_epoch, until it saturates.
THEOREM RoleChangesMoveEpoch == Spec => JoinedHostChangeMovesEpoch
<1>1. TypeOK /\ RoleInv /\ ModeInv /\ [Next]_vars => [ChangeMovesEpoch]_vars
  BY EpochStep, StepKinds
<1>2. Spec => [][ChangeMovesEpoch]_vars
  BY <1>1, TypeCorrect, RolesCorrect, ModesCorrect, PTL DEF Spec
<1> QED BY <1>2 DEF JoinedHostChangeMovesEpoch, ChangeMovesEpoch
-----------------------------------------------------------------------------
(***************************************************************************)
(* Who comes in.                                                           *)
(***************************************************************************)
LetIn(c) ==
    \/ c \in Waiting(participants)
    \/ can_moderate_conn(c)'
    \/ /\ ~policy.room_lock
       /\ participant_id_is_guest(participants'[c].pid) => policy.guest_join_allowed

DoorKept ==
    ~anonymous_mode =>
        \A c \in Joined(participants') \ Joined(participants) :
            /\ host_conn_id \in Joined(participants) => LetIn(c)
            /\ ~anonymous_mode' /\ task'[c] # task[c] =>
                   Cardinality(Joined(participants')) <= policy.max_participants

\* Whoever joins by a Hello has found a place free: one more still fits.
LEMMA PlaceFree ==
    ASSUME TypeOK, NEW c \in Conns, NEW f \in Frames, HelloJoins(c, f),
           c \notin Joined(participants)
    PROVE  Cardinality(Joined(participants')) <= policy.max_participants
<1> DEFINE in == Joined(participants)
<1>1. Cardinality(in) < policy.max_participants
  BY DEF HelloJoins, HelloAccepted, validate_join_allowed
<1>2. Joined(participants') = in \cup {c}
  BY HelloJoinsEffect DEF Joined
<1>3. IsFiniteSet(in) /\ Cardinality(in) \in Nat
  <2>1. IsFiniteSet(Conns)
    BY FS_Interval, ConnsAssumption DEF Conns
  <2>2. in \subseteq Conns
    BY DEF Joined
  <2> QED BY <2>1, <2>2, FS_Subset, FS_CardinalityType
<1>4. Cardinality(in \cup {c}) = Cardinality(in) + 1
  BY <1>3, FS_AddElement
<1>5. policy.max_participants \in Nat
  BY DEF TypeOK, RoomTypeOK, Policy
<1> HIDE DEF in
<1> QED BY <1>1, <1>2, <1>3, <1>4, <1>5

\* One step lets in only whom the door, a moderator or a role lets in.
LEMMA DoorStep ==
    ASSUME TypeOK, RoleInv, ModeInv, NEW a \in Conns, Quiet(a) \/ Loud(a),
           ~anonymous_mode, host_conn_id \in Joined(participants),
           NEW c \in Joined(participants') \ Joined(participants)
    PROVE  LetIn(c)
<1> USE DEF LetIn
<1>1. c \in Conns /\ participants'[c].status = "joined"
  BY DEF Joined
<1>2. CASE Quiet(a)
  BY <1>2, QuietSteps, SameRosterSets
<1>3. CASE Admit(a)
  <2>1. PICK t \in Waiting(participants) : Joins(t, participants[t].pid)
    BY <1>3, AdmitRoles
  <2>2. c = t
    BY <1>1, <2>1 DEF Joins, Joined
  <2> QED BY <2>1, <2>2
<1>4. CASE \E f \in Frames : HelloJoins(a, f)
  <2>1. PICK f \in Frames : HelloJoins(a, f)
    BY <1>4
  <2>2. Joins(a, f.pid) /\ host_conn_id # None
    BY <2>1, HelloRoles
  <2>3. c = a
    BY <1>1, <2>2 DEF Joins, Joined
  <2>4. ~can_moderate_conn(a)
    BY <2>3 DEF RoleInv, CoHostBinding, can_moderate_conn
  <2>5. \/ Reserved(f.pid)
        \/ /\ ~policy.room_lock
           /\ policy.guest_join_allowed \/ ~participant_id_is_guest(f.pid)
    BY <2>1, <2>2, <2>3, <2>4 DEF HelloJoins, HelloAccepted,
           validate_join_allowed, DoorOpen, conn_or_participant_can_moderate
  <2>6. Reserved(f.pid) => can_moderate_conn(a)'
    BY <1>1, <2>2, <2>3 DEF Reserved, Joins, RestoredHost, ActiveCoHosts,
           can_moderate_conn
  <2>7. participants'[c].pid = f.pid
    BY <2>2, <2>3 DEF Joins
  <2> QED BY <2>3, <2>5, <2>6, <2>7
<1>5. CASE \E f \in Frames : AnonHello(a, f)
  <2>1. Joined(participants) \ AnonJoined(participants) = {}
    BY <1>5 DEF AnonHello, AnonHelloAccepted, transparent_hello_seen
  <2>2. host_conn_id \notin AnonJoined(participants)
    BY DEF AnonJoined, Joined, RoleInv, NoneAnonymous
  <2> QED BY <2>1, <2>2
<1>6. CASE Connect(a) \/ \E f \in Frames : HelloWaits(a, f)
  BY <1>1, <1>6, OutsideEffect DEF Joined
<1>7. CASE LeaveTransparent(a) \/ LeaveAnonymous(a) \/ Deny(a)
  <2>1. \E t \in Conns : participants' = Without(t)
    BY <1>7, LeaveEffect, LeaveAnonymousEffect, DenyEffect DEF Waiting
  <2> QED BY <2>1, WithoutSets DEF TypeOK
<1>8. CASE LeaveLast(a)
  BY <1>1, <1>8 DEF LeaveLast, RemoveRoom, Absent, Transparent
<1>9. CASE \/ GrantHost(a) \/ GrantCoHost(a) \/ RevokeCoHost(a)
           \/ \E f \in Frames : HelloMissing(a, f)
  BY <1>9, RoleEffect, HelloMissingEffect
<1> QED BY <1>2, <1>3, <1>4, <1>5, <1>6, <1>7, <1>8, <1>9 DEF Loud

\* One step that lets somebody in by a frame of its own is a Hello.
LEMMA CapacityStep ==
    ASSUME TypeOK, RoleInv, ModeInv, NEW a \in Conns, Quiet(a) \/ Loud(a),
           ~anonymous_mode',
           NEW c \in Joined(participants') \ Joined(participants),
           task'[c] # task[c]
    PROVE  Cardinality(Joined(participants')) <= policy.max_participants
<1>1. c \in Conns /\ c \notin Joined(participants)
  BY DEF Joined
<1>2. c = a
  BY <1>1, TaskMoves, OtherTasks
<1>3. PICK f \in Frames : HelloJoins(a, f)
  <2>1. CASE Quiet(a)
    BY <1>1, <2>1, QuietSteps, SameRosterSets
  <2>2. CASE Admit(a)
    BY <1>1, <1>2, <2>2, AdmitEffect
  <2>3. CASE Connect(a) \/ \E f \in Frames : HelloWaits(a, f)
    BY <1>2, <2>3, OutsideEffect DEF Joined
  <2>4. CASE LeaveTransparent(a) \/ LeaveAnonymous(a) \/ Deny(a)
    <3>1. \E t \in Conns : participants' = Without(t)
      BY <2>4, LeaveEffect, LeaveAnonymousEffect, DenyEffect DEF Waiting
    <3> QED BY <3>1, WithoutSets DEF TypeOK
  <2>5. CASE LeaveLast(a)
    BY <2>5 DEF LeaveLast, RemoveRoom, Joined, Absent, Transparent
  <2>6. CASE \/ GrantHost(a) \/ GrantCoHost(a) \/ RevokeCoHost(a)
             \/ \E f \in Frames : HelloMissing(a, f)
    BY <2>6, RoleEffect, HelloMissingEffect
  <2>7. CASE \E f \in Frames : AnonHello(a, f)
    BY <2>7, AnonHelloEffect
  <2> QED BY <2>1, <2>2, <2>3, <2>4, <2>5, <2>6, <2>7 DEF Loud
<1> QED BY <1>1, <1>2, <1>3, PlaceFree

LEMMA DoorKeptStep ==
    ASSUME TypeOK, RoleInv, ModeInv, NEW a \in Conns, Quiet(a) \/ Loud(a)
    PROVE  DoorKept
BY DoorStep, CapacityStep DEF DoorKept

\* In a locked room with its host present nobody joins but those a moderator
\* admits and those who hold a moderation role; guests are kept out in the same
\* way when the policy excludes them; and nobody but who is admitted fills the
\* room beyond its capacity (validate_join_allowed, Admit).
THEOREM DoorCloses == Spec => ClosedDoor
<1>1. TypeOK /\ RoleInv /\ ModeInv /\ [Next]_vars => [DoorKept]_vars
  BY DoorKeptStep, StepKinds
<1>2. Spec => [][DoorKept]_vars
  BY <1>1, TypeCorrect, RolesCorrect, ModesCorrect, PTL DEF Spec
<1> QED BY <1>2 DEF ClosedDoor, DoorKept, LetIn
-----------------------------------------------------------------------------
(***************************************************************************)
(* What a living room never forgets.                                       *)
(***************************************************************************)
ClocksKept ==
    \A tag \in ClockTags, p \in Ids :
        signed_action_clock_by_signer'[tag][p] >= signed_action_clock_by_signer[tag][p]

Remembers ==
    RoomExists /\ RoomExists' =>
        /\ ClocksKept
        /\ policy.policy_epoch' >= policy.policy_epoch
        /\ permissions_epoch' >= permissions_epoch
        /\ presence_sequence' >= presence_sequence
        /\ anonymous_mode => anonymous_mode'

\* A clock that allows a stamp advances to it.
LEMMA ClockForward ==
    ASSUME TypeOK, NEW tag \in ClockTags, NEW signer, NEW at \in Nat,
           ClockAllows(tag, signer, at), AdvanceClock(tag, signer, at)
    PROVE  ClocksKept
<1>1. /\ signed_action_clock_by_signer \in [ClockTags -> [Ids -> Nat]]
      /\ at > signed_action_clock_by_signer[tag][signer]
      /\ signed_action_clock_by_signer' =
             [signed_action_clock_by_signer EXCEPT ![tag] =
                 [signed_action_clock_by_signer[tag] EXCEPT ![signer] = at]]
  BY DEF TypeOK, RoomTypeOK, ClockAllows, AdvanceClock
<1> SUFFICES ASSUME NEW u \in ClockTags, NEW p \in Ids
             PROVE  signed_action_clock_by_signer'[u][p]
                        >= signed_action_clock_by_signer[u][p]
  BY DEF ClocksKept
<1>2. signed_action_clock_by_signer[u][p] \in Nat
  BY <1>1
<1>3. CASE u = tag /\ p = signer
  BY <1>1, <1>2, <1>3
<1>4. CASE ~(u = tag /\ p = signer)
  <2>1. signed_action_clock_by_signer'[u][p] = signed_action_clock_by_signer[u][p]
    BY <1>1, <1>4
  <2> QED BY <1>2, <2>1
<1> QED BY <1>3, <1>4

\* Every step but the removal of the room.
LEMMA MemoryStep ==
    ASSUME TypeOK, NEW c \in Conns, Quiet(c) \/ Loud(c)
    PROVE  Remembers
<1> DEFINE f == task[c].frame
<1>1. /\ permissions_epoch \in 0 .. MaxCounter /\ permissions_epoch \in Nat
      /\ presence_sequence \in 0 .. MaxCounter /\ presence_sequence \in Nat
      /\ policy.policy_epoch \in Nat
      /\ \A tag \in ClockTags, p \in Ids :
             signed_action_clock_by_signer[tag][p] \in Nat
  BY DEF TypeOK, RoomTypeOK, Policy
<1>2. UNCHANGED signed_action_clock_by_signer => ClocksKept
  BY <1>1 DEF ClocksKept
<1>3. ASSUME ClocksKept, UNCHANGED <<policy, anonymous_mode>>,
             \/ UNCHANGED permissions_epoch
             \/ permissions_epoch' = SatInc(permissions_epoch)
             \/ \E b : permissions_epoch' = SatIncIf(permissions_epoch, b),
             \/ UNCHANGED presence_sequence
             \/ presence_sequence' = SatInc(presence_sequence)
             \/ \E b : presence_sequence' = SatIncIf(presence_sequence, b)
      PROVE  Remembers
  <2>1. permissions_epoch' >= permissions_epoch
    BY <1>1, <1>3, SatIncMoves
  <2>2. presence_sequence' >= presence_sequence
    BY <1>1, <1>3, SatIncMoves
  <2> QED BY <1>1, <1>3, <2>1, <2>2 DEF Remembers
<1>4. CASE LeaveLast(c)
  <2>1. Present(participants') = {}
    BY <1>4 DEF LeaveLast, RemoveRoom, Present, Absent, Transparent
  <2> QED BY <2>1 DEF Remembers, RoomExists
<1>5. CASE \/ Connect(c) \/ Close(c) \/ ReadFails(c) \/ LeaveTransparent(c)
           \/ LeaveAnonymous(c) \/ RotateAfterLeave(c) \/ ReplyOnly(c)
  BY <1>2, <1>3, <1>5 DEF Connect, Close, ReadFails, LeaveTransparent,
         LeaveAnonymous, RotateAfterLeave, ReplyOnly, roomVars, configVars
<1>6. CASE \E g \in Frames :
               \/ HelloNoRoom(c, g) \/ HelloRefused(c, g) \/ HelloWaits(c, g)
               \/ HelloMissing(c, g) \/ AnonHelloRefused(c, g)
               \/ GroupKeyUpdate(c, g) \/ RelayEncrypted(c, g)
               \/ SealedRefused(c, g) \/ Gate(c, g)
  BY <1>2, <1>3, <1>6 DEF HelloNoRoom, HelloRefused, HelloWaits, HelloMissing,
         AnonHelloRefused, GroupKeyUpdate, RelayEncrypted, SealedRefused, Gate,
         roomVars, configVars
<1>7. CASE \E g \in Frames : HelloJoins(c, g)
  <2>1. PICK g \in Frames : HelloJoins(c, g)
    BY <1>7
  <2>2. \E x, y : permissions_epoch' = SatIncIf(SatIncIf(permissions_epoch, x), y)
    BY <2>1 DEF HelloJoins
  <2>3. PICK x, y : permissions_epoch' = SatIncIf(SatIncIf(permissions_epoch, x), y)
    BY <2>2
  <2> DEFINE n == SatIncIf(permissions_epoch, x)
  <2>4. n \in 0 .. MaxCounter /\ n >= permissions_epoch
    BY <1>1, SatIncType, SatIncMoves
  <2>5. SatIncIf(n, y) \in 0 .. MaxCounter /\ SatIncIf(n, y) >= n
    BY <2>4, SatIncType, SatIncMoves
  <2> HIDE DEF n
  <2>6. permissions_epoch' >= permissions_epoch
    BY <1>1, <2>3, <2>4, <2>5 DEF n
  <2>7. presence_sequence' >= presence_sequence
    BY <1>1, <2>1, SatIncMoves DEF HelloJoins
  <2> QED BY <1>1, <1>2, <2>1, <2>6, <2>7 DEF HelloJoins, configVars, Remembers
<1>8. CASE \E g \in Frames : AnonHello(c, g)
  <2>1. permissions_epoch' >= permissions_epoch
    BY <1>1, <1>8, SatIncMoves DEF AnonHello
  <2> QED BY <1>1, <1>2, <1>8, <2>1 DEF AnonHello, configVars, Remembers
<1>9. CASE \/ HelloSeenGate(c) \/ E2eeGate(c) \/ SectionMissing(c)
           \/ ControlRefused(c) \/ VerifySigned(c) \/ RegateSigned(c)
           \/ ModerationRefused(c) \/ MediaRefused(c) \/ PassOn(c)
           \/ CheckCapability(c) \/ ResolveProfile(c) \/ Relay(c)
           \/ Announce(c) \/ Notify(c) \/ Sent(c) \/ SendFails(c)
           \/ BackpressureNotice(c)
  BY <1>2, <1>3, <1>9 DEF HelloSeenGate, E2eeGate, SectionMissing,
         ControlRefused, VerifySigned, RegateSigned, ModerationRefused,
         MediaRefused, PassOn, CheckCapability, ResolveProfile, Relay,
         Announce, Notify, Sent, SendFails, BackpressureNotice, roomVars,
         configVars
<1>10. CASE \/ UpdateRoomConfig(c) \/ SetParticipantState(c) \/ SetMediaTrack(c)
            \/ StoreCapability(c)
  <2>1. UNCHANGED <<signed_action_clock_by_signer, presence_sequence,
            permissions_epoch, policy, anonymous_mode>>
    BY <1>10, Zenon DEF UpdateRoomConfig, SetParticipantState, SetMediaTrack,
           StoreCapability, configVars
  <2> QED BY <1>2, <1>3, <2>1
<1>11. CASE PublishKeyEpoch(c) \/ AckKeyRotation(c)
  <2>1. f \in Frame /\ f.kind \in {"E2EEKeyEpoch", "KeyRotationAck"}
    BY <1>11, TaskFrame DEF PublishKeyEpoch, AckKeyRotation, Handling, TypeOK
  <2>2. f.at \in Nat
    BY <2>1, KeyFields
  <2>3. ClocksKept
    BY <1>11, <2>2, ClockForward DEF PublishKeyEpoch, AckKeyRotation,
           E2EEKeyEpochAllowed, KeyRotationAckAllowed, ClockTags
  <2> QED BY <1>3, <1>11, <2>3 DEF PublishKeyEpoch, AckKeyRotation, configVars
<1>12. CASE GrantHost(c) \/ GrantCoHost(c) \/ RevokeCoHost(c)
  <2>1. f \in Frame /\ f.kind \in {"RoleGrant", "RoleRevoke"}
    BY <1>12, TaskFrame DEF GrantHost, GrantCoHost, RevokeCoHost, Handling, TypeOK
  <2>2. f.at \in Nat
    BY <2>1, RoleFields
  <2>3. ClocksKept
    BY <1>12, <2>2, ClockForward DEF GrantHost, GrantCoHost, RevokeCoHost,
           RoleGrantAllowed, RoleRevokeAllowed, ClockTags
  <2>4. \E p, r : RoleOutcome(c, p, r)
    BY <1>12 DEF GrantHost, GrantCoHost, RevokeCoHost, ChangeCoHosts
  <2> QED BY <1>3, <2>3, <2>4 DEF RoleOutcome, configVars
<1>13. CASE ModerationFails(c) \/ Mute(c) \/ Admit(c) \/ Deny(c)
  <2>1. /\ f.kind \in ModerationKinds
        /\ ModeratorAllowed(c, f)
        /\ AdvanceClock("moderation", participants[c].pid, f.at)
    BY <1>13 DEF ModerationFails, Mute, Admit, Deny, Moderates, Handling
  <2>2. f \in Frame /\ f.at \in Nat
    BY <2>1, TaskFrame, ModerationFields DEF ModerationKinds, TypeOK
  <2>3. ClocksKept
    BY <2>1, <2>2, ClockForward DEF ModeratorAllowed, ClockTags
  <2>4. UNCHANGED <<policy, anonymous_mode>>
    BY <1>13 DEF ModerationFails, Mute, Admit, Deny, configVars
  <2>5. \/ UNCHANGED permissions_epoch
        \/ \E b : permissions_epoch' = SatIncIf(permissions_epoch, b)
    BY <1>13 DEF ModerationFails, Mute, Admit, Deny
  <2>6. \/ UNCHANGED presence_sequence
        \/ presence_sequence' = SatInc(presence_sequence)
    BY <1>13 DEF ModerationFails, Mute, Admit, Deny
  <2> QED BY <1>3, <2>3, <2>4, <2>5, <2>6
<1>14. CASE UpdatePolicy(c)
  <2>1. f \in Frame /\ f.kind = "SessionPolicy"
    BY <1>14, TaskFrame DEF UpdatePolicy, Handling, TypeOK
  <2>2. f.at \in Nat /\ f.policy.policy_epoch \in Nat
    BY <2>1, PolicyFields DEF Policy
  <2>3. ClocksKept
    BY <1>14, <2>2, ClockForward DEF UpdatePolicy, SessionPolicyAllowed, ClockTags
  <2>4. policy'.policy_epoch >= policy.policy_epoch
    BY <1>1, <1>14, <2>2 DEF UpdatePolicy, SessionPolicyAllowed
  <2>5. permissions_epoch' >= permissions_epoch
    BY <1>1, <1>14, SatIncMoves DEF UpdatePolicy
  <2> QED BY <1>1, <1>14, <2>3, <2>4, <2>5 DEF UpdatePolicy, Remembers
<1> QED BY <1>4, <1>5, <1>6, <1>7, <1>8, <1>9, <1>10, <1>11, <1>12, <1>13, <1>14
       DEF Quiet, Loud

\* While the room lives, no clock, epoch or sequence that guards against replays
\* and reordering falls, and an anonymous room stays anonymous.
THEOREM RoomRemembers == Spec => RoomMemory
<1>1. TypeOK /\ [Next]_vars => [Remembers]_vars
  BY MemoryStep, StepKinds
<1>2. Spec => [][Remembers]_vars
  BY <1>1, TypeCorrect, PTL DEF Spec
<1> QED BY <1>2 DEF RoomMemory, Remembers, ClocksKept
-----------------------------------------------------------------------------
(***************************************************************************)
(* Screen shares.                                                          *)
(***************************************************************************)
SharesLimited ==
    \A c \in Sharing(participants') \ Sharing(participants) :
        task[c].frame.kind # "MediaTrackState" =>
            Cardinality(Sharing(participants')) <= max_screen_shares

\* Nobody starts to share but by ParticipantState and MediaTrackState.
LEMMA NoNewShare ==
    ASSUME TypeOK, NEW c \in Conns, Quiet(c) \/ Loud(c),
           ~SetParticipantState(c), ~SetMediaTrack(c)
    PROVE  Sharing(participants') \subseteq Sharing(participants)
<1> USE DEF TypeOK
<1>1. CASE UNCHANGED participants
  BY <1>1
<1>2. ASSUME NEW t \in Conns, participants'[t].share => participants[t].share,
             \A d \in Conns \ {t} : participants'[d] = participants[d]
      PROVE  Sharing(participants') \subseteq Sharing(participants)
  BY <1>2 DEF Sharing
<1>3. CASE LeaveTransparent(c) \/ LeaveAnonymous(c) \/ Deny(c)
  <2>1. PICK t \in Conns : participants' = Without(t)
    BY <1>3, LeaveEffect, LeaveAnonymousEffect, DenyEffect DEF Waiting
  <2>2. ~participants'[t].share
    BY <2>1 DEF Without, Absent, Transparent, RoomTypeOK
  <2> QED BY <1>2, <2>1, <2>2, WithoutSets
<1>4. CASE LeaveLast(c)
  BY <1>4 DEF LeaveLast, RemoveRoom, Sharing, Absent, Transparent
<1>5. CASE \/ Connect(c)
           \/ \E f \in Frames : HelloWaits(c, f) \/ HelloJoins(c, f)
  <2>1. PICK s, p : participants' = [participants EXCEPT ![c] = Transparent(s, p)]
    BY <1>5 DEF Connect, HelloWaits, HelloJoins
  <2>2. /\ participants'[c] = Transparent(s, p)
        /\ \A d \in Conns \ {c} : participants'[d] = participants[d]
    BY <2>1 DEF RoomTypeOK
  <2>3. Transparent(s, p).share = FALSE
    BY DEF Transparent
  <2> QED BY <1>2, <2>2, <2>3
<1>6. CASE \E f \in Frames : AnonHello(c, f) \/ GroupKeyUpdate(c, f)
  <2>1. PICK f \in Frames : AnonHello(c, f) \/ GroupKeyUpdate(c, f)
    BY <1>6
  <2>2. participants[c] \in Participant
    BY DEF RoomTypeOK
  <2>3. \/ participants' = [participants EXCEPT
               ![c] = apply_anon_hello_state(participants[c], f)]
        \/ participants' = [participants EXCEPT
               ![c] = [participants[c] EXCEPT !.key = f.key, !.kepoch = f.epoch]]
    BY <2>1 DEF AnonHello, GroupKeyUpdate, RoomTypeOK
  <2>4. /\ apply_anon_hello_state(participants[c], f).share = participants[c].share
        /\ [participants[c] EXCEPT !.key = f.key, !.kepoch = f.epoch].share
               = participants[c].share
    BY <2>2 DEF apply_anon_hello_state, Participant
  <2> QED BY <1>2, <2>3, <2>4 DEF RoomTypeOK
<1>7. CASE Admit(c)
  <2>1. PICK t \in Conns : participants' = [participants EXCEPT
            ![t] = WithMedia([participants[t] EXCEPT !.status = "joined"],
                             FALSE, FALSE, FALSE)]
    BY <1>7 DEF Admit, Waiting, RoomTypeOK
  <2>2. ~participants'[t].share
    BY <2>1 DEF WithMedia, RoomTypeOK, Participant
  <2> QED BY <1>2, <2>1, <2>2 DEF RoomTypeOK
<1>8. CASE Mute(c)
  <2>1. PICK targets : participants' = [d \in Conns |->
            IF d \in targets THEN MutedBy(task[c].frame.action, participants[d])
            ELSE participants[d]]
    BY <1>8 DEF Mute
  <2>2. ASSUME NEW p \in Participant, NEW a, MutedBy(a, p).share
        PROVE  p.share
    BY <2>2 DEF MutedBy, Participant
  <2>3. \A d \in Conns : participants[d] \in Participant
    BY DEF RoomTypeOK
  <2> QED BY <2>1, <2>2, <2>3 DEF Sharing
<1>9. CASE \/ Close(c) \/ ReadFails(c) \/ RotateAfterLeave(c) \/ ReplyOnly(c)
           \/ \E f \in Frames : \/ HelloNoRoom(c, f) \/ HelloRefused(c, f)
                                \/ AnonHelloRefused(c, f)
                                \/ RelayEncrypted(c, f) \/ SealedRefused(c, f)
                                \/ Gate(c, f) \/ HelloMissing(c, f)
           \/ HelloSeenGate(c) \/ E2eeGate(c) \/ SectionMissing(c)
  BY <1>1, <1>9 DEF Close, ReadFails, RotateAfterLeave, ReplyOnly,
         HelloNoRoom, HelloRefused, AnonHelloRefused, RelayEncrypted,
         SealedRefused, Gate, HelloMissing, HelloSeenGate, E2eeGate,
         SectionMissing, roomVars
<1>10. CASE \/ UpdatePolicy(c) \/ UpdateRoomConfig(c) \/ ControlRefused(c)
            \/ VerifySigned(c) \/ RegateSigned(c) \/ ModerationRefused(c)
            \/ ModerationFails(c) \/ GrantHost(c) \/ GrantCoHost(c)
            \/ RevokeCoHost(c)
  BY <1>1, <1>10, RoleEffect DEF UpdatePolicy, UpdateRoomConfig, ControlRefused,
         VerifySigned, RegateSigned, ModerationRefused, ModerationFails, roomVars
<1>11. CASE \/ PassOn(c) \/ CheckCapability(c) \/ StoreCapability(c)
            \/ ResolveProfile(c) \/ PublishKeyEpoch(c) \/ AckKeyRotation(c)
            \/ MediaRefused(c) \/ Relay(c) \/ Announce(c) \/ Notify(c)
            \/ Sent(c) \/ SendFails(c) \/ BackpressureNotice(c)
  BY <1>1, <1>11 DEF BackpressureNotice, PassOn, CheckCapability,
         StoreCapability, ResolveProfile, PublishKeyEpoch, AckKeyRotation,
         MediaRefused, Relay, Announce, Notify, Sent, SendFails, roomVars
<1> QED BY <1>3, <1>4, <1>5, <1>6, <1>7, <1>8, <1>9, <1>10, <1>11 DEF Quiet, Loud

\* A ParticipantState that starts a share finds room for it.
LEMMA ShareGranted ==
    ASSUME TypeOK, NEW c \in Conns, SetParticipantState(c),
           NEW d \in Sharing(participants') \ Sharing(participants)
    PROVE  Cardinality(Sharing(participants')) <= max_screen_shares
<1> DEFINE f == task[c].frame
           p == participants[c]
           mic == SwitchTo(p.mic, f.mic)
           video == SwitchTo(p.video, f.video)
           share == IF f.share = "on" /\ ~share_granted(c) THEN p.share
                    ELSE SwitchTo(p.share, f.share)
           others == {e \in Conns \ {c} : participants[e].share}
<1>1. participants' = [participants EXCEPT ![c] = WithMedia(p, mic, video, share)]
  BY Zenon DEF SetParticipantState
<1>2. d \in Conns /\ participants'[d].share /\ ~participants[d].share
  BY DEF Sharing
<1> HIDE DEF mic, video, share
<1>3. /\ \A e \in Conns \ {c} : participants'[e] = participants[e]
      /\ participants'[c].share = share
  BY <1>1 DEF WithMedia, TypeOK, RoomTypeOK, Participant
<1>4. d = c
  BY <1>2, <1>3
<1>5. share_granted(c)
  BY <1>2, <1>3, <1>4 DEF share, SwitchTo
<1>6. Cardinality(others) < max_screen_shares
  BY <1>2, <1>4, <1>5 DEF share_granted
<1>7. Sharing(participants') = others \cup {c}
  BY <1>2, <1>3, <1>4 DEF Sharing
<1>8. IsFiniteSet(others)
  <2>1. 1 \in Int /\ MaxConns \in Int
    BY ConnsAssumption
  <2>2. IsFiniteSet(Conns)
    BY <2>1, FS_Interval DEF Conns
  <2>3. others \subseteq Conns
    OBVIOUS
  <2> QED BY <2>2, <2>3, FS_Subset
<1>9. Cardinality(others \cup {c}) = Cardinality(others) + 1
  <2>1. c \notin others
    OBVIOUS
  <2> QED BY <1>8, <2>1, FS_AddElement
<1>10. Cardinality(others) \in Nat /\ max_screen_shares \in Nat
  BY <1>8, FS_CardinalityType DEF TypeOK, RoomTypeOK
<1> HIDE DEF others
<1> QED BY <1>6, <1>7, <1>9, <1>10

\* A step keeps the limit.
LEMMA ShareStep ==
    ASSUME TypeOK, NEW a \in Conns, Quiet(a) \/ Loud(a)
    PROVE  SharesLimited
<1>1. CASE SetParticipantState(a)
  BY <1>1, ShareGranted DEF SharesLimited
<1>2. CASE SetMediaTrack(a)
  <2>1. PICK m, v, h : participants' =
            [participants EXCEPT ![a] = WithMedia(participants[a], m, v, h)]
    BY <1>2, Zenon DEF SetMediaTrack
  <2>2. \A c \in Conns \ {a} : participants'[c] = participants[c]
    BY <2>1 DEF TypeOK, RoomTypeOK
  <2>3. task[a].frame.kind = "MediaTrackState"
    BY <1>2 DEF SetMediaTrack, Handling
  <2> QED BY <2>2, <2>3 DEF SharesLimited, Sharing
<1>3. CASE ~SetParticipantState(a) /\ ~SetMediaTrack(a)
  BY <1>3, NoNewShare DEF SharesLimited
<1> QED BY <1>1, <1>2, <1>3

\* Whoever starts to share its screen by a ParticipantState leaves the room
\* within its max_screen_shares, whatever has been muted, revoked or
\* reconfigured since it was let in (MediaTrackState ignores the limit).
THEOREM SharesBounded == Spec => ShareLimit
<1>1. TypeOK /\ [Next]_vars => [SharesLimited]_vars
  BY ShareStep, StepKinds
<1>2. Spec => [][SharesLimited]_vars
  BY <1>1, TypeCorrect, PTL DEF Spec
<1> QED BY <1>2 DEF ShareLimit, SharesLimited
-----------------------------------------------------------------------------
\* What each step does to roles, door, clocks and shares, all in one.
RulesKept ==
    /\ NoOwnPromotion /\ LossJustified /\ ChangeMovesEpoch
    /\ DoorKept /\ Remembers /\ SharesLimited

LEMMA RulesStep == TypeOK /\ RoleInv /\ ModeInv /\ Next => RulesKept
BY StepKinds, PromotionStep, LossStep, EpochStep, DoorKeptStep, MemoryStep,
   ShareStep DEF RulesKept

\* A step that leaves the room alone keeps all the rules.
LEMMA RulesUntouched == ASSUME TypeOK, UNCHANGED roomVars PROVE RulesKept
<1>1. /\ UNCHANGED <<participants, roleVars, permissions_epoch, presence_sequence,
                      policy, signed_action_clock_by_signer, anonymous_mode>>
  BY DEF roomVars, configVars
<1>2. SameRoster
  BY <1>1 DEF SameRoster
<1>3. NoOwnPromotion /\ LossJustified /\ ChangeMovesEpoch
  BY <1>2, SameRoles DEF NoOwnPromotion, LossJustified, ChangeMovesEpoch, RoleChanges
<1>4. DoorKept /\ SharesLimited
  BY <1>1 DEF DoorKept, SharesLimited, Joined, Sharing
<1>5. Remembers
  <2>1. /\ permissions_epoch \in Nat /\ presence_sequence \in Nat
        /\ policy.policy_epoch \in Nat
        /\ \A tag \in ClockTags, p \in Ids :
               signed_action_clock_by_signer[tag][p] \in Nat
    BY DEF TypeOK, RoomTypeOK, Policy
  <2> QED BY <1>1, <2>1 DEF Remembers, ClocksKept
<1> QED BY <1>3, <1>4, <1>5 DEF RulesKept

\* The rules of a step are the action properties of HubRoom.
LEMMA RulesAreProperties ==
    [][RulesKept]_vars => /\ NoSelfPromotion /\ PowerLossJustified
                          /\ JoinedHostChangeMovesEpoch /\ ClosedDoor
                          /\ RoomMemory /\ ShareLimit
<1>1. [][RulesKept]_vars =>
          /\ [][NoOwnPromotion]_vars /\ [][LossJustified]_vars
          /\ [][ChangeMovesEpoch]_vars /\ [][DoorKept]_vars
          /\ [][Remembers]_vars /\ [][SharesLimited]_vars
  <2>1. RulesKept => /\ NoOwnPromotion /\ LossJustified /\ ChangeMovesEpoch
                     /\ DoorKept /\ Remembers /\ SharesLimited
    BY DEF RulesKept
  <2> QED BY <2>1, PTL
<1> QED BY <1>1 DEF NoSelfPromotion, NoOwnPromotion, PowerLossJustified,
       LossJustified, JoinedHostChangeMovesEpoch, ChangeMovesEpoch, ClosedDoor,
       DoorKept, LetIn, RoomMemory, Remembers, ClocksKept, ShareLimit, SharesLimited
-----------------------------------------------------------------------------
(***************************************************************************)
(* HubRoom implements HubAuthority.  Besides the invariants above, that    *)
(* takes one more: whoever is in the room goes by a participant id.        *)
(***************************************************************************)
Named ==
    \A c \in Conns : participants[c].status # "absent" => participants[c].pid \in Ids

\* No step leaves a participant without an id.
LEMMA NamedStep ==
    ASSUME TypeOK, Named, NEW a \in Conns, Quiet(a) \/ Loud(a)
    PROVE  Named'
<1> USE DEF TypeOK
<1>1. CASE Quiet(a)
  BY <1>1, QuietSteps DEF SameRoster, Named
<1>2. ASSUME NEW t \in Conns, participants' = Without(t)
      PROVE  Named'
  BY <1>2 DEF Named, Without, Absent, Transparent, RoomTypeOK
<1>3. CASE LeaveTransparent(a) \/ LeaveAnonymous(a) \/ Deny(a)
  BY <1>2, <1>3, LeaveEffect, LeaveAnonymousEffect, DenyEffect DEF Waiting
<1>4. CASE Connect(a) \/ \E f \in Frames : HelloWaits(a, f)
  BY <1>4, OutsideEffect DEF Named
<1>5. CASE \E f \in Frames : HelloJoins(a, f)
  <2>1. PICK f \in Frames : HelloJoins(a, f)
    BY <1>5
  <2>2. f.pid \in Ids
    BY <2>1, HelloFields, FramesAssumption DEF HelloJoins, HelloAccepted
  <2> QED BY <2>1, <2>2, HelloJoinsEffect DEF Named
<1>6. CASE \E f \in Frames : AnonHello(a, f)
  BY <1>6, AnonHelloEffect DEF Named
<1>7. CASE LeaveLast(a)
  BY <1>7 DEF LeaveLast, RemoveRoom, Named, Absent, Transparent
<1>8. CASE \/ GrantHost(a) \/ GrantCoHost(a) \/ RevokeCoHost(a)
           \/ \E f \in Frames : HelloMissing(a, f)
  BY <1>8, RoleEffect, HelloMissingEffect DEF Named
<1>9. CASE Admit(a)
  BY <1>9, AdmitEffect DEF Named, Waiting
<1> QED BY <1>1, <1>3, <1>4, <1>5, <1>6, <1>7, <1>8, <1>9 DEF Loud

\* Everybody in the room has a participant id in every reachable state.
THEOREM AllNamed == Spec => []Named
<1>1. Init => Named
  BY DEF Init, Named, Absent, Transparent
<1>2. TypeOK /\ Named /\ [Next]_vars => Named'
  <2>1. CASE UNCHANGED vars
    BY <2>1 DEF vars, roomVars, Named
  <2> QED BY <2>1, NamedStep, StepKinds
<1> QED BY <1>1, <1>2, TypeCorrect, PTL DEF Spec

\* What the mapping makes of a room: its seats are the ids of those who have
\* joined a transparent room, its moderators those the reservations call for.
SeatMeaning ==
    /\ DOMAIN Seats = Conns
    /\ \A c \in Conns :
           IF ~anonymous_mode /\ c \in Joined(participants)
           THEN Seats[c] = participants[c].pid /\ Seats[c] \in Ids
           ELSE Seats[c] = None
    /\ SeatedModerators =
           {c \in Conns : /\ Seats[c] # None
                          /\ c = host_conn_id \/ Seats[c] \in co_host_role_owners}

LEMMA SeatsMean == Named /\ RoleInv /\ ModeInv => SeatMeaning
<1> SUFFICES ASSUME Named, RoleInv, ModeInv PROVE SeatMeaning
  OBVIOUS
<1>1. \A c \in Conns :
          IF ~anonymous_mode /\ c \in Joined(participants)
          THEN Seats[c] = participants[c].pid /\ Seats[c] \in Ids
          ELSE Seats[c] = None
  BY DEF Seats, Named, ModeInv, ModeExclusion, Joined, AnonJoined
<1>2. None \notin Ids
  BY ConnsAssumption, IdsAssumption DEF Ids, Conns, None
<1>3. ASSUME NEW c \in Conns, Seats[c] # None
      PROVE  can_moderate_conn(c) <=>
                 c = host_conn_id \/ Seats[c] \in co_host_role_owners
  <2>1. ~anonymous_mode /\ c \in Joined(participants) /\ Seats[c] = participants[c].pid
    BY <1>1, <1>3
  <2> QED BY <2>1 DEF RoleInv, CoHostBinding, can_moderate_conn
<1>4. SeatedModerators =
          {c \in Conns : /\ Seats[c] # None
                         /\ c = host_conn_id \/ Seats[c] \in co_host_role_owners}
  BY <1>3 DEF SeatedModerators
<1>5. DOMAIN Seats = Conns
  BY DEF Seats
<1> QED BY <1>1, <1>4, <1>5 DEF SeatMeaning

\* In a step between two such rooms moderators follow, as HubAuthority asks.
LEMMA PowersKept == SeatMeaning' => Authority!PowersFollow
BY DEF SeatMeaning, Authority!PowersFollow, Authority!Seated

\* Where seats and roles stay, so do the moderators.
LEMMA AuthorityStutters ==
    ASSUME SeatMeaning, SeatMeaning',
           UNCHANGED <<Seats, host_conn_id, host_role_owner, co_host_role_owners>>
    PROVE  UNCHANGED Authority!vars
BY DEF SeatMeaning, Authority!vars

\* Somebody leaves, and the heir succeeds it where it was the host.
LEMMA DepartureKeepsAuthority ==
    ASSUME TypeOK, SeatMeaning, SeatMeaning', NEW t \in Conns, ~anonymous_mode,
           Departs(t, Heir(t)), Heir(t) \in Present(Without(t)),
           UNCHANGED <<host_role_owner, co_host_role_owners, anonymous_mode>>
    PROVE  Authority!Move \/ UNCHANGED <<Seats, host_conn_id, host_role_owner,
                                         co_host_role_owners>>
<1>1. Heir(t) \in Conns \ {t}
  BY WithoutSets DEF TypeOK, Present
<1>2. Seats' = [Seats EXCEPT ![t] = None]
  BY DEF Departs, Seats, Without, Absent, Transparent, TypeOK, RoomTypeOK
<1>3. IF host_conn_id = t THEN host_conn_id' \in Conns \ {t}
                          ELSE host_conn_id' = host_conn_id
  BY <1>1 DEF Departs
<1>4. CASE Seats[t] # None
  <2>1. Authority!Leave(t)
    BY <1>2, <1>3, <1>4 DEF Authority!Leave
  <2> QED BY <2>1 DEF Authority!Move
<1>5. CASE Seats[t] = None
  <2>1. Seats' = Seats
    BY <1>2, <1>5 DEF Seats
  <2>2. CASE host_conn_id = t
    <3>1. Authority!Succeed
      BY <1>3, <1>5, <2>1, <2>2 DEF Authority!Succeed
    <3> QED BY <3>1 DEF Authority!Move
  <2> QED BY <1>3, <2>1, <2>2
<1> QED BY <1>4, <1>5

\* Somebody joins, or joins again, under an id nobody else has.
LEMMA JoinKeepsAuthority ==
    ASSUME TypeOK, RoleInv, SeatMeaning, ~anonymous_mode,
           NEW t \in Conns, NEW pid \in Ids,
           \A d \in Conns \ {t} : participants'[d] = participants[d],
           /\ participants'[t].status = "joined" /\ participants'[t].pid = pid
           /\ participants'[t].anon = FALSE,
           t \in Joined(participants) => participants[t].pid = pid,
           \A d \in Joined(participants) \ {t} : participants[d].pid # pid,
           IF host_conn_id = None
           THEN host_role_owner' = pid /\ host_conn_id' = t
           ELSE /\ host_role_owner' = host_role_owner
                /\ host_conn_id' = RestoredHost(t, pid, host_conn_id,
                                                host_role_owner),
           UNCHANGED co_host_role_owners
    PROVE  Authority!Move \/ UNCHANGED <<Seats, host_conn_id, host_role_owner,
                                         co_host_role_owners>>
<1>1. Seats' = [Seats EXCEPT ![t] = pid]
  BY DEF Seats
<1>2. None \notin Ids
  BY ConnsAssumption, IdsAssumption DEF Ids, Conns, None
<1>3. CASE t \notin Joined(participants)
  <2>1. Seats[t] = None
    BY <1>3 DEF SeatMeaning
  <2>2. \A d \in Conns : Seats[d] # pid
    BY <1>2, <1>3 DEF SeatMeaning
  <2>3. IF host_conn_id = None
        THEN host_conn_id' = t /\ host_role_owner' = pid
        ELSE /\ host_conn_id' = IF pid = host_role_owner THEN t ELSE host_conn_id
             /\ host_role_owner' = host_role_owner
    BY DEF RestoredHost
  <2>4. Authority!Join(t)
    BY <1>1, <2>1, <2>2, <2>3 DEF Authority!Join
  <2> QED BY <2>4 DEF Authority!Move
<1>4. CASE t \in Joined(participants)
  <2>1. Seats' = Seats
    BY <1>1, <1>4 DEF SeatMeaning, Seats
  <2>2. host_conn_id # None
    BY <1>4 DEF RoleInv, HostPresent
  <2>3. pid = host_role_owner => host_conn_id = t
    BY <1>4 DEF RoleInv, OwnerIsHost
  <2> QED BY <2>1, <2>2, <2>3 DEF RestoredHost
<1> QED BY <1>3, <1>4

\* A role frame of the host appoints a host or reserves co-host roles.
LEMMA RoleFrameKeepsAuthority ==
    ASSUME TypeOK, ModeInv, SeatMeaning, NEW a \in Conns,
           GrantHost(a) \/ GrantCoHost(a) \/ RevokeCoHost(a)
    PROVE  Authority!Move
<1>1. a \in Joined(participants) /\ ~anonymous_mode
  BY Transparently
<1>2. host_conn_id = a /\ a \in Authority!Seated(Seats)
  <2>1. None \notin Ids
    BY ConnsAssumption, IdsAssumption DEF Ids, Conns, None
  <2> QED BY <1>1, <2>1 DEF GrantHost, GrantCoHost, RevokeCoHost,
        RoleGrantAllowed, RoleRevokeAllowed, SignedByHost, SeatMeaning,
        Authority!Seated
<1>3. \A t \in RoleTargets(task[a].frame) :
          t \in Authority!Seated(Seats) /\ Seats[t] = task[a].frame.target
  <2>1. None \notin Ids
    BY ConnsAssumption, IdsAssumption DEF Ids, Conns, None
  <2> QED BY <1>1, <2>1 DEF RoleTargets, Joined, SeatMeaning, Authority!Seated
<1>4. Seats' = Seats
  BY RoleEffect DEF Seats
<1>5. CASE GrantHost(a)
  <2>1. /\ host_role_owner' = task[a].frame.target
        /\ host_conn_id' \in RoleTargets(task[a].frame)
        /\ UNCHANGED co_host_role_owners
    BY <1>5 DEF GrantHost
  <2>2. Authority!Appoint
    BY <1>2, <1>3, <1>4, <2>1 DEF Authority!Appoint
  <2> QED BY <2>2 DEF Authority!Move
<1>6. CASE GrantCoHost(a) \/ RevokeCoHost(a)
  <2> DEFINE f == task[a].frame
  <2>1. /\ UNCHANGED <<host_conn_id, host_role_owner>>
        /\ RoleTargets(f) # {}
        /\ \/ /\ a \notin RoleTargets(f)
              /\ co_host_role_owners' = co_host_role_owners \cup {f.target}
           \/ co_host_role_owners' = co_host_role_owners \ {f.target}
    BY <1>2, <1>6 DEF GrantCoHost, RevokeCoHost, ChangeCoHosts,
           RoleGrantAllowed, RoleRevokeAllowed
  <2>2. PICK t \in RoleTargets(f) : TRUE
    BY <2>1
  <2>3. Authority!Reserve
    BY <1>2, <1>3, <1>4, <2>1, <2>2 DEF Authority!Reserve
  <2> QED BY <2>3 DEF Authority!Move
<1> QED BY <1>5, <1>6

\* Every step of a handler is a step of HubAuthority, or leaves it alone.
LEMMA HandlerKeepsAuthority ==
    ASSUME TypeOK, RoleInv, ModeInv, Named, SeatMeaning, SeatMeaning',
           NEW a \in Conns, Quiet(a) \/ Loud(a)
    PROVE  Authority!Move \/ UNCHANGED <<Seats, host_conn_id, host_role_owner,
                                         co_host_role_owners>>
<1>1. CASE Quiet(a)
  BY <1>1, QuietSteps DEF SameRoster, Seats, roleVars
<1>2. CASE LeaveTransparent(a)
  <2>1. Departs(a, Heir(a)) /\ ~anonymous_mode
    BY <1>2, LeaveEffect DEF Departs, LeaveTransparent
  <2> QED BY <1>2, <2>1, LeaveEffect, DepartureKeepsAuthority
<1>3. CASE Deny(a)
  <2>1. PICK t \in Waiting(participants) :
            /\ Departs(t, Heir(t)) /\ Heir(t) \in Present(Without(t))
            /\ UNCHANGED <<host_role_owner, co_host_role_owners, anonymous_mode>>
    BY <1>3, DenyEffect DEF Departs
  <2>2. t \in Conns /\ ~anonymous_mode
    BY <1>3, Transparently DEF Waiting
  <2> QED BY <2>1, <2>2, DepartureKeepsAuthority
<1>4. CASE LeaveLast(a)
  <2>1. /\ host_conn_id' = None /\ host_role_owner' = None
        /\ co_host_role_owners' = {}
    BY <1>4 DEF LeaveLast, RemoveRoom
  <2>2. Seats' = Authority!Empty
    BY <1>4 DEF LeaveLast, RemoveRoom, Seats, Absent, Transparent, Authority!Empty
  <2>3. Joined(participants) \subseteq {a}
    BY <1>4, WithoutSets DEF LeaveLast, TypeOK, Present, Joined
  <2>4. Authority!Seated(Seats) \subseteq {a}
    BY <2>3 DEF SeatMeaning, Authority!Seated
  <2>5. Authority!Dissolve
    BY <2>1, <2>2, <2>4 DEF Authority!Dissolve
  <2> QED BY <2>5 DEF Authority!Move
<1>5. CASE LeaveAnonymous(a) \/ \E f \in Frames : AnonHello(a, f)
  <2>1. UNCHANGED <<host_conn_id, host_role_owner, co_host_role_owners>>
    BY <1>5 DEF LeaveAnonymous, AnonHello, roleVars
  <2>2. anonymous_mode'
    BY <1>5, LeaveAnonymousEffect, AnonHelloEffect
  <2>3. anonymous_mode \/ Joined(participants) = {}
    <3>1. CASE LeaveAnonymous(a)
      BY <3>1 DEF LeaveAnonymous
    <3>2. CASE \E f \in Frames : AnonHello(a, f)
      BY <3>2 DEF AnonHello, AnonHelloAccepted, transparent_hello_seen,
             AnonJoined, Joined, ModeInv, ModeExclusion
    <3> QED BY <1>5, <3>1, <3>2
  <2>4. \A c \in Conns : Seats[c] = None /\ Seats'[c] = None
    BY <2>2, <2>3 DEF SeatMeaning
  <2>5. Seats' = Seats
    BY <2>4 DEF Seats
  <2> QED BY <2>1, <2>5
<1>6. CASE Connect(a) \/ \E f \in Frames : HelloWaits(a, f)
  <2>1. a \notin Joined(participants)
    BY <1>6 DEF Connect, RoleInv, Unborn, Joined, HelloWaits, routed_to_waiting_room
  <2>2. Seats' = Seats
    BY <1>6, <2>1, OutsideEffect DEF Seats, Joined
  <2> QED BY <1>6, <2>2, OutsideEffect DEF roleVars
<1>7. CASE \E f \in Frames : HelloJoins(a, f)
  <2>1. PICK f \in Frames : HelloJoins(a, f)
    BY <1>7
  <2>2. f.pid \in Ids
    BY <2>1, HelloFields, FramesAssumption DEF HelloJoins, HelloAccepted
  <2>3. IdFree(a, f.pid) /\ ~anonymous_mode
    BY <2>1, HelloJoinsEffect
  <2> QED BY <2>1, <2>2, <2>3, HelloJoinsEffect, JoinKeepsAuthority DEF IdFree
<1>8. CASE \E f \in Frames : HelloMissing(a, f)
  <2>1. PICK f \in Frames : HelloMissing(a, f)
    BY <1>8
  <2>2. f.pid \in Ids /\ ~anonymous_mode
    BY <2>1, HelloFields, FramesAssumption DEF HelloMissing, HelloAccepted
  <2>3. Seats' = Seats /\ UNCHANGED co_host_role_owners
    BY <2>1, HelloMissingEffect DEF Seats
  <2>4. CASE host_conn_id = None
    <3>1. Joined(participants) = {}
      BY <2>2, <2>4 DEF RoleInv, HostPresent
    <3>2. Seats = Authority!Empty
      BY <3>1 DEF SeatMeaning, Seats, Authority!Empty
    <3>3. Authority!Claim
      BY <2>1, <2>2, <2>3, <2>4, <3>2, HelloMissingEffect DEF Authority!Claim
    <3> QED BY <3>3 DEF Authority!Move
  <2> QED BY <2>1, <2>3, <2>4, HelloMissingEffect
<1>9. CASE GrantHost(a) \/ GrantCoHost(a) \/ RevokeCoHost(a)
  BY <1>9, RoleFrameKeepsAuthority
<1>10. CASE Admit(a)
  <2>1. PICK t \in Waiting(participants) :
            /\ \A d \in Conns \ {t} : participants'[d] = participants[d]
            /\ participants'[t].pid = participants[t].pid
            /\ participants'[t].status = "joined"
            /\ participants'[t].anon = participants[t].anon
            /\ host_conn_id' = RestoredHost(t, participants[t].pid,
                                   host_conn_id, host_role_owner)
    BY <1>10, AdmitEffect
  <2>2. /\ UNCHANGED <<host_role_owner, co_host_role_owners>>
        /\ a \in Joined(participants) /\ ~anonymous_mode
    BY <1>10, AdmitEffect, Transparently
  <2>3. host_conn_id # None
    BY <2>2 DEF RoleInv, HostPresent
  <2>4. /\ t \in Conns /\ t \notin Joined(participants)
        /\ participants[t].pid \in Ids /\ ~participants[t].anon
    BY <2>1, <2>2 DEF Waiting, Joined, Named, RoleInv, NoneAnonymous
  <2>5. \A d \in Joined(participants) \ {t} : participants[d].pid # participants[t].pid
    BY <2>1, <2>2, <2>4 DEF RoleInv, UniqueIds, NoneAnonymous, Joined
  <2>6. participants[t].anon = FALSE
    BY <2>4 DEF TypeOK, RoomTypeOK, Participant
  <2> QED BY <2>1, <2>2, <2>3, <2>4, <2>5, <2>6, JoinKeepsAuthority
<1> QED BY <1>1, <1>2, <1>3, <1>4, <1>5, <1>6, <1>7, <1>8, <1>9, <1>10 DEF Loud

\* What every step does to authority, of one step.
AuthorityFollows == Authority!Next \/ UNCHANGED Authority!vars

LEMMA AuthorityStep ==
    ASSUME TypeOK, RoleInv, ModeInv, Named, SeatMeaning, SeatMeaning', Next
    PROVE  AuthorityFollows
BY StepKinds, HandlerKeepsAuthority, PowersKept, AuthorityStutters
   DEF AuthorityFollows, Authority!Next

\* A step that leaves roster and roles alone leaves authority alone.
LEMMA AuthorityUntouched ==
    ASSUME SeatMeaning, SeatMeaning', UNCHANGED <<participants, roleVars>>
    PROVE  AuthorityFollows
<1>1. UNCHANGED <<Seats, host_conn_id, host_role_owner, co_host_role_owners>>
  BY DEF roleVars, Seats
<1> QED BY <1>1, AuthorityStutters DEF AuthorityFollows

\* A room nobody is in starts as HubAuthority does.
LEMMA AuthorityInit == Init => Authority!Init
BY DEF Init, Absent, Transparent, Seats, SeatedModerators, Authority!Init,
       Authority!Empty

\* The room keeps the authority it promises: in every interleaving of joins,
\* admissions, denials, role frames and departures it is what the host's grants
\* and the ids of those who have joined call for.
THEOREM AuthorityKept == Spec => KeepsAuthority
<1>1. TypeOK /\ RoleInv /\ ModeInv /\ Named /\ SeatMeaning /\ SeatMeaning'
          /\ [Next]_vars => [Authority!Next]_(Authority!vars)
  <2> SUFFICES ASSUME TypeOK, RoleInv, ModeInv, Named, SeatMeaning, SeatMeaning',
                      [Next]_vars
               PROVE  AuthorityFollows
    BY DEF AuthorityFollows
  <2>1. CASE UNCHANGED vars
    BY <2>1, AuthorityUntouched DEF vars, roomVars
  <2> QED BY <2>1, AuthorityStep
<1>2. Spec => []SeatMeaning
  BY SeatsMean, AllNamed, RolesCorrect, ModesCorrect, PTL
<1> QED BY <1>1, <1>2, AuthorityInit, TypeCorrect, RolesCorrect, ModesCorrect,
           AllNamed, PTL DEF Spec, KeepsAuthority, Authority!Spec
=============================================================================
