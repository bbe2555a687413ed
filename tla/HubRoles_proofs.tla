--------------------------- MODULE HubRoles_proofs --------------------------
(***************************************************************************)
(* Who is in the room, which roles they hold and in which mode they meet:  *)
(* CoHostBinding, HostSound and UniqueIds; ModesApart and KeyedStateOwned, *)
(* for every instance.                                                     *)
(***************************************************************************)
EXTENDS HubRoom_proofs

\* Nothing that the role properties speak of changes: who is in the room,
\* under which id and in which mode, and who holds which role.
SameRoster ==
    /\ \A d \in Conns : /\ participants'[d].status = participants[d].status
                        /\ participants'[d].pid = participants[d].pid
                        /\ participants'[d].anon = participants[d].anon
    /\ UNCHANGED <<roleVars, anonymous_mode>>

\* A connection whose task has returned an error never gets another task, and
\* one that has started never becomes new again.
ReaderOrder ==
    \A d \in Conns : /\ reader[d] = "failed" => reader'[d] = "failed"
                     /\ reader'[d] = "none" => reader[d] = "none"

\* A connection that has not started is not in the room.
Unborn == \A d \in Conns : reader[d] = "none" => participants[d].status = "absent"

\* A transparent room has no anonymous participants (half of ModeExclusion).
NoneAnonymous == ~anonymous_mode => \A c \in Conns : ~participants[c].anon

\* The sets that depend on the roster alone are then unchanged too.
LEMMA SameRosterSets ==
    ASSUME SameRoster
    PROVE  /\ Present(participants') = Present(participants)
           /\ Joined(participants') = Joined(participants)
           /\ Waiting(participants') = Waiting(participants)
BY DEF SameRoster, Present, Joined, Waiting

\* The steps that leave roster and roles alone.
Quiet(c) ==
    \/ Close(c) \/ ReadFails(c) \/ RotateAfterLeave(c) \/ ReplyOnly(c)
    \/ \E f \in Frames : \/ HelloNoRoom(c, f) \/ HelloRefused(c, f)
                         \/ AnonHelloRefused(c, f) \/ GroupKeyUpdate(c, f)
                         \/ RelayEncrypted(c, f) \/ SealedRefused(c, f)
                         \/ Gate(c, f)
    \/ HelloSeenGate(c) \/ E2eeGate(c) \/ SectionMissing(c)
    \/ UpdatePolicy(c) \/ UpdateRoomConfig(c) \/ ControlRefused(c)
    \/ VerifySigned(c) \/ RegateSigned(c) \/ ModerationRefused(c)
    \/ ModerationFails(c) \/ Mute(c)
    \/ SetParticipantState(c) \/ SetMediaTrack(c) \/ PassOn(c)
    \/ CheckCapability(c) \/ StoreCapability(c) \/ ResolveProfile(c)
    \/ PublishKeyEpoch(c) \/ AckKeyRotation(c) \/ MediaRefused(c)
    \/ Relay(c) \/ Announce(c) \/ Notify(c) \/ Sent(c) \/ SendFails(c)
    \/ BackpressureNotice(c)

\* A quiet step leaves roster and roles alone.
LEMMA QuietSteps == ASSUME TypeOK, NEW c \in Conns, Quiet(c) PROVE SameRoster
<1> USE DEF TypeOK
<1>1. CASE UNCHANGED <<participants, roleVars, anonymous_mode>>
  BY <1>1 DEF SameRoster
<1>2. CASE \E f \in Frames : GroupKeyUpdate(c, f)
  <2>1. PICK f \in Frames : GroupKeyUpdate(c, f)
    BY <1>2
  <2> QED BY <2>1 DEF GroupKeyUpdate, SameRoster, RoomTypeOK, Participant
<1>3. CASE Mute(c)
  <2>1. PICK targets : participants' = [d \in Conns |->
            IF d \in targets THEN MutedBy(task[c].frame.action, participants[d])
            ELSE participants[d]]
    BY <1>3 DEF Mute
  <2>2. ASSUME NEW p \in Participant, NEW a
        PROVE  /\ MutedBy(a, p).status = p.status
               /\ MutedBy(a, p).pid = p.pid
               /\ MutedBy(a, p).anon = p.anon
    BY DEF MutedBy, Participant
  <2> QED BY <1>3, <2>1, <2>2 DEF Mute, SameRoster, RoomTypeOK
<1>4. ASSUME NEW m, NEW v, NEW h, participants' =
             [participants EXCEPT ![c] = WithMedia(participants[c], m, v, h)]
      PROVE  \A d \in Conns :
                 /\ participants'[d].status = participants[d].status
                 /\ participants'[d].pid = participants[d].pid
                 /\ participants'[d].anon = participants[d].anon
  BY <1>4 DEF WithMedia, RoomTypeOK, Participant
<1>5. CASE SetParticipantState(c)
  <2>1. PICK m, v, h : participants' =
            [participants EXCEPT ![c] = WithMedia(participants[c], m, v, h)]
    BY <1>5, Zenon DEF SetParticipantState
  <2> QED BY <1>4, <1>5, <2>1 DEF SetParticipantState, SameRoster
<1>6. CASE SetMediaTrack(c)
  <2>1. PICK m, v, h : participants' =
            [participants EXCEPT ![c] = WithMedia(participants[c], m, v, h)]
    BY <1>6, Zenon DEF SetMediaTrack
  <2>2. UNCHANGED <<roleVars, anonymous_mode>>
    BY <1>6 DEF SetMediaTrack
  <2> QED BY <1>4, <2>1, <2>2 DEF SameRoster
<1>7. CASE \/ Close(c) \/ ReadFails(c) \/ RotateAfterLeave(c) \/ ReplyOnly(c)
           \/ \E f \in Frames : \/ HelloNoRoom(c, f) \/ HelloRefused(c, f)
                                \/ AnonHelloRefused(c, f)
                                \/ RelayEncrypted(c, f) \/ SealedRefused(c, f)
                                \/ Gate(c, f)
           \/ HelloSeenGate(c) \/ E2eeGate(c) \/ SectionMissing(c)
  BY <1>1, <1>7 DEF Close, ReadFails, RotateAfterLeave, ReplyOnly,
         HelloNoRoom, HelloRefused, AnonHelloRefused, RelayEncrypted,
         SealedRefused, Gate, HelloSeenGate, E2eeGate, SectionMissing, roomVars
<1>8. CASE \/ UpdatePolicy(c) \/ UpdateRoomConfig(c) \/ ControlRefused(c)
           \/ VerifySigned(c) \/ RegateSigned(c) \/ ModerationRefused(c)
           \/ ModerationFails(c)
  BY <1>1, <1>8 DEF UpdatePolicy, UpdateRoomConfig, ControlRefused,
         VerifySigned, RegateSigned, ModerationRefused, ModerationFails, roomVars
<1>9. CASE \/ PassOn(c) \/ CheckCapability(c) \/ StoreCapability(c)
           \/ ResolveProfile(c) \/ PublishKeyEpoch(c) \/ AckKeyRotation(c)
           \/ MediaRefused(c) \/ Relay(c) \/ Announce(c) \/ Notify(c)
           \/ Sent(c) \/ SendFails(c) \/ BackpressureNotice(c)
  BY <1>1, <1>9 DEF BackpressureNotice, PassOn, CheckCapability, StoreCapability, ResolveProfile,
         PublishKeyEpoch, AckKeyRotation, MediaRefused, Relay, Announce,
         Notify, Sent, SendFails, roomVars
<1> QED BY <1>2, <1>3, <1>5, <1>7, <1>8, <1>9, <1>6 DEF Quiet

\* The steps that change roster or roles; every step is of one of the kinds.
Loud(c) ==
    \/ Connect(c) \/ LeaveLast(c) \/ LeaveTransparent(c) \/ LeaveAnonymous(c)
    \/ \E f \in Frames : \/ HelloWaits(c, f) \/ HelloJoins(c, f)
                         \/ HelloMissing(c, f) \/ AnonHello(c, f)
    \/ GrantHost(c) \/ GrantCoHost(c) \/ RevokeCoHost(c)
    \/ Admit(c) \/ Deny(c)

\* Every step is a quiet one or one of those that change the roster or roles.
LEMMA StepKinds ==
    ASSUME Next
    PROVE  \E c \in Conns : Quiet(c) \/ Loud(c)
BY DEF Next, Lifecycle, Continue, Receive, Quiet, Loud

\* Every step respects the order of a connection's life.
LEMMA ReaderOrderStep == ASSUME ConnTypeOK, NEW c \in Conns, Quiet(c) \/ Loud(c)
                         PROVE  ReaderOrder
<1>1. CASE \/ Connect(c) \/ Close(c) \/ ReadFails(c) \/ LeaveLast(c)
           \/ LeaveTransparent(c) \/ LeaveAnonymous(c) \/ RotateAfterLeave(c)
  <2>1. /\ reader[c] # "failed"
        /\ \E r \in Readers \ {"none"} : reader' = [reader EXCEPT ![c] = r]
    BY <1>1 DEF Readers, Connect, Close, ReadFails, LeaveLast, LeaveTransparent,
                LeaveAnonymous, RotateAfterLeave
  <2> QED BY <2>1 DEF ReaderOrder, ConnTypeOK
<1>2. CASE (\E t : GoTo(c, t)) \/ ReturnErr(c) \/ Reply(c)
  BY <1>2 DEF GoTo, ReturnErr, Reply, ReaderOrder, ConnTypeOK
<1>3. CASE \E f \in Frames :
               \/ HelloNoRoom(c, f) \/ HelloRefused(c, f) \/ HelloWaits(c, f)
               \/ HelloJoins(c, f) \/ HelloMissing(c, f) \/ AnonHello(c, f)
               \/ AnonHelloRefused(c, f) \/ GroupKeyUpdate(c, f)
               \/ RelayEncrypted(c, f) \/ SealedRefused(c, f) \/ Gate(c, f)
  BY <1>2, <1>3 DEF HelloNoRoom, HelloRefused, HelloWaits, HelloJoins,
         HelloMissing, AnonHello, AnonHelloRefused, GroupKeyUpdate,
         RelayEncrypted, SealedRefused, Gate
<1>4. CASE \/ HelloSeenGate(c) \/ E2eeGate(c) \/ SectionMissing(c)
           \/ UpdatePolicy(c) \/ UpdateRoomConfig(c) \/ ControlRefused(c)
           \/ VerifySigned(c) \/ RegateSigned(c) \/ ModerationRefused(c)
           \/ ModerationFails(c) \/ Mute(c) \/ Admit(c) \/ Deny(c)
  BY <1>2, <1>4 DEF HelloSeenGate, E2eeGate, SectionMissing, UpdatePolicy,
         UpdateRoomConfig, ControlRefused, VerifySigned, RegateSigned,
         ModerationRefused, ModerationFails, Mute, Admit, Deny
<1>5. CASE GrantHost(c) \/ GrantCoHost(c) \/ RevokeCoHost(c)
  <2>1. \E t : GoTo(c, t)
    BY <1>5 DEF GrantHost, GrantCoHost, RevokeCoHost, ChangeCoHosts, RoleOutcome
  <2> QED BY <1>2, <2>1
<1>6. CASE \/ SetParticipantState(c) \/ SetMediaTrack(c) \/ PassOn(c)
           \/ CheckCapability(c) \/ StoreCapability(c) \/ ResolveProfile(c)
           \/ PublishKeyEpoch(c) \/ AckKeyRotation(c) \/ MediaRefused(c)
  BY <1>2, <1>6 DEF SetParticipantState, SetMediaTrack, PassOn,
         CheckCapability, StoreCapability, ResolveProfile, PublishKeyEpoch,
         AckKeyRotation, MediaRefused
<1>7. CASE \/ Relay(c) \/ Announce(c) \/ Notify(c) \/ Sent(c) \/ SendFails(c)
           \/ ReplyOnly(c) \/ BackpressureNotice(c)
  BY <1>2, <1>7 DEF BackpressureNotice, Relay, Announce, Notify, Sending, Sent, SendFails, ReplyOnly
<1> QED BY <1>1, <1>3, <1>4, <1>5, <1>6, <1>7 DEF Quiet, Loud

\* Taking c out of the room takes nobody else out.
LEMMA WithoutSets ==
    ASSUME RoomTypeOK, NEW c \in Conns
    PROVE  /\ Present(Without(c)) = Present(participants) \ {c}
           /\ Joined(Without(c)) = Joined(participants) \ {c}
           /\ Waiting(Without(c)) = Waiting(participants) \ {c}
           /\ \A d \in Conns \ {c} : Without(c)[d] = participants[d]
BY DEF Without, Absent, Transparent, Present, Joined, Waiting, RoomTypeOK

\* The participants after c has become a transparent participant of status s.
LEMMA EnterSets ==
    ASSUME RoomTypeOK, NEW c \in Conns, NEW s \in {"open", "waiting", "joined"},
           NEW pid,
           participants' = [participants EXCEPT ![c] = Transparent(s, pid)]
    PROVE  /\ \A d \in Conns \ {c} : participants'[d] = participants[d]
           /\ participants'[c].pid = pid
           /\ participants'[c].status = s
           /\ participants'[c].anon = FALSE
BY DEF Transparent, RoomTypeOK

\* Admission changes nothing about t but that it has joined.
LEMMA AdmitSets ==
    ASSUME RoomTypeOK, NEW t \in Conns,
           participants' = [participants EXCEPT
               ![t] = WithMedia([@ EXCEPT !.status = "joined"],
                                FALSE, FALSE, FALSE)]
    PROVE  /\ \A d \in Conns \ {t} : participants'[d] = participants[d]
           /\ participants'[t].pid = participants[t].pid
           /\ participants'[t].status = "joined"
           /\ participants'[t].anon = participants[t].anon
BY DEF WithMedia, RoomTypeOK, Participant
-----------------------------------------------------------------------------
(***************************************************************************)
(* What the steps that change roster or roles do to them, in the terms the *)
(* properties use.                                                         *)
(***************************************************************************)
\* t leaves and nobody else: deny_waiting_participant by moderator c.
LEMMA DenyEffect ==
    ASSUME TypeOK, NEW c \in Conns, Deny(c)
    PROVE  \E t \in Waiting(participants) :
               /\ participants' = Without(t)
               /\ Heir(t) \in Present(Without(t))
               /\ IF host_conn_id = t
                  THEN /\ host_conn_id' = Heir(t)
                       /\ co_host_conn_ids' = ActiveCoHosts(Without(t), Heir(t),
                                                  co_host_role_owners)
                  ELSE /\ co_host_conn_ids' = co_host_conn_ids \ {t}
                       /\ UNCHANGED host_conn_id
               /\ UNCHANGED <<host_role_owner, co_host_role_owners,
                      anonymous_mode>>
<1>1. PICK t \in ModerationTargets(task[c].frame) \cap Waiting(participants) :
          /\ participants' = Without(t)
          /\ IF host_conn_id = t
             THEN /\ host_conn_id' = Heir(t)
                  /\ co_host_conn_ids' =
                         ActiveCoHosts(Without(t), Heir(t), co_host_role_owners)
             ELSE /\ co_host_conn_ids' = co_host_conn_ids \ {t}
                  /\ UNCHANGED host_conn_id
  BY DEF Deny
<1>2. c \in Joined(participants)
  BY DEF Deny, Moderates, ModeratorAllowed
<1>3. t \in Conns /\ c \in Present(Without(t))
  BY <1>1, <1>2, WithoutSets DEF Joined, Waiting, Present, TypeOK
<1>4. Heir(t) \in Present(Without(t))
  BY <1>3, HeirPresent
<1> QED BY <1>1, <1>4 DEF Deny

\* admit_waiting_participant by moderator c.
LEMMA AdmitEffect ==
    ASSUME TypeOK, NEW c \in Conns, Admit(c)
    PROVE  /\ c \in Joined(participants)
           /\ \E t \in Waiting(participants) :
                  /\ \A d \in Conns \ {t} : participants'[d] = participants[d]
                  /\ participants'[t].pid = participants[t].pid
                  /\ participants'[t].status = "joined"
                  /\ participants'[t].anon = participants[t].anon
                  /\ host_conn_id' = RestoredHost(t, participants[t].pid,
                                         host_conn_id, host_role_owner)
                  /\ co_host_conn_ids' = ActiveCoHosts(participants',
                                             host_conn_id', co_host_role_owners)
           /\ UNCHANGED <<host_role_owner, co_host_role_owners, anonymous_mode>>
<1>1. PICK t \in ModerationTargets(task[c].frame) \cap Waiting(participants) :
          /\ participants' = [participants EXCEPT
                 ![t] = WithMedia([@ EXCEPT !.status = "joined"],
                                  FALSE, FALSE, FALSE)]
          /\ host_conn_id' = RestoreRoles(participants', t, participants[t].pid,
                 host_conn_id, host_role_owner, co_host_conn_ids).host
          /\ co_host_conn_ids' = RestoreRoles(participants', t,
                 participants[t].pid, host_conn_id, host_role_owner,
                 co_host_conn_ids).cohosts
  BY DEF Admit
<1>2. t \in Conns /\ c \in Joined(participants)
  BY DEF Waiting, Admit, Moderates, ModeratorAllowed
<1>3. /\ \A d \in Conns \ {t} : participants'[d] = participants[d]
      /\ participants'[t].pid = participants[t].pid
      /\ participants'[t].status = "joined"
      /\ participants'[t].anon = participants[t].anon
  BY <1>1, <1>2, AdmitSets DEF TypeOK
<1>4. /\ host_conn_id' = RestoredHost(t, participants[t].pid, host_conn_id,
                                      host_role_owner)
      /\ co_host_conn_ids' = ActiveCoHosts(participants', host_conn_id',
                                           co_host_role_owners)
  BY <1>1 DEF RestoreRoles
<1> QED BY <1>1, <1>2, <1>3, <1>4 DEF Admit

\* A Hello that joins.
LEMMA HelloJoinsEffect ==
    ASSUME TypeOK, NEW c \in Conns, NEW f \in Frames, HelloJoins(c, f)
    PROVE  /\ ~anonymous_mode
           /\ IdFree(c, f.pid)
           /\ \A d \in Conns \ {c} : participants'[d] = participants[d]
           /\ participants'[c].pid = f.pid
           /\ participants'[c].status = "joined"
           /\ participants'[c].anon = FALSE
           /\ IF host_conn_id = None
              THEN host_role_owner' = f.pid /\ host_conn_id' = c
              ELSE /\ host_role_owner' = host_role_owner
                   /\ host_conn_id' = RestoredHost(c, f.pid, host_conn_id,
                                                   host_role_owner)
           /\ co_host_conn_ids' = ActiveCoHosts(participants', host_conn_id',
                                                co_host_role_owners)
           /\ UNCHANGED <<co_host_role_owners, anonymous_mode>>
<1> DEFINE claim == ClaimHost(c, f.pid)
           roles == RestoreRoles(participants', c, f.pid, claim.host,
                                 claim.owner, claim.cohosts)
<1>1. ~anonymous_mode /\ IdFree(c, f.pid)
  BY DEF HelloJoins, HelloAccepted, validate_join_allowed
<1>2. /\ participants' = [participants EXCEPT ![c] = Transparent("joined", f.pid)]
      /\ host_conn_id' = roles.host
      /\ host_role_owner' = claim.owner
      /\ co_host_conn_ids' = roles.cohosts
      /\ UNCHANGED <<co_host_role_owners, anonymous_mode>>
  BY DEF HelloJoins
<1>3. /\ \A d \in Conns \ {c} : participants'[d] = participants[d]
      /\ participants'[c].pid = f.pid
      /\ participants'[c].status = "joined"
      /\ participants'[c].anon = FALSE
  BY <1>2, EnterSets DEF TypeOK
<1>4. /\ host_conn_id' = RestoredHost(c, f.pid, claim.host, claim.owner)
      /\ co_host_conn_ids' = ActiveCoHosts(participants', host_conn_id',
                                           co_host_role_owners)
  BY <1>2 DEF RestoreRoles
<1>5. IF host_conn_id = None
      THEN claim.host = c /\ claim.owner = f.pid
      ELSE claim.host = host_conn_id /\ claim.owner = host_role_owner
  BY DEF ClaimHost, HostVacant
<1> QED BY <1>1, <1>2, <1>3, <1>4, <1>5 DEF RestoredHost

\* A Hello of a denied connection.
LEMMA HelloMissingEffect ==
    ASSUME TypeOK, NEW c \in Conns, NEW f \in Frames, HelloMissing(c, f)
    PROVE  /\ IdFree(c, f.pid) /\ c \notin Present(participants)
           /\ reader' = [reader EXCEPT ![c] = "failed"]
           /\ IF host_conn_id = None
              THEN /\ host_conn_id' = c /\ host_role_owner' = f.pid
                   /\ co_host_conn_ids' =
                          ActiveCoHosts(participants, c, co_host_role_owners)
              ELSE UNCHANGED <<host_conn_id, host_role_owner, co_host_conn_ids>>
           /\ UNCHANGED <<participants, co_host_role_owners, anonymous_mode>>
<1> DEFINE claim == ClaimHost(c, f.pid)
<1>1. /\ IdFree(c, f.pid) /\ c \notin Present(participants)
      /\ reader' = [reader EXCEPT ![c] = "failed"]
      /\ UNCHANGED <<participants, co_host_role_owners, anonymous_mode>>
  BY DEF HelloMissing, HelloAccepted, validate_join_allowed, ReturnErr
<1>2. /\ host_conn_id' = claim.host
      /\ host_role_owner' = claim.owner
      /\ co_host_conn_ids' = claim.cohosts
  BY DEF HelloMissing
<1> QED BY <1>1, <1>2 DEF ClaimHost, HostVacant

\* A Hello that is sent to the waiting room, or a new connection.
LEMMA OutsideEffect ==
    ASSUME TypeOK, NEW c \in Conns,
           Connect(c) \/ \E f \in Frames : HelloWaits(c, f)
    PROVE  /\ \A d \in Conns \ {c} : participants'[d] = participants[d]
           /\ participants'[c].status \in {"open", "waiting"}
           /\ participants'[c].pid \in Ids
           /\ participants'[c].anon = FALSE
           /\ UNCHANGED <<roleVars, anonymous_mode>>
<1> USE DEF TypeOK
<1>1. CASE Connect(c)
  <2>1. /\ participants' = [participants EXCEPT ![c] = Transparent("open", c)]
        /\ UNCHANGED <<roleVars, anonymous_mode>>
    BY <1>1 DEF Connect
  <2>2. c \in Ids
    BY DEF Ids
  <2>3. /\ \A d \in Conns \ {c} : participants'[d] = participants[d]
        /\ participants'[c].pid = c
        /\ participants'[c].status = "open"
        /\ participants'[c].anon = FALSE
    BY <2>1, EnterSets
  <2> QED BY <2>1, <2>2, <2>3
<1>2. CASE \E f \in Frames : HelloWaits(c, f)
  <2>1. PICK f \in Frames : HelloWaits(c, f)
    BY <1>2
  <2>2. f.pid \in Ids
    BY <2>1, HelloFields, FramesAssumption DEF HelloWaits, HelloAccepted
  <2> QED BY <2>1, <2>2, EnterSets DEF HelloWaits
<1> QED BY <1>1, <1>2

\* A role frame: the host role moves to a joined target, or the co-host
\* bindings are recomputed.
LEMMA RoleEffect ==
    ASSUME TypeOK, NEW c \in Conns,
           GrantHost(c) \/ GrantCoHost(c) \/ RevokeCoHost(c)
    PROVE  /\ UNCHANGED <<participants, anonymous_mode>>
           /\ co_host_conn_ids' = ActiveCoHosts(participants, host_conn_id',
                                                co_host_role_owners')
           /\ \/ UNCHANGED <<host_conn_id, host_role_owner>>
              \/ /\ host_conn_id' \in Joined(participants)
                 /\ host_role_owner' = participants[host_conn_id'].pid
<1> DEFINE f == task[c].frame
<1>1. CASE GrantHost(c)
  <2>1. PICK t \in RoleTargets(f) :
            /\ host_conn_id' = t
            /\ co_host_conn_ids' =
                   ActiveCoHosts(participants, t, co_host_role_owners)
            /\ UNCHANGED <<participants, anonymous_mode>>
    BY <1>1 DEF GrantHost, RoleOutcome
  <2>2. host_role_owner' = f.target /\ UNCHANGED co_host_role_owners
    BY <1>1 DEF GrantHost
  <2> QED BY <2>1, <2>2 DEF RoleTargets
<1>2. CASE GrantCoHost(c) \/ RevokeCoHost(c)
  BY <1>2 DEF GrantCoHost, RevokeCoHost, ChangeCoHosts, RoleOutcome
<1> QED BY <1>1, <1>2

\* handle_disconnect in a transparent room.
LEMMA LeaveEffect ==
    ASSUME TypeOK, NEW c \in Conns, LeaveTransparent(c)
    PROVE  /\ participants' = Without(c)
           /\ Heir(c) \in Present(Without(c))
           /\ IF host_conn_id = c
              THEN /\ host_conn_id' = Heir(c)
                   /\ co_host_conn_ids' = ActiveCoHosts(Without(c), Heir(c),
                                              co_host_role_owners)
              ELSE /\ co_host_conn_ids' = co_host_conn_ids \ {c}
                   /\ UNCHANGED host_conn_id
           /\ UNCHANGED <<host_role_owner, co_host_role_owners, anonymous_mode>>
BY HeirPresent DEF LeaveTransparent, ForgetConn
-----------------------------------------------------------------------------
(***************************************************************************)
(* The inductive invariant.  All but OwnerIsHost are inductive on their    *)
(* own; a transfer of the host role keeps OwnerIsHost because nobody else  *)
(* has the target's id, which UniqueIds says of transparent participants.  *)
(***************************************************************************)
RoleInv ==
    Unborn /\ NoneAnonymous /\ UniqueIds /\ CoHostBinding /\ HostPresent /\ OwnerIsHost

\* A room that has just been removed, or never was, satisfies them all.
LEMMA EmptyRoom ==
    ASSUME participants = [c \in Conns |-> Absent], host_conn_id = None,
           co_host_conn_ids = {}
    PROVE  RoleInv
BY DEF RoleInv, Unborn, NoneAnonymous, UniqueIds, CoHostBinding, HostPresent,
       OwnerIsHost, Absent, Transparent, Joined, Waiting

\* A quiet step preserves the role invariant.
LEMMA QuietRoleInv ==
    ASSUME TypeOK, RoleInv, SameRoster, ReaderOrder
    PROVE  RoleInv'
<1>1. /\ Present(participants') = Present(participants)
      /\ Joined(participants') = Joined(participants)
      /\ Waiting(participants') = Waiting(participants)
  BY SameRosterSets
<1>2. /\ Joined(participants) \subseteq Conns
      /\ Waiting(participants) \subseteq Conns
  BY DEF Joined, Waiting
<1>3. Unborn' /\ NoneAnonymous' /\ UniqueIds' /\ OwnerIsHost'
  BY <1>1, <1>2 DEF RoleInv, Unborn, NoneAnonymous, UniqueIds, OwnerIsHost,
                    SameRoster, ReaderOrder, roleVars
<1>4. CoHostBinding'
  BY <1>1 DEF RoleInv, CoHostBinding, SameRoster, roleVars
<1>5. HostPresent'
  BY <1>1 DEF RoleInv, HostPresent, SameRoster, ReaderOrder, roleVars, TypeOK,
              RoomTypeOK
<1> QED BY <1>3, <1>4, <1>5 DEF RoleInv

\* Only an AnonHello makes a participant anonymous, and the room with it.
LEMMA AnonHelloEffect ==
    ASSUME TypeOK, NEW c \in Conns, NEW f \in Frames, AnonHello(c, f)
    PROVE  /\ anonymous_mode' = TRUE
           /\ \A d \in Conns \ {c} : participants'[d] = participants[d]
           /\ participants'[c].anon = TRUE
           /\ participants'[c].pid = participants[c].pid
           /\ participants'[c].status = "joined"
           /\ participants[c].status # "absent"
BY DEF AnonHello, Present, apply_anon_hello_state, TypeOK, RoomTypeOK, Participant

\* A departure from an anonymous room leaves the mode alone.
LEMMA LeaveAnonymousEffect ==
    ASSUME TypeOK, NEW c \in Conns, LeaveAnonymous(c)
    PROVE  /\ anonymous_mode /\ anonymous_mode'
           /\ participants' = Without(c)
BY DEF LeaveAnonymous, ForgetConn

\* The last departure leaves an empty transparent room.
LEMMA LeaveLastEffect ==
    ASSUME NEW c \in Conns, LeaveLast(c)
    PROVE  RoleInv'
<1>1. /\ participants' = [d \in Conns |-> Absent]
      /\ host_conn_id' = None /\ co_host_conn_ids' = {}
  BY DEF LeaveLast, RemoveRoom
<1> QED BY <1>1 DEF RoleInv, Unborn, NoneAnonymous, UniqueIds, CoHostBinding,
               HostPresent, OwnerIsHost, Absent, Transparent, Joined, Waiting

\* Connection t changes and nobody else: its new id must be nobody else's.
LEMMA UniqueAfter ==
    ASSUME UniqueIds, NEW t \in Conns,
           \A d \in Conns \ {t} : participants'[d] = participants[d],
           /\ participants'[t].status \in {"joined", "waiting"}
           /\ ~participants'[t].anon
           => \A d \in (Joined(participants) \cup Waiting(participants)) \ {t} :
                  ~participants[d].anon =>
                      participants[d].pid # participants'[t].pid
    PROVE  UniqueIds'
<1> SUFFICES ASSUME NEW x \in (Joined(participants) \cup Waiting(participants))',
                    NEW y \in (Joined(participants) \cup Waiting(participants))',
                    x # y, ~participants'[x].anon, ~participants'[y].anon
             PROVE  participants'[x].pid # participants'[y].pid
  BY DEF UniqueIds
<1>1. /\ x \in Conns /\ participants'[x].status \in {"joined", "waiting"}
      /\ y \in Conns /\ participants'[y].status \in {"joined", "waiting"}
  BY DEF Joined, Waiting
<1>2. ASSUME NEW d \in Conns \ {t}, participants'[d].status \in {"joined", "waiting"}
      PROVE  d \in (Joined(participants) \cup Waiting(participants)) \ {t}
  BY <1>2 DEF Joined, Waiting
<1>3. CASE x = t
  BY <1>1, <1>2, <1>3
<1>4. CASE y = t
  BY <1>1, <1>2, <1>4
<1>5. CASE x # t /\ y # t
  <2>1. /\ x \in Joined(participants) \cup Waiting(participants)
        /\ y \in Joined(participants) \cup Waiting(participants)
    BY <1>1, <1>2, <1>5
  <2> QED BY <1>1, <1>5, <2>1 DEF UniqueIds
<1> QED BY <1>3, <1>4, <1>5

\* No step gives one participant id to two participants.
LEMMA UniqueIdsStep ==
    ASSUME TypeOK, UniqueIds, NoneAnonymous, NEW c \in Conns, Loud(c)
    PROVE  UniqueIds' /\ NoneAnonymous'
<1> USE DEF TypeOK
<1>1. CASE LeaveTransparent(c) \/ LeaveAnonymous(c) \/ Deny(c)
  <2>1. PICK t \in Conns : participants' = Without(t) /\ UNCHANGED anonymous_mode
    BY <1>1, LeaveEffect, LeaveAnonymousEffect, DenyEffect
       DEF Waiting, LeaveAnonymous
  <2>2. participants'[t].anon = FALSE /\ participants'[t].status = "absent"
    BY <2>1 DEF Without, Absent, Transparent, RoomTypeOK
  <2>3. \A d \in Conns \ {t} : participants'[d] = participants[d]
    BY <2>1, WithoutSets
  <2>4. UniqueIds'
    BY <2>2, <2>3, UniqueAfter
  <2> QED BY <2>1, <2>2, <2>3, <2>4 DEF NoneAnonymous
<1>2. CASE \E f \in Frames : HelloJoins(c, f)
  <2>1. PICK f \in Frames : HelloJoins(c, f)
    BY <1>2
  <2>2. /\ \A d \in Conns \ {c} : participants'[d] = participants[d]
        /\ participants'[c].pid = f.pid
        /\ IdFree(c, f.pid)
    BY <2>1, HelloJoinsEffect
  <2>3. UniqueIds'
    BY <2>2, UniqueAfter DEF IdFree
  <2> QED BY <2>1, <2>3, HelloJoinsEffect DEF NoneAnonymous
<1>3. CASE \E f \in Frames : HelloWaits(c, f)
  <2>1. PICK f \in Frames : HelloWaits(c, f)
    BY <1>3
  <2>2. participants'[c].pid = f.pid /\ IdFree(c, f.pid)
    BY <2>1, EnterSets
       DEF HelloWaits, HelloAccepted, validate_join_allowed
  <2>3. UniqueIds'
    BY <1>3, <2>2, OutsideEffect, UniqueAfter DEF IdFree
  <2> QED BY <1>3, <2>3, OutsideEffect DEF NoneAnonymous
<1>4. CASE Connect(c)
  <2>1. participants'[c].status = "open"
    BY <1>4, EnterSets DEF Connect
  <2>2. UniqueIds'
    BY <1>4, <2>1, OutsideEffect, UniqueAfter
  <2> QED BY <1>4, <2>2, OutsideEffect DEF NoneAnonymous
<1>5. CASE \E f \in Frames : HelloMissing(c, f)
  BY <1>5, HelloMissingEffect DEF UniqueIds, NoneAnonymous
<1>6. CASE \E f \in Frames : AnonHello(c, f)
  <2>1. UniqueIds'
    BY <1>6, AnonHelloEffect, UniqueAfter
  <2> QED BY <1>6, <2>1, AnonHelloEffect DEF NoneAnonymous
<1>7. CASE GrantHost(c) \/ GrantCoHost(c) \/ RevokeCoHost(c)
  BY <1>7, RoleEffect DEF UniqueIds, NoneAnonymous
<1>8. CASE Admit(c)
  <2>1. PICK t \in Waiting(participants) :
            /\ \A d \in Conns \ {t} : participants'[d] = participants[d]
            /\ participants'[t].pid = participants[t].pid
            /\ participants'[t].anon = participants[t].anon
    BY <1>8, AdmitEffect
  <2>2. t \in Conns
    BY DEF Waiting
  <2>3. UniqueIds'
    BY <2>1, <2>2, UniqueAfter DEF UniqueIds
  <2> QED BY <1>8, <2>1, <2>2, <2>3, AdmitEffect DEF NoneAnonymous
<1>9. CASE LeaveLast(c)
  BY <1>9, LeaveLastEffect DEF RoleInv
<1> QED BY <1>1, <1>2, <1>3, <1>4, <1>5, <1>6, <1>7, <1>8, <1>9 DEF Loud

\* Every step leaves the co-host bindings its reserved ids call for.
LEMMA CoHostBindingStep ==
    ASSUME TypeOK, CoHostBinding, Unborn, NEW c \in Conns, Loud(c)
    PROVE  CoHostBinding'
<1> USE DEF TypeOK
<1>1. ASSUME co_host_conn_ids' = ActiveCoHosts(participants', host_conn_id',
                                              co_host_role_owners')
      PROVE  CoHostBinding'
  BY <1>1 DEF CoHostBinding, ActiveCoHosts, Joined
<1>2. ASSUME NEW t \in Conns, participants' = Without(t),
             co_host_conn_ids' = co_host_conn_ids \ {t},
             UNCHANGED <<host_conn_id, co_host_role_owners, anonymous_mode>>
      PROVE  CoHostBinding'
  BY <1>2, WithoutSets DEF CoHostBinding
<1>3. CASE LeaveTransparent(c)
  BY <1>1, <1>2, <1>3, LeaveEffect
<1>4. CASE Deny(c)
  <2>1. PICK t \in Waiting(participants) :
            /\ participants' = Without(t)
            /\ IF host_conn_id = t
               THEN /\ host_conn_id' = Heir(t)
                    /\ co_host_conn_ids' = ActiveCoHosts(Without(t), Heir(t),
                                               co_host_role_owners)
               ELSE /\ co_host_conn_ids' = co_host_conn_ids \ {t}
                    /\ UNCHANGED host_conn_id
            /\ UNCHANGED <<host_role_owner, co_host_role_owners, anonymous_mode>>
    BY <1>4, DenyEffect
  <2> QED BY <1>1, <1>2, <2>1 DEF Waiting
<1>5. CASE \E f \in Frames : HelloJoins(c, f)
  BY <1>1, <1>5, HelloJoinsEffect
<1>6. CASE \E f \in Frames : HelloMissing(c, f)
  <2>1. PICK f \in Frames : HelloMissing(c, f)
    BY <1>6
  <2> QED BY <1>1, <2>1, HelloMissingEffect DEF CoHostBinding
<1>7. CASE GrantHost(c) \/ GrantCoHost(c) \/ RevokeCoHost(c)
  BY <1>1, <1>7, RoleEffect
<1>8. CASE Admit(c)
  BY <1>1, <1>8, AdmitEffect
<1>9. CASE Connect(c) \/ \E f \in Frames : HelloWaits(c, f)
  <2>1. c \notin Joined(participants)
    BY <1>9 DEF Connect, Unborn, Joined, HelloWaits, routed_to_waiting_room
  <2>2. Joined(participants') = Joined(participants)
    BY <1>9, <2>1, OutsideEffect DEF Joined
  <2> QED BY <1>9, <2>1, <2>2, OutsideEffect DEF CoHostBinding, roleVars
<1>10. CASE LeaveAnonymous(c) \/ \E f \in Frames : AnonHello(c, f)
  BY <1>10, LeaveAnonymousEffect, AnonHelloEffect DEF CoHostBinding
<1>11. CASE LeaveLast(c)
  BY <1>11, LeaveLastEffect DEF RoleInv
<1> QED BY <1>3, <1>4, <1>5, <1>6, <1>7, <1>8, <1>9, <1>10, <1>11 DEF Loud

\* Every step leaves the room with a host that is present.
LEMMA HostPresentStep ==
    ASSUME TypeOK, HostPresent, NoneAnonymous, NEW c \in Conns, Loud(c)
    PROVE  HostPresent'
<1> USE DEF TypeOK
<1>1. ReaderOrder /\ None \notin Conns
  BY ReaderOrderStep DEF Conns, None
<1>2. ASSUME NEW t \in Conns, participants' = Without(t),
             Heir(t) \in Present(Without(t)),
             UNCHANGED anonymous_mode,
             host_conn_id' = IF host_conn_id = t THEN Heir(t) ELSE host_conn_id
      PROVE  HostPresent'
  <2>1. /\ Present(participants') = Present(participants) \ {t}
        /\ Joined(participants') = Joined(participants) \ {t}
    BY <1>2, WithoutSets
  <2>2. Heir(t) # None
    BY <1>1, <1>2 DEF Present
  <2> QED BY <1>1, <1>2, <2>1, <2>2 DEF HostPresent, ReaderOrder, RoomTypeOK
<1>3. CASE LeaveTransparent(c)
  BY <1>2, <1>3, LeaveEffect
<1>4. CASE Deny(c)
  <2>1. PICK t \in Waiting(participants) :
            /\ participants' = Without(t)
            /\ Heir(t) \in Present(Without(t))
            /\ host_conn_id' = IF host_conn_id = t THEN Heir(t) ELSE host_conn_id
            /\ UNCHANGED anonymous_mode
    BY <1>4, DenyEffect
  <2> QED BY <1>2, <2>1 DEF Waiting
<1>5. CASE \E f \in Frames : HelloJoins(c, f)
  <2>1. PICK f \in Frames : HelloJoins(c, f)
    BY <1>5
  <2>2. \A d \in Conns : d \in Present(participants) \/ d = c
                              => d \in Present(participants')
    BY <2>1, HelloJoinsEffect DEF Present
  <2>3. host_conn_id' \in {host_conn_id, c} /\ host_conn_id' # None
    BY <1>1, <2>1, HelloJoinsEffect DEF RestoredHost
  <2> QED BY <1>1, <2>1, <2>2, <2>3, HelloJoinsEffect DEF HostPresent, ReaderOrder, RoomTypeOK
<1>6. CASE \E f \in Frames : HelloMissing(c, f)
  <2>1. PICK f \in Frames : HelloMissing(c, f)
    BY <1>6
  <2>2. reader'[c] = "failed"
    BY <2>1, HelloMissingEffect DEF ConnTypeOK
  <2> QED BY <1>1, <2>1, <2>2, HelloMissingEffect DEF HostPresent, ReaderOrder, RoomTypeOK
<1>7. CASE GrantHost(c) \/ GrantCoHost(c) \/ RevokeCoHost(c)
  <2>1. Joined(participants) \subseteq Present(participants)
    BY DEF Joined, Present
  <2> QED BY <1>1, <1>7, <2>1, RoleEffect DEF HostPresent, ReaderOrder, RoomTypeOK, Joined
<1>8. CASE Admit(c)
  <2>1. PICK t \in Waiting(participants) :
            /\ \A d \in Conns \ {t} : participants'[d] = participants[d]
            /\ participants'[t].status = "joined"
            /\ host_conn_id' = RestoredHost(t, participants[t].pid,
                                   host_conn_id, host_role_owner)
    BY <1>8, AdmitEffect
  <2>2. t \in Conns /\ c \in Joined(participants) /\ UNCHANGED anonymous_mode
    BY <1>8, AdmitEffect DEF Waiting
  <2>3. \A d \in Conns : d \in Present(participants) \/ d = t
                              => d \in Present(participants')
    BY <2>1 DEF Present
  <2>4. host_conn_id' \in {host_conn_id, t}
    BY <2>1 DEF RestoredHost
  <2> QED BY <1>1, <2>2, <2>3, <2>4 DEF HostPresent, ReaderOrder, RoomTypeOK
<1>9. CASE Connect(c) \/ \E f \in Frames : HelloWaits(c, f)
  <2>1. \A d \in Conns : /\ d \in Present(participants) => d \in Present(participants')
                         /\ d \in Joined(participants') => d \in Joined(participants)
    BY <1>9, OutsideEffect DEF Present, Joined
  <2>2. Joined(participants') \subseteq Conns
    BY DEF Joined
  <2> QED BY <1>1, <1>9, <2>1, <2>2, OutsideEffect
         DEF HostPresent, ReaderOrder, RoomTypeOK, roleVars
<1>10. CASE LeaveAnonymous(c) \/ \E f \in Frames : AnonHello(c, f)
  BY <1>10, LeaveAnonymousEffect, AnonHelloEffect DEF HostPresent
<1>11. CASE LeaveLast(c)
  BY <1>11, LeaveLastEffect DEF RoleInv
<1> QED BY <1>3, <1>4, <1>5, <1>6, <1>7, <1>8, <1>9, <1>10, <1>11 DEF Loud

\* Every step leaves the host role with its joined owner.
LEMMA OwnerIsHostStep ==
    ASSUME TypeOK, OwnerIsHost, UniqueIds, NoneAnonymous, Unborn,
           NEW c \in Conns, Loud(c)
    PROVE  OwnerIsHost'
<1> USE DEF TypeOK
<1>1. ASSUME NEW t \in Conns, participants' = Without(t),
             UNCHANGED <<anonymous_mode, host_role_owner>>,
             host_conn_id' = host_conn_id \/ host_conn_id = t
      PROVE  OwnerIsHost'
  BY <1>1, WithoutSets DEF OwnerIsHost, Joined
<1>2. CASE LeaveTransparent(c)
  BY <1>1, <1>2, LeaveEffect
<1>3. CASE Deny(c)
  <2>1. PICK t \in Waiting(participants) :
            /\ participants' = Without(t)
            /\ UNCHANGED <<anonymous_mode, host_role_owner>>
            /\ host_conn_id' = host_conn_id \/ host_conn_id = t
    BY <1>3, DenyEffect
  <2> QED BY <1>1, <2>1 DEF Waiting
<1>4. CASE \E f \in Frames : HelloJoins(c, f)
  <2>1. PICK f \in Frames : HelloJoins(c, f)
    BY <1>4
  <2>2. /\ ~anonymous_mode
        /\ IdFree(c, f.pid)
        /\ \A d \in Conns \ {c} : participants'[d] = participants[d]
        /\ participants'[c].pid = f.pid
        /\ IF host_conn_id = None
           THEN host_role_owner' = f.pid /\ host_conn_id' = c
           ELSE /\ host_role_owner' = host_role_owner
                /\ host_conn_id' = RestoredHost(c, f.pid, host_conn_id,
                                                host_role_owner)
    BY <2>1, HelloJoinsEffect
  <2>3. ASSUME NEW d \in Joined(participants'), participants'[d].pid = host_role_owner'
        PROVE  host_conn_id' = d
    <3>1. CASE d = c
      BY <2>2, <2>3, <3>1 DEF RestoredHost
    <3>2. CASE d # c
      <4>1. /\ d \in Joined(participants)
            /\ participants'[d].pid = participants[d].pid
            /\ participants[d].pid # f.pid
        BY <2>2, <3>2 DEF Joined, IdFree
      <4> QED BY <2>2, <2>3, <4>1 DEF OwnerIsHost, RestoredHost
    <3> QED BY <3>1, <3>2
  <2> QED BY <2>3 DEF OwnerIsHost
<1>5. CASE \E f \in Frames : HelloMissing(c, f)
  <2>1. PICK f \in Frames : HelloMissing(c, f)
    BY <1>5
  <2>2. \A d \in Joined(participants) : participants[d].pid # f.pid
    BY <2>1, HelloMissingEffect DEF IdFree, Joined, Present
  <2> QED BY <2>1, <2>2, HelloMissingEffect DEF OwnerIsHost
<1>6. CASE GrantHost(c) \/ GrantCoHost(c) \/ RevokeCoHost(c)
  <2>1. \A d \in Joined(participants) : d \in Conns
    BY DEF Joined
  <2> QED BY <1>6, <2>1, RoleEffect DEF OwnerIsHost, UniqueIds, NoneAnonymous
<1>7. CASE Admit(c)
  <2>1. PICK t \in Waiting(participants) :
            /\ \A d \in Conns \ {t} : participants'[d] = participants[d]
            /\ participants'[t].pid = participants[t].pid
            /\ participants'[t].status = "joined"
            /\ participants'[t].anon = participants[t].anon
            /\ host_conn_id' = RestoredHost(t, participants[t].pid,
                                   host_conn_id, host_role_owner)
    BY <1>7, AdmitEffect
  <2>2. t \in Conns /\ UNCHANGED <<host_role_owner, anonymous_mode>>
    BY <1>7, AdmitEffect DEF Waiting
  <2>3. ASSUME NEW d \in Joined(participants'), ~anonymous_mode,
               participants'[d].pid = host_role_owner
        PROVE  host_conn_id' = d
    <3>1. CASE d = t
      BY <2>1, <2>3, <3>1 DEF RestoredHost
    <3>2. CASE d # t
      <4>1. d \in Joined(participants) /\ d \in Conns
        BY <2>1, <3>2 DEF Joined
      <4>2. participants[d].pid # participants[t].pid
        BY <2>2, <2>3, <3>2, <4>1 DEF UniqueIds, NoneAnonymous
      <4> QED BY <2>1, <2>3, <3>2, <4>1, <4>2 DEF OwnerIsHost, RestoredHost
    <3> QED BY <3>1, <3>2
  <2> QED BY <2>2, <2>3 DEF OwnerIsHost
<1>8. CASE Connect(c) \/ \E f \in Frames : HelloWaits(c, f)
  <2>1. \A d \in Joined(participants') :
            /\ d \in Joined(participants)
            /\ participants'[d] = participants[d]
    BY <1>8, OutsideEffect DEF Joined
  <2> QED BY <1>8, <2>1, OutsideEffect DEF OwnerIsHost, roleVars
<1>9. CASE LeaveAnonymous(c) \/ \E f \in Frames : AnonHello(c, f)
  BY <1>9, LeaveAnonymousEffect, AnonHelloEffect DEF OwnerIsHost
<1>10. CASE LeaveLast(c)
  BY <1>10, LeaveLastEffect DEF RoleInv
<1> QED BY <1>2, <1>3, <1>4, <1>5, <1>6, <1>7, <1>8, <1>9, <1>10 DEF Loud

\* A connection id that was not handed out stays unused.
LEMMA UnbornStep ==
    ASSUME TypeOK, Unborn, NEW c \in Conns, Loud(c)
    PROVE  Unborn'
<1> USE DEF TypeOK
<1>1. ReaderOrder
  BY ReaderOrderStep
<1>2. ASSUME NEW t \in Conns, participants' = Without(t)
      PROVE  Unborn'
  <2>1. participants'[t].status = "absent"
    BY <1>2 DEF Without, Absent, Transparent, RoomTypeOK
  <2> QED BY <1>1, <1>2, <2>1, WithoutSets DEF Unborn, ReaderOrder
<1>3. CASE LeaveTransparent(c) \/ LeaveAnonymous(c) \/ Deny(c)
  BY <1>2, <1>3, LeaveEffect, LeaveAnonymousEffect, DenyEffect DEF Waiting
<1>4. ASSUME reader[c] # "none",
             \A d \in Conns \ {c} : participants'[d] = participants[d]
      PROVE  Unborn'
  BY <1>1, <1>4 DEF Unborn, ReaderOrder
<1>5. CASE \E f \in Frames : \/ HelloWaits(c, f) \/ HelloJoins(c, f)
                             \/ HelloMissing(c, f) \/ AnonHello(c, f)
  <2>1. PICK f \in Frames : \/ HelloWaits(c, f) \/ HelloJoins(c, f)
                            \/ HelloMissing(c, f) \/ AnonHello(c, f)
    BY <1>5
  <2>2. reader[c] = "running"
    BY <2>1 DEF HelloWaits, HelloJoins, HelloMissing, HelloAccepted, AnonHello,
                Receives
  <2>3. \A d \in Conns \ {c} : participants'[d] = participants[d]
    BY <2>1, OutsideEffect, HelloJoinsEffect, HelloMissingEffect, AnonHelloEffect
  <2> QED BY <1>4, <2>2, <2>3
<1>6. CASE Connect(c)
  <2>1. reader'[c] = "running"
    BY <1>6 DEF Connect, ConnTypeOK
  <2> QED BY <1>1, <1>6, <2>1, OutsideEffect DEF Unborn, ReaderOrder
<1>7. CASE GrantHost(c) \/ GrantCoHost(c) \/ RevokeCoHost(c)
  BY <1>1, <1>7, RoleEffect DEF Unborn, ReaderOrder
<1>8. CASE Admit(c)
  <2>1. PICK t \in Waiting(participants) :
            \A d \in Conns \ {t} : participants'[d] = participants[d]
    BY <1>8, AdmitEffect
  <2>2. t \in Conns /\ reader[t] # "none"
    BY DEF Waiting, Unborn
  <2> QED BY <1>1, <2>1, <2>2 DEF Unborn, ReaderOrder
<1>9. CASE LeaveLast(c)
  BY <1>9, LeaveLastEffect DEF RoleInv
<1> QED BY <1>3, <1>5, <1>6, <1>7, <1>8, <1>9 DEF Loud
-----------------------------------------------------------------------------
\* The invariant is inductive.
LEMMA RoleInvStep == TypeOK /\ RoleInv /\ [Next]_vars => RoleInv'
<1> SUFFICES ASSUME TypeOK, RoleInv, [Next]_vars PROVE RoleInv'
  OBVIOUS
<1>1. CASE UNCHANGED vars
  <2>1. SameRoster /\ ReaderOrder
    BY <1>1 DEF vars, connVars, roomVars, SameRoster, ReaderOrder
  <2> QED BY <2>1, QuietRoleInv
<1>2. ASSUME NEW c \in Conns, Quiet(c)
      PROVE  RoleInv'
  BY <1>2, QuietSteps, ReaderOrderStep, QuietRoleInv DEF TypeOK
<1>3. ASSUME NEW c \in Conns, Loud(c)
      PROVE  RoleInv'
  BY <1>3, UnbornStep, UniqueIdsStep, CoHostBindingStep, HostPresentStep,
     OwnerIsHostStep DEF RoleInv
<1> QED BY <1>1, <1>2, <1>3, StepKinds

\* The inductive invariant holds in every reachable state.
THEOREM RolesCorrect == Spec => []RoleInv
<1>1. Init => RoleInv
  BY EmptyRoom DEF Init
<1> QED BY <1>1, RoleInvStep, TypeCorrect, PTL DEF Spec

\* sync_active_co_host_bindings is called wherever it is needed: the active
\* co-hosts are always the joined holders of a reserved co-host id.
THEOREM CoHostsBound == Spec => []CoHostBinding
BY RolesCorrect, PTL DEF RoleInv

\* A transparent room with a joined participant always has a host, in the room
\* or a denied connection whose Hello has failed, and whoever the role is
\* reserved for holds it once joined: restore, claim, succession and transfer
\* agree.
THEOREM HostsSound == Spec => []HostSound
BY RolesCorrect, PTL DEF RoleInv, HostSound

\* No participant id is held twice in a transparent room.
THEOREM IdsUnique == Spec => []UniqueIds
BY RolesCorrect, PTL DEF RoleInv
-----------------------------------------------------------------------------
(***************************************************************************)
(* Anonymous and transparent rooms: ModeExclusion, that no handler carries *)
(* a plaintext frame across a change of mode, and that key epochs and      *)
(* capabilities belong to joined transparent participants.                 *)
(***************************************************************************)
\* The read loop and the handler of a connection: one of them is at work.
IdleTask ==
    \A c \in Conns :
        reader[c] # "running" \/ task[c].stage = "idle" => task[c] = Idle

\* Every member of an anonymous room that still handles a plaintext frame
\* passed the gate before the room became anonymous, and has not joined.
StrandedPlaintext ==
    \A c \in Conns :
        task[c].frame.kind \in PlaintextKinds /\ anonymous_mode
            => c \notin Joined(participants)

\* A plaintext frame whose sender was found to have joined.
Committed(t) ==
    /\ t.frame.kind \in PlaintextKinds
    /\ \/ t.stage \in {"store", "relay", "announce"}
       \/ t.stage = "e2ee" /\ t.frame.kind = "Chat"

CommittedJoined ==
    \A c \in Conns :
        Committed(task[c]) => ~anonymous_mode /\ c \in Joined(participants)

ModeInv == /\ IdleTask /\ StrandedPlaintext /\ CommittedJoined
           /\ ModeExclusion /\ KeyedStateOwned
-----------------------------------------------------------------------------
\* What a step of connection c does to its own task and to no other.
Moves(c, t) ==
    /\ task' = [task EXCEPT ![c] = t]
    /\ \/ UNCHANGED reader
       \/ t = Idle /\ reader' = [reader EXCEPT ![c] = "failed"]
    /\ t = Idle \/ t.stage # "idle"
    /\ reader[c] = "running" \/ task[c].stage # "idle"
    /\ t.frame.kind \in PlaintextKinds =>
           ~anonymous_mode \/ t.frame.kind = task[c].frame.kind
    /\ Committed(t) =>
           \/ Committed(task[c])
           \/ c \in Joined(participants) /\ task[c].frame.kind \in PlaintextKinds

Rests(c) ==
    /\ UNCHANGED task
    /\ \E r \in Readers : reader' = [reader EXCEPT ![c] = r]
    /\ reader[c] # "running" \/ task[c].stage = "idle"

\* Going back to the read loop, with or without an error.
LEMMA IdleMoves ==
    ASSUME NEW c \in Conns, reader[c] = "running" \/ task[c].stage # "idle",
           GoTo(c, Idle) \/ ReturnErr(c) \/ Reply(c)
    PROVE  Moves(c, Idle)
BY DEF GoTo, ReturnErr, Reply, Moves, Idle, NoFrame, Committed, PlaintextKinds,
       E2eeGatedKinds

\* A frame that is not plaintext may go anywhere.
LEMMA SealedMoves ==
    ASSUME NEW c \in Conns, reader[c] = "running" \/ task[c].stage # "idle",
           NEW t, t.stage # "idle", t.frame.kind \notin PlaintextKinds, GoTo(c, t)
    PROVE  Moves(c, t)
BY DEF GoTo, Moves, Committed

\* A handler that has found its sender joined may go anywhere with its frame.
LEMMA JoinedMoves ==
    ASSUME NEW c \in Conns, task[c].stage # "idle",
           task[c].frame.kind \in PlaintextKinds,
           c \in Joined(participants) \/ Committed(task[c]),
           NEW t, t.stage # "idle", t.frame.kind = task[c].frame.kind, GoTo(c, t)
    PROVE  Moves(c, t)
BY DEF GoTo, Moves, Committed

\* Every step changes at most the task of its connection, in one of the ways
\* Moves allows.
LEMMA TaskMoves ==
    ASSUME TypeOK, NEW c \in Conns, Quiet(c) \/ Loud(c)
    PROVE  Rests(c) \/ \E t : Moves(c, t)
<1> DEFINE f == task[c].frame
<1>1. CASE \/ Connect(c) \/ Close(c) \/ ReadFails(c) \/ LeaveLast(c)
           \/ LeaveTransparent(c) \/ LeaveAnonymous(c) \/ RotateAfterLeave(c)
  BY <1>1 DEF Connect, Close, ReadFails, LeaveLast, LeaveTransparent,
              LeaveAnonymous, RotateAfterLeave, Rests, Readers
<1>2. CASE \/ ReplyOnly(c) \/ SectionMissing(c) \/ ControlRefused(c)
           \/ ModerationRefused(c) \/ ModerationFails(c) \/ MediaRefused(c)
           \/ Relay(c) \/ Sent(c) \/ SendFails(c)
  <2>1. /\ reader[c] = "running" \/ task[c].stage # "idle"
        /\ GoTo(c, Idle) \/ ReturnErr(c) \/ Reply(c)
    BY <1>2 DEF ReplyOnly, SectionMissing, ControlRefused, ModerationRefused,
                ModerationFails, Moderates, MediaRefused, Relay, Sent,
                SendFails, Handling
  <2> QED BY <2>1, IdleMoves
<1>3. CASE Announce(c) \/ Notify(c)
  <2>1. /\ task[c].stage # "idle"
        /\ \/ GoTo(c, Idle)
           \/ \E to : GoTo(c, [stage |-> "sending", frame |-> NoFrame, to |-> to])
    BY <1>3 DEF Announce, Notify, Sending
  <2> QED BY <2>1, IdleMoves, SealedMoves
         DEF NoFrame, PlaintextKinds, E2eeGatedKinds
<1>4. CASE \E g \in Frames :
               \/ HelloNoRoom(c, g) \/ HelloRefused(c, g) \/ HelloMissing(c, g)
               \/ AnonHelloRefused(c, g) \/ SealedRefused(c, g)
  <2>1. reader[c] = "running" /\ (ReturnErr(c) \/ Reply(c))
    BY <1>4 DEF HelloNoRoom, HelloRefused, HelloMissing, HelloAccepted,
                AnonHelloRefused, SealedRefused, Receives
  <2> QED BY <2>1, IdleMoves
<1>5. CASE \E g \in Frames :
               \/ HelloWaits(c, g) \/ HelloJoins(c, g) \/ AnonHello(c, g)
               \/ GroupKeyUpdate(c, g) \/ RelayEncrypted(c, g)
  <2>1. PICK g \in Frames :
               \/ HelloWaits(c, g) \/ HelloJoins(c, g) \/ AnonHello(c, g)
               \/ GroupKeyUpdate(c, g) \/ RelayEncrypted(c, g)
    BY <1>5
  <2>2. /\ reader[c] = "running"
        /\ g.kind \in {"Hello", "AnonHello", "GroupKeyUpdate",
                       "EncryptedControl", "AnonEncryptedPayload"}
        /\ \E s \in {"notify", "announce", "relay"} : GoTo(c, At(s, g))
    BY <2>1 DEF HelloWaits, HelloJoins, HelloAccepted, AnonHello,
                GroupKeyUpdate, RelayEncrypted, Receives
  <2>3. PICK s \in {"notify", "announce", "relay"} : GoTo(c, At(s, g))
    BY <2>2
  <2>4. /\ At(s, g).stage # "idle"
        /\ At(s, g).frame.kind \notin PlaintextKinds
    BY <2>2 DEF At, PlaintextKinds, E2eeGatedKinds
  <2> QED BY <2>2, <2>3, <2>4, SealedMoves
<1>6. CASE \E g \in Frames : Gate(c, g)
  <2>1. PICK g \in Frames : Gate(c, g)
    BY <1>6
  <2>2. reader[c] = "running"
    BY <2>1 DEF Gate, Receives
  <2>3. CASE Reply(c)
    BY <2>2, <2>3, IdleMoves
  <2>4. CASE ~anonymous_mode /\ GoTo(c, At(StageAfterGate(g.kind), g))
    <3> DEFINE t == At(StageAfterGate(g.kind), g)
    <3>1. ~Committed(t) /\ t.stage # "idle"
      BY DEF At, StageAfterGate, Committed, E2eeGatedKinds
    <3> HIDE DEF t
    <3>2. Moves(c, t)
      BY <2>2, <2>4, <3>1 DEF GoTo, Moves, t
    <3> QED BY <3>2
  <2> QED BY <2>1, <2>3, <2>4 DEF Gate
<1>7. CASE HelloSeenGate(c) \/ VerifySigned(c) \/ RegateSigned(c) \/ E2eeGate(c)
  <2>1. task[c].stage # "idle" /\ f.kind \in PlaintextKinds
    BY <1>7 DEF HelloSeenGate, VerifySigned, RegateSigned, E2eeGate, Handling,
                PlaintextKinds
  <2>2. CASE Reply(c)
    BY <2>1, <2>2, IdleMoves
  <2>3. CASE c \in Joined(participants) /\ \E s \in {"e2ee", "regate"} : GoTo(c, At(s, f))
    BY <2>1, <2>3, JoinedMoves DEF At
  <2>4. CASE GoTo(c, At("apply", f))
    <3> DEFINE t == At("apply", f)
    <3>1. t.stage # "idle" /\ t.frame = f /\ ~Committed(t)
      BY DEF At, Committed
    <3> HIDE DEF t
    <3>2. Moves(c, t)
      BY <2>1, <2>4, <3>1 DEF GoTo, Moves, t
    <3> QED BY <3>2
  <2>5. CASE E2eeGate(c) /\ f.kind = "Chat" /\ GoTo(c, At("relay", f))
    <3>1. Committed(task[c])
      BY <2>1, <2>5 DEF E2eeGate, Handling, Committed
    <3> QED BY <2>1, <2>5, <3>1, JoinedMoves DEF At
  <2> QED BY <1>7, <2>2, <2>3, <2>4, <2>5
         DEF HelloSeenGate, VerifySigned, RegateSigned, E2eeGate
<1>8. CASE \/ GrantHost(c) \/ GrantCoHost(c) \/ RevokeCoHost(c)
           \/ UpdatePolicy(c)
  <2>1. /\ task[c].stage # "idle" /\ f.kind \in PlaintextKinds
        /\ c \in Joined(participants)
    BY <1>8 DEF GrantHost, GrantCoHost, RevokeCoHost, RoleGrantAllowed,
                RoleRevokeAllowed, SessionPolicyAllowed, SignedByHost,
                UpdatePolicy, Handling, PlaintextKinds
  <2>2. \E s \in {"announce", "relay"} : GoTo(c, At(s, f))
    BY <1>8 DEF GrantHost, GrantCoHost, RevokeCoHost, ChangeCoHosts,
                RoleOutcome, UpdatePolicy
  <2> QED BY <2>1, <2>2, JoinedMoves DEF At
<1>9. CASE \/ UpdateRoomConfig(c) \/ Mute(c) \/ Admit(c) \/ Deny(c)
  <2>1. /\ task[c].stage # "idle" /\ f.kind \in PlaintextKinds
        /\ c \in Joined(participants)
    BY <1>9 DEF UpdateRoomConfig, RoomConfigUpdateAllowed, Mute, Admit, Deny,
                Moderates, ModeratorAllowed, Handling, PlaintextKinds,
                ModerationKinds
  <2>2. \/ GoTo(c, Idle)
        \/ GoTo(c, At("relay", f))
        \/ \E t : GoTo(c, [At("announce", f) EXCEPT !.to = {t}])
    BY <1>9 DEF UpdateRoomConfig, Mute, Admit, Deny
  <2> QED BY <2>1, <2>2, IdleMoves, JoinedMoves DEF At
<1>10. CASE \/ SetParticipantState(c) \/ SetMediaTrack(c) \/ PassOn(c)
            \/ CheckCapability(c) \/ PublishKeyEpoch(c) \/ AckKeyRotation(c)
  <2>1. /\ task[c].stage # "idle" /\ f.kind \in PlaintextKinds
        /\ c \in Joined(participants)
    BY <1>10 DEF SetParticipantState, SetMediaTrack, PassOn, RelayAllowed,
                 CheckCapability, PublishKeyEpoch, E2EEKeyEpochAllowed,
                 AckKeyRotation, KeyRotationAckAllowed, SpeaksForItself,
                 Handling, PlaintextKinds, E2eeGatedKinds, RelayedKinds,
                 TwoSectionKinds
  <2>2. \E s \in {"store", "relay"} : GoTo(c, At(s, f))
    BY <1>10 DEF SetParticipantState, SetMediaTrack, PassOn, CheckCapability,
                 PublishKeyEpoch, AckKeyRotation
  <2> QED BY <2>1, <2>2, JoinedMoves DEF At
<1>11. CASE StoreCapability(c) \/ ResolveProfile(c)
  <2>1. task[c].stage # "idle" /\ f.kind \in PlaintextKinds /\ Committed(task[c])
    BY <1>11 DEF StoreCapability, ResolveProfile, Handling, Committed,
                 PlaintextKinds
  <2>2. CASE StoreCapability(c)
    BY <2>1, <2>2, JoinedMoves DEF StoreCapability, At
  <2>3. CASE ResolveProfile(c)
    <3> DEFINE t == At("relay", resolve_media_profile_negotiation(c, f))
    <3>1. f \in Frame /\ f.kind = "MediaProfileNegotiation"
      BY <2>3, TaskFrame DEF ResolveProfile, Handling, TypeOK
    <3>2. resolve_media_profile_negotiation(c, f).kind = f.kind
      BY <3>1 DEF resolve_media_profile_negotiation, Frame
    <3>3. t.stage # "idle" /\ t.frame.kind = f.kind /\ GoTo(c, t)
      BY <2>3, <3>2 DEF At, ResolveProfile
    <3> QED BY <2>1, <3>3, JoinedMoves
  <2> QED BY <1>11, <2>2, <2>3
<1>12. CASE BackpressureNotice(c)
  <2> DEFINE t == [task[c] EXCEPT !.to = @ \cup Moderators]
  <2>1. task[c].stage \in {"relay", "announce"} /\ GoTo(c, t)
    BY <1>12 DEF BackpressureNotice
  <2>2. t.stage = task[c].stage /\ t.frame = task[c].frame
    BY DEF TypeOK, ConnTypeOK, Task
  <2> HIDE DEF t
  <2>3. CASE f.kind \in PlaintextKinds
    BY <2>1, <2>2, <2>3, JoinedMoves DEF Committed
  <2>4. CASE f.kind \notin PlaintextKinds
    BY <2>1, <2>2, <2>4, SealedMoves
  <2> QED BY <2>3, <2>4
<1> QED BY <1>1, <1>2, <1>3, <1>4, <1>5, <1>6, <1>7, <1>8, <1>9, <1>10, <1>11,
           <1>12
       DEF Quiet, Loud
-----------------------------------------------------------------------------
(***************************************************************************)
(* What a step of connection c does to the mode and to who has joined.     *)
(***************************************************************************)
RosterMoves(c) ==
    /\ anonymous_mode' => anonymous_mode \/ Joined(participants) = {}
    /\ ~anonymous_mode' => ~anonymous_mode \/ Joined(participants') = {}
    /\ \A d \in Joined(participants) :
           d \in Joined(participants') \/ (d = c /\ reader[c] = "closing")
    /\ \A d \in Joined(participants') \ Joined(participants) :
           \/ ~anonymous_mode'
           \/ /\ d = c /\ task'[c].frame.kind = "AnonHello"
              /\ participants'[c].anon
    /\ \A d \in Joined(participants) \cap Joined(participants') :
           participants'[d].anon = participants[d].anon

\* How the steps that change the roster or the mode leave both.
LEMMA RosterSteps ==
    ASSUME TypeOK, RoleInv, ModeInv, NEW c \in Conns, Quiet(c) \/ Loud(c)
    PROVE  RosterMoves(c)
<1> USE DEF TypeOK
<1>1. CASE SameRoster
  <2>1. Joined(participants') = Joined(participants)
    BY <1>1, SameRosterSets
  <2> QED BY <1>1, <2>1 DEF SameRoster, RosterMoves, Joined
<1>2. ASSUME NEW t \in Conns, participants' = Without(t), UNCHANGED anonymous_mode,
             t \notin Joined(participants) \/ (t = c /\ reader[c] = "closing")
      PROVE  RosterMoves(c)
  <2>1. /\ Joined(participants') = Joined(participants) \ {t}
        /\ \A d \in Joined(participants') : participants'[d] = participants[d]
    BY <1>2, WithoutSets DEF Joined
  <2> QED BY <1>2, <2>1 DEF RosterMoves
<1>3. CASE LeaveTransparent(c) \/ LeaveAnonymous(c)
  BY <1>2, <1>3, LeaveEffect, LeaveAnonymousEffect
     DEF LeaveTransparent, LeaveAnonymous
<1>4. CASE Deny(c)
  <2>1. PICK t \in Waiting(participants) :
            participants' = Without(t) /\ UNCHANGED anonymous_mode
    BY <1>4, DenyEffect
  <2>2. t \in Conns /\ t \notin Joined(participants)
    BY DEF Waiting, Joined
  <2> QED BY <1>2, <2>1, <2>2
<1>5. CASE LeaveLast(c)
  <2>1. Joined(participants') = {} /\ ~anonymous_mode'
    BY <1>5 DEF LeaveLast, RemoveRoom, Absent, Transparent, Joined
  <2>2. \A d \in Joined(participants) : d = c
    BY <1>5, WithoutSets DEF LeaveLast, Joined, Present
  <2>3. reader[c] = "closing"
    BY <1>5 DEF LeaveLast
  <2> QED BY <2>1, <2>2, <2>3 DEF RosterMoves
<1>6. CASE Connect(c) \/ \E f \in Frames : HelloWaits(c, f)
  <2>1. c \notin Joined(participants)
    BY <1>6 DEF Connect, RoleInv, Unborn, Joined, HelloWaits,
                routed_to_waiting_room
  <2>2. /\ Joined(participants') = Joined(participants)
        /\ \A d \in Joined(participants) : participants'[d] = participants[d]
    BY <1>6, <2>1, OutsideEffect DEF Joined
  <2> QED BY <1>6, <2>2, OutsideEffect DEF RosterMoves
<1>7. CASE \E f \in Frames : HelloJoins(c, f)
  <2>1. /\ ~anonymous_mode /\ UNCHANGED anonymous_mode
        /\ \A d \in Conns \ {c} : participants'[d] = participants[d]
        /\ participants'[c].status = "joined"
        /\ participants'[c].anon = FALSE
    BY <1>7, HelloJoinsEffect
  <2>2. participants[c].anon = FALSE
    BY <2>1 DEF RoleInv, NoneAnonymous, RoomTypeOK, Participant
  <2> QED BY <2>1, <2>2 DEF RosterMoves, Joined
<1>8. CASE \E f \in Frames : HelloMissing(c, f)
  BY <1>8, HelloMissingEffect DEF RosterMoves
<1>9. CASE GrantHost(c) \/ GrantCoHost(c) \/ RevokeCoHost(c)
  BY <1>9, RoleEffect DEF RosterMoves
<1>10. CASE Admit(c)
  <2>1. PICK t \in Waiting(participants) :
            /\ \A d \in Conns \ {t} : participants'[d] = participants[d]
            /\ participants'[t].status = "joined"
            /\ participants'[t].anon = participants[t].anon
    BY <1>10, AdmitEffect
  <2>2. UNCHANGED anonymous_mode /\ c \in Joined(participants)
    BY <1>10, AdmitEffect
  <2>3. task[c].frame.kind \in PlaintextKinds
    BY <1>10 DEF Admit, Moderates, Handling, ModerationKinds, PlaintextKinds
  <2>4. ~anonymous_mode
    BY <2>2, <2>3 DEF ModeInv, StrandedPlaintext
  <2>5. \A d \in Joined(participants) :
            d \in Joined(participants') /\ participants'[d].anon = participants[d].anon
    BY <2>1 DEF Joined
  <2> QED BY <2>2, <2>4, <2>5 DEF RosterMoves
<1>11. CASE \E f \in Frames : AnonHello(c, f)
  <2>1. PICK f \in Frames : AnonHello(c, f)
    BY <1>11
  <2>2. /\ anonymous_mode' = TRUE
        /\ \A d \in Conns \ {c} : participants'[d] = participants[d]
        /\ participants'[c].anon = TRUE
    BY <2>1, AnonHelloEffect
  <2>3. participants'[c].status = "joined"
    BY <2>1 DEF AnonHello, apply_anon_hello_state, RoomTypeOK, Participant
  <2>4. task'[c].frame.kind = "AnonHello"
    BY <2>1 DEF AnonHello, GoTo, At, ConnTypeOK
  <2>5. anonymous_mode \/ Joined(participants) = {}
    <3>1. anonymous_mode \/ Joined(participants) \ AnonJoined(participants) = {}
      BY <2>1 DEF AnonHello, AnonHelloAccepted, transparent_hello_seen
    <3> QED BY <3>1 DEF RoleInv, NoneAnonymous, AnonJoined, Joined
  <2>6. c \in Joined(participants) => participants[c].anon = TRUE
    BY <2>5 DEF ModeInv, ModeExclusion, AnonJoined, RoomTypeOK, Participant
  <2>7. \A d \in Joined(participants) :
            d \in Joined(participants') /\ participants'[d].anon = participants[d].anon
    BY <2>2, <2>3, <2>6 DEF Joined
  <2>8. \A d \in Joined(participants') \ Joined(participants) : d = c
    BY <2>2 DEF Joined
  <2> QED BY <2>2, <2>4, <2>5, <2>7, <2>8 DEF RosterMoves
<1> QED BY <1>1, <1>3, <1>4, <1>5, <1>6, <1>7, <1>8, <1>9, <1>10, <1>11,
           QuietSteps DEF Loud
-----------------------------------------------------------------------------
\* A step of c is a step of c's task alone.
LEMMA OtherTasks ==
    ASSUME TypeOK, NEW c \in Conns, Rests(c) \/ \E t : Moves(c, t)
    PROVE  \A d \in Conns \ {c} : task'[d] = task[d] /\ reader'[d] = reader[d]
BY DEF Rests, Moves, TypeOK, ConnTypeOK

\* Idle tasks, stranded plaintext and committed frames are preserved.
LEMMA TaskInvStep ==
    ASSUME TypeOK, RoleInv, ModeInv, NEW c \in Conns, Quiet(c) \/ Loud(c)
    PROVE  IdleTask' /\ StrandedPlaintext' /\ CommittedJoined'
<1> USE DEF TypeOK
<1>1. RosterMoves(c)
  BY RosterSteps
<1>2. \A d \in Conns \ {c} : task'[d] = task[d] /\ reader'[d] = reader[d]
  BY TaskMoves, OtherTasks
<1>3. /\ Joined(participants) \subseteq Conns
      /\ Joined(participants') \subseteq Conns
  BY DEF Joined
<1>4. CASE Rests(c)
  <2>1. task' = task /\ task[c] = Idle
    BY <1>4 DEF Rests, ModeInv, IdleTask
  <2>2. IdleTask'
    BY <1>2, <2>1 DEF ModeInv, IdleTask
  <2>3. task[c].frame.kind \notin PlaintextKinds /\ ~Committed(task[c])
    BY <2>1 DEF Idle, NoFrame, PlaintextKinds, E2eeGatedKinds, Committed
  <2>4. task[c].frame.kind # "AnonHello"
    BY <2>1 DEF Idle, NoFrame
  <2>5. StrandedPlaintext'
    BY <1>1, <1>3, <2>1, <2>4 DEF RosterMoves, ModeInv, StrandedPlaintext
  <2>6. CommittedJoined'
    BY <1>1, <1>3, <2>1, <2>3 DEF RosterMoves, ModeInv, CommittedJoined
  <2> QED BY <2>2, <2>5, <2>6
<1>5. ASSUME NEW t, Moves(c, t)
      PROVE  IdleTask' /\ StrandedPlaintext' /\ CommittedJoined'
  <2>1. task'[c] = t
    BY <1>5 DEF Moves, ConnTypeOK
  <2>2. reader[c] = "running"
    BY <1>5 DEF Moves, ModeInv, IdleTask, Idle
  <2>3. IdleTask'
    <3>1. reader'[c] # "running" \/ t.stage = "idle" => t = Idle
      BY <1>5, <2>2 DEF Moves
    <3> QED BY <1>2, <2>1, <3>1 DEF ModeInv, IdleTask
  <2>4. StrandedPlaintext'
    <3> SUFFICES ASSUME NEW d \in Conns, task'[d].frame.kind \in PlaintextKinds,
                        anonymous_mode', d \in Joined(participants')
                 PROVE  FALSE
      BY DEF StrandedPlaintext
    <3>1. d \in Joined(participants)
      BY <1>1 DEF RosterMoves, PlaintextKinds, E2eeGatedKinds
    <3>2. anonymous_mode
      BY <1>1, <3>1 DEF RosterMoves
    <3>3. CASE d # c
      BY <1>2, <3>1, <3>2, <3>3 DEF ModeInv, StrandedPlaintext
    <3>4. CASE d = c
      BY <1>5, <2>1, <3>1, <3>2, <3>4 DEF Moves, ModeInv, StrandedPlaintext
    <3> QED BY <3>3, <3>4
  <2>5. CommittedJoined'
    <3> SUFFICES ASSUME NEW d \in Conns, Committed(task'[d])
                 PROVE  ~anonymous_mode' /\ d \in Joined(participants')
      BY DEF CommittedJoined, Committed
    <3>1. ~anonymous_mode /\ d \in Joined(participants)
      <4>1. CASE d # c
        BY <1>2, <4>1 DEF ModeInv, CommittedJoined
      <4>2. CASE d = c
        BY <1>5, <2>1, <4>2
           DEF Moves, ModeInv, CommittedJoined, StrandedPlaintext
      <4> QED BY <4>1, <4>2
    <3> QED BY <1>1, <2>2, <3>1 DEF RosterMoves
  <2> QED BY <2>3, <2>4, <2>5
<1> QED BY <1>4, <1>5, TaskMoves

\* No step mixes anonymous and transparent participants.
LEMMA ModeExclusionStep ==
    ASSUME TypeOK, RoleInv, ModeInv, RoleInv', NEW c \in Conns,
           Quiet(c) \/ Loud(c)
    PROVE  ModeExclusion'
<1>1. RosterMoves(c)
  BY RosterSteps
<1>2. ASSUME anonymous_mode', NEW d \in Joined(participants')
      PROVE  participants'[d].anon
  BY <1>1, <1>2 DEF RosterMoves, ModeInv, ModeExclusion, AnonJoined
<1>3. (~anonymous_mode => \A d \in Conns : ~participants[d].anon)'
  BY DEF RoleInv, NoneAnonymous
<1> QED BY <1>2, <1>3 DEF ModeExclusion, AnonJoined

\* Key epochs and capabilities stay with their owners.
LEMMA KeyedStep ==
    ASSUME TypeOK, RoleInv, ModeInv, NEW c \in Conns, Quiet(c) \/ Loud(c)
    PROVE  KeyedStateOwned'
<1> USE DEF TypeOK
<1> DEFINE Owners(ps) == Joined(ps) \ AnonJoined(ps)
           keys == <<e2ee_epochs, key_rotation_ack_epochs, device_caps_by_conn>>
<1>1. RosterMoves(c)
  BY RosterSteps
<1>2. \A d \in Owners(participants) :
          d \in Owners(participants') \/ (d = c /\ reader[c] = "closing")
  BY <1>1 DEF RosterMoves, AnonJoined
<1>3. CASE UNCHANGED keys /\ reader[c] # "closing"
  BY <1>2, <1>3 DEF ModeInv, KeyedStateOwned
<1>4. ASSUME reader[c] = "running" \/ task[c].stage # "idle"
      PROVE  reader[c] # "closing"
  BY <1>4 DEF ModeInv, IdleTask, Idle
<1>5. CASE LeaveLast(c)
  BY <1>5 DEF LeaveLast, RemoveRoom, NoCaps, KeyedStateOwned
<1>6. CASE LeaveTransparent(c) \/ LeaveAnonymous(c)
  <2>1. ForgetConn(c)
    BY <1>6 DEF LeaveTransparent, LeaveAnonymous
  <2> QED BY <1>2, <2>1
         DEF ForgetConn, NoCaps, ModeInv, KeyedStateOwned, RoomTypeOK
<1>7. CASE Deny(c)
  <2>1. PICK t \in Waiting(participants) :
            /\ e2ee_epochs' = [e2ee_epochs EXCEPT ![t] = 0]
            /\ key_rotation_ack_epochs' = [key_rotation_ack_epochs EXCEPT ![t] = 0]
    BY <1>7 DEF Deny
  <2>2. reader[c] # "closing" /\ UNCHANGED device_caps_by_conn
    BY <1>4, <1>7 DEF Deny, Moderates, Handling
  <2> QED BY <1>2, <2>1, <2>2 DEF ModeInv, KeyedStateOwned, RoomTypeOK
<1>8. CASE \/ StoreCapability(c) \/ PublishKeyEpoch(c) \/ AckKeyRotation(c)
  <2>1. task[c].stage # "idle" /\ task[c].frame.kind \in PlaintextKinds
    BY <1>8 DEF StoreCapability, PublishKeyEpoch, AckKeyRotation, Handling,
                PlaintextKinds
  <2>2. reader[c] # "closing"
    BY <1>4, <2>1
  <2>3. c \in Joined(participants) /\ ~anonymous_mode
    <3>1. CASE StoreCapability(c)
      BY <2>1, <3>1 DEF StoreCapability, Handling, ModeInv, CommittedJoined,
                        Committed
    <3>2. CASE PublishKeyEpoch(c) \/ AckKeyRotation(c)
      BY <2>1, <3>2 DEF PublishKeyEpoch, AckKeyRotation, E2EEKeyEpochAllowed,
                        KeyRotationAckAllowed, SpeaksForItself, ModeInv,
                        StrandedPlaintext
    <3> QED BY <1>8, <3>1, <3>2
  <2>4. c \in Owners(participants)
    BY <2>3 DEF RoleInv, NoneAnonymous, AnonJoined
  <2>5. CASE StoreCapability(c)
    <3>1. \A d \in Conns \ {c} : device_caps_by_conn'[d] = device_caps_by_conn[d]
      BY <2>5 DEF StoreCapability, RoomTypeOK
    <3>2. UNCHANGED <<e2ee_epochs, key_rotation_ack_epochs>>
      BY <2>5 DEF StoreCapability, keyVars
    <3> QED BY <1>2, <2>2, <2>4, <3>1, <3>2 DEF ModeInv, KeyedStateOwned
  <2> DEFINE f == task[c].frame
  <2>6. CASE PublishKeyEpoch(c)
    <3>1. f \in Frame /\ f.kind = "E2EEKeyEpoch"
      BY <2>6, TaskFrame DEF PublishKeyEpoch, Handling
    <3>2. f.epoch \in Nat
      BY <3>1, KeyFields
    <3>3. /\ e2ee_epochs' = [e2ee_epochs EXCEPT ![c] = f.epoch]
          /\ f.epoch > e2ee_epochs[c]
          /\ UNCHANGED <<key_rotation_ack_epochs, device_caps_by_conn>>
      BY <2>6 DEF PublishKeyEpoch, E2EEKeyEpochAllowed
    <3>4. \A d \in Conns : key_rotation_ack_epochs'[d] <= e2ee_epochs'[d]
      BY <3>2, <3>3 DEF ModeInv, KeyedStateOwned, RoomTypeOK
    <3> QED BY <1>2, <2>2, <2>4, <3>3, <3>4
           DEF ModeInv, KeyedStateOwned, RoomTypeOK
  <2>7. CASE AckKeyRotation(c)
    <3>1. /\ key_rotation_ack_epochs' = [key_rotation_ack_epochs EXCEPT ![c] = f.epoch]
          /\ f.epoch <= e2ee_epochs[c]
          /\ UNCHANGED <<e2ee_epochs, device_caps_by_conn>>
      BY <2>7 DEF AckKeyRotation, KeyRotationAckAllowed
    <3> QED BY <1>2, <2>2, <3>1 DEF ModeInv, KeyedStateOwned, RoomTypeOK
  <2> QED BY <1>8, <2>5, <2>6, <2>7
<1>9. CASE \/ Connect(c) \/ Close(c) \/ ReadFails(c) \/ RotateAfterLeave(c)
           \/ ReplyOnly(c)
  BY <1>3, <1>9 DEF Connect, Close, ReadFails, RotateAfterLeave, ReplyOnly,
         roomVars, keyVars
<1>10. CASE \E f \in Frames :
               \/ HelloNoRoom(c, f) \/ HelloRefused(c, f) \/ HelloWaits(c, f)
               \/ HelloJoins(c, f) \/ HelloMissing(c, f) \/ AnonHello(c, f)
               \/ AnonHelloRefused(c, f) \/ GroupKeyUpdate(c, f)
               \/ RelayEncrypted(c, f) \/ SealedRefused(c, f) \/ Gate(c, f)
  <2>1. UNCHANGED keys /\ reader[c] = "running"
    BY <1>10 DEF HelloNoRoom, HelloRefused, HelloWaits, HelloJoins,
           HelloMissing, HelloAccepted, AnonHello, AnonHelloRefused,
           GroupKeyUpdate, RelayEncrypted, SealedRefused, Gate, Receives,
           roomVars, keyVars
  <2> QED BY <1>3, <2>1
<1>11. CASE \/ HelloSeenGate(c) \/ E2eeGate(c) \/ SectionMissing(c)
            \/ UpdatePolicy(c) \/ UpdateRoomConfig(c) \/ ControlRefused(c)
            \/ VerifySigned(c) \/ RegateSigned(c) \/ ModerationRefused(c)
            \/ ModerationFails(c) \/ Mute(c) \/ Admit(c)
  <2>1. UNCHANGED keys /\ task[c].stage # "idle"
    BY <1>11 DEF HelloSeenGate, E2eeGate, SectionMissing, UpdatePolicy,
           UpdateRoomConfig, ControlRefused, VerifySigned, RegateSigned,
           ModerationRefused, ModerationFails, Mute, Admit, Moderates,
           Handling, roomVars, keyVars
  <2> QED BY <1>3, <1>4, <2>1
<1>12. CASE GrantHost(c) \/ GrantCoHost(c) \/ RevokeCoHost(c)
  <2>1. UNCHANGED keys /\ task[c].stage # "idle"
    BY <1>12 DEF GrantHost, GrantCoHost, RevokeCoHost, ChangeCoHosts,
           RoleOutcome, Handling, keyVars
  <2> QED BY <1>3, <1>4, <2>1
<1>13. CASE \/ SetParticipantState(c) \/ SetMediaTrack(c) \/ PassOn(c)
            \/ CheckCapability(c) \/ ResolveProfile(c) \/ MediaRefused(c)
            \/ Relay(c) \/ Announce(c) \/ Notify(c) \/ Sent(c) \/ SendFails(c)
            \/ BackpressureNotice(c)
  <2>1. UNCHANGED keys /\ task[c].stage # "idle"
    BY <1>13 DEF SetParticipantState, SetMediaTrack, PassOn, CheckCapability,
           ResolveProfile, MediaRefused, Relay, Announce, Notify, Sent,
           SendFails, BackpressureNotice, Handling, roomVars, keyVars
  <2> QED BY <1>3, <1>4, <2>1
<1> QED BY <1>5, <1>6, <1>7, <1>8, <1>9, <1>10, <1>11, <1>12, <1>13
       DEF Quiet, Loud
-----------------------------------------------------------------------------
\* The invariant is inductive.
LEMMA ModeInvStep ==
    TypeOK /\ RoleInv /\ RoleInv' /\ ModeInv /\ [Next]_vars => ModeInv'
<1> SUFFICES ASSUME TypeOK, RoleInv, RoleInv', ModeInv, [Next]_vars
             PROVE  ModeInv'
  OBVIOUS
<1>1. CASE UNCHANGED vars
  BY <1>1 DEF vars, connVars, roomVars, keyVars, ModeInv, IdleTask,
         StrandedPlaintext, CommittedJoined, Committed, ModeExclusion,
         KeyedStateOwned
<1>2. ASSUME NEW c \in Conns, Quiet(c) \/ Loud(c)
      PROVE  ModeInv'
  BY <1>2, TaskInvStep, ModeExclusionStep, KeyedStep DEF ModeInv
<1> QED BY <1>1, <1>2, StepKinds

\* The invariant holds in a room without participants.
LEMMA ModeInvInit == Init => ModeInv
<1> SUFFICES ASSUME Init PROVE ModeInv
  OBVIOUS
<1>1. \A c \in Conns : task[c] = Idle /\ participants[c] = Absent
  BY DEF Init
<1>2. \A c \in Conns : task[c].frame.kind \notin PlaintextKinds
  BY <1>1 DEF Idle, NoFrame, PlaintextKinds, E2eeGatedKinds
<1>3. IdleTask /\ StrandedPlaintext /\ CommittedJoined
  BY <1>1, <1>2 DEF IdleTask, StrandedPlaintext, CommittedJoined, Committed
<1>4. ModeExclusion
  BY <1>1 DEF Init, ModeExclusion, Absent, Transparent
<1>5. KeyedStateOwned
  BY DEF Init, KeyedStateOwned, NoCaps
<1> QED BY <1>3, <1>4, <1>5 DEF ModeInv

\* The inductive invariant about modes holds in every reachable state.
THEOREM ModesCorrect == Spec => []ModeInv
BY ModeInvInit, ModeInvStep, TypeCorrect, RolesCorrect, PTL DEF Spec

\* AnonHello and Hello never both succeed in one life of a room; and a
\* plaintext frame that has passed its checks is relayed in a transparent room
\* for a joined sender, although the handler has released the mutex since: a
\* room with a joined transparent participant cannot turn anonymous.
THEOREM ModesStayApart == Spec => []ModesApart
<1>1. ModeInv => ModesApart
  BY DEF ModeInv, CommittedJoined, Committed, ModesApart, PlaintextStaysTransparent
<1> QED BY <1>1, ModesCorrect, PTL

\* Key epochs and capabilities never outlive the participant they belong to,
\* and no acknowledgement runs ahead of the key.
THEOREM KeyedStateCorrect == Spec => []KeyedStateOwned
BY ModesCorrect, PTL DEF ModeInv
=============================================================================
