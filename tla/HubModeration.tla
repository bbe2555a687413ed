---------------------------- MODULE HubModeration ---------------------------
(***************************************************************************)
(* The handlers that change who may do what: RoleGrant, RoleRevoke,        *)
(* SessionPolicy, RoomConfigUpdate, Moderation and ModerationSigned.       *)
(***************************************************************************)
EXTENDS HubControl

\* A joined host that signs as itself.
SignedByHost(c, f) ==
    /\ c \in Joined(participants)
    /\ host_conn_id = c
    /\ participants[c].pid = f.by

\* The connections a role frame may mean (find on a HashMap).
RoleTargets(f) == {t \in Joined(participants) : participants[t].pid = f.target}

RoleGrantAllowed(c, f) ==
    /\ SignedByHost(c, f)
    /\ RoleTargets(f) # {}
    /\ f.role # "Participant"
    /\ f.role = "CoHost" => host_conn_id \notin RoleTargets(f)
    /\ ClockAllows("role_grant", f.by, f.at)

RoleRevokeAllowed(c, f) ==
    /\ SignedByHost(c, f)
    /\ RoleTargets(f) # {}
    /\ f.role = "CoHost"
    /\ ClockAllows("role_revoke", f.by, f.at)

SessionPolicyAllowed(c, f) ==
    /\ SignedByHost(c, f)
    /\ f.policy.policy_epoch > policy.policy_epoch
    /\ f.policy.max_participants >= 1
    /\ ClockAllows("session_policy", f.by, f.at)

RoomConfigUpdateAllowed(c) == c \in Joined(participants) /\ host_conn_id = c

RoleOutcome_Silent(c, permissions_changed, role_change) ==
    /\ presence_sequence' = SatIncIf(presence_sequence, role_change)
    /\ GoTo(c, At(IF permissions_changed THEN "announce" ELSE "relay",
                  task[c].frame))
    /\ UNCHANGED <<participants, device_caps_by_conn, keyVars, configVars,
           permissions_epoch, anonymous_mode>>

\* The end of an accepted role change; the presence sequence moves when a
\* RoleChangeEntry is announced.
RoleOutcome(c, permissions_changed, role_change) ==
    /\ permissions_epoch' = SatIncIf(permissions_epoch, permissions_changed)
    /\ presence_sequence' = SatIncIf(presence_sequence, role_change)
    /\ GoTo(c, At(IF permissions_changed THEN "announce" ELSE "relay",
                  task[c].frame))
    /\ UNCHANGED <<participants, device_caps_by_conn, keyVars, configVars,
           anonymous_mode>>

\* apply_role_grant of Host: the role moves to the target for good.
GrantHost(c) ==
    /\ Handling(c, "apply", {"RoleGrant"})
    /\ LET f == task[c].frame
       IN  /\ f.role = "Host"
           /\ RoleGrantAllowed(c, f)
           /\ AdvanceClock("role_grant", f.by, f.at)
           /\ host_role_owner' = f.target
           /\ \E t \in RoleTargets(f) :
                  /\ host_conn_id' = t
                  /\ co_host_conn_ids' =
                         ActiveCoHosts(participants, t, co_host_role_owners)
                  /\ RoleOutcome(c,
                         \/ host_role_owner # f.target
                         \/ host_conn_id # t
                         \/ co_host_conn_ids' # co_host_conn_ids,
                         host_conn_id # t)
    /\ UNCHANGED co_host_role_owners

\* RoleGrant and RoleRevoke of CoHost differ in the owners they leave.
ChangeCoHosts(c, owners) ==
    /\ co_host_role_owners' = owners
    /\ co_host_conn_ids' = ActiveCoHosts(participants, host_conn_id, owners)
    /\ LET changed == \/ owners # co_host_role_owners
                      \/ co_host_conn_ids' # co_host_conn_ids
       IN  RoleOutcome(c, changed, changed)
    /\ UNCHANGED <<host_conn_id, host_role_owner>>

GrantCoHost(c) ==
    /\ Handling(c, "apply", {"RoleGrant"})
    /\ LET f == task[c].frame
       IN  /\ f.role = "CoHost"
           /\ RoleGrantAllowed(c, f)
           /\ AdvanceClock("role_grant", f.by, f.at)
           /\ ChangeCoHosts(c, co_host_role_owners \cup {f.target})

RevokeCoHost(c) ==
    /\ Handling(c, "apply", {"RoleRevoke"})
    /\ LET f == task[c].frame
       IN  /\ RoleRevokeAllowed(c, f)
           /\ AdvanceClock("role_revoke", f.by, f.at)
           /\ ChangeCoHosts(c, co_host_role_owners \ {f.target})

\* apply_session_policy_update
UpdatePolicy(c) ==
    /\ Handling(c, "apply", {"SessionPolicy"})
    /\ LET f == task[c].frame
       IN  /\ SessionPolicyAllowed(c, f)
           /\ AdvanceClock("session_policy", f.by, f.at)
           /\ policy' = f.policy
           /\ GoTo(c, At("announce", f))
    /\ permissions_epoch' = SatInc(permissions_epoch)
    /\ UNCHANGED <<participants, device_caps_by_conn, roleVars, keyVars,
           presence_sequence, max_screen_shares, anonymous_mode>>

\* RoomConfigUpdate.  RoomConfig is broadcast when something changed: the
\* limit of shares, or the rate, which is HubBilling's.
UpdateRoomConfig(c) ==
    /\ Handling(c, "apply", {"RoomConfigUpdate"})
    /\ RoomConfigUpdateAllowed(c)
    /\ LET asked == task[c].frame.max_screen_shares
       IN  max_screen_shares' = IF asked = 0 THEN 1 ELSE asked
    /\ \/ GoTo(c, At("relay", task[c].frame))
       \/ max_screen_shares' = max_screen_shares /\ GoTo(c, Idle)
    /\ UNCHANGED <<participants, device_caps_by_conn, roleVars, keyVars,
           signed_action_clock_by_signer, presence_sequence, policy,
           permissions_epoch, anonymous_mode>>

ControlAllowed(c, f) ==
    CASE f.kind = "RoleGrant" -> RoleGrantAllowed(c, f)
      [] f.kind = "RoleRevoke" -> RoleRevokeAllowed(c, f)
      [] f.kind = "SessionPolicy" -> SessionPolicyAllowed(c, f)
      [] f.kind = "RoomConfigUpdate" -> RoomConfigUpdateAllowed(c)

ControlRefused(c) ==
    /\ Handling(c, "apply",
           {"RoleGrant", "RoleRevoke", "SessionPolicy", "RoomConfigUpdate"})
    /\ c \in Present(participants)
    /\ ~ControlAllowed(c, task[c].frame)
    /\ Reply(c)
    /\ UNCHANGED roomVars
-----------------------------------------------------------------------------
\* ModerationSigned checks sender and signature in a section of its own; the
\* shared process_moderation_frame starts with the gate again.
VerifySigned(c) ==
    /\ Handling(c, "verify", {"ModerationSigned"})
    /\ c \in Present(participants)
    /\ LET f == task[c].frame
       IN  IF /\ c \in Joined(participants)
              /\ can_moderate_conn(c)
              /\ participants[c].pid = f.by
           THEN GoTo(c, At("regate", f)) ELSE Reply(c)
    /\ UNCHANGED roomVars

RegateSigned(c) ==
    /\ Handling(c, "regate", {"ModerationSigned"})
    /\ IF anonymous_mode THEN Reply(c) ELSE GoTo(c, At("apply", task[c].frame))
    /\ UNCHANGED roomVars

ModerationKinds == {"Moderation", "ModerationSigned"}

ModeratorAllowed(c, f) ==
    /\ c \in Joined(participants)
    /\ can_moderate_conn(c)
    /\ ClockAllows("moderation", participants[c].pid, f.at)

ModerationRefused(c) ==
    /\ Handling(c, "apply", ModerationKinds)
    /\ c \in Present(participants)
    /\ ~ModeratorAllowed(c, task[c].frame)
    /\ Reply(c)
    /\ UNCHANGED roomVars

\* The sender passed its checks, the clock among them: from here on the
\* stamp is used up, whatever becomes of the action.
Moderates(c, actions) ==
    /\ Handling(c, "apply", ModerationKinds)
    /\ ModeratorAllowed(c, task[c].frame)
    /\ task[c].frame.action \in actions
    /\ AdvanceClock("moderation", participants[c].pid, task[c].frame.at)

\* find by participant id, over joined, waiting and open connections alike
ModerationTargets(f) ==
    {t \in Present(participants) : participants[t].pid = f.target}

WaitingRoomActions == {"AdmitFromWaiting", "DenyFromWaiting"}

\* Nobody to act on, or admit/deny of everyone or of one who does not wait.
ModerationFails(c) ==
    /\ Moderates(c, ModerationActions)
    /\ LET f == task[c].frame
       IN  \/ f.target = All /\ f.action \in WaitingRoomActions
           \/ f.target # All /\ ModerationTargets(f) = {}
           \/ /\ f.action \in WaitingRoomActions
              /\ ModerationTargets(f) \ Waiting(participants) # {}
    /\ GoTo(c, Idle)
    /\ UNCHANGED <<participants, device_caps_by_conn, roleVars, keyVars,
           presence_sequence, configVars, permissions_epoch, anonymous_mode>>

\* Kick only queues a Close for its targets, the sender of "all" included;
\* they leave the room when their own read loop ends.
MutedBy(action, p) ==
    CASE action = "DisableMic" -> [p EXCEPT !.mic = FALSE]
      [] action = "DisableVideo" -> [p EXCEPT !.video = FALSE]
      [] action = "DisableScreenShare" -> [p EXCEPT !.share = FALSE]
      [] OTHER -> p

Mute(c) ==
    /\ Moderates(c, ModerationActions \ WaitingRoomActions)
    /\ LET f == task[c].frame
       IN  \E targets \in IF f.target = All THEN {Present(participants) \ {c}}
                          ELSE {{t} : t \in ModerationTargets(f)} :
               participants' = [d \in Conns |->
                   IF d \in targets THEN MutedBy(f.action, participants[d])
                   ELSE participants[d]]
    /\ GoTo(c, At("relay", task[c].frame))
    /\ UNCHANGED <<device_caps_by_conn, roleVars, keyVars, presence_sequence,
           configVars, permissions_epoch, anonymous_mode>>

\* admit_waiting_participant
Admit(c) ==
    /\ Moderates(c, {"AdmitFromWaiting"})
    /\ \E t \in ModerationTargets(task[c].frame) \cap Waiting(participants) :
        /\ participants' = [participants EXCEPT
               ![t] = WithMedia([@ EXCEPT !.status = "joined"],
                                FALSE, FALSE, FALSE)]
        /\ LET roles == RestoreRoles(participants', t, participants[t].pid,
                   host_conn_id, host_role_owner, co_host_conn_ids)
           IN  /\ host_conn_id' = roles.host
               /\ co_host_conn_ids' = roles.cohosts
               /\ permissions_epoch' = SatIncIf(permissions_epoch, roles.changed)
        /\ GoTo(c, [At("announce", task[c].frame) EXCEPT !.to = {t}])
    /\ presence_sequence' = SatInc(presence_sequence)
    /\ UNCHANGED <<device_caps_by_conn, host_role_owner, co_host_role_owners,
           keyVars, configVars, anonymous_mode>>

\* deny_waiting_participant; a host that waits is succeeded by the lowest
\* connection id left, as on a disconnect, but no epoch moves.
Deny(c) ==
    /\ Moderates(c, {"DenyFromWaiting"})
    /\ \E t \in ModerationTargets(task[c].frame) \cap Waiting(participants) :
        /\ participants' = Without(t)
        /\ e2ee_epochs' = [e2ee_epochs EXCEPT ![t] = 0]
        /\ key_rotation_ack_epochs' = [key_rotation_ack_epochs EXCEPT ![t] = 0]
        /\ IF host_conn_id = t
           THEN /\ host_conn_id' = Heir(t)
                /\ co_host_conn_ids' =
                       ActiveCoHosts(Without(t), Heir(t), co_host_role_owners)
           ELSE /\ co_host_conn_ids' = co_host_conn_ids \ {t}
                /\ UNCHANGED host_conn_id
    /\ GoTo(c, At("relay", task[c].frame))
    /\ UNCHANGED <<device_caps_by_conn, host_role_owner, co_host_role_owners,
           presence_sequence, configVars, permissions_epoch, anonymous_mode>>
=============================================================================
