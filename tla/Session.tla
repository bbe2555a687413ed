------------------------------ MODULE Session -------------------------------
(***************************************************************************)
(* The specification of the native client's session, the fairness of its   *)
(* timer and transport, the contract it implements and its properties.     *)
(***************************************************************************)
EXTENDS SessionRuntime

Spec == Init /\ [][Next]_vars

\* A poll loop calls take_reconnect_if_due, time passes, the driver dials when
\* it is asked to, and a dial ends one way or the other.
Fairness ==
    /\ WF_vars(take_reconnect_if_due)
    /\ WF_vars(Tick)
    /\ WF_vars(Dial)
    /\ WF_vars(link = "dialing" /\ (on_transport_connected \/ on_transport_lost))

FairSpec == Spec /\ Fairness
-----------------------------------------------------------------------------
\* The runtime keeps its types, and the retries stay within the backoff.
SessionTypeOK ==
    /\ IsRuntime(rt)
    /\ link \in {"none", "dialing", "open"}
    /\ visible \in BOOLEAN
    /\ requests \in 0 .. setting.max_requests

\* The session wants a connection: it was neither hung up nor sent to the
\* background, it is not on the web, and it has left its initial phase.
Wanted ==
    /\ ~rt.user
    /\ ~rt.background
    /\ ~rt.state.fallback
    /\ rt.state.phase # "Disconnected"

\* A session that wants a connection always has one, is about to dial, or has
\* a timer that will: no order of losses, interruptions, late callbacks and
\* returns to the foreground leaves it with nothing pending.
NeverStranded ==
    Wanted => rt.due # NotDue \/ rt.dial \/ link # "none"

\* No timer survives a manual disconnect or the way to the background, and
\* none is armed afterwards by a late callback of the old transport.
QuietWhenUnwanted ==
    rt.user \/ rt.background => rt.due = NotDue

\* The session shows itself connected only after a handshake that no later
\* loss or connection request has undone, whatever error, policy or media
\* frames moved the phase in between.
ConnectedMeansShaken ==
    rt.state.phase = "Connected" => rt.state.handshake_complete

\* Whatever is sent again, late or out of order, what the client knows does
\* not go back: sequences and epochs never decrease, and a participant that
\* was removed, muted or moved out of the waiting room returns to what it was
\* by a newer presence delta only.
NothingRollsBack ==
    [][LET old == rt.state
           now == rt'.state
           newer == now.presence_sequence > old.presence_sequence
       IN /\ now.presence_sequence >= old.presence_sequence
          /\ now.policy_epoch >= old.policy_epoch
          /\ now.current_epoch >= old.current_epoch
          /\ now.last_ack_epoch >= old.last_ack_epoch
          /\ \A p \in DOMAIN old.permission_snapshots :
                 /\ p \in DOMAIN now.permission_snapshots
                 /\ now.permission_snapshots[p] >= old.permission_snapshots[p]
          /\ \A p \in DOMAIN now.participants :
                 \/ newer
                 \/ /\ p \in DOMAIN old.participants
                    /\ old.participants[p].muted => now.participants[p].muted
                    /\ now.participants[p].waiting => old.participants[p].waiting]_vars

\* A session that keeps wanting a connection gets a link or moves to the web,
\* also when every dial fails and the network comes and goes.
GetsThrough == Wanted ~> (link = "open" \/ ~Wanted)

\* The contract seen in the runtime's state.
Mode(r) ==
    IF r.state.fallback THEN "web"
    ELSE IF r.user THEN "hungUp"
    ELSE IF r.background THEN "asleep"
    ELSE IF r.due # NotDue THEN "waiting"
    ELSE IF r.state.phase = "Disconnected" THEN "idle"
    ELSE "trying"

Contract == INSTANCE SessionContract WITH
    MaxTries <- Len(Backoff), tries <- rt.attempt, mode <- Mode(rt)

\* The runtime implements the contract of SessionContract: bounded retries,
\* each after its timer, and no way out of a hang-up or the web but a new
\* start or recovery.
KeepsContract == Contract!Spec
=============================================================================
