--------------------------- MODULE SessionRuntime ---------------------------
(***************************************************************************)
(* SessionRuntime of the native client: the session state, the reconnect   *)
(* timer and the flags of the application, driven by the user, the         *)
(* operating system, the transport and a timer.                            *)
(*                                                                         *)
(* The runtime is one record, as in the code, and every public method is   *)
(* an operator on it.  The transport's driver is not part of the crate: it *)
(* dials when the runtime asks for a connection (field dial) and reports   *)
(* what happens to the link.  It does so in its own time: callbacks of a   *)
(* link the session has given up still come in until its end is reported.  *)
(* Time is kept as what is left until the reconnection is due.             *)
(***************************************************************************)
EXTENDS SessionReducer

CONSTANTS
    Backoff,        \* reconnect_backoff_ms, in ticks
    Settings        \* what a session may be given: its configuration, the
                    \* raw frames its server sends and the bound of requests

ASSUME BackoffAssumption == Backoff \in Seq(Nat)
ASSUME SettingsAssumption ==
    \A st \in Settings :
        /\ st.config \in MeetingConfig
        /\ st.max_requests \in Nat
        /\ \A raw \in st.traffic : IsRaw(raw)

VARIABLES
    rt,             \* SessionRuntime
    link,           \* the driver's transport: "none", "dialing" or "open"
    visible,        \* whether the application is in the foreground
    requests,       \* how often the user asked for a connection or recovery
    setting         \* the member of Settings this session was given

vars == <<rt, link, visible, requests, setting>>

NotDue == -1        \* reconnect_due_at_ms is None

\* SessionRuntime.  dial: a ConnectRequested the driver has not served yet.
IsRuntime(r) ==
    /\ IsSessionState(r.state)
    /\ r.attempt \in 0 .. Len(Backoff)
    /\ r.due \in Nat \cup {NotDue}
    /\ {r.user,                \* user_initiated_disconnect
        r.background,          \* app_in_background
        r.dial} \subseteq BOOLEAN

\* SessionRuntime::with_backoff_and_telemetry
new(config) ==
    [state |-> initial(config), attempt |-> 0, due |-> NotDue,
     user |-> FALSE, background |-> FALSE, dial |-> FALSE]

Init ==
    /\ setting \in Settings
    /\ rt = new(setting.config)
    /\ link = "none"
    /\ visible = TRUE
    /\ requests = 0
-----------------------------------------------------------------------------
\* apply_event with emit_state_transition_telemetry: s is the reduced state.
apply_event(r, s) ==
    [r EXCEPT !.state = s]

request_connect(r, reset_backoff) ==
    IF r.background THEN r
    ELSE [apply_event(r, ConnectRequested(r.state)) EXCEPT
             !.user = FALSE, !.due = NotDue, !.dial = TRUE,
             !.attempt = IF reset_backoff THEN 0 ELSE @]

\* Mutant: a timer is armed after the user has hung up.
schedule_reconnect_or_fallback_Eager(r) ==
    IF r.state.fallback \/ r.background \/ r.due # NotDue THEN r
    ELSE IF r.attempt >= Len(Backoff)
    THEN [r EXCEPT !.state = FallbackActivated(@)]
    ELSE [r EXCEPT !.attempt = @ + 1, !.due = Backoff[r.attempt + 1]]

\* Mutant: a second loss re-arms the timer that is already set.
schedule_reconnect_or_fallback_Rearm(r) ==
    IF r.user \/ r.state.fallback \/ r.background THEN r
    ELSE IF r.attempt >= Len(Backoff)
    THEN [r EXCEPT !.state = FallbackActivated(@)]
    ELSE [r EXCEPT !.attempt = @ + 1, !.due = Backoff[r.attempt + 1]]

\* The fallback at the end of the backoff is applied with reduce and not with
\* apply_event, so that no telemetry tells of it.
schedule_reconnect_or_fallback(r) ==
    IF r.user \/ r.state.fallback \/ r.background \/ r.due # NotDue THEN r
    ELSE IF r.attempt >= Len(Backoff)
    THEN [r EXCEPT !.state = FallbackActivated(@)]
    ELSE [r EXCEPT !.attempt = @ + 1, !.due = Backoff[r.attempt + 1]]

\* on_transport_disconnected, on_transport_failure, and what the loss of the
\* network and an audio interruption do once the user is asked.
TransportGone(r) ==
    schedule_reconnect_or_fallback(apply_event(r, TransportLost(r.state)))

Idle(r) == r.state.phase \notin {"Connected", "Connecting"}

\* Mutant: a degraded session is taken for one that still has its link.
foregrounded_Trusting(r) ==
    LET woken == [r EXCEPT !.background = FALSE]
    IN IF r.user THEN r
       ELSE IF r.state.phase \in {"Disconnected", "Error"}
       THEN request_connect(woken, FALSE)
       ELSE woken

foregrounded(r) ==
    LET woken == [r EXCEPT !.background = FALSE]
    IN IF r.user THEN r
       ELSE IF r.state.phase \in {"Disconnected", "Degraded", "Error"}
       THEN request_connect(woken, FALSE)
       ELSE woken

backgrounded(r) ==
    LET asleep == [r EXCEPT !.background = TRUE, !.due = NotDue]
    IN IF ~r.user /\ r.state.phase \in {"Connected", "Connecting", "Degraded"}
       THEN apply_event(asleep, TransportLost(r.state))
       ELSE asleep

\* Mutant: the network's return restarts the backoff.
connectivity_restored_Reset(r) ==
    IF ~r.user /\ ~r.background /\ Idle(r) /\ ~r.state.fallback
    THEN request_connect(r, TRUE)
    ELSE r

connectivity_restored(r) ==
    IF ~r.user /\ ~r.background /\ Idle(r) /\ ~r.state.fallback
    THEN request_connect(r, FALSE)
    ELSE r

connectivity_lost(r) == IF r.user THEN r ELSE TransportGone(r)

transport_connected(r) ==
    IF r.background
    THEN apply_event([r EXCEPT !.due = NotDue], TransportLost(r.state))
    ELSE apply_event([r EXCEPT !.user = FALSE, !.attempt = 0, !.due = NotDue],
                     TransportConnected(r.state))

manual_disconnect(r) ==
    apply_event([r EXCEPT !.user = TRUE, !.due = NotDue],
                ManualDisconnected(r.state))

recovered(r) ==
    request_connect(
        apply_event([r EXCEPT !.user = FALSE, !.attempt = 0, !.due = NotDue],
                    FallbackRecovered(r.state)),
        FALSE)

\* on_frame: a key epoch that was accepted is acknowledged, and the
\* acknowledgement is applied to the state like a received one.
frame_received(r, f) ==
    LET after == apply_event(r, reduce_frame(r.state, f))
    IN IF /\ f.kind = "e2eeKeyEpoch"
          /\ has_required_signature(f, after.state)
          /\ after.state.current_epoch >= f.epoch
       THEN apply_event(after, OnKeyRotationAck(after.state,
                                                [ack_epoch |-> f.epoch]))
       ELSE after

TimerDue(r) ==
    /\ r.due = 0
    /\ ~r.user
    /\ ~r.state.fallback
    /\ ~r.background
-----------------------------------------------------------------------------
\* The user.
connect_requested ==
    /\ requests < setting.max_requests
    /\ requests' = requests + 1
    /\ rt' = request_connect(rt, TRUE)
    /\ UNCHANGED <<link, visible, setting>>

on_manual_disconnect ==
    /\ rt' = manual_disconnect(rt)
    /\ UNCHANGED <<link, visible, requests, setting>>

recover_from_fallback ==
    /\ requests < setting.max_requests
    /\ requests' = requests + 1
    /\ rt' = recovered(rt)
    /\ UNCHANGED <<link, visible, setting>>

\* The operating system.
on_app_foregrounded ==
    /\ ~visible
    /\ visible' = TRUE
    /\ rt' = foregrounded(rt)
    /\ UNCHANGED <<link, requests, setting>>

on_app_backgrounded ==
    /\ visible
    /\ visible' = FALSE
    /\ rt' = backgrounded(rt)
    /\ UNCHANGED <<link, requests, setting>>

\* on_connectivity_changed(true) and on_audio_interruption_ended(true).
on_connectivity_restored ==
    /\ rt' = connectivity_restored(rt)
    /\ UNCHANGED <<link, visible, requests, setting>>

\* on_connectivity_changed(false) and on_audio_interruption_began.
on_connectivity_lost ==
    /\ rt' = connectivity_lost(rt)
    /\ UNCHANGED <<link, visible, requests, setting>>

\* The transport's driver.
Dial ==
    /\ rt.dial
    /\ rt' = [rt EXCEPT !.dial = FALSE]
    /\ link' = "dialing"
    /\ UNCHANGED <<visible, requests, setting>>

on_transport_connected ==
    /\ link = "dialing"
    /\ link' = "open"
    /\ rt' = transport_connected(rt)
    /\ UNCHANGED <<visible, requests, setting>>

\* on_transport_disconnected of an open link, on_transport_failure of either,
\* also when the driver hangs up because the session has lost interest.
on_transport_lost ==
    /\ link # "none"
    /\ link' = "none"
    /\ rt' = TransportGone(rt)
    /\ UNCHANGED <<visible, requests, setting>>

on_send_failure ==
    /\ link = "open"
    /\ rt' = apply_event(rt, FrameSendFailed(rt.state))
    /\ UNCHANGED <<link, visible, requests, setting>>

\* A raw object arrives; one that does not decode is an error of the codec
\* that leaves the session alone.
Receive ==
    /\ link = "open"
    /\ \E raw \in setting.traffic :
           /\ Decodes(raw)
           /\ rt' = frame_received(rt, decode_frame(raw))
    /\ UNCHANGED <<link, visible, requests, setting>>

\* The timer.
take_reconnect_if_due ==
    /\ TimerDue(rt)
    /\ rt' = request_connect([rt EXCEPT !.due = NotDue], FALSE)
    /\ UNCHANGED <<link, visible, requests, setting>>

Tick ==
    /\ rt.due > 0
    /\ rt' = [rt EXCEPT !.due = @ - 1]
    /\ UNCHANGED <<link, visible, requests, setting>>

Next ==
    \/ connect_requested \/ on_manual_disconnect \/ recover_from_fallback
    \/ on_app_foregrounded \/ on_app_backgrounded
    \/ on_connectivity_restored \/ on_connectivity_lost
    \/ Dial \/ on_transport_connected \/ on_transport_lost \/ on_send_failure
    \/ Receive \/ take_reconnect_if_due \/ Tick
=============================================================================
