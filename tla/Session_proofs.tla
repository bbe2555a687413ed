--------------------------- MODULE Session_proofs ---------------------------
(***************************************************************************)
(* The native client's session, proved for every backoff, every set of     *)
(* settings and every traffic: no timer of an unwanted session, no wanted  *)
(* session without a link or a timer, connected only after a handshake,    *)
(* the reconnection contract, that what it knows never goes back, and that *)
(* no frame brings a value into the state that its types do not allow.     *)
(***************************************************************************)
EXTENDS Session, TLAPS

StateFields ==
    {"config", "phase", "handshake_complete", "resume_token", "participants",
     "permission_snapshots", "presence_sequence", "room_locked",
     "e2ee_required", "policy_epoch", "recording", "current_epoch",
     "last_ack_epoch", "payment_required", "settlement_status", "fallback",
     "last_error"}

RuntimeFields == {"state", "attempt", "due", "user", "background", "dial"}

\* What every reduction keeps: connected after a handshake only, and the phase
\* of the fallback only on the web.
GoodState(s) ==
    /\ DOMAIN s = StateFields
    /\ s.phase \in Phases
    /\ s.fallback \in BOOLEAN
    /\ s.handshake_complete \in BOOLEAN
    /\ s.phase = "Connected" => s.handshake_complete
    /\ s.phase = "FallbackActive" => s.fallback

\* A frame may move the session to the web, never off it, and never hangs up.
FrameStep(s, t) ==
    /\ GoodState(t)
    /\ s.fallback => t.fallback
    /\ t.phase = "Disconnected" => s.phase = "Disconnected"
-----------------------------------------------------------------------------
LEMMA RejectStep ==
    ASSUME NEW s, GoodState(s), NEW code
    PROVE  FrameStep(s, policy_reject(s, code))
BY DEF GoodState, StateFields, Phases, FrameStep, policy_reject

LEMMA ClearStep ==
    ASSUME NEW s, GoodState(s), NEW code
    PROVE  FrameStep(s, clear_error_if_matching(s, code))
BY DEF GoodState, StateFields, Phases, FrameStep, clear_error_if_matching

\* The policies are enforced on a state whose phase the frame left alone.
Untouched(s, t) ==
    /\ DOMAIN t = StateFields
    /\ t.phase = s.phase
    /\ t.fallback = s.fallback
    /\ t.handshake_complete = s.handshake_complete

LEMMA UntouchedStep ==
    ASSUME NEW s, GoodState(s), NEW t, Untouched(s, t)
    PROVE  GoodState(t) /\ FrameStep(s, t)
BY DEF GoodState, FrameStep, Untouched

LEMMA StepAfter ==
    ASSUME NEW s, NEW t, NEW u, Untouched(s, t), FrameStep(t, u)
    PROVE  FrameStep(s, u)
BY DEF FrameStep, Untouched

LEMMA E2eeStep ==
    ASSUME NEW s, GoodState(s)
    PROVE  FrameStep(s, enforce_e2ee_epoch_policy(s))
BY RejectStep, ClearStep DEF enforce_e2ee_epoch_policy

LEMMA PaymentStep ==
    ASSUME NEW s, GoodState(s)
    PROVE  FrameStep(s, enforce_payment_settlement_policy(s))
BY RejectStep, ClearStep DEF enforce_payment_settlement_policy

LEMMA RosterStep ==
    ASSUME NEW s, GoodState(s), NEW f,
           f.kind = "moderationSigned" => f.action \in Actions
    PROVE  /\ Untouched(s, OnPresenceDelta(s, f))
           /\ Untouched(s, OnPermissionsSnapshot(s, f))
           /\ Untouched(s, OnRoleGrant(s, f))
           /\ Untouched(s, OnRoleRevoke(s, f))
           /\ f.kind = "moderationSigned" => Untouched(s, OnModeration(s, f))
<1>1. Untouched(s, OnPresenceDelta(s, f))
  BY DEF GoodState, StateFields, Phases, Untouched, OnPresenceDelta
<1>2. Untouched(s, OnPermissionsSnapshot(s, f))
  BY DEF GoodState, StateFields, Phases, Untouched, OnPermissionsSnapshot
<1>3. Untouched(s, OnRoleGrant(s, f)) /\ Untouched(s, OnRoleRevoke(s, f))
  BY DEF GoodState, StateFields, Phases, Untouched, OnRoleGrant, OnRoleRevoke
<1>4. f.kind = "moderationSigned" => Untouched(s, OnModeration(s, f))
  BY DEF GoodState, StateFields, Phases, Untouched, OnModeration, Actions
<1> QED
  BY <1>1, <1>2, <1>3, <1>4

LEMMA PolicyStep ==
    ASSUME NEW s, GoodState(s), NEW f
    PROVE  FrameStep(s, OnSessionPolicy(s, f))
<1> DEFINE t == [s EXCEPT !.room_locked = f.room_lock,
                          !.recording = f.recording_policy,
                          !.e2ee_required = f.e2ee_required,
                          !.policy_epoch = f.policy_epoch]
<1>1. Untouched(s, t)
  BY DEF GoodState, StateFields, Phases, Untouched
<1>2. FrameStep(s, enforce_e2ee_epoch_policy(t))
  <2> HIDE DEF t
  <2> QED BY <1>1, UntouchedStep, E2eeStep, StepAfter
<1>3. FrameStep(s, s)
  BY DEF FrameStep
<1> QED
  BY <1>2, <1>3 DEF OnSessionPolicy

LEMMA KeyStep ==
    ASSUME NEW s, GoodState(s), NEW f
    PROVE  FrameStep(s, OnE2eeKeyEpoch(s, f))
<1> DEFINE t == [s EXCEPT !.current_epoch = Larger(s.current_epoch, f.epoch)]
<1>1. Untouched(s, t)
  BY DEF GoodState, StateFields, Phases, Untouched
<1>2. FrameStep(s, enforce_e2ee_epoch_policy(t))
  <2> HIDE DEF t
  <2> QED BY <1>1, UntouchedStep, E2eeStep, StepAfter
<1> QED
  BY <1>2, RejectStep DEF OnE2eeKeyEpoch

LEMMA SettlementStep ==
    ASSUME NEW s, GoodState(s), NEW f
    PROVE  /\ FrameStep(s, OnPaymentPolicy(s, f))
           /\ FrameStep(s, OnPaymentSettlement(s, f))
<1> DEFINE t == [s EXCEPT !.payment_required = f.required,
                          !.settlement_status =
                              IF f.required THEN "pending" ELSE "not_required"]
           u == [s EXCEPT !.settlement_status = f.status]
<1>1. Untouched(s, t) /\ Untouched(s, u)
  BY DEF GoodState, StateFields, Phases, Untouched
<1>2. /\ FrameStep(s, enforce_payment_settlement_policy(t))
      /\ FrameStep(s, enforce_payment_settlement_policy(u))
  <2> HIDE DEF t, u
  <2> QED BY <1>1, UntouchedStep, PaymentStep, StepAfter
<1> QED
  BY <1>2 DEF OnPaymentPolicy, OnPaymentSettlement

LEMMA PhaseStep ==
    ASSUME NEW s, GoodState(s), NEW f
    PROVE  /\ FrameStep(s, OnHandshakeAck(s))
           /\ FrameStep(s, OnMediaProfile(s, f))
           /\ FrameStep(s, OnErrorFrame(s, f))
BY DEF GoodState, StateFields, Phases, FrameStep, OnHandshakeAck, OnMediaProfile,
       OnErrorFrame

LEMMA AckStep ==
    ASSUME NEW s, GoodState(s), NEW f
    PROVE  Untouched(s, OnKeyRotationAck(s, f))
BY DEF GoodState, StateFields, Phases, Untouched, OnKeyRotationAck

\* Frames of every kind, the ones the session refuses included.
LEMMA ReduceFrameStep ==
    ASSUME NEW s, GoodState(s), NEW f, f.kind \in DOMAIN Required,
           f.kind = "moderationSigned" => f.action \in Actions
    PROVE  FrameStep(s, reduce_frame(s, f))
<1>1. CASE f.kind \in {"roleGrant", "roleRevoke", "moderationSigned",
                       "sessionPolicy"}
  <2>1. FrameStep(s, Governed(s, f))
    BY <1>1, RosterStep, UntouchedStep, PolicyStep DEF Governed
  <2>2. reduce_frame(s, f) = OnGoverned(s, f)
    BY <1>1 DEF reduce_frame
  <2> QED
    BY <2>1, <2>2, RejectStep DEF OnGoverned
<1>2. CASE f.kind \in {"participantPresenceDelta", "permissionsSnapshot",
                       "keyRotationAck"}
  BY <1>2, RosterStep, AckStep, UntouchedStep DEF reduce_frame
<1>3. CASE f.kind = "recordingNotice"
  BY <1>3 DEF reduce_frame, GoodState, StateFields, Phases, FrameStep
<1>4. CASE f.kind \in {"handshakeAck", "mediaProfileNegotiation", "error",
                       "e2eeKeyEpoch", "paymentPolicy", "paymentSettlement"}
  BY <1>4, PhaseStep, KeyStep, SettlementStep DEF reduce_frame
<1>5. CASE f.kind \in {"handshake", "deviceCapability", "ping", "pong"}
  BY <1>5 DEF reduce_frame, FrameStep
<1> QED
  BY <1>1, <1>2, <1>3, <1>4, <1>5 DEF Required

\* decode_frame keeps the kind and knows every action it lets through.
LEMMA DecodedFrame ==
    ASSUME NEW raw, Decodes(raw)
    PROVE  /\ decode_frame(raw).kind \in DOMAIN Required
           /\ decode_frame(raw).kind = "moderationSigned" =>
                  decode_frame(raw).action \in Actions
<1>1. raw.kind \in DOMAIN Required
  BY DEF Decodes
<1>2. decode_frame(raw).kind = raw.kind
  BY DEF decode_frame, decode_presence, decode_signed, decode_session_policy,
         decode_other
<1>3. raw.kind = "moderationSigned" => decode_frame(raw) = decode_signed(raw)
  BY DEF decode_frame
<1>4. decode_signed(raw).action \in Actions
  BY DEF decode_signed, Word, Actions
<1> QED
  BY <1>1, <1>2, <1>3, <1>4
-----------------------------------------------------------------------------
\* What the events of the link and of the user do to phase and fallback.
LEMMA EventStep ==
    ASSUME NEW s, GoodState(s)
    PROVE  /\ GoodState(ConnectRequested(s))
           /\ ConnectRequested(s).phase = "Connecting"
           /\ ConnectRequested(s).fallback = s.fallback
           /\ GoodState(TransportConnected(s))
           /\ TransportConnected(s).phase = "Connecting"
           /\ TransportConnected(s).fallback = s.fallback
           /\ GoodState(TransportLost(s))
           /\ TransportLost(s).phase \in {"Degraded", "FallbackActive"}
           /\ TransportLost(s).fallback = s.fallback
           /\ GoodState(FrameSendFailed(s))
           /\ FrameSendFailed(s).phase \in {"Degraded", "FallbackActive"}
           /\ FrameSendFailed(s).fallback = s.fallback
           /\ GoodState(ManualDisconnected(s))
           /\ ManualDisconnected(s).phase = "Disconnected"
           /\ ManualDisconnected(s).fallback = s.fallback
           /\ GoodState(FallbackActivated(s))
           /\ FallbackActivated(s).phase = "FallbackActive"
           /\ FallbackActivated(s).fallback
           /\ GoodState(FallbackRecovered(s))
           /\ FallbackRecovered(s).phase = "Disconnected"
           /\ ~FallbackRecovered(s).fallback
BY DEF GoodState, StateFields, Phases, ConnectRequested, TransportConnected,
       TransportLost, FrameSendFailed, ManualDisconnected, FallbackActivated,
       FallbackRecovered

\* The runtime's record: retries within the backoff, and no timer when the
\* user has hung up or the application is in the background.
GoodRuntime(r) ==
    /\ DOMAIN r = RuntimeFields
    /\ GoodState(r.state)
    /\ r.attempt \in 0 .. Len(Backoff)
    /\ r.due \in Nat \cup {NotDue}
    /\ r.user \in BOOLEAN /\ r.background \in BOOLEAN /\ r.dial \in BOOLEAN
    /\ r.user \/ r.background => r.due = NotDue

LEMMA RequestStep ==
    ASSUME NEW r, GoodRuntime(r), NEW reset \in BOOLEAN
    PROVE  /\ GoodRuntime(request_connect(r, reset))
           /\ r.background => request_connect(r, reset) = r
           /\ ~r.background =>
                  LET q == request_connect(r, reset)
                  IN  /\ q.dial /\ ~q.user /\ ~q.background /\ q.due = NotDue
                      /\ q.state.phase = "Connecting"
                      /\ q.state.fallback = r.state.fallback
                      /\ q.attempt = IF reset THEN 0 ELSE r.attempt
<1> DEFINE t == ConnectRequested(r.state)
<1>1. /\ GoodState(t) /\ t.phase = "Connecting"
      /\ t.fallback = r.state.fallback
  BY EventStep DEF GoodRuntime
<1>2. Len(Backoff) \in Nat
  BY BackoffAssumption
<1>3. CASE r.background
  BY <1>3 DEF request_connect
<1>4. CASE ~r.background
  <2> HIDE DEF t
  <2> DEFINE q == [[r EXCEPT !.state = t] EXCEPT
                      !.user = FALSE, !.due = NotDue, !.dial = TRUE,
                      !.attempt = IF reset THEN 0 ELSE @]
  <2>1. request_connect(r, reset) = q
    BY <1>4 DEF request_connect, apply_event, t
  <2>2. /\ DOMAIN q = RuntimeFields /\ q.state = t /\ q.dial = TRUE
        /\ q.user = FALSE /\ q.background = r.background /\ q.due = NotDue
        /\ q.attempt = IF reset THEN 0 ELSE r.attempt
    BY DEF GoodRuntime, RuntimeFields
  <2> HIDE DEF q
  <2>3. q.attempt \in 0 .. Len(Backoff)
    BY <1>2, <2>2 DEF GoodRuntime
  <2>4. GoodRuntime(q)
    BY <1>1, <2>2, <2>3 DEF GoodRuntime
  <2> QED
    BY <1>1, <1>4, <2>1, <2>2, <2>4
<1> QED
  BY <1>3, <1>4

LEMMA ScheduleStep ==
    ASSUME NEW r, GoodRuntime(r)
    PROVE  LET q == schedule_reconnect_or_fallback(r)
           IN  /\ GoodRuntime(q)
               /\ q.user = r.user /\ q.background = r.background
               /\ q.dial = r.dial
               /\ \/ /\ r.user \/ r.state.fallback \/ r.background \/ r.due # NotDue
                     /\ q = r
                  \/ /\ ~r.user /\ ~r.state.fallback /\ ~r.background
                     /\ r.due = NotDue
                     /\ \/ /\ r.attempt = Len(Backoff)
                           /\ q.state.fallback
                           /\ q.attempt = r.attempt
                        \/ /\ r.attempt < Len(Backoff)
                           /\ q.state = r.state
                           /\ q.attempt = r.attempt + 1
                           /\ q.due # NotDue
BY EventStep, BackoffAssumption
   DEF GoodRuntime, RuntimeFields, schedule_reconnect_or_fallback, NotDue
-----------------------------------------------------------------------------
\* A session on its way to the web or to a connection has a link, a request
\* for one or a timer; so has one in the background that still looks alive,
\* since the way back to the foreground leaves it alone.
Tethered(r, l) ==
    (/\ ~r.user /\ ~r.state.fallback
     /\ \/ ~r.background /\ r.state.phase # "Disconnected"
        \/ r.state.phase \in {"Connected", "Connecting"})
    => r.due # NotDue \/ r.dial \/ l # "none"

\* Contract!Next or a stuttering step, from one runtime to another.
ContractStep(r, q) ==
    \/ Mode(q) = Mode(r) /\ q.attempt = r.attempt
    \/ /\ Mode(r) # "asleep"
       /\ Mode(q) = IF Mode(r) = "web" THEN "web" ELSE "trying"
       /\ q.attempt = 0
    \/ /\ Mode(r) \in {"idle", "trying", "waiting", "asleep"}
       /\ Mode(q) = "trying" /\ q.attempt = r.attempt
    \/ /\ Mode(r) \in {"idle", "trying"}
       /\ IF r.attempt < Len(Backoff)
          THEN Mode(q) = "waiting" /\ q.attempt = r.attempt + 1
          ELSE Mode(q) = "web" /\ q.attempt = r.attempt
    \/ /\ Mode(r) \in {"idle", "trying", "waiting"}
       /\ Mode(q) = "asleep" /\ q.attempt = r.attempt
    \/ Mode(r) # "web" /\ Mode(q) = "hungUp" /\ q.attempt = r.attempt
    \/ Mode(q) = "web" /\ q.attempt = r.attempt
    \/ Mode(q) \in {"trying", "asleep"} /\ q.attempt = 0

\* What each step has to show, from runtime r with link l to q with link m.
SoundStep(r, l, q, m) ==
    /\ GoodRuntime(q)
    /\ ContractStep(r, q)
    /\ Tethered(r, l) => Tethered(q, m)

\* A new session state, and nothing else.
LEMMA ApplyStep ==
    ASSUME NEW r, GoodRuntime(r), NEW s, GoodState(s)
    PROVE  LET q == apply_event(r, s)
           IN  /\ GoodRuntime(q)
               /\ q.state = s /\ q.attempt = r.attempt /\ q.due = r.due
               /\ q.user = r.user /\ q.background = r.background
               /\ q.dial = r.dial
BY DEF GoodRuntime, RuntimeFields, apply_event

LEMMA GoneStep ==
    ASSUME NEW r, GoodRuntime(r), NEW l, NEW m
    PROVE  SoundStep(r, l, TransportGone(r), m)
<1> DEFINE s == TransportLost(r.state)
           p == apply_event(r, s)
           q == schedule_reconnect_or_fallback(p)
<1>1. /\ GoodState(s) /\ s.fallback = r.state.fallback
      /\ s.phase \in {"Degraded", "FallbackActive"}
  BY EventStep DEF GoodRuntime
<1> HIDE DEF s
<1>2. /\ GoodRuntime(p) /\ p.state = s /\ p.attempt = r.attempt
      /\ p.due = r.due /\ p.user = r.user /\ p.background = r.background
      /\ p.dial = r.dial
  BY <1>1, ApplyStep
<1> HIDE DEF p
<1>3. GoodRuntime(q)
  BY <1>2, ScheduleStep
<1>4. CASE q = p /\ (p.user \/ p.state.fallback \/ p.background \/ p.due # NotDue)
  <2> HIDE DEF q
  <2>1. ContractStep(r, q) /\ Tethered(q, m)
    BY <1>1, <1>2, <1>4 DEF ContractStep, Mode, Tethered
  <2> QED
    BY <1>3, <2>1 DEF SoundStep, q, p, s, TransportGone
<1>5. CASE /\ ~p.user /\ ~p.state.fallback /\ ~p.background /\ p.due = NotDue
           /\ \/ /\ p.attempt = Len(Backoff) /\ q.state.fallback
                 /\ q.attempt = p.attempt
              \/ /\ p.attempt < Len(Backoff) /\ q.state = p.state
                 /\ q.attempt = p.attempt + 1 /\ q.due # NotDue
  <2>0. q.user = p.user /\ q.background = p.background
    BY <1>2, ScheduleStep
  <2>a. Len(Backoff) \in Nat
    BY BackoffAssumption
  <2> HIDE DEF q
  <2>1. ContractStep(r, q) /\ Tethered(q, m)
    BY <1>1, <1>2, <1>5, <2>0, <2>a DEF ContractStep, Mode, Tethered
  <2> QED
    BY <1>3, <2>1 DEF SoundStep, q, p, s, TransportGone
<1> QED
  BY <1>2, <1>4, <1>5, ScheduleStep

LEMMA RequestedStep ==
    ASSUME NEW r, GoodRuntime(r), NEW l, NEW reset \in BOOLEAN,
           reset \/ (~r.user /\ ~r.state.fallback)
    PROVE  SoundStep(r, l, request_connect(r, reset), l)
<1> DEFINE q == request_connect(r, reset)
<1>1. CASE r.background
  BY <1>1, RequestStep DEF SoundStep, ContractStep
<1>2. CASE ~r.background
  <2>1. /\ GoodRuntime(q) /\ q.dial /\ ~q.user /\ ~q.background
        /\ q.due = NotDue /\ q.state.phase = "Connecting"
        /\ q.state.fallback = r.state.fallback
        /\ q.attempt = IF reset THEN 0 ELSE r.attempt
    BY <1>2, RequestStep
  <2> HIDE DEF q
  <2>2. ContractStep(r, q) /\ Tethered(q, l)
    BY <1>2, <2>1 DEF ContractStep, Mode, Tethered, GoodRuntime, GoodState
  <2> QED
    BY <2>1, <2>2 DEF SoundStep, q
<1> QED
  BY <1>1, <1>2

LEMMA ForegroundStep ==
    ASSUME NEW r, GoodRuntime(r), NEW l
    PROVE  SoundStep(r, l, foregrounded(r), l)
<1> DEFINE woken == [r EXCEPT !.background = FALSE]
           q == request_connect(woken, FALSE)
<1>1. CASE r.user
  BY <1>1 DEF foregrounded, SoundStep, ContractStep
<1>2. CASE ~r.user
  <2>1. /\ GoodRuntime(woken) /\ woken.state = r.state
        /\ woken.attempt = r.attempt /\ woken.due = r.due
        /\ woken.user = r.user /\ ~woken.background /\ woken.dial = r.dial
    BY <1>2 DEF GoodRuntime, RuntimeFields
  <2> HIDE DEF woken
  <2>2. CASE r.state.phase \in {"Disconnected", "Degraded", "Error"}
    <3>a. GoodRuntime(woken) /\ ~woken.background
      BY <2>1
    <3>b. /\ GoodRuntime(q) /\ q.dial /\ ~q.user /\ ~q.background
          /\ q.due = NotDue /\ q.state.phase = "Connecting"
          /\ q.state.fallback = woken.state.fallback
          /\ q.attempt = woken.attempt
      BY <3>a, RequestStep
    <3> HIDE DEF q
    <3>1. /\ GoodRuntime(q) /\ q.dial /\ ~q.user /\ ~q.background
          /\ q.due = NotDue /\ q.state.phase = "Connecting"
          /\ q.state.fallback = r.state.fallback /\ q.attempt = r.attempt
      BY <2>1, <3>b
    <3>2. ContractStep(r, q) /\ Tethered(q, l)
      BY <1>2, <3>1 DEF ContractStep, Mode, Tethered, GoodRuntime, GoodState
    <3>3. foregrounded(r) = q
      BY <1>2, <2>2 DEF foregrounded, q, woken
    <3> QED
      BY <3>1, <3>2, <3>3 DEF SoundStep
  <2>3. CASE r.state.phase \notin {"Disconnected", "Degraded", "Error"}
    <3>1. foregrounded(r) = woken
      BY <1>2, <2>3 DEF foregrounded, woken
    <3>2. r.state.phase \in {"Connected", "Connecting"} \/ r.state.fallback
      BY <2>3 DEF GoodRuntime, GoodState, Phases
    <3>3. ContractStep(r, woken)
      <4>1. Mode(woken) \in {Mode(r), "trying"}
        BY <1>2, <2>1, <2>3 DEF Mode, GoodRuntime
      <4>2. Mode(woken) # Mode(r) => Mode(r) = "asleep"
        BY <1>2, <2>1 DEF Mode
      <4> QED
        BY <2>1, <4>1, <4>2 DEF ContractStep
    <3>4. Tethered(r, l) => Tethered(woken, l)
      BY <1>2, <2>1, <3>2 DEF Tethered
    <3> QED
      BY <2>1, <3>1, <3>3, <3>4 DEF SoundStep
  <2> QED
    BY <2>2, <2>3
<1> QED
  BY <1>1, <1>2 DEF GoodRuntime

LEMMA BackgroundStep ==
    ASSUME NEW r, GoodRuntime(r), NEW l
    PROVE  SoundStep(r, l, backgrounded(r), l)
<1> DEFINE asleep == [r EXCEPT !.background = TRUE, !.due = NotDue]
           s == TransportLost(r.state)
           q == backgrounded(r)
<1>1. /\ GoodRuntime(asleep) /\ asleep.state = r.state
      /\ asleep.attempt = r.attempt /\ asleep.due = NotDue
      /\ asleep.user = r.user /\ asleep.background /\ asleep.dial = r.dial
  BY DEF GoodRuntime, RuntimeFields
<1>2. /\ GoodState(s) /\ s.fallback = r.state.fallback
      /\ s.phase \in {"Degraded", "FallbackActive"}
  BY EventStep DEF GoodRuntime
<1> HIDE DEF asleep, s
<1>3. q = IF ~r.user /\ r.state.phase \in {"Connected", "Connecting", "Degraded"}
          THEN apply_event(asleep, s) ELSE asleep
  BY DEF backgrounded, asleep, s
<1>4. /\ GoodRuntime(q) /\ q.attempt = r.attempt /\ q.due = NotDue
      /\ q.user = r.user /\ q.background
      /\ q.state.fallback = r.state.fallback
      /\ ~q.user => q.state.phase \notin {"Connected", "Connecting"}
  BY <1>1, <1>2, <1>3, ApplyStep
<1> HIDE DEF q
<1>5. ContractStep(r, q) /\ Tethered(q, l)
  BY <1>4 DEF ContractStep, Mode, Tethered
<1> QED
  BY <1>4, <1>5 DEF SoundStep, q

LEMMA ConnectedStep ==
    ASSUME NEW r, GoodRuntime(r), NEW l
    PROVE  SoundStep(r, l, transport_connected(r), "open")
<1> DEFINE q == transport_connected(r)
<1>1. CASE r.background
  <2> DEFINE p == [r EXCEPT !.due = NotDue]
             s == TransportLost(r.state)
  <2>1. /\ GoodRuntime(p) /\ p.attempt = r.attempt /\ p.due = NotDue
        /\ p.user = r.user /\ p.background
    BY <1>1 DEF GoodRuntime, RuntimeFields
  <2>2. GoodState(s) /\ s.fallback = r.state.fallback
    BY EventStep DEF GoodRuntime
  <2>3. q = apply_event(p, s)
    BY <1>1 DEF transport_connected
  <2> HIDE DEF p, s, q
  <2>4. /\ GoodRuntime(q) /\ q.attempt = r.attempt /\ q.user = r.user
        /\ q.background /\ q.state.fallback = r.state.fallback
    BY <2>1, <2>2, <2>3, ApplyStep
  <2>5. ContractStep(r, q) /\ Tethered(q, "open")
    BY <1>1, <2>4 DEF ContractStep, Mode, Tethered
  <2> QED
    BY <2>4, <2>5 DEF SoundStep, q
<1>2. CASE ~r.background
  <2> DEFINE p == [r EXCEPT !.user = FALSE, !.attempt = 0, !.due = NotDue]
             s == TransportConnected(r.state)
  <2>a. Len(Backoff) \in Nat
    BY BackoffAssumption
  <2>1. /\ GoodRuntime(p) /\ p.attempt = 0 /\ p.due = NotDue
        /\ ~p.user /\ ~p.background
    BY <1>2, <2>a DEF GoodRuntime, RuntimeFields
  <2>2. /\ GoodState(s) /\ s.fallback = r.state.fallback
        /\ s.phase = "Connecting"
    BY EventStep DEF GoodRuntime
  <2>3. q = apply_event(p, s)
    BY <1>2 DEF transport_connected
  <2> HIDE DEF p, s, q
  <2>4. /\ GoodRuntime(q) /\ q.attempt = 0 /\ ~q.user /\ ~q.background
        /\ q.due = NotDue /\ q.state = s
    BY <2>1, <2>2, <2>3, ApplyStep
  <2>5. ContractStep(r, q) /\ Tethered(q, "open")
    BY <1>2, <2>2, <2>4 DEF ContractStep, Mode, Tethered
  <2> QED
    BY <2>4, <2>5 DEF SoundStep, q
<1> QED
  BY <1>1, <1>2

LEMMA HangUpStep ==
    ASSUME NEW r, GoodRuntime(r), NEW l
    PROVE  SoundStep(r, l, manual_disconnect(r), l)
<1> DEFINE p == [r EXCEPT !.user = TRUE, !.due = NotDue]
           s == ManualDisconnected(r.state)
           q == apply_event(p, s)
<1>1. /\ GoodRuntime(p) /\ p.attempt = r.attempt /\ p.user
  BY DEF GoodRuntime, RuntimeFields
<1>2. GoodState(s) /\ s.fallback = r.state.fallback
  BY EventStep DEF GoodRuntime
<1> HIDE DEF p, s
<1>3. /\ GoodRuntime(q) /\ q.attempt = r.attempt /\ q.user
      /\ q.state.fallback = r.state.fallback
  BY <1>1, <1>2, ApplyStep
<1> HIDE DEF q
<1>4. ContractStep(r, q) /\ Tethered(q, l)
  BY <1>3 DEF ContractStep, Mode, Tethered
<1>5. manual_disconnect(r) = q
  BY DEF manual_disconnect, q, p, s
<1> QED
  BY <1>3, <1>4, <1>5 DEF SoundStep

LEMMA RecoveredStep ==
    ASSUME NEW r, GoodRuntime(r), NEW l
    PROVE  SoundStep(r, l, recovered(r), l)
<1> DEFINE p == [r EXCEPT !.user = FALSE, !.attempt = 0, !.due = NotDue]
           s == FallbackRecovered(r.state)
           o == apply_event(p, s)
           q == request_connect(o, FALSE)
<1>a. Len(Backoff) \in Nat
  BY BackoffAssumption
<1>1. /\ GoodRuntime(p) /\ p.attempt = 0 /\ p.due = NotDue /\ ~p.user
      /\ p.background = r.background
  BY <1>a DEF GoodRuntime, RuntimeFields
<1>2. GoodState(s) /\ ~s.fallback /\ s.phase = "Disconnected"
  BY EventStep DEF GoodRuntime
<1> HIDE DEF p, s
<1>3. /\ GoodRuntime(o) /\ o.attempt = 0 /\ o.due = NotDue /\ ~o.user
      /\ o.state = s
  BY <1>1, <1>2, ApplyStep
<1> HIDE DEF o
<1>4. /\ GoodRuntime(q) /\ ~q.user /\ q.due = NotDue /\ q.attempt = 0
      /\ ~q.state.fallback
      /\ \/ q.background /\ q.state.phase = "Disconnected"
         \/ ~q.background /\ q.dial /\ q.state.phase = "Connecting"
  BY <1>2, <1>3, RequestStep DEF GoodRuntime
<1> HIDE DEF q
<1>5. ContractStep(r, q) /\ Tethered(q, l)
  BY <1>4 DEF ContractStep, Mode, Tethered
<1>6. recovered(r) = q
  BY DEF recovered, q, o, p, s
<1> QED
  BY <1>4, <1>5, <1>6 DEF SoundStep

LEMMA FrameReceivedStep ==
    ASSUME NEW r, GoodRuntime(r), NEW f, f.kind \in DOMAIN Required,
           f.kind = "moderationSigned" => f.action \in Actions
    PROVE  SoundStep(r, "open", frame_received(r, f), "open")
<1> DEFINE s == reduce_frame(r.state, f)
           p == apply_event(r, s)
           t == OnKeyRotationAck(p.state, [ack_epoch |-> f.epoch])
           q == frame_received(r, f)
<1>1. FrameStep(r.state, s)
  BY ReduceFrameStep DEF GoodRuntime
<1> HIDE DEF s
<1>2. /\ GoodRuntime(p) /\ p.state = s /\ p.attempt = r.attempt
      /\ p.due = r.due /\ p.user = r.user /\ p.background = r.background
  BY <1>1, ApplyStep DEF FrameStep
<1> HIDE DEF p
<1>3. GoodState(t) /\ t.fallback = s.fallback /\ t.phase = s.phase
  BY <1>1, <1>2, AckStep, UntouchedStep DEF FrameStep, Untouched
<1> HIDE DEF t
<1>4. q = p \/ q = apply_event(p, t)
  BY DEF frame_received, p, s, t
<1>5. /\ GoodRuntime(q) /\ q.attempt = r.attempt /\ q.due = r.due
      /\ q.user = r.user /\ q.background = r.background
      /\ q.state.fallback = s.fallback /\ q.state.phase = s.phase
  BY <1>2, <1>3, <1>4, ApplyStep
<1> HIDE DEF q
<1>6. ContractStep(r, q) /\ Tethered(q, "open")
  BY <1>1, <1>5 DEF ContractStep, Mode, Tethered, FrameStep
<1> QED
  BY <1>5, <1>6 DEF SoundStep, q

LEMMA SendFailureStep ==
    ASSUME NEW r, GoodRuntime(r)
    PROVE  SoundStep(r, "open", apply_event(r, FrameSendFailed(r.state)), "open")
<1> DEFINE s == FrameSendFailed(r.state)
           q == apply_event(r, s)
<1>1. /\ GoodState(s) /\ s.fallback = r.state.fallback
      /\ s.phase \in {"Degraded", "FallbackActive"}
  BY EventStep DEF GoodRuntime
<1> HIDE DEF s
<1>2. /\ GoodRuntime(q) /\ q.state = s /\ q.attempt = r.attempt
      /\ q.due = r.due /\ q.user = r.user /\ q.background = r.background
  BY <1>1, ApplyStep
<1> HIDE DEF q
<1>3. ContractStep(r, q) /\ Tethered(q, "open")
  BY <1>1, <1>2 DEF ContractStep, Mode, Tethered
<1> QED
  BY <1>2, <1>3 DEF SoundStep, q, s

LEMMA TimerStep ==
    ASSUME NEW r, GoodRuntime(r), TimerDue(r), NEW l
    PROVE  SoundStep(r, l, request_connect([r EXCEPT !.due = NotDue], FALSE), l)
<1> DEFINE p == [r EXCEPT !.due = NotDue]
           q == request_connect(p, FALSE)
<1>1. /\ GoodRuntime(p) /\ p.state = r.state /\ p.attempt = r.attempt
      /\ ~p.user /\ ~p.background
  BY DEF GoodRuntime, RuntimeFields, TimerDue
<1> HIDE DEF p
<1>a. GoodRuntime(p) /\ ~p.background
  BY <1>1
<1>b. /\ GoodRuntime(q) /\ q.dial /\ ~q.user /\ ~q.background
      /\ q.due = NotDue /\ q.state.phase = "Connecting"
      /\ q.state.fallback = p.state.fallback /\ q.attempt = p.attempt
  BY <1>a, RequestStep
<1> HIDE DEF q
<1>2. /\ GoodRuntime(q) /\ q.dial /\ ~q.user /\ ~q.background
      /\ q.due = NotDue /\ q.state.phase = "Connecting"
      /\ q.state.fallback = r.state.fallback /\ q.attempt = r.attempt
  BY <1>1, <1>b
<1>3. ContractStep(r, q) /\ Tethered(q, l)
  BY <1>2 DEF ContractStep, Mode, Tethered, TimerDue, NotDue
<1> QED
  BY <1>2, <1>3 DEF SoundStep, q, p

LEMMA TickStep ==
    ASSUME NEW r, GoodRuntime(r), r.due > 0, NEW l
    PROVE  SoundStep(r, l, [r EXCEPT !.due = @ - 1], l)
<1> DEFINE q == [r EXCEPT !.due = @ - 1]
<1>1. r.due \in Nat /\ r.due # NotDue /\ r.due - 1 \in Nat /\ r.due - 1 # NotDue
  BY DEF GoodRuntime, NotDue
<1>2. /\ DOMAIN q = RuntimeFields /\ q.state = r.state
      /\ q.attempt = r.attempt /\ q.due = r.due - 1 /\ q.user = r.user
      /\ q.background = r.background /\ q.dial = r.dial
  BY DEF GoodRuntime, RuntimeFields
<1> HIDE DEF q
<1>3. GoodRuntime(q) /\ ContractStep(r, q) /\ Tethered(q, l)
  BY <1>1, <1>2 DEF GoodRuntime, ContractStep, Mode, Tethered
<1> QED
  BY <1>3 DEF SoundStep, q

LEMMA DialStep ==
    ASSUME NEW r, GoodRuntime(r), NEW l
    PROVE  SoundStep(r, l, [r EXCEPT !.dial = FALSE], "dialing")
<1> DEFINE q == [r EXCEPT !.dial = FALSE]
<1>1. /\ GoodRuntime(q) /\ q.state = r.state
      /\ q.attempt = r.attempt /\ q.due = r.due /\ q.user = r.user
      /\ q.background = r.background
  BY DEF GoodRuntime, RuntimeFields
<1> HIDE DEF q
<1>2. ContractStep(r, q) /\ Tethered(q, "dialing")
  BY <1>1 DEF ContractStep, Mode, Tethered
<1> QED
  BY <1>1, <1>2 DEF SoundStep, q
-----------------------------------------------------------------------------
\* The inductive invariant of the session.
SessionInv == GoodRuntime(rt) /\ Tethered(rt, link)

LEMMA InitSession == Init => SessionInv
<1> SUFFICES ASSUME Init PROVE SessionInv
  OBVIOUS
<1>1. Len(Backoff) \in Nat
  BY BackoffAssumption
<1>2. GoodState(rt.state) /\ rt.state.phase = "Disconnected"
  BY DEF Init, new, initial, GoodState, StateFields, Phases
<1>3. /\ DOMAIN rt = RuntimeFields /\ rt.attempt = 0 /\ rt.due = NotDue
      /\ rt.user = FALSE /\ rt.background = FALSE /\ rt.dial = FALSE
  BY DEF Init, new, RuntimeFields
<1>a. rt.attempt \in 0 .. Len(Backoff)
  BY <1>1, <1>3
<1>b. rt.user \in BOOLEAN /\ rt.background \in BOOLEAN /\ rt.dial \in BOOLEAN
  BY <1>3
<1>c. rt.due \in Nat \cup {NotDue} /\ (rt.user \/ rt.background => rt.due = NotDue)
  BY <1>3
<1>4. GoodRuntime(rt)
  BY <1>2, <1>3, <1>a, <1>b, <1>c DEF GoodRuntime
<1> QED
  BY <1>2, <1>3, <1>4 DEF SessionInv, Tethered

\* Every action is a sound step of the runtime.
LEMMA NextSound ==
    ASSUME SessionInv, Next
    PROVE  SoundStep(rt, link, rt', link')
<1> USE DEF SessionInv
<1>1. CASE connect_requested
  BY <1>1, RequestedStep DEF connect_requested
<1>2. CASE on_manual_disconnect
  BY <1>2, HangUpStep DEF on_manual_disconnect
<1>3. CASE recover_from_fallback
  BY <1>3, RecoveredStep DEF recover_from_fallback
<1>4. CASE on_app_foregrounded
  BY <1>4, ForegroundStep DEF on_app_foregrounded
<1>5. CASE on_app_backgrounded
  BY <1>5, BackgroundStep DEF on_app_backgrounded
<1>6. CASE on_connectivity_restored
  <2>1. CASE ~rt.user /\ ~rt.background /\ Idle(rt) /\ ~rt.state.fallback
    BY <1>6, <2>1, RequestedStep
       DEF on_connectivity_restored, connectivity_restored
  <2>2. CASE ~(~rt.user /\ ~rt.background /\ Idle(rt) /\ ~rt.state.fallback)
    BY <1>6, <2>2 DEF on_connectivity_restored, connectivity_restored,
                      SoundStep, ContractStep
  <2> QED
    BY <2>1, <2>2
<1>7. CASE on_connectivity_lost
  <2>1. CASE rt.user
    BY <1>7, <2>1 DEF on_connectivity_lost, connectivity_lost, SoundStep,
                      ContractStep
  <2>2. CASE ~rt.user
    BY <1>7, <2>2, GoneStep DEF on_connectivity_lost, connectivity_lost
  <2> QED
    BY <2>1, <2>2
<1>8. CASE Dial
  BY <1>8, DialStep DEF Dial
<1>9. CASE on_transport_connected
  BY <1>9, ConnectedStep DEF on_transport_connected
<1>10. CASE on_transport_lost
  BY <1>10, GoneStep DEF on_transport_lost
<1>11. CASE on_send_failure
  BY <1>11, SendFailureStep DEF on_send_failure
<1>12. CASE Receive
  BY <1>12, DecodedFrame, FrameReceivedStep DEF Receive
<1>13. CASE take_reconnect_if_due
  BY <1>13, TimerStep DEF take_reconnect_if_due
<1>14. CASE Tick
  BY <1>14, TickStep DEF Tick
<1> QED
  BY <1>1, <1>2, <1>3, <1>4, <1>5, <1>6, <1>7, <1>8, <1>9, <1>10, <1>11,
     <1>12, <1>13, <1>14 DEF Next

LEMMA StepSession == SessionInv /\ [Next]_vars => SessionInv'
<1> SUFFICES ASSUME SessionInv, [Next]_vars PROVE SessionInv'
  OBVIOUS
<1>1. CASE Next
  BY <1>1, NextSound DEF SessionInv, SoundStep
<1>2. CASE UNCHANGED vars
  BY <1>2 DEF vars, SessionInv, GoodRuntime, Tethered
<1> QED
  BY <1>1, <1>2

\* Every reachable state of the session satisfies the inductive invariant:
\* the methods of SessionRuntime keep the record, the timer and the link in
\* step with each other.
THEOREM SessionCorrect == Spec => []SessionInv
BY InitSession, StepSession, PTL DEF Spec

\* No timer runs after on_manual_disconnect or on_app_backgrounded, whatever
\* callbacks come late.
THEOREM QuietProved == Spec => []QuietWhenUnwanted
<1>1. SessionInv => QuietWhenUnwanted
  BY DEF SessionInv, GoodRuntime, QuietWhenUnwanted
<1> QED
  BY <1>1, SessionCorrect, PTL

\* reduce shows Connected only after HandshakeAck.
THEOREM ShakenProved == Spec => []ConnectedMeansShaken
<1>1. SessionInv => ConnectedMeansShaken
  BY DEF SessionInv, GoodRuntime, GoodState, ConnectedMeansShaken
<1> QED
  BY <1>1, SessionCorrect, PTL

\* A session that wants a connection has a link, a request or a timer, for
\* every backoff and every order of callbacks.
THEOREM TetheredProved == Spec => []NeverStranded
<1>1. SessionInv => NeverStranded
  BY DEF SessionInv, Tethered, NeverStranded, Wanted
<1> QED
  BY <1>1, SessionCorrect, PTL

\* The runtime implements the reconnection contract, for every backoff.
THEOREM ContractKept == Spec => KeepsContract
<1>1. Init => Contract!Init
  BY DEF Init, new, initial, Contract!Init, Mode, NotDue
<1>2. SessionInv /\ [Next]_vars => [Contract!Next]_(Contract!vars)
  <2> SUFFICES ASSUME SessionInv, [Next]_vars
               PROVE  [Contract!Next]_(Contract!vars)
    OBVIOUS
  <2>1. CASE Next
    <3>1. ContractStep(rt, rt')
      BY <2>1, NextSound DEF SoundStep
    <3> QED
      BY <3>1 DEF ContractStep, Contract!Next, Contract!vars, Contract!Start,
                  Contract!Retry, Contract!Fail, Contract!Sleep,
                  Contract!HangUp, Contract!GoWeb, Contract!Recover, Mode
  <2>2. CASE UNCHANGED vars
    BY <2>2 DEF vars, Contract!vars, Mode
  <2> QED
    BY <2>1, <2>2
<1> QED
  BY <1>1, <1>2, SessionCorrect, PTL DEF Spec, KeepsContract, Contract!Spec

-----------------------------------------------------------------------------
(***************************************************************************)
(* What the native client knows never goes back: NothingRollsBack, for     *)
(* every traffic, every backoff and every order of callbacks.              *)
(***************************************************************************)
ParticipantFields == {"role", "muted", "video", "share", "waiting"}

\* The fields that are set as a whole, apart from phase, fallback and
\* handshake_complete, which GoodState speaks of.
PlainTypes(s) ==
    /\ s.config \in MeetingConfig
    /\ s.resume_token \in BOOLEAN /\ s.room_locked \in BOOLEAN
    /\ s.e2ee_required \in BOOLEAN /\ s.recording \in BOOLEAN
    /\ s.payment_required \in BOOLEAN
    /\ s.settlement_status \in SettlementStatuses
    /\ s.last_error \in SessionError \cup {NoError}

\* What the comparisons of the reducer rely on, and the rest of the types.
KnownTypes(s) ==
    /\ DOMAIN s = StateFields
    /\ s.presence_sequence \in Int /\ s.policy_epoch \in Int
    /\ s.current_epoch \in Int /\ s.last_ack_epoch \in Int
    /\ DOMAIN s.permission_snapshots \subseteq Members
    /\ \A p \in DOMAIN s.permission_snapshots : s.permission_snapshots[p] \in Int
    /\ DOMAIN s.participants \subseteq Members
    /\ \A p \in DOMAIN s.participants : s.participants[p] \in Participant
    /\ PlainTypes(s)

LEMMA SessionTypes ==
    ASSUME NEW s, GoodState(s), KnownTypes(s)
    PROVE  IsSessionState(s)
BY DEF GoodState, KnownTypes, PlainTypes, IsSessionState

LEMMA ErrorTypes ==
    /\ NoError \in SessionError \cup {NoError}
    /\ \A category \in ErrorCategories : \A code \in ErrorCodes :
           [category |-> category, code |-> code] \in SessionError \cup {NoError}
BY DEF SessionError

\* What does not count for the property.
Remembers(s, t) ==
    /\ DOMAIN t = StateFields
    /\ t.presence_sequence = s.presence_sequence
    /\ t.policy_epoch = s.policy_epoch
    /\ t.current_epoch = s.current_epoch
    /\ t.last_ack_epoch = s.last_ack_epoch
    /\ t.permission_snapshots = s.permission_snapshots
    /\ t.participants = s.participants
    /\ PlainTypes(s) => PlainTypes(t)

\* A step of NothingRollsBack from state s to state t.
Forward(s, t) ==
    /\ t.presence_sequence >= s.presence_sequence
    /\ t.policy_epoch >= s.policy_epoch
    /\ t.current_epoch >= s.current_epoch
    /\ t.last_ack_epoch >= s.last_ack_epoch
    /\ \A p \in DOMAIN s.permission_snapshots :
           /\ p \in DOMAIN t.permission_snapshots
           /\ t.permission_snapshots[p] >= s.permission_snapshots[p]
    /\ \A p \in DOMAIN t.participants :
           \/ t.presence_sequence > s.presence_sequence
           \/ /\ p \in DOMAIN s.participants
              /\ s.participants[p].muted => t.participants[p].muted
              /\ t.participants[p].waiting => s.participants[p].waiting

LEMMA RemembersForward ==
    ASSUME NEW s, KnownTypes(s), NEW t, Remembers(s, t)
    PROVE  KnownTypes(t) /\ Forward(s, t)
BY DEF KnownTypes, Remembers, Forward

LEMMA RemembersBefore ==
    ASSUME NEW s, NEW t, NEW u, Remembers(t, u)
    PROVE  /\ Forward(s, t) => Forward(s, u)
           /\ KnownTypes(t) => KnownTypes(u)
           /\ Remembers(s, t) => Remembers(s, u)
BY DEF KnownTypes, Remembers, Forward

\* The policies look at what is known and change none of it.
LEMMA EnforceRemembers ==
    ASSUME NEW s, DOMAIN s = StateFields
    PROVE  /\ \A code \in ErrorCodes : Remembers(s, policy_reject(s, code))
           /\ Remembers(s, enforce_e2ee_epoch_policy(s))
           /\ Remembers(s, enforce_payment_settlement_policy(s))
<1>1. \A code \in ErrorCodes : Remembers(s, policy_reject(s, code))
  <2> SUFFICES ASSUME NEW code \in ErrorCodes
               PROVE  Remembers(s, policy_reject(s, code))
    OBVIOUS
  <2> DEFINE e == [category |-> "policy", code |-> code]
  <2>1. e \in SessionError \cup {NoError}
    BY ErrorTypes DEF ErrorCategories
  <2>2. policy_reject(s, code).last_error = e
    BY DEF policy_reject, StateFields
  <2> HIDE DEF e
  <2> QED
    BY <2>1, <2>2 DEF Remembers, PlainTypes, StateFields, policy_reject
<1>2. \A code : Remembers(s, clear_error_if_matching(s, code))
  BY DEF Remembers, PlainTypes, StateFields, clear_error_if_matching
<1>3. Remembers(s, enforce_e2ee_epoch_policy(s))
  BY <1>1, <1>2 DEF enforce_e2ee_epoch_policy, ErrorCodes
<1>4. Remembers(s, enforce_payment_settlement_policy(s))
  BY <1>1, <1>2 DEF enforce_payment_settlement_policy, ErrorCodes
<1> QED
  BY <1>1, <1>3, <1>4

LEMMA EventRemembers ==
    ASSUME NEW s, DOMAIN s = StateFields
    PROVE  /\ Remembers(s, ConnectRequested(s))
           /\ Remembers(s, TransportConnected(s))
           /\ Remembers(s, TransportLost(s))
           /\ Remembers(s, FrameSendFailed(s))
           /\ Remembers(s, ManualDisconnected(s))
           /\ Remembers(s, FallbackActivated(s))
           /\ Remembers(s, FallbackRecovered(s))
<1>1. TransportError \in SessionError \cup {NoError}
  BY ErrorTypes DEF TransportError, ErrorCategories, ErrorCodes
<1> QED
  BY <1>1, ErrorTypes
     DEF Remembers, PlainTypes, StateFields, ConnectRequested,
         TransportConnected, TransportLost, FrameSendFailed,
         ManualDisconnected, FallbackActivated, FallbackRecovered
-----------------------------------------------------------------------------
\* What a decoded frame brings along.
FrameTypes(f) ==
    /\ f.kind \in DOMAIN Required
    /\ f.kind = "moderationSigned" => f.action \in Actions
    /\ f.kind = "participantPresenceDelta" =>
           /\ f.sequence \in Int
           /\ DOMAIN f.joined \subseteq Members
           /\ \A p \in DOMAIN f.joined : f.joined[p] \in Participant
           /\ \A p \in DOMAIN f.role_changes :
                  f.role_changes[p] \in ParticipantRoles
    /\ f.kind = "roleGrant" => f.role \in ParticipantRoles
    /\ f.kind = "sessionPolicy" =>
           /\ f.policy_epoch \in Int
           /\ {f.room_lock, f.recording_policy, f.e2ee_required} \subseteq BOOLEAN
    /\ f.kind = "permissionsSnapshot" => f.participant_id \in Members
    /\ f.kind \in {"permissionsSnapshot", "e2eeKeyEpoch"} => f.epoch \in Int
    /\ f.kind = "recordingNotice" => f.state \in BOOLEAN
    /\ f.kind = "keyRotationAck" => f.ack_epoch \in Int
    /\ f.kind = "paymentPolicy" => f.required \in BOOLEAN
    /\ f.kind = "paymentSettlement" => f.status \in SettlementStatuses
    /\ f.kind = "error" =>
           /\ f.category \in ErrorCategories
           /\ f.code \in ErrorCodes

LEMMA PresenceForward ==
    ASSUME NEW s, KnownTypes(s), NEW f, f.kind = "participantPresenceDelta",
           FrameTypes(f)
    PROVE  KnownTypes(OnPresenceDelta(s, f)) /\ Forward(s, OnPresenceDelta(s, f))
<1> DEFINE t == OnPresenceDelta(s, f)
           stay == (DOMAIN s.participants \cup DOMAIN f.joined) \ f.left
           entry(p) == IF p \in DOMAIN f.joined THEN f.joined[p]
                       ELSE s.participants[p]
           roster == [p \in stay |->
                         IF p \in DOMAIN f.role_changes
                         THEN [entry(p) EXCEPT !.role = f.role_changes[p]]
                         ELSE entry(p)]
<1>1. CASE Stale(s, f)
  BY <1>1, RemembersForward DEF OnPresenceDelta, Remembers, KnownTypes
<1>2. CASE ~Stale(s, f)
  <2>1. t = [s EXCEPT !.participants = roster, !.presence_sequence = f.sequence]
    BY <1>2 DEF OnPresenceDelta
  <2>2. \A p \in stay : roster[p] \in Participant
    <3>1. \A p \in stay : entry(p) \in Participant
      BY DEF KnownTypes, FrameTypes
    <3>2. \A e \in Participant : \A role \in ParticipantRoles :
             [e EXCEPT !.role = role] \in Participant
      BY DEF Participant
    <3>3. \A p \in DOMAIN f.role_changes : f.role_changes[p] \in ParticipantRoles
      BY DEF FrameTypes
    <3> HIDE DEF entry
    <3> QED
      BY <3>1, <3>2, <3>3
  <2>3. DOMAIN roster = stay /\ stay \subseteq Members
    BY DEF KnownTypes, FrameTypes
  <2> HIDE DEF roster, stay
  <2>4. /\ DOMAIN t = StateFields /\ t.participants = roster
        /\ t.presence_sequence = f.sequence
        /\ t.policy_epoch = s.policy_epoch
        /\ t.current_epoch = s.current_epoch
        /\ t.last_ack_epoch = s.last_ack_epoch
        /\ t.permission_snapshots = s.permission_snapshots
        /\ PlainTypes(t)
    BY <2>1 DEF KnownTypes, StateFields, PlainTypes
  <2>5. f.sequence \in Int /\ f.sequence > s.presence_sequence
    BY <1>2 DEF Stale, FrameTypes, KnownTypes
  <2> HIDE DEF t
  <2>6. KnownTypes(t) /\ Forward(s, t)
    BY <2>2, <2>3, <2>4, <2>5 DEF KnownTypes, Forward
  <2> QED
    BY <2>6 DEF t
<1> QED
  BY <1>1, <1>2

\* A change of one participant that neither unmutes it nor lets it wait.
LEMMA OneParticipant ==
    ASSUME NEW s, KnownTypes(s), NEW p \in DOMAIN s.participants,
           NEW field \in ParticipantFields, NEW v,
           IF field = "role" THEN v \in ParticipantRoles ELSE v \in BOOLEAN,
           field = "muted" => v = TRUE, field = "waiting" => v = FALSE
    PROVE  LET t == [s EXCEPT !.participants =
                        [s.participants EXCEPT ![p] =
                            [s.participants[p] EXCEPT ![field] = v]]]
           IN  KnownTypes(t) /\ Forward(s, t)
<1> DEFINE entry == [s.participants[p] EXCEPT ![field] = v]
           roster == [s.participants EXCEPT ![p] = entry]
           t == [s EXCEPT !.participants = roster]
<1>1. entry \in Participant
  BY DEF KnownTypes, ParticipantFields, Participant
<1>2. /\ entry.muted = s.participants[p].muted \/ entry.muted = TRUE
      /\ entry.waiting = s.participants[p].waiting \/ entry.waiting = FALSE
  BY DEF KnownTypes, ParticipantFields, Participant
<1> HIDE DEF entry
<1>3. /\ DOMAIN roster = DOMAIN s.participants
      /\ \A d \in DOMAIN s.participants :
             roster[d] = IF d = p THEN entry ELSE s.participants[d]
  OBVIOUS
<1> HIDE DEF roster
<1>4. /\ DOMAIN t = StateFields /\ t.participants = roster
      /\ t.presence_sequence = s.presence_sequence
      /\ t.policy_epoch = s.policy_epoch
      /\ t.current_epoch = s.current_epoch
      /\ t.last_ack_epoch = s.last_ack_epoch
      /\ t.permission_snapshots = s.permission_snapshots
      /\ PlainTypes(t)
  BY DEF KnownTypes, StateFields, PlainTypes
<1> HIDE DEF t
<1>5. KnownTypes(t)
  BY <1>1, <1>3, <1>4 DEF KnownTypes
<1>6. Forward(s, t)
  <2>1. \A d \in DOMAIN t.participants :
           /\ d \in DOMAIN s.participants
           /\ s.participants[d].muted => t.participants[d].muted
           /\ t.participants[d].waiting => s.participants[d].waiting
    BY <1>2, <1>3, <1>4
  <2> QED
    BY <1>4, <2>1 DEF KnownTypes, Forward
<1> QED
  BY <1>5, <1>6 DEF t, roster, entry

LEMMA SameForward ==
    ASSUME NEW s, KnownTypes(s)
    PROVE  Forward(s, s)
BY DEF KnownTypes, Forward

LEMMA RoleForward ==
    ASSUME NEW s, KnownTypes(s), NEW f
    PROVE  /\ f.role \in ParticipantRoles =>
                  KnownTypes(OnRoleGrant(s, f)) /\ Forward(s, OnRoleGrant(s, f))
           /\ KnownTypes(OnRoleRevoke(s, f)) /\ Forward(s, OnRoleRevoke(s, f))
<1>1. CASE Unknown(s, f.target)
  BY <1>1, SameForward DEF OnRoleGrant, OnRoleRevoke
<1>2. CASE ~Unknown(s, f.target)
  <2> DEFINE t(v) == [s EXCEPT !.participants =
                         [s.participants EXCEPT ![f.target] =
                             [s.participants[f.target] EXCEPT !["role"] = v]]]
  <2>1. \A v \in ParticipantRoles : KnownTypes(t(v)) /\ Forward(s, t(v))
    BY <1>2, OneParticipant DEF Unknown, ParticipantFields
  <2>2. OnRoleGrant(s, f) = t(f.role)
    BY <1>2 DEF OnRoleGrant
  <2>3. OnRoleRevoke(s, f) \in {s, t("participant")}
    BY <1>2 DEF OnRoleRevoke
  <2> HIDE DEF t
  <2> QED
    BY <2>1, <2>2, <2>3, SameForward DEF ParticipantRoles
<1> QED
  BY <1>1, <1>2

LEMMA ModerationForward ==
    ASSUME NEW s, KnownTypes(s), NEW f, f.action \in Actions
    PROVE  KnownTypes(OnModeration(s, f)) /\ Forward(s, OnModeration(s, f))
<1>1. CASE Unknown(s, f.target)
  BY <1>1, SameForward DEF OnModeration
<1>2. CASE ~Unknown(s, f.target) /\ f.action \in {"kick", "denyFromWaiting"}
  <2> DEFINE roster == Restrict(s.participants, DOMAIN s.participants \ {f.target})
             t == [s EXCEPT !.participants = roster]
  <2>1. OnModeration(s, f) = t
    BY <1>2 DEF OnModeration
  <2>2. /\ DOMAIN roster \subseteq DOMAIN s.participants
        /\ \A p \in DOMAIN roster : roster[p] = s.participants[p]
    BY DEF Restrict
  <2> HIDE DEF roster
  <2>3. /\ DOMAIN t = StateFields /\ t.participants = roster
        /\ t.presence_sequence = s.presence_sequence
        /\ t.policy_epoch = s.policy_epoch
        /\ t.current_epoch = s.current_epoch
        /\ t.last_ack_epoch = s.last_ack_epoch
        /\ t.permission_snapshots = s.permission_snapshots
        /\ PlainTypes(t)
    BY DEF KnownTypes, StateFields, PlainTypes
  <2> HIDE DEF t
  <2>4. KnownTypes(t) /\ Forward(s, t)
    BY <2>2, <2>3 DEF KnownTypes, Forward
  <2> QED
    BY <2>1, <2>4
<1>3. CASE ~Unknown(s, f.target) /\ f.action \notin {"kick", "denyFromWaiting"}
  <2> DEFINE t(field, v) == [s EXCEPT !.participants =
                                [s.participants EXCEPT ![f.target] =
                                    [s.participants[f.target] EXCEPT ![field] = v]]]
  <2>1. /\ KnownTypes(t("muted", TRUE)) /\ Forward(s, t("muted", TRUE))
        /\ KnownTypes(t("video", FALSE)) /\ Forward(s, t("video", FALSE))
        /\ KnownTypes(t("share", FALSE)) /\ Forward(s, t("share", FALSE))
        /\ KnownTypes(t("waiting", FALSE)) /\ Forward(s, t("waiting", FALSE))
    BY <1>3, OneParticipant DEF Unknown, ParticipantFields
  <2>2. OnModeration(s, f) \in {t("muted", TRUE), t("video", FALSE),
                                t("share", FALSE), t("waiting", FALSE)}
    BY <1>3 DEF OnModeration, Actions
  <2> HIDE DEF t
  <2> QED
    BY <2>1, <2>2
<1> QED
  BY <1>1, <1>2, <1>3

LEMMA PermissionsForward ==
    ASSUME NEW s, KnownTypes(s), NEW f, f.epoch \in Int,
           f.participant_id \in Members
    PROVE  /\ KnownTypes(OnPermissionsSnapshot(s, f))
           /\ Forward(s, OnPermissionsSnapshot(s, f))
<1> DEFINE known == DOMAIN s.permission_snapshots
           who == f.participant_id
           now == [p \in known \cup {who} |->
                      IF p = who THEN f.epoch ELSE s.permission_snapshots[p]]
           t == [s EXCEPT !.permission_snapshots = now]
<1>1. CASE who \in known /\ f.epoch <= s.permission_snapshots[who]
  BY <1>1, SameForward DEF OnPermissionsSnapshot
<1>2. CASE ~(who \in known /\ f.epoch <= s.permission_snapshots[who])
  <2>1. OnPermissionsSnapshot(s, f) = t
    BY <1>2 DEF OnPermissionsSnapshot
  <2>2. /\ DOMAIN now = known \cup {who} /\ DOMAIN now \subseteq Members
        /\ \A p \in known : now[p] \in Int /\ now[p] >= s.permission_snapshots[p]
        /\ now[who] \in Int
    BY <1>2 DEF KnownTypes
  <2> HIDE DEF now
  <2>3. /\ DOMAIN t = StateFields /\ t.permission_snapshots = now
        /\ t.presence_sequence = s.presence_sequence
        /\ t.policy_epoch = s.policy_epoch
        /\ t.current_epoch = s.current_epoch
        /\ t.last_ack_epoch = s.last_ack_epoch
        /\ t.participants = s.participants
        /\ PlainTypes(t)
    BY DEF KnownTypes, StateFields, PlainTypes
  <2> HIDE DEF t
  <2>4. KnownTypes(t) /\ Forward(s, t)
    BY <2>2, <2>3 DEF KnownTypes, Forward
  <2> QED
    BY <2>1, <2>4
<1> QED
  BY <1>1, <1>2

LEMMA EpochForward ==
    ASSUME NEW s, KnownTypes(s), NEW f
    PROVE  /\ /\ f.policy_epoch \in Int
              /\ {f.room_lock, f.recording_policy, f.e2ee_required} \subseteq BOOLEAN
              => KnownTypes(OnSessionPolicy(s, f)) /\ Forward(s, OnSessionPolicy(s, f))
           /\ f.epoch \in Int =>
                  KnownTypes(OnE2eeKeyEpoch(s, f)) /\ Forward(s, OnE2eeKeyEpoch(s, f))
           /\ f.ack_epoch \in Int =>
                  /\ KnownTypes(OnKeyRotationAck(s, f))
                  /\ Forward(s, OnKeyRotationAck(s, f))
<1>1. ASSUME f.policy_epoch \in Int,
             {f.room_lock, f.recording_policy, f.e2ee_required} \subseteq BOOLEAN
      PROVE  KnownTypes(OnSessionPolicy(s, f)) /\ Forward(s, OnSessionPolicy(s, f))
  <2> DEFINE t == [s EXCEPT !.room_locked = f.room_lock,
                            !.recording = f.recording_policy,
                            !.e2ee_required = f.e2ee_required,
                            !.policy_epoch = f.policy_epoch]
  <2>1. CASE f.policy_epoch < s.policy_epoch
    BY <2>1, SameForward DEF OnSessionPolicy
  <2>2. CASE ~(f.policy_epoch < s.policy_epoch)
    <3>1. KnownTypes(t) /\ Forward(s, t)
      BY <1>1, <2>2 DEF KnownTypes, Forward, StateFields, PlainTypes
    <3> HIDE DEF t
    <3>2. OnSessionPolicy(s, f) = enforce_e2ee_epoch_policy(t)
      BY <2>2 DEF OnSessionPolicy, t
    <3> QED
      BY <3>1, <3>2, EnforceRemembers, RemembersBefore DEF KnownTypes
  <2> QED
    BY <2>1, <2>2
<1>2. ASSUME f.epoch \in Int
      PROVE  KnownTypes(OnE2eeKeyEpoch(s, f)) /\ Forward(s, OnE2eeKeyEpoch(s, f))
  <2> DEFINE t == [s EXCEPT !.current_epoch = Larger(s.current_epoch, f.epoch)]
  <2>1. KnownTypes(t) /\ Forward(s, t)
    BY <1>2 DEF KnownTypes, Forward, StateFields, Larger, PlainTypes
  <2> HIDE DEF t
  <2>2. \/ OnE2eeKeyEpoch(s, f) = enforce_e2ee_epoch_policy(t)
        \/ OnE2eeKeyEpoch(s, f) = policy_reject(s, "e2ee")
    BY DEF OnE2eeKeyEpoch, t
  <2>3. Remembers(t, enforce_e2ee_epoch_policy(t))
    BY <2>1, EnforceRemembers DEF KnownTypes
  <2>4. Remembers(s, policy_reject(s, "e2ee"))
    BY EnforceRemembers DEF KnownTypes, ErrorCodes
  <2> QED
    BY <2>1, <2>2, <2>3, <2>4, RemembersBefore, RemembersForward
<1>3. ASSUME f.ack_epoch \in Int
      PROVE  /\ KnownTypes(OnKeyRotationAck(s, f))
             /\ Forward(s, OnKeyRotationAck(s, f))
  BY <1>3 DEF KnownTypes, Forward, StateFields, Larger, PlainTypes,
              OnKeyRotationAck
<1> QED
  BY <1>1, <1>2, <1>3

\* The frames that leave all of it alone.
LEMMA OtherFrames ==
    ASSUME NEW s, KnownTypes(s), NEW f, FrameTypes(f)
    PROVE  /\ Remembers(s, OnHandshakeAck(s))
           /\ Remembers(s, OnMediaProfile(s, f))
           /\ f.kind = "error" => Remembers(s, OnErrorFrame(s, f))
           /\ f.kind = "paymentPolicy" => Remembers(s, OnPaymentPolicy(s, f))
           /\ f.kind = "paymentSettlement" =>
                  Remembers(s, OnPaymentSettlement(s, f))
           /\ f.kind = "recordingNotice" =>
                  Remembers(s, [s EXCEPT !.recording = f.state])
<1>1. /\ Remembers(s, OnHandshakeAck(s))
      /\ Remembers(s, OnMediaProfile(s, f))
  BY ErrorTypes
     DEF KnownTypes, StateFields, Remembers, PlainTypes, OnHandshakeAck,
         OnMediaProfile
<1>2. ASSUME f.kind = "error"
      PROVE  Remembers(s, OnErrorFrame(s, f))
  <2> DEFINE e == [category |-> f.category, code |-> f.code]
  <2>1. e \in SessionError \cup {NoError}
    BY <1>2, ErrorTypes DEF FrameTypes
  <2>2. OnErrorFrame(s, f).last_error = e
    BY DEF KnownTypes, StateFields, OnErrorFrame
  <2> HIDE DEF e
  <2> QED
    BY <2>1, <2>2 DEF KnownTypes, StateFields, Remembers, PlainTypes, OnErrorFrame
<1>3. f.kind = "recordingNotice" => Remembers(s, [s EXCEPT !.recording = f.state])
  BY DEF KnownTypes, StateFields, Remembers, PlainTypes, FrameTypes
<1> DEFINE t == [s EXCEPT !.payment_required = f.required,
                          !.settlement_status =
                              IF f.required THEN "pending" ELSE "not_required"]
           u == [s EXCEPT !.settlement_status = f.status]
<1>4. f.kind = "paymentPolicy" => Remembers(s, t)
  BY DEF KnownTypes, StateFields, Remembers, PlainTypes, FrameTypes,
         SettlementStatuses
<1>5. f.kind = "paymentSettlement" => Remembers(s, u)
  BY DEF KnownTypes, StateFields, Remembers, PlainTypes, FrameTypes
<1> HIDE DEF t, u
<1>6. f.kind = "paymentPolicy" =>
          Remembers(s, enforce_payment_settlement_policy(t))
  BY <1>4, EnforceRemembers, RemembersBefore DEF Remembers
<1>7. f.kind = "paymentSettlement" =>
          Remembers(s, enforce_payment_settlement_policy(u))
  BY <1>5, EnforceRemembers, RemembersBefore DEF Remembers
<1> QED
  BY <1>1, <1>2, <1>3, <1>6, <1>7 DEF OnPaymentPolicy, OnPaymentSettlement, t, u

LEMMA ReduceFrameForward ==
    ASSUME NEW s, KnownTypes(s), NEW f, FrameTypes(f)
    PROVE  KnownTypes(reduce_frame(s, f)) /\ Forward(s, reduce_frame(s, f))
<1>1. CASE f.kind \in {"roleGrant", "roleRevoke", "moderationSigned",
                       "sessionPolicy"}
  <2>1. f.kind = "moderationSigned" => f.action \in Actions
    BY DEF FrameTypes
  <2>2. f.kind = "sessionPolicy" =>
           /\ f.policy_epoch \in Int
           /\ {f.room_lock, f.recording_policy, f.e2ee_required} \subseteq BOOLEAN
    BY DEF FrameTypes
  <2>3. f.kind = "roleGrant" => f.role \in ParticipantRoles
    BY DEF FrameTypes
  <2>4. KnownTypes(Governed(s, f)) /\ Forward(s, Governed(s, f))
    BY <1>1, <2>1, <2>2, <2>3, RoleForward, ModerationForward, EpochForward
       DEF Governed
  <2>5. Remembers(s, policy_reject(s, "other"))
    BY EnforceRemembers DEF KnownTypes, ErrorCodes
  <2>6. reduce_frame(s, f) \in {Governed(s, f), policy_reject(s, "other")}
    BY <1>1 DEF reduce_frame, OnGoverned
  <2> QED
    BY <2>4, <2>5, <2>6, RemembersForward
<1>2. CASE f.kind = "participantPresenceDelta"
  BY <1>2, PresenceForward DEF reduce_frame
<1>3. CASE f.kind = "permissionsSnapshot"
  <2>1. f.epoch \in Int /\ f.participant_id \in Members
    BY <1>3 DEF FrameTypes
  <2> QED
    BY <1>3, <2>1, PermissionsForward DEF reduce_frame
<1>4. CASE f.kind = "e2eeKeyEpoch"
  <2>1. f.epoch \in Int
    BY <1>4 DEF FrameTypes
  <2> QED
    BY <1>4, <2>1, EpochForward DEF reduce_frame
<1>5. CASE f.kind = "keyRotationAck"
  <2>1. f.ack_epoch \in Int
    BY <1>5 DEF FrameTypes
  <2> QED
    BY <1>5, <2>1, EpochForward DEF reduce_frame
<1>6. CASE f.kind \in {"handshakeAck", "mediaProfileNegotiation", "error",
                       "recordingNotice", "paymentPolicy", "paymentSettlement"}
  BY <1>6, OtherFrames, RemembersForward DEF reduce_frame
<1>7. CASE f.kind \in {"handshake", "deviceCapability", "ping", "pong"}
  BY <1>7, SameForward DEF reduce_frame
<1> QED
  BY <1>1, <1>2, <1>3, <1>4, <1>5, <1>6, <1>7 DEF Required, FrameTypes

\* The acknowledgement that follows a key epoch touches one number only.
LEMMA AckAfter ==
    ASSUME NEW s, KnownTypes(s), NEW t, KnownTypes(t), Forward(s, t),
           NEW f, f.ack_epoch \in Int
    PROVE  /\ KnownTypes(OnKeyRotationAck(t, f))
           /\ Forward(s, OnKeyRotationAck(t, f))
<1> DEFINE u == OnKeyRotationAck(t, f)
<1>1. /\ DOMAIN u = StateFields
      /\ u.presence_sequence = t.presence_sequence
      /\ u.policy_epoch = t.policy_epoch
      /\ u.current_epoch = t.current_epoch
      /\ u.permission_snapshots = t.permission_snapshots
      /\ u.participants = t.participants
      /\ PlainTypes(u)
  BY DEF KnownTypes, StateFields, PlainTypes, OnKeyRotationAck
<1>2. u.last_ack_epoch \in Int /\ u.last_ack_epoch >= t.last_ack_epoch
  BY DEF KnownTypes, StateFields, OnKeyRotationAck, Larger
<1> HIDE DEF u
<1>3. u.last_ack_epoch >= s.last_ack_epoch
  BY <1>2 DEF KnownTypes, Forward
<1>4. KnownTypes(u) /\ Forward(s, u)
  BY <1>1, <1>2, <1>3 DEF KnownTypes, Forward
<1> QED
  BY <1>4 DEF u

LEMMA FrameReceivedForward ==
    ASSUME NEW r, DOMAIN r = RuntimeFields, KnownTypes(r.state),
           NEW f, FrameTypes(f)
    PROVE  /\ KnownTypes(frame_received(r, f).state)
           /\ Forward(r.state, frame_received(r, f).state)
<1> DEFINE s == reduce_frame(r.state, f)
           p == apply_event(r, s)
           g == [ack_epoch |-> f.epoch]
           t == OnKeyRotationAck(s, g)
           q == frame_received(r, f)
<1>1. KnownTypes(s) /\ Forward(r.state, s)
  BY ReduceFrameForward
<1> HIDE DEF s
<1>2. p.state = s /\ DOMAIN p = RuntimeFields
  BY DEF apply_event, RuntimeFields
<1> HIDE DEF p
<1>3. \A z : apply_event(p, z).state = z
  BY <1>2 DEF apply_event, RuntimeFields
<1>4. q = p \/ (f.kind = "e2eeKeyEpoch" /\ q = apply_event(p, t))
  BY <1>2 DEF frame_received, p, s
<1>5. CASE q = p
  BY <1>1, <1>2, <1>5
<1>6. CASE f.kind = "e2eeKeyEpoch" /\ q = apply_event(p, t)
  <2>1. g.ack_epoch \in Int
    BY <1>6 DEF FrameTypes
  <2> HIDE DEF g
  <2>2. KnownTypes(t) /\ Forward(r.state, t)
    BY <1>1, <2>1, AckAfter
  <2> HIDE DEF t
  <2> QED
    BY <1>3, <1>6, <2>2
<1> QED
  BY <1>4, <1>5, <1>6

LEMMA ParsedParticipant ==
    ASSUME NEW raw,
           \A name \in {"muted", "video", "share", "waiting"} :
               Field(raw, name, FALSE) \in BOOLEAN
    PROVE  parse_participant(raw) \in Participant
<1>1. /\ Field(raw, "muted", FALSE) \in BOOLEAN
      /\ Field(raw, "video", TRUE) \in BOOLEAN
      /\ Field(raw, "share", TRUE) \in BOOLEAN
      /\ Field(raw, "waiting", FALSE) \in BOOLEAN
  BY DEF Field
<1>2. Word(raw, "role", ParticipantRoles, "participant") \in ParticipantRoles
  BY DEF Word, ParticipantRoles
<1> QED
  BY <1>1, <1>2 DEF parse_participant, Participant

LEMMA DecodedPresence ==
    ASSUME NEW raw, IsRaw(raw), raw.kind = "participantPresenceDelta"
    PROVE  LET f == decode_frame(raw)
           IN  /\ f.sequence \in Int
               /\ DOMAIN f.joined \subseteq Members
               /\ \A p \in DOMAIN f.joined : f.joined[p] \in Participant
               /\ \A p \in DOMAIN f.role_changes :
                      f.role_changes[p] \in ParticipantRoles
<1> DEFINE f == decode_presence(raw)
           joined == Field(raw, "joined", <<>>)
           changes == Field(raw, "role_changes", <<>>)
<1>1. decode_frame(raw) = f
  BY DEF decode_frame
<1>2. /\ f.sequence = Field(raw, "sequence", 0)
      /\ f.joined = [p \in DOMAIN joined |-> parse_participant(joined[p])]
      /\ f.role_changes = [p \in DOMAIN changes |->
                              Word(changes, p, ParticipantRoles, "participant")]
  BY DEF decode_presence
<1>3. /\ Field(raw, "sequence", 0) \in Int
      /\ DOMAIN joined \subseteq Members
      /\ \A p \in DOMAIN joined :
             \A name \in {"muted", "video", "share", "waiting"} :
                 Field(joined[p], name, FALSE) \in BOOLEAN
  BY DEF IsRaw
<1>4. \A p \in DOMAIN changes :
         Word(changes, p, ParticipantRoles, "participant") \in ParticipantRoles
  BY DEF Word, ParticipantRoles
<1> HIDE DEF joined, changes, f
<1>5. \A p \in DOMAIN joined : parse_participant(joined[p]) \in Participant
  BY <1>3, ParsedParticipant
<1> QED
  BY <1>1, <1>2, <1>3, <1>4, <1>5

LEMMA DecodedTypes ==
    ASSUME NEW raw, Decodes(raw), IsRaw(raw)
    PROVE  FrameTypes(decode_frame(raw))
<1> DEFINE f == decode_frame(raw)
<1>1. /\ f.kind \in DOMAIN Required
      /\ f.kind = "moderationSigned" => f.action \in Actions
  BY DecodedFrame
<1>2. f.kind = raw.kind
  BY DEF decode_frame, decode_presence, decode_signed, decode_session_policy,
         decode_other
<1>3. /\ Field(raw, "policy_epoch", 0) \in Int /\ Field(raw, "epoch", 0) \in Int
      /\ Field(raw, "ack_epoch", 0) \in Int
      /\ Field(raw, "room_lock", FALSE) \in BOOLEAN
      /\ Field(raw, "recording_policy", FALSE) \in BOOLEAN
      /\ Field(raw, "e2ee_required", FALSE) \in BOOLEAN
      /\ Field(raw, "state", FALSE) \in BOOLEAN
      /\ Field(raw, "required", FALSE) \in BOOLEAN
      /\ Field(raw, "code", "other") \in ErrorCodes
  BY DEF IsRaw
<1>4. Field(raw, "e2ee_required", TRUE) \in BOOLEAN
  BY <1>3 DEF Field
<1>5. /\ Word(raw, "role", ParticipantRoles, "participant") \in ParticipantRoles
      /\ Word(raw, "status", SettlementStatuses, "not_required")
             \in SettlementStatuses
      /\ Word(raw, "category", ErrorCategories, "protocol") \in ErrorCategories
  BY DEF Word, ParticipantRoles, SettlementStatuses, ErrorCategories
<1>6. raw.kind = "roleGrant" => f.role \in ParticipantRoles
  BY <1>5 DEF decode_frame, decode_signed
<1>7. raw.kind = "sessionPolicy" =>
         /\ f.policy_epoch \in Int
         /\ {f.room_lock, f.recording_policy, f.e2ee_required} \subseteq BOOLEAN
  BY <1>3, <1>4 DEF decode_frame, decode_session_policy
<1>8. raw.kind = "permissionsSnapshot" => f.participant_id \in Members
  BY DEF decode_frame, decode_other, Decodes, Required, IsRaw
<1>9. raw.kind \in {"permissionsSnapshot", "e2eeKeyEpoch"} => f.epoch \in Int
  BY <1>3 DEF decode_frame, decode_other
<1>10. /\ raw.kind = "recordingNotice" => f.state \in BOOLEAN
       /\ raw.kind = "keyRotationAck" => f.ack_epoch \in Int
       /\ raw.kind = "paymentPolicy" => f.required \in BOOLEAN
  BY <1>3 DEF decode_frame, decode_other
<1>11. /\ raw.kind = "paymentSettlement" => f.status \in SettlementStatuses
       /\ raw.kind = "error" => f.category \in ErrorCategories /\ f.code \in ErrorCodes
  BY <1>3, <1>5 DEF decode_frame, decode_other
<1>12. raw.kind = "participantPresenceDelta" =>
          /\ f.sequence \in Int
          /\ DOMAIN f.joined \subseteq Members
          /\ \A p \in DOMAIN f.joined : f.joined[p] \in Participant
          /\ \A p \in DOMAIN f.role_changes :
                 f.role_changes[p] \in ParticipantRoles
  BY DecodedPresence
<1> HIDE DEF f
<1>13. FrameTypes(f)
  BY <1>1, <1>2, <1>6, <1>7, <1>8, <1>9, <1>10, <1>11, <1>12 DEF FrameTypes
<1> QED
  BY <1>13 DEF f
-----------------------------------------------------------------------------
\* The callbacks of the runtime other than frames forget nothing: a session
\* that reconnects, hangs up or recovers knows what it knew.
LEMMA RequestRemembers ==
    ASSUME NEW r, DOMAIN r = RuntimeFields, DOMAIN r.state = StateFields,
           NEW reset
    PROVE  Remembers(r.state, request_connect(r, reset).state)
<1>1. Remembers(r.state, r.state)
  BY DEF Remembers
<1>2. Remembers(r.state, ConnectRequested(r.state))
  BY EventRemembers
<1>3. request_connect(r, reset).state \in {r.state, ConnectRequested(r.state)}
  BY DEF request_connect, apply_event, RuntimeFields
<1> QED
  BY <1>1, <1>2, <1>3

LEMMA GoneRemembers ==
    ASSUME NEW r, DOMAIN r = RuntimeFields, DOMAIN r.state = StateFields
    PROVE  Remembers(r.state, TransportGone(r).state)
<1> DEFINE s == TransportLost(r.state)
           p == apply_event(r, s)
<1>1. Remembers(r.state, s)
  BY EventRemembers
<1> HIDE DEF s
<1>2. DOMAIN p = RuntimeFields /\ p.state = s
  BY DEF apply_event, RuntimeFields
<1> HIDE DEF p
<1>3. schedule_reconnect_or_fallback(p).state \in {s, FallbackActivated(s)}
  BY <1>2 DEF schedule_reconnect_or_fallback, RuntimeFields
<1>4. Remembers(s, FallbackActivated(s))
  BY <1>1, EventRemembers DEF Remembers
<1>5. Remembers(r.state, FallbackActivated(s))
  BY <1>1, <1>4, RemembersBefore
<1> QED
  BY <1>1, <1>3, <1>5 DEF TransportGone, p, s

\* The methods that end in one event or none.
LEMMA MethodRemembers ==
    ASSUME NEW r, DOMAIN r = RuntimeFields, DOMAIN r.state = StateFields
    PROVE  /\ Remembers(r.state, backgrounded(r).state)
           /\ Remembers(r.state, transport_connected(r).state)
           /\ Remembers(r.state, manual_disconnect(r).state)
           /\ Remembers(r.state, apply_event(r, FrameSendFailed(r.state)).state)
           /\ Remembers(r.state, r.state)
<1>1. Remembers(r.state, r.state)
  BY DEF Remembers
<1>2. backgrounded(r).state \in {r.state, TransportLost(r.state)}
  BY DEF backgrounded, apply_event, RuntimeFields
<1>3. transport_connected(r).state \in
          {TransportConnected(r.state), TransportLost(r.state)}
  BY DEF transport_connected, apply_event, RuntimeFields
<1>4. manual_disconnect(r).state = ManualDisconnected(r.state)
  BY DEF manual_disconnect, apply_event, RuntimeFields
<1>5. apply_event(r, FrameSendFailed(r.state)).state = FrameSendFailed(r.state)
  BY DEF apply_event, RuntimeFields
<1> QED
  BY <1>1, <1>2, <1>3, <1>4, <1>5, EventRemembers

LEMMA ForegroundRemembers ==
    ASSUME NEW r, DOMAIN r = RuntimeFields, DOMAIN r.state = StateFields
    PROVE  Remembers(r.state, foregrounded(r).state)
<1> DEFINE woken == [r EXCEPT !.background = FALSE]
<1>1. DOMAIN woken = RuntimeFields /\ woken.state = r.state
  BY DEF RuntimeFields
<1> HIDE DEF woken
<1>2. foregrounded(r) \in {r, woken, request_connect(woken, FALSE)}
  BY DEF foregrounded, woken
<1>3. Remembers(r.state, request_connect(woken, FALSE).state)
  BY <1>1, RequestRemembers
<1> QED
  BY <1>1, <1>2, <1>3, MethodRemembers

LEMMA RecoveredRemembers ==
    ASSUME NEW r, DOMAIN r = RuntimeFields, DOMAIN r.state = StateFields
    PROVE  Remembers(r.state, recovered(r).state)
<1> DEFINE p == [r EXCEPT !.user = FALSE, !.attempt = 0, !.due = NotDue]
           s == FallbackRecovered(r.state)
           o == apply_event(p, s)
<1>1. Remembers(r.state, s)
  BY EventRemembers
<1> HIDE DEF s
<1>2. DOMAIN o = RuntimeFields /\ o.state = s
  BY DEF apply_event, RuntimeFields
<1> HIDE DEF o
<1>3. Remembers(s, request_connect(o, FALSE).state)
  BY <1>1, <1>2, RequestRemembers DEF Remembers
<1>4. Remembers(r.state, request_connect(o, FALSE).state)
  BY <1>1, <1>3, RemembersBefore
<1> QED
  BY <1>4 DEF recovered, o, s
-----------------------------------------------------------------------------
\* The inductive invariant: the session's own, with the types of what is
\* known and the traffic the session was given.
MemoryInv == SessionInv /\ KnownTypes(rt.state) /\ setting \in Settings

LEMMA InitMemory == Init => MemoryInv
<1> SUFFICES ASSUME Init PROVE KnownTypes(rt.state) /\ setting \in Settings
  BY InitSession DEF MemoryInv
<1>1. /\ DOMAIN rt.state = StateFields
      /\ rt.state.presence_sequence = 0 /\ rt.state.policy_epoch = 0
      /\ rt.state.current_epoch = 0 /\ rt.state.last_ack_epoch = 0
      /\ rt.state.permission_snapshots = <<>> /\ rt.state.participants = <<>>
  BY DEF Init, new, initial, StateFields
<1>2. DOMAIN <<>> = {}
  OBVIOUS
<1>3. PlainTypes(rt.state)
  BY SettingsAssumption, ErrorTypes
     DEF Init, new, initial, PlainTypes, SettlementStatuses
<1> QED
  BY <1>1, <1>2, <1>3 DEF Init, KnownTypes

LEMMA NextForward ==
    ASSUME MemoryInv, Next
    PROVE  /\ KnownTypes(rt'.state)
           /\ Forward(rt.state, rt'.state)
           /\ setting' = setting
<1>1. DOMAIN rt = RuntimeFields /\ DOMAIN rt.state = StateFields
  BY DEF MemoryInv, SessionInv, GoodRuntime, KnownTypes
<1>2. setting' = setting
  BY DEF Next, connect_requested, on_manual_disconnect, recover_from_fallback,
         on_app_foregrounded, on_app_backgrounded, on_connectivity_restored,
         on_connectivity_lost, Dial, on_transport_connected,
         on_transport_lost, on_send_failure, Receive, take_reconnect_if_due,
         Tick
<1>3. CASE Receive
  <2>1. PICK raw \in setting.traffic :
            Decodes(raw) /\ rt' = frame_received(rt, decode_frame(raw))
    BY <1>3 DEF Receive
  <2>2. FrameTypes(decode_frame(raw))
    BY <2>1, SettingsAssumption, DecodedTypes DEF MemoryInv
  <2>3. KnownTypes(rt.state)
    BY DEF MemoryInv
  <2> QED
    BY <1>1, <1>2, <2>1, <2>2, <2>3, FrameReceivedForward
<1>4. CASE ~Receive
  <2>1. Remembers(rt.state, rt'.state)
    <3>1. CASE connect_requested
      BY <1>1, <3>1, RequestRemembers DEF connect_requested
    <3>2. CASE on_manual_disconnect
      BY <1>1, <3>2, MethodRemembers DEF on_manual_disconnect
    <3>3. CASE recover_from_fallback
      BY <1>1, <3>3, RecoveredRemembers DEF recover_from_fallback
    <3>4. CASE on_app_foregrounded
      BY <1>1, <3>4, ForegroundRemembers DEF on_app_foregrounded
    <3>5. CASE on_app_backgrounded
      BY <1>1, <3>5, MethodRemembers DEF on_app_backgrounded
    <3>6. CASE on_connectivity_restored
      BY <1>1, <3>6, RequestRemembers, MethodRemembers
         DEF on_connectivity_restored, connectivity_restored
    <3>7. CASE on_connectivity_lost
      BY <1>1, <3>7, GoneRemembers, MethodRemembers
         DEF on_connectivity_lost, connectivity_lost
    <3>8. CASE Dial
      <4>1. rt'.state = rt.state
        BY <1>1, <3>8 DEF Dial, RuntimeFields
      <4> QED
        BY <1>1, <4>1, MethodRemembers
    <3>9. CASE on_transport_connected
      BY <1>1, <3>9, MethodRemembers DEF on_transport_connected
    <3>10. CASE on_transport_lost
      BY <1>1, <3>10, GoneRemembers DEF on_transport_lost
    <3>11. CASE on_send_failure
      BY <1>1, <3>11, MethodRemembers DEF on_send_failure
    <3>12. CASE take_reconnect_if_due
      <4> DEFINE p == [rt EXCEPT !.due = NotDue]
      <4>1. DOMAIN p = RuntimeFields /\ p.state = rt.state
        BY <1>1 DEF RuntimeFields
      <4>2. rt' = request_connect(p, FALSE)
        BY <3>12 DEF take_reconnect_if_due
      <4> HIDE DEF p
      <4>3. Remembers(p.state, request_connect(p, FALSE).state)
        BY <1>1, <4>1, RequestRemembers
      <4> QED
        BY <4>1, <4>2, <4>3
    <3>13. CASE Tick
      <4>1. rt'.state = rt.state
        BY <1>1, <3>13 DEF Tick, RuntimeFields
      <4> QED
        BY <1>1, <4>1, MethodRemembers
    <3> QED
      BY <1>4, <3>1, <3>2, <3>3, <3>4, <3>5, <3>6, <3>7, <3>8, <3>9, <3>10,
         <3>11, <3>12, <3>13 DEF Next
  <2> QED
    BY <1>2, <2>1, RemembersForward DEF MemoryInv
<1> QED
  BY <1>3, <1>4

LEMMA StepMemory == MemoryInv /\ [Next]_vars => MemoryInv'
<1> SUFFICES ASSUME MemoryInv, [Next]_vars PROVE MemoryInv'
  OBVIOUS
<1>1. SessionInv'
  BY StepSession DEF MemoryInv
<1>2. CASE Next
  BY <1>1, <1>2, NextForward DEF MemoryInv
<1>3. CASE UNCHANGED vars
  BY <1>1, <1>3 DEF MemoryInv, vars
<1> QED
  BY <1>2, <1>3

\* Sequences and epochs never go back and a participant is restored by a newer
\* presence delta only, for every traffic, every backoff and every order of
\* callbacks of reduce and SessionRuntime.
THEOREM NothingRollsBackProved == Spec => NothingRollsBack
<1> DEFINE Kept == Forward(rt.state, rt'.state)
<1>1. MemoryInv /\ [Next]_vars => [Kept]_vars
  BY NextForward
<1>2. Spec => []MemoryInv
  BY InitMemory, StepMemory, PTL DEF Spec
<1>3. Spec => [][Kept]_vars
  BY <1>1, <1>2, PTL DEF Spec
<1> QED
  BY <1>3 DEF NothingRollsBack, Forward
-----------------------------------------------------------------------------
\* How often the user asked stays within what the setting allows.
RequestsInv == requests \in 0 .. setting.max_requests

LEMMA StepRequests ==
    MemoryInv /\ RequestsInv /\ [Next]_vars => RequestsInv'
<1> SUFFICES ASSUME MemoryInv, RequestsInv, [Next]_vars PROVE RequestsInv'
  OBVIOUS
<1>1. setting.max_requests \in Nat
  BY SettingsAssumption DEF MemoryInv
<1>2. setting' = setting
  <2>1. CASE Next
    BY <2>1, NextForward
  <2>2. CASE UNCHANGED vars
    BY <2>2 DEF vars
  <2> QED
    BY <2>1, <2>2
<1>3. \/ requests' = requests
      \/ requests < setting.max_requests /\ requests' = requests + 1
  BY DEF Next, connect_requested, on_manual_disconnect, recover_from_fallback,
         on_app_foregrounded, on_app_backgrounded, on_connectivity_restored,
         on_connectivity_lost, Dial, on_transport_connected,
         on_transport_lost, on_send_failure, Receive, take_reconnect_if_due,
         Tick, vars
<1> QED
  BY <1>1, <1>2, <1>3 DEF RequestsInv

DriverInv == link \in {"none", "dialing", "open"} /\ visible \in BOOLEAN

LEMMA StepDriver == DriverInv /\ [Next]_vars => DriverInv'
BY DEF DriverInv, Next, connect_requested, on_manual_disconnect,
       recover_from_fallback, on_app_foregrounded, on_app_backgrounded,
       on_connectivity_restored, on_connectivity_lost, Dial,
       on_transport_connected, on_transport_lost, on_send_failure, Receive,
       take_reconnect_if_due, Tick, vars

\* Every state the native client reaches is one its types allow, for every
\* traffic of decodable or broken frames: no frame brings a word, a role or an
\* error into the session that decode_frame does not know.
THEOREM SessionTypeCorrect == Spec => []SessionTypeOK
<1>1. Init => MemoryInv /\ RequestsInv /\ DriverInv
  BY InitMemory, SettingsAssumption DEF Init, RequestsInv, DriverInv
<1>2. MemoryInv /\ RequestsInv /\ DriverInv => SessionTypeOK
  BY SessionTypes
     DEF MemoryInv, SessionInv, GoodRuntime, RequestsInv, DriverInv,
         SessionTypeOK, IsRuntime
<1> QED
  BY <1>1, <1>2, StepMemory, StepRequests, StepDriver, PTL DEF Spec
=============================================================================
