------------------------- MODULE HubBilling_proofs --------------------------
(***************************************************************************)
(* Pay-per-use, for every rate, fee, grace and number of participants: the *)
(* room stays correct while it is billed, the accounts keep their types,   *)
(* and nobody is charged for more, or less, than its time and the          *)
(* stretches that sections with an old reading of the clock count again.   *)
(***************************************************************************)
EXTENDS HubBilling, HubRules_proofs

-----------------------------------------------------------------------------
(***************************************************************************)
(* The room.  HubRoom leaves the section of a Payment to HubBilling; every *)
(* other step of the billed room is one of HubRoom's, or changes accounts  *)
(* alone.                                                                  *)
(***************************************************************************)
RoomInv == TypeOK /\ RoleInv /\ ModeInv

\* What the steps of the billed room are to the room.
LEMMA RoomSteps ==
    ASSUME RoomInv, BillingNext
    PROVE  [Next]_vars \/ \E c \in Conns : Pay(c)
<1>1. CASE Pass
  BY <1>1 DEF Pass
<1>2. ASSUME NEW c \in Conns, NEW f \in Frames, SurchargeOverflows(c, f)
      PROVE  [Next]_vars
  <2>1. /\ reader[c] = "running" /\ task[c].stage = "idle"
        /\ Reply(c) /\ UNCHANGED roomVars
    BY <1>2 DEF SurchargeOverflows, Receives
  <2>2. CASE c \in Present(participants)
    <3>1. task[c] = Idle
      BY <2>1 DEF RoomInv, ModeInv, IdleTask
    <3>2. UNCHANGED connVars
      BY <2>1, <2>2, <3>1 DEF Reply, GoTo, connVars, RoomInv, TypeOK, ConnTypeOK
    <3> QED BY <2>1, <3>2 DEF vars
  <2>3. CASE c \notin Present(participants)
    BY <2>1, <2>3 DEF ReplyOnly, Next
  <2> QED BY <2>2, <2>3
<1>3. ASSUME NEW c \in Conns,
             \/ LifecycleBilling(c) \/ ConfigBilling(c) \/ ContinueBilling(c)
             \/ \E f \in Frames : ReceiveBilling(c, f)
      PROVE  Next
  BY <1>3 DEF LifecycleBilling, ConfigBilling, ContinueBilling, ReceiveBilling,
              Continue, Next
<1>4. ASSUME NEW c \in Conns,
             enforce_billing(c) \/ \E f \in Frames : ProveEscrow(c, f)
      PROVE  UNCHANGED vars
  BY <1>4 DEF enforce_billing, WakeUp, CheckGone, CheckSkips, CheckCharges,
              ProveEscrow
<1> QED BY <1>1, <1>2, <1>3, <1>4 DEF BillingNext

\* The section of a Payment touches its sender's task and account only.
LEMMA PayKeepsRoom ==
    ASSUME RoomInv, NEW c \in Conns, Pay(c)
    PROVE  RoomInv'
<1>1. /\ GoTo(c, Idle) /\ UNCHANGED roomVars
  BY DEF Pay, Reply
<1>2. TypeOK'
  BY <1>1, IdleType, GoToType, RoomUnchanged DEF RoomInv, TypeOK
<1>3. SameRoster /\ ReaderOrder
  BY <1>1 DEF GoTo, roomVars, SameRoster, ReaderOrder
<1>4. RoleInv'
  BY <1>3, QuietRoleInv DEF RoomInv
<1>5. /\ task'[c] = Idle /\ UNCHANGED reader
      /\ \A d \in Conns \ {c} : task'[d] = task[d]
  BY <1>1 DEF GoTo, RoomInv, TypeOK, ConnTypeOK
<1>6. Idle.frame.kind \notin PlaintextKinds /\ ~Committed(Idle)
  BY DEF Idle, NoFrame, PlaintextKinds, E2eeGatedKinds, Committed
<1>7. IdleTask' /\ StrandedPlaintext' /\ CommittedJoined'
  BY <1>1, <1>5, <1>6 DEF roomVars, RoomInv, ModeInv, IdleTask,
         StrandedPlaintext, CommittedJoined
<1>8. ModeExclusion' /\ KeyedStateOwned'
  BY <1>1 DEF roomVars, keyVars, RoomInv, ModeInv, ModeExclusion,
         KeyedStateOwned
<1> QED BY <1>2, <1>4, <1>7, <1>8 DEF RoomInv, ModeInv

LEMMA RoomInvNext == RoomInv /\ [BillingNext]_allVars => RoomInv'
<1>1. ASSUME RoomInv, [Next]_vars PROVE RoomInv'
  BY <1>1, NextType, RoleInvStep, ModeInvStep DEF RoomInv
<1>2. UNCHANGED allVars => UNCHANGED vars
  BY DEF allVars
<1> QED BY <1>1, <1>2, RoomSteps, PayKeepsRoom

\* What is proved of a room's types, roles and modes also holds of one that
\* charges, pays, and throws defaulters out.
THEOREM BilledRoomCorrect == BillingSpec => []RoomInv
<1>1. BillingInit => RoomInv
  BY InitType, EmptyRoom, ModeInvInit DEF BillingInit, Init, RoomInv
<1> QED BY <1>1, RoomInvNext, PTL DEF BillingSpec

\* What RoomInv names, and what rests on it: a reserved role never waits, the
\* anonymous roster is sound, and so is what is relayed for it.
RoomSafe ==
    /\ CoHostBinding /\ HostSound /\ UniqueIds /\ ModesApart /\ KeyedStateOwned
    /\ ReservedNeverWait /\ AnonRosterSound /\ SealedRelaySound

LEMMA SafeUntouched ==
    ASSUME UNCHANGED roomVars, NEW c \in Conns, GoTo(c, Idle), TypeOK,
           ReservedNeverWait, AnonRosterSound, SealedRelaySound
    PROVE  ReservedNeverWait' /\ AnonRosterSound' /\ SealedRelaySound'
<1>1. UNCHANGED <<participants, roleVars, anonymous_mode>>
  BY DEF roomVars
<1>2. ReservedNeverWait' /\ AnonRosterSound'
  BY <1>1 DEF roleVars, ReservedNeverWait, Waiting, Reserved, AnonRosterSound,
         AnonJoined, Joined
<1>3. \A d \in Conns : task'[d] = task[d] \/ task'[d].stage = "idle"
  BY DEF GoTo, Idle, TypeOK, ConnTypeOK
<1>4. SealedRelaySound'
  BY <1>1, <1>3 DEF SealedRelaySound, AnonJoined, Joined
<1> QED BY <1>2, <1>4

\* Billing takes nothing from the room: every invariant and every rule proved
\* of HubRoom holds of the room that charges, pays and disconnects.
THEOREM BilledRoomSafe == BillingSpec => []RoomSafe
<1> DEFINE Rest == ReservedNeverWait /\ AnonRosterSound /\ SealedRelaySound
<1>1. BillingInit => Rest
  <2> SUFFICES ASSUME Init PROVE Rest
    BY DEF BillingInit
  <2>1. AnonJoined(participants) = {}
    BY DEF Init, AnonJoined, Joined, Absent, Transparent
  <2>2. AnonRosterSound
    BY <2>1, FS_EmptySet, LimitsAssumption DEF AnonRosterSound
  <2>3. ReservedNeverWait
    BY DEF Init, ReservedNeverWait, Waiting, Absent, Transparent
  <2>4. SealedRelaySound
    BY DEF Init, Idle, SealedRelaySound
  <2> QED BY <2>2, <2>3, <2>4
<1>2. RoomInv /\ Rest /\ [BillingNext]_allVars => Rest'
  <2> SUFFICES ASSUME RoomInv, Rest, [BillingNext]_allVars PROVE Rest'
    OBVIOUS
  <2>1. CASE UNCHANGED vars
    BY <2>1 DEF vars, connVars, roomVars, roleVars, ReservedNeverWait, Waiting,
           Reserved, AnonRosterSound, AnonJoined, Joined, SealedRelaySound
  <2>2. CASE Next
    BY <2>2, ReservedStep, RosterStep, SealedStep, StepKinds DEF RoomInv
  <2>3. ASSUME NEW c \in Conns, Pay(c) PROVE Rest'
    <3>1. GoTo(c, Idle) /\ UNCHANGED roomVars
      BY <2>3 DEF Pay, Reply
    <3> QED BY <3>1, SafeUntouched DEF RoomInv
  <2>4. UNCHANGED allVars => UNCHANGED vars
    BY DEF allVars
  <2> QED BY <2>1, <2>2, <2>3, <2>4, RoomSteps
<1>3. RoomInv => /\ CoHostBinding /\ HostSound /\ UniqueIds
                 /\ ModesApart /\ KeyedStateOwned
  BY DEF RoomInv, RoleInv, HostSound, ModeInv, CommittedJoined, Committed,
         ModesApart, PlaintextStaysTransparent
<1>4. RoomInv /\ Rest => RoomSafe
  BY <1>3 DEF RoomSafe
<1> QED BY <1>1, <1>2, <1>4, BilledRoomCorrect, PTL DEF BillingSpec

\* Roles change, doors open, epochs move and shares start in a billed room only
\* as they may in one that charges nobody.
THEOREM BilledRoomKeepsRules ==
    BillingSpec => /\ NoSelfPromotion /\ PowerLossJustified
                   /\ JoinedHostChangeMovesEpoch /\ ClosedDoor
                   /\ RoomMemory /\ ShareLimit
<1>1. RoomInv /\ [BillingNext]_allVars => [RulesKept]_vars
  <2> SUFFICES ASSUME RoomInv, [BillingNext]_allVars, ~UNCHANGED vars PROVE RulesKept
    OBVIOUS
  <2>1. CASE Next
    BY <2>1, RulesStep DEF RoomInv
  <2>2. ASSUME NEW c \in Conns, Pay(c) PROVE RulesKept
    BY <2>2, RulesUntouched DEF Pay, RoomInv
  <2>3. UNCHANGED allVars => UNCHANGED vars
    BY DEF allVars
  <2> QED BY <2>1, <2>2, <2>3, RoomSteps
<1>2. BillingSpec => [][RulesKept]_vars
  BY <1>1, BilledRoomCorrect, PTL DEF BillingSpec
<1> QED BY <1>2, RulesAreProperties
-----------------------------------------------------------------------------
(***************************************************************************)
(* Amounts.                                                                *)
(***************************************************************************)
\* Amounts stay below their limit, and one below it has not been cut.
LEMMA SatNanoIs ==
    ASSUME NEW n \in Nat
    PROVE  /\ SatNano(n) \in 0 .. MaxNano
           /\ SatNano(n) <= n
           /\ SatNano(n) < MaxNano => SatNano(n) = n
BY BillingAssumption DEF SatNano

\* Nor does a billed room hand out authority in any other way.
THEOREM BilledRoomKeepsAuthority == BillingSpec => KeepsAuthority
<1>1. BillingInit => Named /\ Authority!Init
  BY AuthorityInit DEF BillingInit, Init, Named, Absent, Transparent
<1>2. RoomInv /\ Named /\ [BillingNext]_allVars => Named'
  <2> SUFFICES ASSUME RoomInv, Named, [BillingNext]_allVars PROVE Named'
    OBVIOUS
  <2>1. CASE UNCHANGED participants
    BY <2>1 DEF Named
  <2>2. CASE Next
    BY <2>2, NamedStep, StepKinds DEF RoomInv
  <2>3. \A c \in Conns : Pay(c) => UNCHANGED participants
    BY DEF Pay, Reply, roomVars
  <2>4. UNCHANGED vars \/ UNCHANGED allVars => UNCHANGED participants
    BY DEF allVars, vars, roomVars
  <2> QED BY <2>1, <2>2, <2>3, <2>4, RoomSteps
<1>3. BillingSpec => [](RoomInv /\ Named)
  BY <1>1, <1>2, BilledRoomCorrect, PTL DEF BillingSpec
<1>4. RoomInv /\ Named => SeatMeaning
  BY SeatsMean DEF RoomInv
<1>5. RoomInv /\ Named /\ SeatMeaning /\ SeatMeaning'
          /\ [BillingNext]_allVars => [Authority!Next]_(Authority!vars)
  <2> SUFFICES ASSUME RoomInv, Named, SeatMeaning, SeatMeaning',
                      [BillingNext]_allVars
               PROVE  AuthorityFollows
    BY DEF AuthorityFollows
  <2>1. CASE Next
    BY <2>1, AuthorityStep DEF RoomInv
  <2>2. CASE UNCHANGED <<participants, roleVars>>
    BY <2>2, AuthorityUntouched
  <2>3. \A c \in Conns : Pay(c) => UNCHANGED <<participants, roleVars>>
    BY DEF Pay, Reply, roomVars
  <2>4. UNCHANGED vars \/ UNCHANGED allVars => UNCHANGED <<participants, roleVars>>
    BY DEF allVars, vars, roomVars
  <2> QED BY <2>1, <2>2, <2>3, <2>4, RoomSteps
<1> QED BY <1>1, <1>3, <1>4, <1>5, PTL
           DEF BillingSpec, KeepsAuthority, Authority!Spec

\* The longer, the dearer.
LEMMA TimesMonotone ==
    ASSUME NEW k \in Nat, NEW m \in Nat, NEW n \in Nat, m <= n
    PROVE  k * m <= k * n
<1>1. PICK d \in Nat : n = m + d
  <2>1. n - m \in Nat /\ n = m + (n - m)
    OBVIOUS
  <2> QED BY <2>1
<1>2. k * n = k * m + k * d
  BY <1>1
<1>3. k * m \in Nat /\ k * d \in Nat
  OBVIOUS
<1> QED BY <1>2, <1>3

LEMMA SatSubIs ==
    ASSUME NEW m \in Nat, NEW n \in Nat
    PROVE  /\ SatSub(m, n) \in Nat
           /\ n <= m => SatSub(m, n) = m - n
           /\ m <= n => SatSub(m, n) = 0
BY DEF SatSub

\* The bill and what is carried are together what was due, unless the bill
\* saturates, and never more: no charge is lost or made twice in the division.
LEMMA ChargeIsExact ==
    ASSUME NEW a \in Account, NEW now \in Nat, rate \in 0 .. MaxNano
    PROVE  LET b == advance_billing(a, now)
           IN  /\ b \in Account /\ b.last = now
               /\ b.paid = a.paid /\ b.proof = a.proof /\ b.escrow = a.escrow
               /\ Minute * b.billed + b.rem
                  <= Minute * a.billed + a.rem + rate * SatSub(now, a.last)
               /\ b.billed < MaxNano =>
                      /\ a.billed < MaxNano
                      /\ Minute * b.billed + b.rem
                         = Minute * a.billed + a.rem + rate * SatSub(now, a.last)
<1> DEFINE t == SatSub(now, a.last)
           n == rate * t + a.rem
           q == n \div Minute
           r == n % Minute
           b == advance_billing(a, now)
<1>1. /\ Minute \in Nat \ {0} /\ MaxNano \in Nat \ {0} /\ rate \in Nat
      /\ a.last \in Nat /\ a.billed \in 0 .. MaxNano /\ a.rem \in 0 .. Minute - 1
      /\ a.paid \in 0 .. MaxNano /\ a.proof \in Nat /\ a.escrow \in Nat
  BY BillingAssumption DEF Account
<1>2. t \in Nat
  BY <1>1, SatSubIs
<1>3. rate * t \in Nat
  BY <1>1, <1>2
<1>4. n \in Nat
  BY <1>1, <1>3
<1>5. q \in Nat /\ r \in 0 .. Minute - 1 /\ n = q * Minute + r
  <2> HIDE DEF n
  <2> QED BY <1>1, <1>4
<1>6. CASE t = 0 \/ rate = 0
  <2>1. b = [a EXCEPT !.last = now]
    BY <1>6 DEF advance_billing
  <2>2. rate * t = 0
    BY <1>1, <1>2, <1>6
  <2>3. /\ b \in Account /\ b.last = now /\ b.billed = a.billed /\ b.rem = a.rem
        /\ b.paid = a.paid /\ b.proof = a.proof /\ b.escrow = a.escrow
    BY <2>1 DEF Account
  <2> HIDE DEF b, t, n
  <2>4. Minute * b.billed + b.rem = Minute * a.billed + a.rem + rate * t
    <3>1. Minute * a.billed \in Nat
      BY <1>1
    <3> QED BY <1>1, <2>2, <2>3, <3>1
  <2>5. Minute * b.billed + b.rem \in Nat
    BY <1>1, <2>3
  <2> QED BY <2>3, <2>4, <2>5 DEF b, t
<1>7. CASE ~(t = 0 \/ rate = 0)
  <2> DEFINE billed == SatNano(a.billed + SatNano(q))
  <2>1. b = [a EXCEPT !.last = now, !.rem = r, !.billed = billed]
    BY <1>7 DEF advance_billing
  <2>2. /\ SatNano(q) \in 0 .. MaxNano
        /\ SatNano(q) <= q
        /\ SatNano(q) < MaxNano => SatNano(q) = q
    BY <1>5, SatNanoIs
  <2>3. a.billed + SatNano(q) \in Nat
    BY <1>1, <2>2
  <2>4. /\ billed \in 0 .. MaxNano
        /\ billed <= a.billed + SatNano(q)
        /\ billed < MaxNano => billed = a.billed + SatNano(q)
    BY <2>3, SatNanoIs
  <2>5. billed < MaxNano => a.billed < MaxNano /\ billed = a.billed + q
    BY <1>1, <2>2, <2>4
  <2> HIDE DEF billed, n
  <2>6. /\ b \in Account /\ b.last = now /\ b.billed = billed /\ b.rem = r
        /\ b.paid = a.paid /\ b.proof = a.proof /\ b.escrow = a.escrow
    <3> HIDE DEF r
    <3> QED BY <1>1, <1>5, <2>1, <2>4 DEF Account
  <2>7. Minute * (a.billed + q) + r = Minute * a.billed + a.rem + rate * t
    <3>1. Minute * (a.billed + q) = Minute * a.billed + q * Minute
      BY <1>1, <1>5
    <3>2. n = rate * t + a.rem
      BY DEF n
    <3>3. Minute * a.billed \in Nat /\ q * Minute \in Nat
      BY <1>1, <1>5
    <3>4. n = q * Minute + r /\ r \in Nat /\ a.rem \in Nat
      BY <1>1, <1>5
    <3> DEFINE was == Minute * a.billed
               more == q * Minute
               due == rate * t
               sum == Minute * (a.billed + q)
    <3>5. sum = was + more /\ was \in Nat /\ more \in Nat /\ due \in Nat
      BY <1>3, <3>1, <3>3
    <3> HIDE DEF was, more, due, sum, r
    <3>6. due + a.rem = more + r
      BY <3>2, <3>4 DEF more, due
    <3>7. sum + r = was + a.rem + due
      BY <3>4, <3>5, <3>6
    <3> QED BY <3>7 DEF was, due, sum
  <2>8. Minute * billed + r <= Minute * (a.billed + q) + r
    <3>1. billed \in Nat /\ q \in Nat /\ a.billed \in Nat /\ billed <= a.billed + q
      BY <1>1, <1>5, <2>2, <2>4
    <3> HIDE DEF q, r
    <3>2. Minute * billed <= Minute * (a.billed + q)
      BY <1>1, <3>1, TimesMonotone
    <3>3. Minute * billed \in Nat /\ Minute * (a.billed + q) \in Nat /\ r \in Nat
      BY <1>1, <1>5, <3>1
    <3> QED BY <3>2, <3>3
  <2> HIDE DEF b, r, t, q
  <2> QED BY <2>5, <2>6, <2>7, <2>8 DEF b, t
<1> QED BY <1>6, <1>7
-----------------------------------------------------------------------------
(***************************************************************************)
(* Types.                                                                  *)
(***************************************************************************)
LEMMA AccountFields ==
    /\ \A n \in Nat : NewAccount(n) \in Account
    /\ NoAccount \in Account
    /\ \A a \in Account, n \in Nat :
           /\ [a EXCEPT !.last = n] \in Account
           /\ [a EXCEPT !.proof = None] \in Account
           /\ \A m \in Nat : [a EXCEPT !.proof = n, !.escrow = m] \in Account
           /\ [a EXCEPT !.paid = SatNano(@ + n)] \in Account
<1>1. /\ 0 \in 0 .. MaxNano /\ 0 \in 0 .. Minute - 1
  BY BillingAssumption
<1>2. /\ \A n \in Nat : NewAccount(n) \in Account
      /\ NoAccount \in Account
  BY <1>1 DEF NewAccount, NoAccount, Account, None
<1>3. ASSUME NEW a \in Account, NEW n \in Nat
      PROVE  /\ [a EXCEPT !.last = n] \in Account
             /\ [a EXCEPT !.proof = None] \in Account
             /\ \A m \in Nat : [a EXCEPT !.proof = n, !.escrow = m] \in Account
  BY DEF Account, None
<1>4. ASSUME NEW a \in Account, NEW n \in Nat
      PROVE  [a EXCEPT !.paid = SatNano(@ + n)] \in Account
  <2>1. a.paid \in 0 .. MaxNano /\ MaxNano \in Nat
    BY BillingAssumption DEF Account
  <2>2. SatNano(a.paid + n) \in 0 .. MaxNano
    BY <2>1, SatNanoIs
  <2> QED BY <2>2 DEF Account
<1> QED BY <1>2, <1>3, <1>4

\* Hello forgets both the proof and the escrow account.
LEMMA Forgotten ==
    ASSUME NEW a \in Account
    PROVE  [a EXCEPT !.proof = None, !.escrow = None] \in Account
BY DEF Account, None
\* A handler that has read the clock and waits for the room with it.
Metered(t) == t.stage = "apply" /\ t.frame.kind \in {"Payment", "RoomConfigUpdate"}

\* It comes straight from the gate, with the frame the client has sent.
LEMMA MeteredTask ==
    ASSUME TypeOK, NEW c \in Conns, Quiet(c) \/ Loud(c), Metered(task'[c])
    PROVE  \/ UNCHANGED task
           \/ \E f \in Frames : Gate(c, f) /\ task'[c].frame = f
<1> USE DEF TypeOK, ConnTypeOK
<1> DEFINE g == task[c].frame
<1>1. CASE GoTo(c, Idle) \/ ReturnErr(c) \/ Reply(c)
  BY <1>1 DEF GoTo, ReturnErr, Reply, Idle, Metered
<1>2. ASSUME NEW s, s # "apply", NEW f, NEW to,
             \/ GoTo(c, At(s, f))
             \/ GoTo(c, [stage |-> s, frame |-> f, to |-> to])
      PROVE  FALSE
  BY <1>2 DEF GoTo, At, Metered
<1>3. CASE \/ Connect(c) \/ Close(c) \/ ReadFails(c) \/ LeaveLast(c)
           \/ LeaveTransparent(c) \/ LeaveAnonymous(c) \/ RotateAfterLeave(c)
  BY <1>3 DEF Connect, Close, ReadFails, LeaveLast, LeaveTransparent,
              LeaveAnonymous, RotateAfterLeave
<1>4. ASSUME NEW f \in Frames,
             \/ HelloNoRoom(c, f) \/ HelloRefused(c, f) \/ HelloWaits(c, f)
             \/ HelloJoins(c, f) \/ HelloMissing(c, f) \/ AnonHello(c, f)
             \/ AnonHelloRefused(c, f) \/ GroupKeyUpdate(c, f)
             \/ RelayEncrypted(c, f) \/ SealedRefused(c, f)
      PROVE  \/ GoTo(c, Idle) \/ ReturnErr(c) \/ Reply(c)
             \/ \E s \in {"notify", "announce", "relay"} : GoTo(c, At(s, f))
  BY <1>4 DEF HelloNoRoom, HelloRefused, HelloWaits, HelloJoins, HelloMissing,
              AnonHello, AnonHelloRefused, GroupKeyUpdate, RelayEncrypted,
              SealedRefused
<1>5. ASSUME NEW f \in Frames, Gate(c, f)
      PROVE  \E h \in Frames : Gate(c, h) /\ task'[c].frame = h
  BY <1>1, <1>5 DEF Gate, GoTo, At, Reply, ReturnErr, Idle, Metered
<1>6. CASE \/ ReplyOnly(c) \/ SectionMissing(c) \/ ControlRefused(c)
           \/ ModerationRefused(c) \/ ModerationFails(c) \/ MediaRefused(c)
           \/ Relay(c) \/ Sent(c) \/ SendFails(c)
  BY <1>1, <1>6 DEF ReplyOnly, SectionMissing, ControlRefused,
         ModerationRefused, ModerationFails, MediaRefused, Relay, Sent, SendFails
<1>7. CASE Announce(c) \/ Notify(c)
  BY <1>1, <1>2, <1>7 DEF Announce, Notify, Sending
<1>8. CASE HelloSeenGate(c) \/ VerifySigned(c)
  BY <1>1, <1>2, <1>8 DEF HelloSeenGate, VerifySigned
<1>9. CASE E2eeGate(c) \/ RegateSigned(c)
  <2>1. g.kind \notin {"Payment", "RoomConfigUpdate"}
    BY <1>9 DEF E2eeGate, RegateSigned, Handling, E2eeGatedKinds
  <2>2. \A s : ~GoTo(c, At(s, g))
    BY <2>1 DEF GoTo, At, Metered
  <2> QED BY <1>1, <1>9, <2>2 DEF E2eeGate, RegateSigned
<1>10. CASE GrantHost(c) \/ GrantCoHost(c) \/ RevokeCoHost(c)
  <2>1. \E s \in {"announce", "relay"} : GoTo(c, At(s, g))
    BY <1>10 DEF GrantHost, GrantCoHost, RevokeCoHost, ChangeCoHosts, RoleOutcome
  <2> QED BY <1>2, <2>1
<1>11. CASE UpdatePolicy(c) \/ UpdateRoomConfig(c) \/ Mute(c) \/ Deny(c)
  BY <1>1, <1>2, <1>11 DEF UpdatePolicy, UpdateRoomConfig, Mute, Deny
<1>12. CASE Admit(c)
  <2>1. \E t : GoTo(c, [At("announce", g) EXCEPT !.to = {t}])
    BY <1>12 DEF Admit
  <2> QED BY <2>1 DEF GoTo, At, Metered
<1>13. CASE \/ SetParticipantState(c) \/ SetMediaTrack(c) \/ PassOn(c)
            \/ CheckCapability(c) \/ PublishKeyEpoch(c) \/ AckKeyRotation(c)
            \/ StoreCapability(c) \/ ResolveProfile(c)
  <2>1. \E s \in {"store", "relay"} : \E f : GoTo(c, At(s, f))
    BY <1>13 DEF SetParticipantState, SetMediaTrack, PassOn, CheckCapability,
                 PublishKeyEpoch, AckKeyRotation, StoreCapability, ResolveProfile
  <2> QED BY <1>2, <2>1
<1>14. CASE BackpressureNotice(c)
  BY <1>14 DEF BackpressureNotice, GoTo, Metered, Task
<1> QED BY <1>1, <1>2, <1>3, <1>4, <1>5, <1>6, <1>7, <1>8, <1>9, <1>10, <1>11,
           <1>12, <1>13, <1>14 DEF Quiet, Loud

\* Who comes and goes while the room stays in its mode.
PresenceMoves(c) ==
    /\ Present(participants') \subseteq Present(participants) \/ Connect(c)
    /\ \A d \in Joined(participants) :
           d \in Present(participants') => d \in Joined(participants')
    /\ ~anonymous_mode' => ~anonymous_mode \/ Present(participants') = {}

LEMMA PresenceSteps ==
    ASSUME RoomInv, NEW c \in Conns, Quiet(c) \/ Loud(c)
    PROVE  PresenceMoves(c)
<1> USE DEF RoomInv, TypeOK
<1> DEFINE Stay == \A d \in Joined(participants) :
                       d \in Present(participants') => d \in Joined(participants')
<1>1. Stay
  <2>1. RosterMoves(c)
    BY RosterSteps
  <2>2. ASSUME NEW d \in Joined(participants), d \in Present(participants'),
               d = c, reader[c] = "closing"
        PROVE  d \in Joined(participants')
    <3>1. task[c] = Idle
      BY <2>2 DEF ModeInv, IdleTask
    <3>2. CASE LeaveTransparent(c) \/ LeaveAnonymous(c)
      <4>1. participants' = Without(c)
        BY <3>2, LeaveEffect, LeaveAnonymousEffect
      <4> QED BY <2>2, <4>1, WithoutSets
    <3>3. CASE LeaveLast(c)
      BY <2>2, <3>3 DEF LeaveLast, RemoveRoom, Absent, Transparent, Present
    <3>4. CASE SameRoster
      BY <3>4, SameRosterSets
    <3>5. CASE \/ Connect(c) \/ GrantHost(c) \/ GrantCoHost(c) \/ RevokeCoHost(c)
               \/ Admit(c) \/ Deny(c)
               \/ \E f \in Frames : \/ HelloWaits(c, f) \/ HelloJoins(c, f)
                                    \/ HelloMissing(c, f) \/ AnonHello(c, f)
      <4>1. reader[c] = "running" \/ reader[c] = "none" \/ task[c].stage # "idle"
        BY <3>5 DEF Connect, GrantHost, GrantCoHost, RevokeCoHost, Admit, Deny,
                    Moderates, Handling, HelloWaits, HelloJoins, HelloMissing,
                    HelloAccepted, AnonHello, Receives
      <4> QED BY <2>2, <3>1, <4>1 DEF Idle
    <3> QED BY <3>2, <3>3, <3>4, <3>5, QuietSteps DEF Loud
  <2> QED BY <2>1, <2>2 DEF RosterMoves
<1>2. CASE SameRoster
  BY <1>1, <1>2, SameRosterSets DEF SameRoster, PresenceMoves
<1>3. ASSUME NEW t \in Conns, participants' = Without(t), UNCHANGED anonymous_mode
      PROVE  PresenceMoves(c)
  BY <1>1, <1>3, WithoutSets DEF PresenceMoves
<1>4. CASE LeaveTransparent(c) \/ LeaveAnonymous(c)
  BY <1>3, <1>4, LeaveEffect, LeaveAnonymousEffect
     DEF LeaveTransparent, LeaveAnonymous
<1>5. CASE Deny(c)
  <2>1. PICK t \in Waiting(participants) :
            participants' = Without(t) /\ UNCHANGED anonymous_mode
    BY <1>5, DenyEffect
  <2> QED BY <1>3, <2>1 DEF Waiting
<1>6. CASE LeaveLast(c)
  <2>1. Present(participants') = {}
    BY <1>6 DEF LeaveLast, RemoveRoom, Absent, Transparent, Present
  <2> QED BY <1>1, <2>1 DEF PresenceMoves
<1>7. CASE Connect(c)
  BY <1>1, <1>7 DEF Connect, PresenceMoves
<1>8. ASSUME NEW t \in Present(participants), anonymous_mode => anonymous_mode',
             \A d \in Conns \ {t} : participants'[d] = participants[d]
      PROVE  PresenceMoves(c)
  <2>1. Present(participants') \subseteq Present(participants)
    BY <1>8 DEF Present
  <2> QED BY <1>1, <1>8, <2>1 DEF PresenceMoves
<1>9. ASSUME NEW f \in Frames, HelloWaits(c, f) \/ HelloJoins(c, f) \/ AnonHello(c, f)
      PROVE  PresenceMoves(c)
  <2>1. c \in Present(participants)
    BY <1>9 DEF HelloWaits, HelloJoins, AnonHello
  <2>2. anonymous_mode => anonymous_mode'
    BY <1>9 DEF HelloWaits, HelloJoins, AnonHello
  <2> QED BY <1>8, <1>9, <2>1, <2>2, OutsideEffect, HelloJoinsEffect, AnonHelloEffect
<1>10. CASE Admit(c)
  <2>1. PICK t \in Waiting(participants) :
            \A d \in Conns \ {t} : participants'[d] = participants[d]
    BY <1>10, AdmitEffect
  <2>2. UNCHANGED anonymous_mode
    BY <1>10, AdmitEffect
  <2>3. t \in Present(participants)
    BY DEF Waiting, Present
  <2> QED BY <1>8, <2>1, <2>2, <2>3
<1>11. CASE \/ GrantHost(c) \/ GrantCoHost(c) \/ RevokeCoHost(c)
            \/ \E f \in Frames : HelloMissing(c, f)
  <2>1. UNCHANGED <<participants, anonymous_mode>>
    BY <1>11, RoleEffect, HelloMissingEffect
  <2> QED BY <1>1, <2>1 DEF PresenceMoves
<1> QED BY <1>2, <1>4, <1>5, <1>6, <1>7, <1>9, <1>10, <1>11, QuietSteps DEF Loud

\* A later section of a handler has a frame in its hands.
LEMMA ContinueBusy ==
    ASSUME NEW c \in Conns, Continue(c)
    PROVE  task[c].stage # "idle"
BY DEF Continue, HelloSeenGate, E2eeGate, SectionMissing, GrantHost,
       GrantCoHost, RevokeCoHost, UpdatePolicy, UpdateRoomConfig,
       ControlRefused, VerifySigned, RegateSigned, ModerationRefused,
       ModerationFails, Mute, Admit, Deny, Moderates, SetParticipantState,
       SetMediaTrack, PassOn, CheckCapability, StoreCapability,
       ResolveProfile, PublishKeyEpoch, AckKeyRotation, MediaRefused, Relay,
       Announce, Notify, Sent, SendFails, BackpressureNotice, Handling

\* A connection that handles a frame has connected before.
LEMMA BusyNotNew ==
    ASSUME RoomInv, NEW c \in Conns,
           ReplyOnly(c) \/ Continue(c) \/ \E f \in Frames : Receive(c, f)
    PROVE  ~Connect(c)
<1>1. CASE ReplyOnly(c) \/ \E f \in Frames : Receive(c, f)
  <2>1. reader[c] = "running"
    BY <1>1 DEF ReplyOnly, Receive, HelloNoRoom, HelloRefused, HelloWaits,
           HelloJoins, HelloMissing, HelloAccepted, AnonHello, AnonHelloRefused,
           GroupKeyUpdate, RelayEncrypted, SealedRefused, Gate, Receives
  <2> QED BY <2>1 DEF Connect
<1>2. CASE Continue(c)
  BY <1>2, ContinueBusy DEF Connect, RoomInv, ModeInv, IdleTask, Idle
<1> QED BY <1>1, <1>2

\* Handlers that wait with the clock hold frames of clients, whose fields
\* have the widths of the wire.
Heard == \A c \in Conns : Metered(task[c]) => task[c].frame \in Frames

LEMMA HeardStep == RoomInv /\ Heard /\ [BillingNext]_allVars => Heard'
<1> SUFFICES ASSUME RoomInv, Heard, [BillingNext]_allVars PROVE Heard'
  OBVIOUS
<1> USE DEF RoomInv, TypeOK, ConnTypeOK
<1>1. CASE UNCHANGED vars
  BY <1>1 DEF vars, connVars, Heard, Metered
<1>2. ASSUME NEW c \in Conns, Pay(c) PROVE Heard'
  <2>1. task' = [task EXCEPT ![c] = Idle]
    BY <1>2 DEF Pay, Reply, GoTo, ReturnErr
  <2> QED BY <2>1 DEF Heard, Metered, Idle
<1>3. ASSUME NEW c \in Conns, Quiet(c) \/ Loud(c) PROVE Heard'
  <2>1. \A d \in Conns \ {c} : task'[d] = task[d]
    BY <1>3, TaskMoves DEF Rests, Moves
  <2>2. Metered(task'[c]) => UNCHANGED task \/ task'[c].frame \in Frames
    BY <1>3, MeteredTask
  <2> QED BY <2>1, <2>2 DEF Heard
<1>4. UNCHANGED allVars => UNCHANGED vars
  BY DEF allVars
<1> QED BY <1>1, <1>2, <1>3, <1>4, RoomSteps, StepKinds

LEMMA RateAsked ==
    ASSUME TypeOK, Heard, NEW c \in Conns,
           Handling(c, "apply", {"RoomConfigUpdate"})
    PROVE  normalize_rate_for_policy(task[c].frame.rate) \in 0 .. MaxNano
<1> DEFINE f == task[c].frame
<1>1. f \in Frames /\ f.kind = "RoomConfigUpdate"
  BY DEF Handling, Heard, Metered
<1>2. f \in Frame /\ f.rate <= MaxNano
  BY <1>1, FramesAssumption, BillingAssumption
<1>3. f.rate \in Nat
  BY <1>1, <1>2 DEF Frame
<1> HIDE DEF f
<1> QED BY <1>2, <1>3, BillingAssumption DEF normalize_rate_for_policy, f

LEMMA OpeningType ==
    ASSUME BillingTypeOK, FollowParticipants
    PROVE  BillingTypeOK'
<1>1. clock \in Nat /\ DefaultRate \in 0 .. MaxNano /\ MaxNano \in Nat
  BY BillingAssumption DEF BillingTypeOK
<1> DEFINE opened == Present(participants') \ Present(participants)
           Opens(t) ==
               /\ account' = [d \in Conns |->
                      IF d \in opened THEN NewAccount(t)
                      ELSE IF d \in Present(participants') THEN account[d]
                      ELSE NoAccount]
               /\ history' = [d \in Conns |->
                      IF d \in opened
                      THEN [NewHistory EXCEPT !.most = rate * Waited(t)]
                      ELSE IF d \in Present(participants') THEN history[d]
                      ELSE NewHistory]
<1>2. PICK t \in Nat : Opens(t)
  BY BillingAssumption DEF FollowParticipants
<1>3. account' \in [Conns -> Account]
  <2>1. NewAccount(t) \in Account /\ NoAccount \in Account
    BY AccountFields
  <2> QED BY <1>2, <2>1 DEF BillingTypeOK
<1>4. history' \in [Conns -> History]
  <2>1. rate * Waited(t) \in Int
    <3>1. Waited(t) \in Nat /\ rate \in Nat
      BY <1>1, SatSubIs DEF Waited, BillingTypeOK
    <3> QED BY <3>1
  <2>2. /\ NewHistory \in History
        /\ [NewHistory EXCEPT !.most = rate * Waited(t)] \in History
    BY <2>1 DEF NewHistory, History
  <2> QED BY <1>2, <2>2 DEF BillingTypeOK
<1>5. enforcer' \in [Conns -> [at : EnforcerStates, now : Nat]]
  BY DEF FollowParticipants, BillingTypeOK, EnforcerStates, None
<1>6. rate' \in 0 .. MaxNano /\ UNCHANGED <<clock, stamp>>
  BY <1>1 DEF FollowParticipants, BillingTypeOK
<1> QED BY <1>3, <1>4, <1>5, <1>6 DEF BillingTypeOK

\* A frame that pays, proves, or raises the rate.
LEMMA ReceivedType ==
    ASSUME BillingTypeOK, NEW c \in Conns, NEW f \in Frames,
           ReceiveBilling(c, f) \/ ProveEscrow(c, f)
    PROVE  BillingTypeOK'
<1>1. /\ clock \in Times /\ clock \in Nat
      /\ rate \in 0 .. MaxNano /\ account \in [Conns -> Account]
      /\ account[c] \in Account /\ stamp \in [Conns -> Nat]
      /\ enforcer \in [Conns -> [at : EnforcerStates, now : Nat]]
      /\ history \in [Conns -> History]
  BY BillingAssumption DEF BillingTypeOK
<1>2. CASE ReceiveBilling(c, f)
  <2>1. rate' \in 0 .. MaxNano
    <3>1. rate + AnonFee \in Nat /\ MaxNano \in Nat
      BY <1>1, BillingAssumption
    <3> QED BY <1>1, <1>2, <3>1 DEF ReceiveBilling
  <2>2. account' \in [Conns -> Account]
    <3>1. /\ [account[c] EXCEPT !.proof = None, !.escrow = None] \in Account
          /\ [account[c] EXCEPT !.last = clock] \in Account
      BY <1>1, AccountFields, Forgotten
    <3>2. \/ account' = [account EXCEPT ![c] =
                  [account[c] EXCEPT !.proof = None, !.escrow = None]]
          \/ account' = [account EXCEPT ![c] = [account[c] EXCEPT !.last = clock]]
          \/ account' = account
      BY <1>1, <1>2 DEF ReceiveBilling
    <3> QED BY <1>1, <3>1, <3>2
  <2>3. stamp' \in [Conns -> Nat]
    BY <1>1, <1>2 DEF ReceiveBilling, StampAtGate
  <2>4. history' \in [Conns -> History]
    BY <1>1, <1>2 DEF ReceiveBilling, NewHistory, History
  <2> QED BY <1>1, <1>2, <2>1, <2>2, <2>3, <2>4 DEF ReceiveBilling, BillingTypeOK
<1>3. CASE ProveEscrow(c, f)
  <2>1. f \in Frame /\ f.kind = "EscrowProof"
    BY <1>3, FramesAssumption DEF ProveEscrow
  <2>2. f.escrow \in Nat
    BY <2>1 DEF Frame
  <2>3. [account[c] EXCEPT !.proof = clock, !.escrow = f.escrow] \in Account
    BY <1>1, <2>2, AccountFields
  <2>4. account' = [account EXCEPT ![c] =
            [account[c] EXCEPT !.proof = clock, !.escrow = f.escrow]]
    BY <1>1, <1>3 DEF ProveEscrow
  <2>5. account' \in [Conns -> Account]
    BY <1>1, <2>3, <2>4
  <2> QED BY <1>1, <1>3, <2>5 DEF ProveEscrow, BillingTypeOK
<1> QED BY <1>2, <1>3

\* What is charged again is an amount.
LEMMA AgainType ==
    ASSUME BillingTypeOK, NEW d \in Conns, NEW now \in Nat
    PROVE  /\ ChargedAgain(d, now) \in Nat /\ Waited(now) \in Nat
           /\ CountAgain(d, now) => history' \in [Conns -> History]
<1>1. /\ clock \in Nat /\ rate \in Nat /\ account[d].last \in Nat
      /\ history \in [Conns -> History] /\ history[d] \in History
  BY BillingAssumption DEF BillingTypeOK, Account
<1>2. SatSub(account[d].last, now) \in Nat /\ Waited(now) \in Nat
  BY <1>1, SatSubIs DEF Waited
<1>3. ChargedAgain(d, now) \in Nat
  <2>1. rate * SatSub(account[d].last, now) \in Nat
    BY <1>1, <1>2
  <2> QED BY <2>1 DEF ChargedAgain
<1>4. [history[d] EXCEPT !.most = @ + ChargedAgain(d, now)] \in History
  BY <1>1, <1>3 DEF History
<1> QED BY <1>1, <1>2, <1>3, <1>4 DEF CountAgain

\* A critical section that charges: a Payment, a RoomConfigUpdate or a tick.
LEMMA SectionType ==
    ASSUME TypeOK, Heard, BillingTypeOK, NEW c \in Conns,
           ConfigBilling(c) \/ ContinueBilling(c) \/ Pay(c) \/ enforce_billing(c)
    PROVE  BillingTypeOK'
<1>1. /\ clock \in Times /\ clock \in Nat
      /\ rate \in 0 .. MaxNano /\ account \in [Conns -> Account]
      /\ account[c] \in Account /\ stamp \in [Conns -> Nat] /\ stamp[c] \in Nat
      /\ enforcer \in [Conns -> [at : EnforcerStates, now : Nat]]
      /\ enforcer[c].now \in Nat
      /\ history \in [Conns -> History]
  BY BillingAssumption DEF BillingTypeOK
<1>2. \A d \in Conns, n \in Nat : advance_billing(account[d], n) \in Account
  BY <1>1, ChargeIsExact
<1>3. NoAccount \in Account
  BY AccountFields
<1>4. CASE ConfigBilling(c)
  <2>1. rate' \in 0 .. MaxNano
    BY <1>4, RateAsked DEF ConfigBilling, ChangesConfig
  <2>2. account' \in [Conns -> Account] /\ stamp' \in [Conns -> Nat]
    BY <1>1, <1>2, <1>4 DEF ConfigBilling, None
  <2>3. history' \in [Conns -> History]
    <3> DEFINE asked == normalize_rate_for_policy(task[c].frame.rate)
               earlier == (asked - rate) * Waited(stamp[c])
    <3>1. asked \in Int /\ rate \in Int /\ Waited(stamp[c]) \in Int
      BY <1>1, <1>4, RateAsked, AgainType, BillingAssumption
         DEF ConfigBilling, ChangesConfig
    <3>2. earlier \in Int
      <4> HIDE DEF asked
      <4> QED BY <3>1
    <3> HIDE DEF earlier
    <3>3. ASSUME NEW d \in Conns
          PROVE  [most |-> history[d].most + earlier + ChargedAgain(d, stamp[c]),
                  least |-> history[d].least
                            + IF d \in Joined(participants) THEN earlier ELSE 0]
                 \in History
      <4>1. ChargedAgain(d, stamp[c]) \in Nat
        BY <1>1, AgainType
      <4>2. history[d].most \in Int /\ history[d].least \in Int
        BY <1>1 DEF History
      <4> QED BY <3>2, <4>1, <4>2 DEF History
    <3> QED BY <1>1, <1>4, <3>3 DEF ConfigBilling, earlier
  <2> QED BY <1>1, <1>4, <2>1, <2>2, <2>3 DEF ConfigBilling, BillingTypeOK
<1>5. CASE ContinueBilling(c)
  <2>1. account' \in [Conns -> Account] /\ stamp' \in [Conns -> Nat]
    BY <1>1, <1>3, <1>5 DEF ContinueBilling, None
  <2> QED BY <1>1, <1>5, <2>1 DEF ContinueBilling, BillingTypeOK
<1>6. CASE Pay(c)
  <2> DEFINE f == task[c].frame
             charged == advance_billing(account[c], stamp[c])
  <2>1. f \in Frame /\ f.kind = "Payment"
    BY <1>6, TaskFrame DEF Pay, Handling, TypeOK
  <2>2. f.amount \in Nat
    BY <2>1 DEF Frame
  <2>3. charged \in Account
    BY <1>1, <1>2
  <2> HIDE DEF charged
  <2>4. /\ [account[c] EXCEPT !.last = stamp[c]] \in Account
        /\ [charged EXCEPT !.paid = SatNano(@ + f.amount)] \in Account
    BY <1>1, <2>2, <2>3, AccountFields
  <2>5. \/ account' = [account EXCEPT ![c] = [account[c] EXCEPT !.last = stamp[c]]]
        \/ account' = [account EXCEPT ![c] = charged]
        \/ account' = [account EXCEPT ![c] =
                           [charged EXCEPT !.paid = SatNano(@ + f.amount)]]
    BY <1>1, <1>6 DEF Pay, charged
  <2>6. account' \in [Conns -> Account] /\ stamp' \in [Conns -> Nat]
    BY <1>1, <1>6, <2>3, <2>4, <2>5 DEF Pay, None
  <2>7. history' \in [Conns -> History]
    BY <1>1, <1>6, AgainType DEF Pay
  <2> QED BY <1>1, <1>6, <2>6, <2>7 DEF Pay, BillingTypeOK
<1>7. CASE enforce_billing(c)
  <2>1. account' \in [Conns -> Account]
    <3>1. CASE CheckCharges(c)
      <4> DEFINE now == enforcer[c].now
      <4>1. /\ advance_billing(account[c], now) \in Account
            /\ [account[c] EXCEPT !.last = now] \in Account
        BY <1>1, <1>2, AccountFields
      <4>2. \/ account' = [account EXCEPT ![c] = advance_billing(account[c], now)]
            \/ account' = [account EXCEPT ![c] = [account[c] EXCEPT !.last = now]]
        BY <1>1, <3>1 DEF CheckCharges
      <4> QED BY <1>1, <4>1, <4>2
    <3>2. CASE ~CheckCharges(c)
      BY <1>1, <1>7, <3>2 DEF enforce_billing, WakeUp, CheckGone, CheckSkips
    <3> QED BY <3>1, <3>2
  <2>2. enforcer' \in [Conns -> [at : EnforcerStates, now : Nat]]
    BY <1>1, <1>7 DEF enforce_billing, WakeUp, CheckGone, CheckSkips,
           CheckCharges, Goes, EnforcerStates, None
  <2>3. history' \in [Conns -> History]
    BY <1>1, <1>7, AgainType DEF enforce_billing, WakeUp, CheckGone, CheckSkips,
           CheckCharges
  <2> QED BY <1>1, <1>7, <2>1, <2>2, <2>3 DEF enforce_billing, WakeUp, CheckGone,
             CheckSkips, CheckCharges, BillingTypeOK
<1> QED BY <1>4, <1>5, <1>6, <1>7

LEMMA PassType ==
    ASSUME BillingTypeOK, Pass
    PROVE  BillingTypeOK'
<1>1. /\ clock \in Nat /\ Times \subseteq Nat /\ rate \in Nat
      /\ history \in [Conns -> History]
  BY BillingAssumption DEF BillingTypeOK
<1>2. clock' \in Times /\ clock' \in Nat
  BY <1>1 DEF Pass
<1>3. history' \in [Conns -> History]
  <2> DEFINE passed == rate * (clock' - clock)
  <2>1. passed \in Int
    BY <1>1, <1>2
  <2>2. \A d \in Conns : history[d].most \in Int /\ history[d].least \in Int
    BY <1>1 DEF History
  <2> HIDE DEF passed
  <2>3. ASSUME NEW d \in Conns
        PROVE  [history[d] EXCEPT
                    !.most = @ + IF d \in Present(participants) THEN passed ELSE 0,
                    !.least = @ + IF d \in Joined(participants) THEN passed ELSE 0]
               \in History
    <3> DEFINE most == IF d \in Present(participants) THEN passed ELSE 0
               least == IF d \in Joined(participants) THEN passed ELSE 0
    <3>1. most \in Int /\ least \in Int /\ history[d] \in History
      BY <1>1, <2>1
    <3>2. history[d].most + most \in Int /\ history[d].least + least \in Int
      <4> HIDE DEF most, least
      <4> QED BY <2>2, <3>1
    <3> HIDE DEF most, least
    <3>3. [history[d] EXCEPT !.most = @ + most, !.least = @ + least] \in History
      BY <3>1, <3>2 DEF History
    <3> QED BY <3>3 DEF most, least
  <2> QED BY <1>1, <2>3 DEF Pass, passed
<1> QED BY <1>2, <1>3 DEF Pass, BillingTypeOK

LEMMA BillingTypeInit == BillingInit => BillingTypeOK
<1>1. NoAccount \in Account
  BY AccountFields
<1> QED BY <1>1, BillingAssumption
       DEF BillingInit, BillingTypeOK, EnforcerStates, None, NewHistory, History

LEMMA BillingTypeStep ==
    RoomInv /\ Heard /\ BillingTypeOK /\ [BillingNext]_allVars => BillingTypeOK'
<1>1. UNCHANGED billingVars => (BillingTypeOK => BillingTypeOK')
  BY DEF billingVars, BillingTypeOK
<1>2. UNCHANGED allVars => UNCHANGED billingVars
  BY DEF allVars
<1> QED BY <1>1, <1>2, OpeningType, ReceivedType, SectionType, PassType
       DEF BillingNext, LifecycleBilling, SurchargeOverflows, RoomInv

\* Amounts, cursors, remainders and clocks keep their types and widths.
THEOREM BillingTypeCorrect == BillingSpec => []BillingTypeOK
<1>1. BillingInit => Heard
  BY DEF BillingInit, Init, Idle, Heard, Metered
<1> QED BY <1>1, BillingTypeInit, BillingTypeStep, HeardStep, BilledRoomCorrect,
       PTL DEF BillingSpec
-----------------------------------------------------------------------------
(***************************************************************************)
(* What a handler or an enforcer has read of the clock lies in the past,   *)
(* however long it has waited for the room since.                          *)
(***************************************************************************)
StampsPast == \A c \in Conns : stamp[c] <= clock /\ enforcer[c].now <= clock

LEMMA PastStep ==
    ASSUME BillingTypeOK, BillingTypeOK', StampsPast, [BillingNext]_allVars
    PROVE  StampsPast'
<1>1. /\ clock \in Nat /\ clock' \in Nat
      /\ \A c \in Conns : stamp[c] \in Nat /\ enforcer[c].now \in Nat
  BY BillingAssumption DEF BillingTypeOK
<1>2. CASE Pass
  <2>1. clock < clock' /\ UNCHANGED <<stamp, enforcer>>
    BY <1>1, <1>2 DEF Pass
  <2> QED BY <1>1, <2>1 DEF StampsPast
<1>3. ASSUME NEW c \in Conns, LifecycleBilling(c) PROVE StampsPast'
  <2>1. /\ UNCHANGED <<clock, stamp>>
        /\ \A d \in Conns : enforcer'[d].now \in {enforcer[d].now, None}
    BY <1>3 DEF LifecycleBilling, FollowParticipants
  <2> QED BY <1>1, <2>1 DEF StampsPast, None
<1>4. ASSUME NEW c \in Conns, enforce_billing(c) PROVE StampsPast'
  <2>1. /\ UNCHANGED <<clock, stamp>>
        /\ \A d \in Conns : enforcer'[d].now \in {enforcer[d].now, None, clock}
    BY <1>4 DEF enforce_billing, WakeUp, CheckGone, CheckSkips, CheckCharges,
           Goes, BillingTypeOK
  <2> QED BY <1>1, <2>1 DEF StampsPast, None
<1>5. ASSUME NEW c \in Conns,
             \/ ConfigBilling(c) \/ ContinueBilling(c) \/ Pay(c)
             \/ \E f \in Frames : \/ ReceiveBilling(c, f) \/ SurchargeOverflows(c, f)
                                  \/ ProveEscrow(c, f)
      PROVE  StampsPast'
  <2>1. /\ UNCHANGED <<clock, enforcer>>
        /\ \A d \in Conns : stamp'[d] \in {stamp[d], None, clock}
    BY <1>5 DEF ConfigBilling, ContinueBilling, Pay, ReceiveBilling, StampAtGate,
           SurchargeOverflows, ProveEscrow, billingVars, BillingTypeOK
  <2> QED BY <1>1, <2>1 DEF StampsPast, None
<1>6. CASE UNCHANGED allVars
  BY <1>6 DEF allVars, billingVars, StampsPast
<1> QED BY <1>2, <1>3, <1>4, <1>5, <1>6 DEF BillingNext
-----------------------------------------------------------------------------
(***************************************************************************)
(* ChargedFairly, strengthened to all who are present: who has not joined  *)
(* owes nothing yet, and no cursor is ahead of the clock.                  *)
(***************************************************************************)
Charged(c) ==
    /\ account[c].last <= clock
    /\ c \notin Joined(participants) => history[c].least = 0
    /\ account[c].billed < MaxNano => history[c].least <= ChargeNow(c)
    /\ ChargeNow(c) <= history[c].most

ChargeInv == ~anonymous_mode => \A c \in Present(participants) : Charged(c)

\* The fields of an account of which the properties speak.
LEMMA Fields ==
    ASSUME BillingTypeOK, NEW c \in Conns
    PROVE  /\ account[c] \in Account
           /\ account[c].last \in Nat /\ account[c].billed \in Nat
           /\ account[c].rem \in Nat
           /\ history[c].most \in Int /\ history[c].least \in Int
           /\ clock \in Nat /\ rate \in Nat
           /\ Minute * account[c].billed \in Nat
<1>1. /\ account[c] \in Account /\ clock \in Nat /\ rate \in Nat
      /\ history[c].most \in Int /\ history[c].least \in Int
  BY BillingAssumption DEF BillingTypeOK, History
<1>2. /\ account[c].last \in Nat /\ account[c].billed \in Nat
      /\ account[c].rem \in Nat
  BY <1>1, BillingAssumption DEF Account
<1>3. Minute * account[c].billed \in Nat
  BY <1>2, BillingAssumption
<1> QED BY <1>1, <1>2, <1>3

\* No time, no charge, whatever the rate.
LEMMA TimesZero == \A n \in Nat : n * 0 = 0
OBVIOUS

\* Nothing is charged, and nobody leaves those who have joined.
LEMMA ChargeKept ==
    ASSUME NEW c \in Conns, Charged(c), UNCHANGED <<clock, rate>>,
           account'[c].last = account[c].last,
           account'[c].billed = account[c].billed,
           account'[c].rem = account[c].rem, history'[c] = history[c],
           c \in Joined(participants) => c \in Joined(participants')
    PROVE  Charged(c)'
BY DEF Charged, ChargeNow

\* A cursor that goes from `last' to `now' is charged for the time between;
\* with the wait of the section it is charged for what was due, and again for
\* what it goes back.
LEMMA CursorMoves ==
    ASSUME NEW present \in Nat, NEW last \in Nat, NEW now \in Nat,
           last <= present, now <= present, NEW k \in Nat
    PROVE  k * SatSub(now, last) + k * SatSub(present, now)
           = k * SatSub(present, last) + k * SatSub(last, now)
<1> DEFINE charged == SatSub(now, last)
           waited == SatSub(present, now)
           due == SatSub(present, last)
           again == SatSub(last, now)
<1>1. /\ charged \in Nat /\ waited \in Nat /\ due \in Nat /\ again \in Nat
      /\ charged + waited = due + again
  BY DEF SatSub
<1> HIDE DEF charged, waited, due, again
<1>2. k * (charged + waited) = k * charged + k * waited
  BY <1>1
<1>3. k * (due + again) = k * due + k * again
  BY <1>1
<1>4. k * charged + k * waited = k * due + k * again
  BY <1>1, <1>2, <1>3
<1> QED BY <1>4 DEF charged, waited, due, again

\* A section that read the clock at `now' charges up to there, at whatever rate
\* goes on; or it moves a cursor for free because its owner has not joined.
LEMMA ChargeMade ==
    ASSUME BillingTypeOK, NEW c \in Conns, Charged(c), BillingTypeOK',
           UNCHANGED clock, NEW now \in Nat, now <= clock, NEW earlier \in Int,
           rate' * SatSub(clock, now) = rate * SatSub(clock, now) + earlier,
           history'[c].most = history[c].most + earlier
                              + rate * SatSub(account[c].last, now),
           history'[c].least = history[c].least
                               + IF c \in Joined(participants) THEN earlier ELSE 0,
           c \in Joined(participants) => c \in Joined(participants'),
           account'[c].last = now,
           \/ /\ account'[c].billed = advance_billing(account[c], now).billed
              /\ account'[c].rem = advance_billing(account[c], now).rem
           \/ /\ account'[c].billed = account[c].billed
              /\ account'[c].rem = account[c].rem
              /\ c \notin Joined(participants)
    PROVE  Charged(c)'
<1> DEFINE a == account[c]
           b == account'[c]
           charged == rate * SatSub(now, a.last)
           waited == rate * SatSub(clock, now)
           due == rate * SatSub(clock, a.last)
           again == rate * SatSub(a.last, now)
           lower == IF c \in Joined(participants) THEN earlier ELSE 0
           billed == Minute * a.billed
           billed1 == Minute * b.billed
<1>1. /\ a \in Account /\ a.last \in Nat /\ a.billed \in Nat /\ a.rem \in Nat
      /\ history[c].most \in Int /\ history[c].least \in Int
      /\ clock \in Nat /\ rate \in Nat /\ rate \in 0 .. MaxNano
      /\ billed \in Nat
  BY Fields DEF BillingTypeOK
<1>2. b.billed \in Nat /\ b.rem \in Nat /\ rate' \in Nat /\ billed1 \in Nat
  <2>1. account'[c] \in Account /\ rate' \in 0 .. MaxNano
    BY DEF BillingTypeOK
  <2>2. b.billed \in Nat /\ b.rem \in Nat /\ rate' \in Nat
    BY <2>1, BillingAssumption DEF Account
  <2> QED BY <2>2, BillingAssumption
<1>3. charged \in Nat /\ waited \in Nat /\ due \in Nat /\ again \in Nat
  <2>1. /\ SatSub(now, a.last) \in Nat /\ SatSub(clock, now) \in Nat
        /\ SatSub(clock, a.last) \in Nat /\ SatSub(a.last, now) \in Nat
    BY <1>1, SatSubIs
  <2> QED BY <1>1, <2>1
<1>4. charged + waited = due + again
  BY <1>1, CursorMoves DEF Charged
<1>5. ChargeNow(c) = billed + a.rem + due
  BY DEF ChargeNow
<1>6. ChargeNow(c)' = billed1 + b.rem + waited + earlier
  <2>1. ChargeNow(c)' = billed1 + b.rem + rate' * SatSub(clock, now)
    BY DEF ChargeNow, SatSub
  <2>2. rate' * SatSub(clock, now) = waited + earlier
    OBVIOUS
  <2> HIDE DEF waited, billed1, b
  <2> QED BY <1>2, <1>3, <2>1, <2>2
<1>7. lower \in Int /\ (c \in Joined(participants) => lower = earlier)
      /\ (c \notin Joined(participants) => lower = 0)
  OBVIOUS
<1>8. /\ history'[c].most = history[c].most + earlier + again
      /\ history'[c].least = history[c].least + lower
  OBVIOUS
<1>9. /\ c \notin Joined(participants) => history[c].least = 0
      /\ a.billed < MaxNano => history[c].least <= ChargeNow(c)
      /\ ChargeNow(c) <= history[c].most
  BY DEF Charged
<1>10. ChargeNow(c)' \in Nat
  <2>1. SatSub(clock, now) \in Nat
    BY <1>1, SatSubIs
  <2>2. rate' * SatSub(clock, now) \in Nat
    BY <1>2, <2>1
  <2>3. ChargeNow(c)' = billed1 + b.rem + rate' * SatSub(clock, now)
    BY DEF ChargeNow, SatSub
  <2> HIDE DEF b, billed1
  <2> QED BY <1>2, <2>2, <2>3
<1>11. /\ b.billed < MaxNano => history'[c].least <= ChargeNow(c)'
       /\ ChargeNow(c)' <= history'[c].most
  <2>1. CASE /\ b.billed = advance_billing(a, now).billed
             /\ b.rem = advance_billing(a, now).rem
    <3> DEFINE new == advance_billing(a, now)
    <3>1. /\ Minute * new.billed + new.rem <= billed + a.rem + charged
          /\ new.billed < MaxNano =>
              /\ a.billed < MaxNano
              /\ Minute * new.billed + new.rem = billed + a.rem + charged
      BY <1>1, ChargeIsExact
    <3>2. /\ billed1 + b.rem <= billed + a.rem + charged
          /\ b.billed < MaxNano =>
              a.billed < MaxNano /\ billed1 + b.rem = billed + a.rem + charged
      <4> HIDE DEF new, charged, billed
      <4> QED BY <2>1, <3>1 DEF new
    <3>3. lower <= earlier \/ history[c].least + lower <= 0
      BY <1>7, <1>9, <1>1
    <3> HIDE DEF new, a, b, charged, waited, due, again, lower, billed, billed1
    <3>4. ChargeNow(c)' <= history'[c].most
      BY <1>1, <1>2, <1>3, <1>4, <1>5, <1>6, <1>8, <1>9, <3>2
    <3>5. ASSUME b.billed < MaxNano PROVE history'[c].least <= ChargeNow(c)'
      <4>1. history[c].least <= ChargeNow(c)
        BY <1>9, <3>2, <3>5
      <4>2. ChargeNow(c)' = ChargeNow(c) + again + earlier
        BY <1>1, <1>2, <1>3, <1>4, <1>5, <1>6, <3>2, <3>5
      <4>3. ChargeNow(c) \in Int
        BY <1>1, <1>3, <1>5
      <4> QED BY <1>1, <1>3, <1>7, <1>8, <1>10, <3>3, <4>1, <4>2, <4>3
    <3> QED BY <3>4, <3>5
  <2>2. CASE b.billed = a.billed /\ b.rem = a.rem /\ c \notin Joined(participants)
    <3>1. history'[c].least = 0
      BY <1>7, <1>8, <1>9, <2>2
    <3>2. ChargeNow(c)' = billed + a.rem + waited + earlier
      BY <1>6, <2>2
    <3> HIDE DEF a, b, charged, waited, due, again, lower, billed, billed1
    <3>3. ChargeNow(c)' <= history'[c].most
      BY <1>1, <1>3, <1>4, <1>5, <1>8, <1>9, <3>2
    <3> QED BY <1>10, <3>1, <3>3
  <2> QED BY <2>1, <2>2
<1>12. c \notin Joined(participants') => history'[c].least = 0
  BY <1>7, <1>8, <1>9
<1> QED BY <1>1, <1>11, <1>12 DEF Charged

\* A section that goes on at the same rate.
LEMMA ChargeMadeAgain ==
    ASSUME BillingTypeOK, NEW c \in Conns, Charged(c), BillingTypeOK',
           UNCHANGED <<clock, rate>>, ~anonymous_mode, NEW now \in Nat, now <= clock,
           CountAgain(c, now),
           c \in Joined(participants) => c \in Joined(participants'),
           account'[c].last = now,
           \/ /\ account'[c].billed = advance_billing(account[c], now).billed
              /\ account'[c].rem = advance_billing(account[c], now).rem
           \/ /\ account'[c].billed = account[c].billed
              /\ account'[c].rem = account[c].rem
              /\ c \notin Joined(participants)
    PROVE  Charged(c)'
<1> DEFINE again == rate * SatSub(account[c].last, now)
<1>1. /\ history \in [Conns -> History] /\ rate \in Nat /\ clock \in Nat
      /\ account[c].last \in Nat /\ history[c].most \in Int
      /\ history[c].least \in Int
  BY Fields DEF BillingTypeOK
<1>2. again \in Nat /\ rate * SatSub(clock, now) \in Nat
  <2>1. SatSub(account[c].last, now) \in Nat /\ SatSub(clock, now) \in Nat
    BY <1>1, SatSubIs
  <2> QED BY <1>1, <2>1
<1>3. /\ history'[c].most = history[c].most + again
      /\ history'[c].least = history[c].least
  BY <1>1 DEF CountAgain, ChargedAgain, History
<1> DEFINE waited == rate * SatSub(clock, now)
<1>4. rate' * SatSub(clock, now) = waited
  OBVIOUS
<1> HIDE DEF again, waited
<1>5. /\ history'[c].most = history[c].most + 0 + again
      /\ history'[c].least = history[c].least
                             + IF c \in Joined(participants) THEN 0 ELSE 0
      /\ rate' * SatSub(clock, now) = waited + 0
  BY <1>1, <1>2, <1>3, <1>4 DEF waited
<1> QED BY <1>5, ChargeMade DEF again, waited

\* Time at the rate in force.
LEMMA ChargePasses ==
    ASSUME BillingTypeOK, Pass, ~anonymous_mode, NEW c \in Present(participants),
           Charged(c)
    PROVE  Charged(c)'
<1> DEFINE a == account[c]
           n == SatSub(clock, a.last)
           t == clock' - clock
           passed == rate * t
           joined == IF c \in Joined(participants) THEN passed ELSE 0
           billed == Minute * a.billed
<1>0. c \in Conns
  BY DEF Present
<1>1. /\ a.last \in Nat /\ a.billed \in Nat /\ a.rem \in Nat
      /\ history \in [Conns -> History]
      /\ history[c].most \in Int /\ history[c].least \in Int
      /\ clock \in Nat /\ rate \in Nat /\ billed \in Nat
  BY <1>0, Fields DEF BillingTypeOK
<1>2. /\ clock' \in Nat /\ clock < clock' /\ t \in Nat
      /\ UNCHANGED <<participants, rate, account>>
  <2>1. clock' \in Times /\ clock' > clock /\ Times \subseteq Nat
    BY BillingAssumption DEF Pass
  <2>2. UNCHANGED <<participants, rate, account>>
    BY DEF Pass, vars, roomVars
  <2> QED BY <1>1, <2>1, <2>2
<1>3. /\ history'[c].most = history[c].most + passed
      /\ history'[c].least = history[c].least + joined
  BY <1>0, <1>1 DEF Pass, History
<1>4. a.last <= clock
  BY DEF Charged
<1>5. n \in Nat /\ SatSub(clock', a.last) = n + t
  BY <1>1, <1>2, <1>4 DEF SatSub
<1>6. rate * n \in Nat /\ passed \in Nat /\ rate * (n + t) = rate * n + passed
  <2> HIDE DEF n, t
  <2> QED BY <1>1, <1>2, <1>5
<1>7. ChargeNow(c) = billed + a.rem + rate * n
  BY DEF ChargeNow
<1>8. ChargeNow(c)' = billed + a.rem + rate * (n + t)
  BY <1>2, <1>5 DEF ChargeNow
<1>9. joined \in Nat /\ joined <= passed
      /\ (c \notin Joined(participants) => joined = 0 /\ history[c].least = 0)
  <2> HIDE DEF passed
  <2> QED BY <1>6 DEF Charged
<1>10. /\ a.billed < MaxNano => history[c].least <= ChargeNow(c)
       /\ ChargeNow(c) <= history[c].most
  BY DEF Charged
<1>11. /\ a.billed < MaxNano => history'[c].least <= ChargeNow(c)'
       /\ ChargeNow(c)' <= history'[c].most
  <2> HIDE DEF n, t, passed, joined, billed
  <2> QED BY <1>1, <1>3, <1>6, <1>7, <1>8, <1>9, <1>10
<1>12. account'[c].last <= clock'
  BY <1>1, <1>2, <1>4
<1>13. c \notin Joined(participants)' => history'[c].least = 0
  BY <1>2, <1>3, <1>9
<1> QED BY <1>2, <1>11, <1>12, <1>13 DEF Charged

\* An account that has just been opened, as of when the client connected.
LEMMA ChargeOpens ==
    ASSUME BillingTypeOK, NEW c \in Conns, UNCHANGED <<clock, rate>>,
           NEW now \in Nat, now <= clock, account'[c] = NewAccount(now),
           history'[c] = [NewHistory EXCEPT !.most = rate * Waited(now)]
    PROVE  Charged(c)'
<1> DEFINE due == rate * SatSub(clock, now)
<1>1. clock \in Nat /\ Minute \in Nat /\ rate \in Nat
  BY Fields, BillingAssumption
<1>2. /\ account'[c].last = now /\ account'[c].billed = 0
      /\ account'[c].rem = 0
      /\ history'[c].most = due /\ history'[c].least = 0
  BY DEF NewAccount, NewHistory, Waited
<1>3. due \in Nat
  <2>1. SatSub(clock, now) \in Nat
    BY <1>1, SatSubIs
  <2> QED BY <1>1, <2>1
<1>4. ChargeNow(c)' = Minute * 0 + 0 + due
  BY <1>2 DEF ChargeNow, SatSub
<1>5. ChargeNow(c)' = due
  <2>1. Minute * 0 = 0
    BY <1>1, TimesZero, Zenon
  <2> HIDE DEF due
  <2> QED BY <1>3, <1>4, <2>1
<1> HIDE DEF due
<1> QED BY <1>1, <1>2, <1>3, <1>5 DEF Charged

LEMMA ChargeStep ==
    ASSUME RoomInv, RoomInv', BillingTypeOK, BillingTypeOK',
           StampsPast, ChargeInv, [BillingNext]_allVars
    PROVE  ChargeInv'
<1> SUFFICES ASSUME ~anonymous_mode', NEW d \in Present(participants')
             PROVE  Charged(d)'
  BY DEF ChargeInv
<1> USE DEF RoomInv, TypeOK
<1>0. d \in Conns
  BY DEF Present
<1>1. ASSUME NEW c \in Conns, Quiet(c) \/ Loud(c)
      PROVE  /\ ~anonymous_mode
             /\ d \in Present(participants) \/ Connect(c)
             /\ d \in Joined(participants) => d \in Joined(participants')
             /\ d \in Present(participants) => Charged(d)
  BY <1>1, PresenceSteps DEF PresenceMoves, ChargeInv
<1>2. ASSUME UNCHANGED roomVars
      PROVE  /\ ~anonymous_mode /\ d \in Present(participants) /\ Charged(d)
             /\ d \in Joined(participants) => d \in Joined(participants')
  BY <1>2 DEF roomVars, ChargeInv
<1>3. CASE UNCHANGED allVars
  BY <1>2, <1>3 DEF allVars, vars, billingVars, roomVars, Charged, ChargeNow
<1>4. CASE Pass
  <2>1. UNCHANGED roomVars
    BY <1>4 DEF Pass, vars
  <2> QED BY <1>2, <1>4, <2>1, ChargePasses
<1>5. ASSUME NEW c \in Conns, LifecycleBilling(c) PROVE Charged(d)'
  <2>1. Quiet(c) \/ Loud(c)
    BY <1>5 DEF LifecycleBilling, Lifecycle, Quiet, Loud
  <2>2. UNCHANGED <<clock, rate>>
    BY <1>5 DEF LifecycleBilling, FollowParticipants
  <2>3. CASE d \in Present(participants)
    <3>1. account'[d] = account[d] /\ history'[d] = history[d]
      BY <1>0, <1>5, <2>3 DEF LifecycleBilling, FollowParticipants
    <3> QED BY <1>0, <1>1, <2>1, <2>2, <2>3, <3>1, ChargeKept
  <2>4. CASE d \notin Present(participants)
    <3>1. PICK t \in Nat : /\ t <= clock
                           /\ account'[d] = NewAccount(t)
                           /\ history'[d] = [NewHistory EXCEPT !.most = rate * Waited(t)]
      BY <1>0, <1>5, <2>4, BillingAssumption DEF LifecycleBilling, FollowParticipants
    <3> QED BY <1>0, <2>2, <3>1, ChargeOpens
  <2> QED BY <2>3, <2>4
<1>6. ASSUME NEW c \in Conns, NEW f \in Frames, ReceiveBilling(c, f)
      PROVE  Charged(d)'
  <2>1. Receive(c, f)
    BY <1>6 DEF ReceiveBilling
  <2>2. (Quiet(c) \/ Loud(c)) /\ ~Connect(c)
    BY <2>1, BusyNotNew DEF Receive, Quiet, Loud
  <2>3. ~participants'[c].anon
    BY DEF RoleInv, NoneAnonymous
  <2>4. UNCHANGED <<clock, rate, history>>
    BY <1>6 DEF ReceiveBilling
  <2>5. /\ account'[d].last = account[d].last
        /\ account'[d].billed = account[d].billed
        /\ account'[d].rem = account[d].rem
    <3>1. \/ account' = account
          \/ account' = [account EXCEPT ![c].proof = None, ![c].escrow = None]
      BY <1>6, <2>3 DEF ReceiveBilling
    <3> QED BY <1>0, <3>1 DEF BillingTypeOK, Account
  <2> QED BY <1>0, <1>1, <2>2, <2>4, <2>5, ChargeKept
<1>7. ASSUME NEW c \in Conns, ConfigBilling(c) PROVE Charged(d)'
  <2>1. Quiet(c) /\ UNCHANGED participants
    BY <1>7 DEF ConfigBilling, Quiet, UpdateRoomConfig
  <2> DEFINE now == stamp[c]
             asked == normalize_rate_for_policy(task[c].frame.rate)
             waited == SatSub(clock, now)
             earlier == (asked - rate) * waited
  <2>2. /\ now \in Nat /\ now <= clock /\ clock \in Nat /\ rate \in 0 .. MaxNano
        /\ rate \in Nat /\ account[d] \in Account
        /\ history[d].most \in Int /\ history[d].least \in Int
    BY <1>0, Fields DEF BillingTypeOK, StampsPast
  <2>3. /\ account'[d] = advance_billing(account[d], now)
        /\ UNCHANGED clock /\ rate' = asked
    BY <1>0, <1>7, <2>1 DEF ConfigBilling
  <2>4. account'[d].last = now
    BY <2>2, <2>3, ChargeIsExact
  <2>5. d \in Present(participants) /\ ~anonymous_mode /\ Charged(d)
        /\ (d \in Joined(participants) => d \in Joined(participants'))
    BY <1>1, <2>1
  <2>6. /\ history'[d].most = history[d].most + earlier + ChargedAgain(d, now)
        /\ history'[d].least = history[d].least
                               + IF d \in Joined(participants) THEN earlier ELSE 0
    BY <1>0, <1>7, <2>5 DEF ConfigBilling, Waited
  <2>7. asked \in Nat /\ waited \in Nat
    BY <1>0, <2>2, <2>3, SatSubIs, BillingAssumption DEF BillingTypeOK
  <2>8. earlier \in Int /\ asked * waited = rate * waited + earlier
    <3> HIDE DEF asked, waited
    <3> QED BY <2>2, <2>7
  <2>9. ChargedAgain(d, now) = rate * SatSub(account[d].last, now)
    BY <2>5 DEF ChargedAgain
  <2> HIDE DEF earlier, asked
  <2> QED BY <1>0, <2>2, <2>3, <2>4, <2>5, <2>6, <2>8, <2>9, ChargeMade
<1>8. ASSUME NEW c \in Conns, ContinueBilling(c) PROVE Charged(d)'
  <2>1. (Quiet(c) \/ Loud(c)) /\ ~Connect(c)
    BY <1>8, BusyNotNew DEF ContinueBilling, Continue, Quiet, Loud
  <2>2. account'[d] = account[d] /\ UNCHANGED <<clock, rate, history>>
    BY <1>0, <1>8 DEF ContinueBilling
  <2> QED BY <1>0, <1>1, <2>1, <2>2, ChargeKept
<1>9. ASSUME NEW c \in Conns, Pay(c) PROVE Charged(d)'
  <2> DEFINE now == stamp[c]
             charged == advance_billing(account[c], now)
  <2>1. now \in Nat /\ now <= clock
    BY DEF BillingTypeOK, StampsPast
  <2>2. UNCHANGED <<roomVars, clock, rate>> /\ CountAgain(c, now)
    BY <1>9 DEF Pay
  <2>3. CASE d # c
    <3>1. account'[d] = account[d] /\ history'[d] = history[d]
      BY <1>0, <1>9, <2>2, <2>3 DEF Pay, CountAgain, BillingTypeOK
    <3> QED BY <1>0, <1>2, <2>2, <3>1, ChargeKept
  <2>4. CASE d = c
    <3>1. /\ account[c] \in Account /\ account \in [Conns -> Account]
          /\ clock \in Nat /\ rate \in 0 .. MaxNano
      BY Fields DEF BillingTypeOK
    <3>2. charged \in Account /\ charged.last = now
      BY <2>1, <3>1, ChargeIsExact
    <3> HIDE DEF charged
    <3>3. \/ /\ c \notin Joined(participants)
             /\ account'[c] = [account[c] EXCEPT !.last = now]
          \/ account'[c] = charged
          \/ account'[c] =
                 [charged EXCEPT !.paid = SatNano(charged.paid + task[c].frame.amount)]
      BY <1>9, <3>1 DEF Pay, charged
    <3>4. /\ account'[c].last = now
          /\ \/ /\ account'[c].billed = charged.billed
                /\ account'[c].rem = charged.rem
             \/ /\ account'[c].billed = account[c].billed
                /\ account'[c].rem = account[c].rem
                /\ c \notin Joined(participants)
      BY <3>1, <3>2, <3>3 DEF Account
    <3> HIDE DEF now
    <3> QED BY <1>2, <2>1, <2>2, <2>4, <3>4, ChargeMadeAgain DEF charged
  <2> QED BY <2>3, <2>4
<1>10. ASSUME NEW c \in Conns, enforce_billing(c) PROVE Charged(d)'
  <2>1. UNCHANGED <<roomVars, clock, rate>>
    BY <1>10 DEF enforce_billing, WakeUp, CheckGone, CheckSkips, CheckCharges, vars
  <2>2. CASE ~CheckCharges(c) \/ d # c
    <3>1. account'[d] = account[d] /\ history'[d] = history[d]
      BY <1>0, <1>10, <2>2 DEF enforce_billing, WakeUp, CheckGone, CheckSkips,
             CheckCharges, CountAgain, BillingTypeOK
    <3> QED BY <1>0, <1>2, <2>1, <3>1, ChargeKept
  <2>3. CASE CheckCharges(c) /\ d = c
    <3> DEFINE now == enforcer[c].now
               charged == advance_billing(account[c], now)
    <3>1. now \in Nat /\ now <= clock /\ CountAgain(c, now)
      BY <2>3 DEF CheckCharges, BillingTypeOK, StampsPast
    <3>2. /\ account[c] \in Account /\ account \in [Conns -> Account]
          /\ clock \in Nat /\ rate \in 0 .. MaxNano
      BY Fields DEF BillingTypeOK
    <3>3. charged.last = now
      BY <3>1, <3>2, ChargeIsExact
    <3>4. \/ account'[c] = charged
          \/ /\ c \notin Joined(participants)
             /\ account'[c] = [account[c] EXCEPT !.last = now]
      BY <2>3, <3>2 DEF CheckCharges
    <3> HIDE DEF charged
    <3>5. /\ account'[c].last = now
          /\ \/ /\ account'[c].billed = charged.billed
                /\ account'[c].rem = charged.rem
             \/ /\ account'[c].billed = account[c].billed
                /\ account'[c].rem = account[c].rem
                /\ c \notin Joined(participants)
      BY <3>2, <3>3, <3>4 DEF Account
    <3> HIDE DEF now
    <3> QED BY <1>2, <2>1, <2>3, <3>1, <3>5, ChargeMadeAgain DEF charged
  <2> QED BY <2>2, <2>3
<1>11. ASSUME NEW c \in Conns, NEW f \in Frames,
              SurchargeOverflows(c, f) \/ ProveEscrow(c, f)
       PROVE  Charged(d)'
  <2>1. UNCHANGED <<roomVars, clock, rate, history>>
    BY <1>11 DEF SurchargeOverflows, ProveEscrow, billingVars, vars
  <2>2. /\ account'[d].last = account[d].last
        /\ account'[d].billed = account[d].billed
        /\ account'[d].rem = account[d].rem
    <3>1. \/ account' = account
          \/ account' = [account EXCEPT ![c].proof = clock, ![c].escrow = f.escrow]
      BY <1>11 DEF SurchargeOverflows, ProveEscrow, billingVars
    <3> QED BY <1>0, <3>1 DEF BillingTypeOK, Account
  <2> QED BY <1>0, <1>2, <2>1, <2>2, ChargeKept
<1> QED BY <1>3, <1>4, <1>5, <1>6, <1>7, <1>8, <1>9, <1>10, <1>11 DEF BillingNext

FairInv == RoomInv /\ Heard /\ BillingTypeOK /\ StampsPast /\ ChargeInv

LEMMA FairInit == BillingInit => FairInv
<1> SUFFICES ASSUME BillingInit PROVE FairInv
  OBVIOUS
<1>1. RoomInv
  BY InitType, EmptyRoom, ModeInvInit DEF BillingInit, Init, RoomInv
<1>2. Heard /\ StampsPast
  <2>1. clock \in Nat
    BY BillingAssumption DEF BillingInit
  <2> QED BY <2>1 DEF BillingInit, Init, Idle, Heard, StampsPast, Metered, None
<1>3. ChargeInv
  BY DEF BillingInit, Init, Absent, Transparent, Present, ChargeInv
<1> QED BY <1>1, <1>2, <1>3, BillingTypeInit DEF FairInv

LEMMA FairStep == FairInv /\ [BillingNext]_allVars => FairInv'
<1> SUFFICES ASSUME FairInv, [BillingNext]_allVars PROVE FairInv'
  OBVIOUS
<1> USE DEF FairInv
<1>1. RoomInv'
  BY RoomInvNext
<1>2. Heard' /\ BillingTypeOK'
  BY HeardStep, BillingTypeStep
<1>3. StampsPast'
  BY <1>2, PastStep
<1>4. ChargeInv'
  BY <1>1, <1>2, ChargeStep
<1> QED BY <1>1, <1>2, <1>3, <1>4

\* Nobody is charged less than the rates since it joined, nor more than those
\* since it connected and the stretches charged again, for any rates, fees,
\* number of participants, waits for the room and order of ticks, payments,
\* rate changes, admissions and departures.
THEOREM ChargesFair == BillingSpec => []ChargedFairly
<1>1. FairInv => ChargedFairly
  BY DEF FairInv, ChargeInv, ChargedFairly, Charged, Joined, Present
<1> QED BY <1>1, FairInit, FairStep, PTL DEF BillingSpec

-----------------------------------------------------------------------------
(***************************************************************************)
(* Disconnection.                                                          *)
(***************************************************************************)
\* What a tick makes of a joined participant of a transparent room: it is
\* charged up to the enforcer's reading of the clock, and only its debt decides.
LEMMA TickDecides ==
    ASSUME FairInv, ~anonymous_mode, [BillingNext]_allVars,
           NEW c \in Joined(participants), enforcer[c].at = "checking",
           enforcer'[c].at \in {"told", "dropped", "sleeping"}
    PROVE  /\ account'[c] = advance_billing(account[c], enforcer[c].now)
           /\ enforcer'[c].at = "sleeping" <=> ~PaymentOverdue(c, account'[c])
<1> USE DEF FairInv
<1>0. c \in Conns /\ c \in Present(participants) /\ ~participants[c].anon
  BY DEF Joined, Present, RoomInv, RoleInv, NoneAnonymous
<1>1. CASE enforcer'[c] = enforcer[c]
  BY <1>1
<1>2. ASSUME NEW d \in Conns, LifecycleBilling(d) PROVE enforcer'[c] = enforcer[c]
  BY <1>0, <1>2 DEF LifecycleBilling, FollowParticipants
<1>3. ASSUME NEW d \in Conns, enforce_billing(d), enforcer'[c] # enforcer[c]
      PROVE  CheckCharges(c)
  <2>1. d = c
    BY <1>0, <1>3 DEF enforce_billing, WakeUp, CheckGone, CheckSkips,
           CheckCharges, Goes, BillingTypeOK
  <2> QED BY <1>0, <1>3, <2>1 DEF enforce_billing, WakeUp, CheckGone, CheckSkips
<1>4. CheckCharges(c) \/ enforcer'[c] = enforcer[c]
  BY <1>2, <1>3 DEF BillingNext, allVars, billingVars, Pass, ConfigBilling,
         ContinueBilling, Pay, ReceiveBilling, SurchargeOverflows, ProveEscrow
<1>5. CASE CheckCharges(c)
  <2>2. ~EscrowOverdue(c, enforcer[c].now)
    BY <1>0 DEF EscrowOverdue
  <2>3. account'[c] = advance_billing(account[c], enforcer[c].now)
    BY <1>0, <1>5 DEF CheckCharges, BillingTypeOK
  <2>4. enforcer'[c].at = "sleeping" <=> ~PaymentOverdue(c, account'[c])
    BY <1>0, <1>5, <2>2 DEF CheckCharges, Goes, BillingTypeOK
  <2> QED BY <2>3, <2>4
<1> QED BY <1>1, <1>4, <1>5

LEMMA GraceType ==
    ASSUME BillingTypeOK, NEW c \in Conns
    PROVE  Allowance(c) \in 0 .. MaxNano
<1>1. account[c].paid \in Nat /\ rate \in Nat /\ Grace \in Nat
      /\ Minute \in Nat \ {0} /\ MaxNano \in Nat
  BY BillingAssumption DEF BillingTypeOK, Account
<1>2. rate * Grace \in Nat
  BY <1>1
<1>3. (rate * Grace) \div Minute \in Nat
  <2> DEFINE n == rate * Grace
  <2> HIDE DEF n
  <2>1. n \in Nat => n \div Minute \in Nat
    BY <1>1
  <2> QED BY <1>2, <2>1 DEF n
<1>4. grace_nano \in 0 .. MaxNano
  BY <1>3, SatNanoIs DEF grace_nano
<1>5. account[c].paid + grace_nano \in Nat
  BY <1>1, <1>4
<1> QED BY <1>5, SatNanoIs DEF Allowance

\* A tick throws nobody out who has not been charged, for its time or again,
\* more than it paid and the grace allows, and lets nobody stay who was behind
\* by a nano-XOR when it read the clock, for any rates, grace, payments, waits
\* for the room and order of ticks, payments and rate changes.
THEOREM TicksFair == BillingSpec => EnforcedFairly
<1> DEFINE Fair(c) ==
        /\ enforcer'[c].at \in {"told", "dropped"}
               => Minute * Allowance(c) < history[c].most
        /\ /\ enforcer'[c].at = "sleeping"
           /\ rate > 0
           /\ account'[c].billed < MaxNano
           => history[c].least
              < Minute * (Allowance(c) + 1) + rate * Waited(enforcer[c].now)
<1>1. ASSUME FairInv, ~anonymous_mode, [BillingNext]_allVars,
             NEW c \in Joined(participants), enforcer[c].at = "checking"
      PROVE  Fair(c)
  <2> DEFINE a == account[c]
             now == enforcer[c].now
             b == advance_billing(a, now)
             all == Allowance(c)
             charged == rate * SatSub(now, a.last)
             waited == rate * SatSub(clock, now)
             due == rate * SatSub(clock, a.last)
             again == rate * SatSub(a.last, now)
             sum == Minute * a.billed + a.rem
  <2> SUFFICES ASSUME enforcer'[c].at \in {"told", "dropped", "sleeping"}
               PROVE  Fair(c)
    OBVIOUS
  <2>0. c \in Conns /\ c \in Present(participants) /\ BillingTypeOK /\ Charged(c)
        /\ now \in Nat /\ now <= clock
    BY <1>1 DEF Joined, Present, FairInv, ChargeInv, StampsPast, BillingTypeOK
  <2>1. account'[c] = b /\ (enforcer'[c].at = "sleeping" <=> ~PaymentOverdue(c, b))
    BY <1>1, TickDecides
  <2>2. /\ b \in Account /\ b.paid = a.paid
        /\ Minute * b.billed + b.rem <= sum + charged
        /\ b.billed < MaxNano => /\ a.billed < MaxNano
                                 /\ Minute * b.billed + b.rem = sum + charged
    BY <2>0, ChargeIsExact DEF BillingTypeOK
  <2>3. PaymentOverdue(c, b) <=> rate > 0 /\ b.billed > all
    BY <1>1, <2>2 DEF PaymentOverdue, Allowance
  <2>4. /\ sum \in Nat /\ ChargeNow(c) = sum + due /\ ChargeNow(c) <= history[c].most
        /\ a.billed < MaxNano => history[c].least <= ChargeNow(c)
    BY <2>0, Fields DEF ChargeNow, Charged
  <2>5. /\ charged \in Nat /\ waited \in Nat /\ due \in Nat /\ again \in Nat
        /\ charged <= due /\ due <= charged + waited
    <3>1. clock \in Nat /\ a.last \in Nat /\ rate \in Nat /\ a.last <= clock
      BY <2>0, Fields DEF Charged
    <3>2. /\ SatSub(now, a.last) \in Nat /\ SatSub(clock, now) \in Nat
          /\ SatSub(clock, a.last) \in Nat /\ SatSub(a.last, now) \in Nat
          /\ SatSub(now, a.last) <= SatSub(clock, a.last)
      BY <2>0, <3>1 DEF SatSub
    <3>3. charged \in Nat /\ waited \in Nat /\ due \in Nat /\ again \in Nat
      BY <3>1, <3>2
    <3>4. charged <= due
      BY <3>1, <3>2, TimesMonotone
    <3>5. charged + waited = due + again
      BY <2>0, <3>1, CursorMoves
    <3> HIDE DEF charged, waited, due, again
    <3> QED BY <3>3, <3>4, <3>5
  <2>6. /\ b.billed \in Nat /\ b.rem \in Nat /\ b.rem < Minute /\ all \in Nat
        /\ Minute \in Nat \ {0} /\ MaxNano \in Nat
        /\ history[c].most \in Int /\ history[c].least \in Int
    <3> HIDE DEF b
    <3> QED BY <2>0, <2>2, GraceType, Fields, BillingAssumption DEF Account
  <2> HIDE DEF a, b, all, charged, waited, due, again, sum
  <2>7. /\ Minute * b.billed \in Nat /\ Minute * all \in Nat
        /\ Minute * (all + 1) = Minute * all + Minute
        /\ Minute * (b.billed + 1) = Minute * b.billed + Minute
    BY <2>6
  <2>8. ASSUME b.billed > all PROVE Minute * all < history[c].most
    <3>1. all + 1 <= b.billed /\ all + 1 \in Nat
      BY <2>6, <2>8
    <3>2. Minute * (all + 1) <= Minute * b.billed
      BY <2>6, <3>1, TimesMonotone
    <3> QED BY <2>2, <2>4, <2>5, <2>6, <2>7, <3>2
  <2>9. ASSUME b.billed <= all, b.billed < MaxNano
        PROVE  history[c].least < Minute * (all + 1) + waited
    <3>1. Minute * b.billed <= Minute * all
      BY <2>6, <2>9, TimesMonotone
    <3>2. history[c].least <= sum + due /\ Minute * b.billed + b.rem = sum + charged
      BY <2>2, <2>4, <2>9
    <3> QED BY <2>4, <2>5, <2>6, <2>7, <3>1, <3>2
  <2>10. /\ enforcer'[c].at \in {"told", "dropped"} => b.billed > all
         /\ enforcer'[c].at = "sleeping" /\ rate > 0 => b.billed <= all
    BY <2>1, <2>3, <2>6
  <2> QED BY <2>1, <2>8, <2>9, <2>10 DEF all, waited, Waited
<1>2. FairInv /\ [BillingNext]_allVars
      => [~anonymous_mode => \A c \in Joined(participants) :
              enforcer[c].at = "checking" => Fair(c)]_allVars
  BY <1>1
<1> QED BY <1>2, FairInit, FairStep, PTL DEF BillingSpec, EnforcedFairly
=============================================================================
