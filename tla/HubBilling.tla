----------------------------- MODULE HubBilling -----------------------------
(***************************************************************************)
(* Pay-per-use: the accounts the hub keeps for the participants of a room, *)
(* the frames that pay, and enforce_billing, a task per connection that    *)
(* charges it on a timer and disconnects it when it falls behind.  The     *)
(* room itself is HubRoom: every step of it is taken together with what it *)
(* does to rate and accounts.                                              *)
(*                                                                         *)
(* Time runs in units of which Minute make a minute; the code counts       *)
(* milliseconds and carries remainders modulo 60_000.                      *)
(***************************************************************************)
EXTENDS HubRoom, Integers

CONSTANTS
    Minute,            \* 60_000 ms
    DefaultRate,       \* --xor-rate-per-minute-nano, normalised
    AnonFee,           \* --anon-zk-extra-fee-per-minute-nano
    Grace,             \* --billing-grace-secs
    MaxStale,          \* --anon-escrow-proof-max-stale-secs; 0 disables it
    FreeCalls,         \* --allow-free-calls
    HashRequired,      \* unless --allow-unhashed-payments
    MaxNano,           \* stands for u64::MAX, where amounts saturate
    Times              \* bound: the instants at which the clock is looked at

ASSUME BillingAssumption ==
    /\ Minute \in Nat \ {0} /\ MaxNano \in Nat \ {0}
    /\ DefaultRate \in 0 .. MaxNano /\ AnonFee \in 0 .. MaxNano
    /\ Grace \in Nat /\ MaxStale \in Nat /\ Times \subseteq Nat \ {0}
    /\ FreeCalls \in BOOLEAN /\ HashRequired \in BOOLEAN
    /\ FreeCalls \/ DefaultRate > 0
    /\ \A f \in Frames : f.kind = "RoomConfigUpdate" => f.rate <= MaxNano

VARIABLES
    clock,      \* now_ms(); None is no time
    rate,       \* RoomState.rate_per_minute_nano
    account,    \* the billing fields of ParticipantState
    stamp,      \* the time a handler has read before its critical section
    enforcer,   \* the enforce_billing task of each connection
    history     \* for ChargedFairly: the most and the least that a participant
                \* of a transparent room may have been charged

billingVars == <<clock, rate, account, stamp, enforcer, history>>
allVars == <<vars, billingVars>>

Account == [last : Nat, billed : 0 .. MaxNano, rem : 0 .. Minute - 1,
            paid : 0 .. MaxNano, proof : Nat, escrow : Nat]
NewAccount(now) == [last |-> now, billed |-> 0, rem |-> 0, paid |-> 0,
                    proof |-> None, escrow |-> None]
NoAccount == NewAccount(0)

History == [most : Int, least : Int]
NewHistory == [most |-> 0, least |-> 0]

\* An enforcer that has sent Error and Close has "told"; when the queue is
\* full it has "dropped" them, and ends all the same.
EnforcerStates == {"none", "sleeping", "checking", "told", "dropped", "gone"}

BillingTypeOK ==
    /\ clock \in Times
    /\ rate \in 0 .. MaxNano
    /\ account \in [Conns -> Account]
    /\ stamp \in [Conns -> Nat]
    /\ enforcer \in [Conns -> [at : EnforcerStates, now : Nat]]
    /\ history \in [Conns -> History]

\* saturating_sub, and an amount cut to a u64
SatSub(m, n) == IF m > n THEN m - n ELSE 0
SatNano(n) == IF n > MaxNano THEN MaxNano ELSE n

\* advance_billing: charge for the time since the cursor, carry the rest.
advance_billing_CursorStays(a, now) ==
    LET numerator == rate * SatSub(now, a.last) + a.rem
    IN  IF SatSub(now, a.last) = 0 \/ rate = 0 THEN a
        ELSE [a EXCEPT !.rem = numerator % Minute,
                       !.billed = SatNano(@ + SatNano(numerator \div Minute))]
advance_billing(a, now) ==
    LET numerator == rate * SatSub(now, a.last) + a.rem
    IN  IF SatSub(now, a.last) = 0 \/ rate = 0 THEN [a EXCEPT !.last = now]
        ELSE [a EXCEPT !.last = now, !.rem = numerator % Minute,
                       !.billed = SatNano(@ + SatNano(numerator \div Minute))]

grace_nano == SatNano((rate * Grace) \div Minute)

escrow_proof_stale(last, now) == SatSub(now, last) > MaxStale

normalize_rate_for_policy(asked) ==
    IF asked = 0 /\ ~FreeCalls THEN 1 ELSE asked

\* A handler reads the clock and then waits for the room: what its section
\* does, it does as of a time that has passed.
Waited(now) == SatSub(clock, now)

\* A cursor follows whichever section comes last, backwards too: from then on
\* the stretch it moves back over is charged again.
ChargedAgain(d, now) ==
    IF anonymous_mode THEN 0 ELSE rate * SatSub(account[d].last, now)
CountAgain(d, now) ==
    history' = [history EXCEPT ![d].most = @ + ChargedAgain(d, now)]
-----------------------------------------------------------------------------
(***************************************************************************)
(* What the steps of the room do to rate and accounts.                     *)
(***************************************************************************)

\* Accounts open and close with their participant; a new room has the
\* default rate.  handle_conn reads the clock before it takes its place in
\* the room, and starts the enforcer of the connection.
FollowParticipants ==
    \E connected_at \in {t \in Times : t <= clock} :
    LET opened == Present(participants') \ Present(participants)
    IN  /\ opened = {} => connected_at = clock
        /\ account' = [d \in Conns |->
               IF d \in opened THEN NewAccount(connected_at)
               ELSE IF d \in Present(participants') THEN account[d]
               ELSE NoAccount]
        /\ history' = [d \in Conns |->
               IF d \in opened
               THEN [NewHistory EXCEPT !.most = rate * Waited(connected_at)]
               ELSE IF d \in Present(participants') THEN history[d]
               ELSE NewHistory]
        /\ enforcer' = [d \in Conns |->
               IF d \in opened THEN [at |-> "sleeping", now |-> None]
               ELSE enforcer[d]]
        /\ rate' = IF Present(participants') = {} THEN DefaultRate ELSE rate
        /\ UNCHANGED <<clock, stamp>>

LifecycleBilling(c) == Lifecycle(c) /\ FollowParticipants

\* Payment and RoomConfigUpdate read the clock between the anonymous-mode
\* gate and their critical section.
StampAtGate(c, f) ==
    stamp' = IF f.kind \in {"Payment", "RoomConfigUpdate"} /\ task'[c].stage = "apply"
             THEN [stamp EXCEPT ![c] = clock] ELSE stamp

\* The surcharge is due when the room first turns anonymous.
surcharge_due(f) == f.kind = "AnonHello" /\ ~anonymous_mode

\* Hello forgets escrow proofs; the first AnonHello of a participant moves
\* its billing cursor, and the first of the room raises the rate.
ReceiveBilling(c, f) ==
    /\ Receive(c, f)
    /\ surcharge_due(f) /\ anonymous_mode' => rate + AnonFee <= MaxNano
    /\ rate' = IF surcharge_due(f) /\ anonymous_mode' THEN rate + AnonFee ELSE rate
    /\ account' =
           IF f.kind = "Hello" /\ task'[c].frame = f
           THEN [account EXCEPT ![c].proof = None, ![c].escrow = None]
           ELSE IF participants'[c].anon /\ ~participants[c].anon
           THEN [account EXCEPT ![c].last = clock]
           ELSE account
    /\ StampAtGate(c, f)
    /\ history' = IF anonymous_mode' THEN [d \in Conns |-> NewHistory] ELSE history
    /\ UNCHANGED <<clock, enforcer>>

\* "anonymous surcharge overflow"
SurchargeOverflows(c, f) ==
    /\ surcharge_due(f)
    /\ Receives(c, f)
    /\ RoomExists
    /\ AnonHelloAccepted(c, f)
    /\ rate + AnonFee > MaxNano
    /\ Reply(c)
    /\ UNCHANGED <<roomVars, billingVars>>

\* RoomConfigUpdate charges everybody at the old rate, joined or not, before
\* it sets the new one; every other section leaves the amounts alone.
ChangesConfig(c) ==
    Handling(c, "apply", {"RoomConfigUpdate"}) /\ RoomConfigUpdateAllowed(c)

ConfigBilling(c) ==
    LET asked == normalize_rate_for_policy(task[c].frame.rate)
    IN  /\ ChangesConfig(c)
        /\ UpdateRoomConfig(c)
        /\ account' = [d \in Conns |->
               IF d \in Present(participants)
               THEN advance_billing(account[d], stamp[c]) ELSE account[d]]
        /\ rate' = asked
        /\ task'[c].stage = "relay" <=>
               max_screen_shares' # max_screen_shares \/ rate' # rate
        /\ stamp' = [stamp EXCEPT ![c] = None]
        /\ history' = [d \in Conns |->
               IF d \notin Present(participants) \/ anonymous_mode THEN history[d]
               ELSE LET earlier == (asked - rate) * Waited(stamp[c])
                    IN  [most |-> history[d].most + earlier
                                  + ChargedAgain(d, stamp[c]),
                         least |-> history[d].least
                                   + IF d \in Joined(participants) THEN earlier ELSE 0]]
        /\ UNCHANGED <<clock, enforcer>>

ContinueBilling(c) ==
    /\ ~ChangesConfig(c)
    /\ ReplyOnly(c) \/ Continue(c)
    /\ account' = [d \in Conns |->
           IF d \in Present(participants') THEN account[d] ELSE NoAccount]
    /\ stamp' = IF task'[c].stage = "idle" THEN [stamp EXCEPT ![c] = None] ELSE stamp
    /\ UNCHANGED <<clock, rate, enforcer, history>>
-----------------------------------------------------------------------------
\* The critical section of Payment: who has not joined only moves its cursor.
Pay(c) ==
    /\ Handling(c, "apply", {"Payment"})
    /\ c \in Present(participants)
    /\ LET f == task[c].frame
           charged == advance_billing(account[c], stamp[c])
       IN  account' = [account EXCEPT ![c] =
               IF c \notin Joined(participants) THEN [@ EXCEPT !.last = stamp[c]]
               ELSE IF HashRequired /\ rate > 0 /\ ~f.hashed THEN charged
               ELSE [charged EXCEPT !.paid = SatNano(@ + f.amount)]]
    /\ Reply(c)
    /\ stamp' = [stamp EXCEPT ![c] = None]
    /\ CountAgain(c, stamp[c])
    /\ UNCHANGED <<roomVars, clock, rate, enforcer>>

\* validate_escrow_id_consistency
validate_escrow_id_consistency(c, escrow) ==
    account[c].escrow \in {None, escrow}

\* EscrowProof; one that is not accepted changes nothing.
ProveEscrow(c, f) ==
    /\ f.kind = "EscrowProof"
    /\ Receives(c, f)
    /\ anonymous_mode
    /\ SentUnderOwnHandle(c, f)
    /\ validate_escrow_id_consistency(c, f.escrow)
    /\ account' = [account EXCEPT ![c].proof = clock, ![c].escrow = f.escrow]
    /\ UNCHANGED <<vars, clock, rate, stamp, enforcer, history>>
-----------------------------------------------------------------------------
\* enforce_billing wakes up and reads the clock ...
WakeUp(c) ==
    /\ enforcer[c].at = "sleeping"
    /\ enforcer' = [enforcer EXCEPT ![c] = [at |-> "checking", now |-> clock]]
    /\ UNCHANGED <<vars, clock, rate, account, stamp, history>>

\* Too long without AnonHello, or without a proof after it.
EscrowOverdue_AfterHello(c, now) ==
    /\ anonymous_mode \/ participants[c].anon
    /\ MaxStale > 0
    /\ c \in Joined(participants)
    /\ account[c].proof # None
    /\ escrow_proof_stale(account[c].proof, now)
EscrowOverdue(c, now) ==
    /\ anonymous_mode \/ participants[c].anon
    /\ MaxStale > 0
    /\ escrow_proof_stale(
           IF c \in Joined(participants) /\ account[c].proof # None
           THEN account[c].proof ELSE account[c].last, now)

PaymentOverdue_NoGrace(c, a) ==
    /\ c \in Joined(participants)
    /\ rate > 0
    /\ a.billed > a.paid
PaymentOverdue(c, a) ==
    /\ c \in Joined(participants)
    /\ rate > 0
    /\ a.billed > SatNano(a.paid + grace_nano)

Goes(c, to) == enforcer' = [enforcer EXCEPT ![c] = [at |-> to, now |-> None]]

\* ... and, in its critical section, ends with the participant, skips who is
\* anonymous and in time, and charges everybody else.
CheckGone(c) ==
    /\ enforcer[c].at = "checking"
    /\ c \notin Present(participants)
    /\ Goes(c, "gone")
    /\ UNCHANGED <<vars, clock, rate, account, stamp, history>>

CheckSkips(c) ==
    /\ enforcer[c].at = "checking"
    /\ c \in Present(participants)
    /\ anonymous_mode \/ participants[c].anon
    /\ ~EscrowOverdue(c, enforcer[c].now)
    /\ Goes(c, "sleeping")
    /\ UNCHANGED <<vars, clock, rate, account, stamp, history>>

CheckCharges(c) ==
    /\ enforcer[c].at = "checking"
    /\ c \in Present(participants)
    /\ LET now == enforcer[c].now
           late == EscrowOverdue(c, now)
       IN  /\ late \/ ~(anonymous_mode \/ participants[c].anon)
           /\ account' = [account EXCEPT ![c] =
                  IF c \in Joined(participants) THEN advance_billing(@, now)
                  ELSE [@ EXCEPT !.last = now]]
           /\ CountAgain(c, now)
           /\ IF late \/ PaymentOverdue(c, account'[c])
              THEN \/ Goes(c, "told")
                   \/ SlowClients /\ Goes(c, "dropped")
              ELSE Goes(c, "sleeping")
    /\ UNCHANGED <<vars, clock, rate, stamp>>

enforce_billing(c) ==
    WakeUp(c) \/ CheckGone(c) \/ CheckSkips(c) \/ CheckCharges(c)

\* Time passes, whoever is waiting for the room.
Pass ==
    /\ clock' \in {t \in Times : t > clock}
    /\ LET passed == rate * (clock' - clock)
       IN  history' = IF anonymous_mode THEN history ELSE [d \in Conns |->
           [history[d] EXCEPT
               !.most = @ + IF d \in Present(participants) THEN passed ELSE 0,
               !.least = @ + IF d \in Joined(participants) THEN passed ELSE 0]]
    /\ UNCHANGED <<vars, rate, account, stamp, enforcer>>

BillingInit ==
    /\ Init
    /\ clock \in Times
    /\ \A t \in Times : clock <= t
    /\ rate = DefaultRate
    /\ account = [c \in Conns |-> NoAccount]
    /\ stamp = [c \in Conns |-> None]
    /\ enforcer = [c \in Conns |-> [at |-> "none", now |-> None]]
    /\ history = [c \in Conns |-> NewHistory]

BillingNext ==
    \/ Pass
    \/ \E c \in Conns :
           \/ LifecycleBilling(c) \/ ConfigBilling(c) \/ ContinueBilling(c)
           \/ Pay(c) \/ enforce_billing(c)
           \/ \E f \in Frames : \/ ReceiveBilling(c, f)
                                \/ SurchargeOverflows(c, f)
                                \/ ProveEscrow(c, f)

\* The runtime's timers fire and its mutex is fair: an enforcer that sleeps
\* wakes up, and one that waits for the room gets it.
BillingSpec ==
    /\ BillingInit /\ [][BillingNext]_allVars
    /\ \A c \in Conns : WF_allVars(enforce_billing(c))
-----------------------------------------------------------------------------
\* The account of c as a charge at this instant would leave it, in units of
\* a nano-XOR per Minute.
ChargeNow(c) ==
    Minute * account[c].billed + account[c].rem + rate * SatSub(clock, account[c].last)

\* A participant of a transparent room is charged for its time: at least what
\* the rates in force since it joined amount to (unless that no longer fits a
\* u64), at most those since it connected and the stretches charged again,
\* whatever ticks, payments and rate changes fell in between.  All of them
\* read the clock before they wait for the room.  So a rate change counts
\* from that reading; and a tick or a payment that waited while another one
\* charged moves the cursor back to its own reading, and everything since is
\* charged twice (main.rs:541, 1511, 2080).  The property is that nothing
\* else is ever charged, and that nothing is left out.
ChargedFairly ==
    ~anonymous_mode => \A c \in Joined(participants) :
        /\ account[c].billed < MaxNano => history[c].least <= ChargeNow(c)
        /\ ChargeNow(c) <= history[c].most

\* What a participant may owe before it is disconnected: what it has paid and
\* the grace at the rate now in force.
Allowance(c) == SatNano(account[c].paid + grace_nano)

\* Whom enforce_billing disconnects from a transparent room has been there so
\* long that the rates since it connected amount to more than it paid and the
\* grace, the stretches it was charged for again included: with those, it may
\* be disconnected before its time.  Whom it lets stay was, at the enforcer's
\* reading of the clock, behind by less than one nano-XOR, since its bill
\* counts whole ones only.  (At rate 0 nobody is disconnected.)
EnforcedFairly ==
    [][~anonymous_mode => \A c \in Joined(participants) :
         enforcer[c].at = "checking" =>
             /\ enforcer'[c].at \in {"told", "dropped"}
                => Minute * Allowance(c) < history[c].most
             /\ /\ enforcer'[c].at = "sleeping"
                /\ rate > 0
                /\ account'[c].billed < MaxNano
                => history[c].least
                   < Minute * (Allowance(c) + 1) + rate * Waited(enforcer[c].now)]_allVars

\* Behind with its payments by more than the grace; or, in an anonymous
\* room, nothing heard of it within the stale window: no proof, no AnonHello.
Defaulting(c) ==
    /\ c \in Present(participants)
    /\ IF anonymous_mode
       THEN /\ MaxStale > 0
            /\ account[c].last + MaxStale < clock
            /\ account[c].proof + MaxStale < clock
       ELSE PaymentOverdue(c, advance_billing(account[c], clock))

\* Nobody stays behind for good without having been sent Error and Close.
DefaultersTold ==
    \A c \in Conns : []<>(enforcer[c].at = "told" \/ ~Defaulting(c))
=============================================================================
