# TLA+ models of kaigi

kaigi is a meeting system: clients connect through a SoraNet relay to a hub,
which groups their connections into rooms, decides who may join and who may do
what, keeps the roster, keys and payments of each room, and relays frames.
This directory holds TLA+ models of the hub, of the wire codec with the hub's
connection tasks, of the native client's session and of the command line
client's `room-chat`; TLC runs that check them on small instances; and TLAPS
proofs, for every instance, of what the hub promises about rooms, roles and
modes, of its connection tasks' accounting, of the native client's session and
the contract it implements, and of the command line client's invariants.

    tlc -workers 2 -config HubRoles.cfg MCHubRoom      # one run
    tlapm HubRoles_proofs.tla                          # the proofs of a module

`PROJECT.json` lists the runs, what each definition models (file and lines),
one deliberate bug ("mutant") per property that the run must catch, the
findings, the hazards and the theorems.

## 1. Inventory

### Hub (`crates/kaigi-hub-echo`)

State, all under one `tokio::sync::Mutex`: a map from room id to `RoomState`
(participants by connection id, host and co-host bindings, the participant ids
those roles are reserved for, key epochs, device capabilities, session policy,
clocks of signed actions, counters, the anonymous-mode flag, the rate). Per
connection: a read loop that runs `handle_frame` to its end before the next
frame, a writer task behind a queue of 256 messages, and an `enforce_billing`
task on a timer.

| part | operations | correct when |
|---|---|---|
| joins and departures | `handle_conn`, `Hello`, `handle_disconnect` | ids unique, the door holds, nobody is left behind |
| anonymous mode | `AnonHello`, `GroupKeyUpdate`, `EncryptedControl`, `AnonEncryptedPayload` | modes never mix, sealed frames come from their sender, capacity holds |
| roles and moderation | `RoleGrant`, `RoleRevoke`, `SessionPolicy`, `RoomConfigUpdate`, `Moderation`, `ModerationSigned` | bindings follow reservations, power changes hands by the rules, replays are refused, the epoch moves |
| media and keys | `ParticipantState`, `MediaTrackState`, capabilities, profiles, segments, packets, `E2EEKeyEpoch`, `KeyRotationAck` | share limit, key before plaintext, HDR only with capture |
| billing | `enforce_billing`, `Payment`, `EscrowProof`, the rate | no time goes uncharged, nobody is charged beyond what old readings of the clock explain, defaulters are told |
| queues and fan-out | `send_frame_to`, `broadcast_frame`, the writer | a slow or departed client does no harm to the others |

What is hard here. A handler takes the lock several times: it tests the mode,
releases, takes the lock again to act, releases, and then writes to recipients
it has listed, looking each up again; every other connection may run between.
A denied connection is out of the room but still reads. An error anywhere in a
handler leaves `handle_conn` through `?`, past `handle_disconnect`. Rooms are
removed when empty and made anew with default state. Signed actions may be
replayed or reordered. Three tasks charge one account.

### Wire codec (`crates/kaigi-wire`)

The frame types and `FrameDecoder`: a buffer, `push`, `try_next` with a 4-byte
length, a limit of 2 MiB, and an error that is fatal to the connection.
Correct when the frames come out as they went in however the bytes are cut.

### Linux client (`crates/kaigi-linux-client`) and its siblings

`reduce` turns the session state and an event into a new state (phases
Disconnected, Connecting, Connected, Degraded, FallbackActive; participants,
presence sequence, policy and permission epochs, key epochs, settlement).
`SessionRuntime` adds the reconnect timer with backoff, background and
connectivity events, and fallback to the web client. The web, Android, Apple
and Windows clients implement the same reducer. Correct when events out of
order never undo newer state, a user's disconnect wins over timers, and the
session reconnects or falls back.

What is hard here. The transport is replaced while callbacks of the old one
are still under way; the operating system sends the process to the background
between any two of them; each of four handlers may arm or clear the one timer.

### Command line client (`crates/kaigi-cli`)

Join links with expiry and a nonce cache, the room-chat runtime in three
interfaces (conference, its terminal interface, the legacy room), the
anonymous variant with its group keys and escrow proofs, ledger calls through
subprocesses. State: the arguments, one bounded outbound channel with a sender
in each task, the room as the hub has told it, what is billed and paid, the
media controls, the lifecycle calls already made.

What is hard here. The writer ends when every task has dropped its sender, the
main task waits for the writer, and the ledger is told last. Transfers happen
before the frame that declares them. Media is produced from a copy of the
controls. A link is inspected first and consumed later.

### The rest

`kaigi-soranet-client` is a handshake without state afterwards; it appears as
steps of the command line client that succeed or fail.
`kaigi-platform-contract` is a table; the other subcommands of the command line
client build one request each; `scripts/` and `docs/*.json` validate release
documents. None of these is modelled.

How the parts interact: clients and hub exchange frames over the codec; within
the hub, connections meet only in the room's state and in each other's queues;
the billing task meets the handlers in the participant's account. A client's
tasks meet in its outbound channel and in its copy of the room.

## 2. Modules

    HubState       state of a room and of its connections, roles, clocks, tasks
      HubJoin        connect, Hello, departure                  handle_conn, handle_disconnect
      HubAnon        anonymous mode
      HubControl     mode gate, e2ee gate, relay and sends
        HubModeration  roles, policy, configuration, moderation
        HubMedia       media state, capabilities, key epochs
    HubRoom        the composition of the above, its properties, and
                   INSTANCE HubAuthority: who may moderate a transparent room
      HubBilling     HubRoom with accounts, rate, payments, timers
    HubRoom_proofs <- HubRoles_proofs <- HubRules_proofs <- HubBilling_proofs

    Wire           the frame codec on a buffer of bytes
      HubConn        read loop, writer, billing task and queue of each connection
    HubConn_proofs <- HubStream_proofs

    SessionState     what the native client knows, its configuration, its frames
      SessionReducer   reduce: frames and link events to a new state
        SessionRuntime   timer, background, connectivity, fallback, the driver
          Session          the specification, its properties, and
                           INSTANCE SessionContract: what reconnection promises
    Session_proofs

    CliState       arguments, channel, room, payments, media, ledger calls
      CliStart       links, arguments, dial, hello
        CliTasks       reader, writer, media sender, payment and proof loops
          CliCommands    what the user types, and the way out
            Cli            the specification and its properties
    Cli_proofs

    MCHubRoom, MCHubBilling, MCHubConn, MCSession, MCCli    instances for TLC

### The hub: HubRoom and HubBilling

**One room.** The hub's rooms share the lock and the connection counter and
nothing else, so one room is modelled. It exists while it has a participant;
`RemoveRoom` is the default state the next connection finds.

**Steps.** An action is one critical section. `task[c]` holds the frame that
connection c's handler works on and the stage it has reached: `hello` and
`e2ee` are the gates of plaintext frames, `verify` and `regate` those of
ModerationSigned, `apply` and `store` the deciding sections, `relay`,
`announce`, `notify` and `sending` what follows. A frame is answered to its
sender by `Reply`, which fails when the sender has been removed meanwhile
(`send_frame_to` says "participant missing") and then ends the connection's
task without cleanup (`ReturnErr`; the reader is "failed").

**Connections.** `reader[c]` is "none" before the connection, "running",
"closing" between the end of the stream and `handle_disconnect`, "leaving"
between the two sections of an anonymous departure, "done", or "failed".
`Connect` may insert connections in any order of their ids, as the id is drawn
before the lock is taken.

**Frames.** `Frame` is the set of all frames that reach a decision; formats,
lengths and signatures are not modelled, a frame that fails them is
`ReplyOnly`. Participant ids, handles and keys are model values. `Accounts`
are the ids with an `@`; the others are guests. A connection without Hello has
the id `conn-N`, here N, and clients may claim such ids.

**Where the code iterates a HashMap** for the first match (the target of a
role frame) the model chooses any match.

**Environment.** `TransportFaults` lets reads fail, `SlowClients` lets queues
be full (`BackpressureNotice`: a broadcast that finds one also writes to the
moderators, at most once in five seconds in the code, any number of times
here).

**Authority.** `HubAuthority` is what the hub promises about moderation in a
transparent room, without frames, tasks, waiting room or bindings: seats (the
participant id of each joined connection), the host, the id the role is
reserved for, the ids of co-hosts, and as a function of these the connections
that may moderate. A newcomer, a departure, a successor of an absent host, a
claim of a room without one, the host's own appointments and the end of the
room are its only moves. `KeepsAuthority` is the refinement: seats are read off
the joined participants (`Seats`), the moderators off the bindings the code
keeps by hand (`SeatedModerators`), and an anonymous room maps to an empty one.

**Billing.** `HubBilling` takes every step of `HubRoom` together with what the
same critical section does to the rate and to the accounts. Time runs in units
of which `Minute` make a minute; `Times` are the instants at which anything
happens. Payment (2080), RoomConfigUpdate (1511), enforce_billing (541) and
handle_conn itself (296) read the clock before they take the lock, and time may
pass before they get it: `stamp` and `enforcer[c].now` hold what they read, and
a connection opens its account as of a time that may have passed. Whoever comes
last moves the cursor to its own reading, backwards too, and the stretch it
moves back over is charged again. `history` is no state of the hub; for a
transparent room it sums up the rates since a participant joined (`least`), and
those since it connected together with the stretches charged again (`most`). A
change of the rate counts from the reading it charges up to.

### The hub's connections: Wire and HubConn

`Wire` is the decoder on sequences of digits: a header of `HeaderLen` digits
to a base, a limit, and every outcome of `try_next` (more bytes needed, a
frame, a fatal length). TLC runs it with two bits and a limit of two, so that
frames below, at and above the limit exist.

`HubConn` puts it behind the read loop of `handle_conn` and adds the writer,
the queue and the `enforce_billing` task of every connection. Everybody is
connected at the start; how they came there is HubRoom's. The frames are
representatives of what a handler can do to queues: a presence change
(numbered under the lock, sent after it), a kick and a denial (Error and Close
to another's queue, a removal), an empty frame (logged) and garbage (fatal to
the read loop).
Frames that accompany a delta are left out. The loop of `broadcast_frame` is
one step, since `try_send` never awaits; the notice to moderators is another,
and its rate limit is a free choice. The host role follows HubRoom's rules,
simplified to what decides who is told of dropped messages. `handled`, `got`
and `missed` record what was read, delivered and refused; the hub does not
have them.

### The native client: Session

`SessionReducer` has one operator per frame and event, `SessionRuntime` one
action per method. `reduce` is pure, so the model's step is the method with
all its calls of `reduce` inside. Times are kept as the ticks left until the
timer is due. The driver outside the crate is modelled from how the methods are
meant to be called: it dials when asked to, reports the link's opening and loss
(also of a link the session has given up), polls the timer, and reports
visibility and connectivity. Names and codecs are left out; a frame that lacks
a field, or its signature, is in the traffic. `SessionContract` is what
reconnection promises, in two variables: bounded retries, each after its timer,
a hang-up that lasts until the next start, the web as the last resort.
`KeepsContract` is the refinement; its mapping reads the abstract mode off the
runtime's flags and timer.

### The command line client: Cli

One process from its arguments to its end. `CliStart` has a step for each
stretch between two awaits (inspection of the link, arguments, parameters, the
consumption of the nonce, dial, hello), each of which may fail. `CliTasks` has
the tasks around the outbound channel of `Capacity` places, and `senders` the
set of tasks that still own a sender, on which the end of the writer depends.
`CliCommands` has the commands of the three interfaces and the way out of each.
The arguments say what the user types and what the hub is heard saying
(`typed`, `heard`), so that each command line explores one story. Times are
relative; `owed` is billed minus paid. The ledger is external: a call succeeds,
fails, or succeeds with its result lost. `hist` is no state of the process: it
compares ticks with bills, all that was transferred with all that was declared
(`surplus`), what of it went under no transaction (`lost` and `unbacked`), and
counts the packets sent after muting. Rendering, telemetry and the adaptive profiles are left out.

## 3. Runs

Deadlock is checked in `Session`, whose driver never stops. Elsewhere it is
not: clients may stop sending, a process ends, and connection ids run out.

| run | instance | shows |
|---|---|---|
| HubRoles | 3 connections, 2 ids (symmetric), grants, revocations, transfers | co-host bindings, a present host, who is the owner when that one has joined, types; the room implements `HubAuthority`; clocks, epochs and mode of a living room are never forgotten |
| HubWaiting | 3 connections, 3 ids, waiting room, admission and denial, a co-host that denies, counters to 2 | unique ids; reserved ids never wait; roles change only by the rules, and the permissions epoch moves with them, also when the host's heir only waits, is denied and goes on sending |
| HubMode | 3 connections, three handles for the two places of an anonymous room, reads that fail, an account and a guest, both kinds of hello, key updates, sealed frames, policies with a lock, without guests and with room for one | modes never mix, plaintext stays in transparent rooms, sound anonymous roster and relay, a closed door stays closed and a full room lets nobody join by a frame of its own |
| HubMedia | 2 connections, slow clients, keys, acknowledgements, capabilities, shares, a limit that rises to two and falls to one | key state belongs to joined participants; whoever starts to share, but by MediaTrackState, finds room |
| HubBilling | 2 connections, two instants three units apart (a minute has four), payments, proofs, rate changes, sections that wait | see below |
| Conn | 2 connections, queues of 2, a host that does not read, a participant that does not pay, kicks, denials, cut frames, garbage | frames survive any cut; every delta is delivered or counted as dropped; nobody slow holds up a handler; a queued Close is obeyed; who is written to after closing leaves |
| Session | 2 members, backoff of two retries, up to 2 requests, seven kinds of traffic | a wanted session always has a link or a timer, an unwanted one has no timer; connected means shaken hands; nothing rolls back; the contract is implemented; it gets through or moves to the web |
| Cli | 28 command lines, channel of 2, minutes of 3 ticks, 2 rates | fresh links only; ticks are billed once; all that is moved or declared is accounted for, and a payment loop with a ledger declares nothing it has not moved; anonymous users send nothing in the clear; muting takes hold; a quit process ends and has left the call |

**Bounds of the hub's runs.** `MaxConns` is the number of connections that ever
exist (an id is never used again), so 3 allows a reconnection beside a second
participant, or three participants at once. `MaxCounter` stands for
`u64::MAX`, small so that saturation is reached. Each run gives `Frames` the
slice of the protocol that its question is about; a joint slice of all frames
is out of reach.

**Billing.** `HubBilling` checks that a joined participant is charged at least
the rates in force since it joined (unless the amount outgrows a u64) and at
most those since it connected and the stretches charged again
(`ChargedFairly`); that whom `enforce_billing` throws out was charged more than
its payments and the grace, and whom it lets stay was not behind when the task
read the clock (`EnforcedFairly`); and that nobody stays behind with payments or
proofs for good without Error and Close (`DefaultersTold`). Every section may
wait for the room while time passes and others charge, so the double charge is
part of the run: without the term for it in `history`, TLC refutes the first
two. Two instants are enough for it (a payment read at the first, a tick
charged at the second, the payment, a tick), for a default beyond the grace,
for a stale proof, and for a remainder: at the default rate of 3, three units
cost two and a quarter. One assumption limits the run: queues with room
(`SlowClients = FALSE`; with TRUE, `DefaultersTold` fails, as the task ends
even when the Close did not fit).

**Conn.** Two places in a queue are fewer than the frames sent, so queues fill;
two frames of one script are cut and glued in every way; the kick or denial of
2 by 1 races 2's own frames, its Close and the biller's.

**Session.** With `Backoff = <<0, 1>>` a timer is due at once, later, or
exhausted. A second request shows what the first left behind. One session meets
one kind of traffic (link, policy, payment, roster, notices), since the kinds
touch different fields: they are explored side by side.

**Cli.** Three ticks to a minute and a rate of 2 leave a remainder after every
bill. A channel of two is filled by one packet and one reply. Two lost results
show that the first is not forgotten; four units declared under no transaction
are two payments of an unsettled loop, or four of `/pay`.

The type invariants `BillingTypeOK`, `ConnTypeOK` (of HubConn) and `CliTypeOK`
document the variables; they hold in these runs when added to the cfg, and are
not listed beside the properties that matter more. All three are proved
(`BillingTypeCorrect`, `ConnTypeCorrect`, `CliTypeCorrect`).

### Fairness

- HubBilling: each `enforce_billing` task. Tokio's timer fires and its mutex is
  first-come, first-served. Nothing is assumed of clients or handlers.
- HubConn: each task that can run, runs, and a client answers the hub's Close.
  The writer of a slow client is fair only in failing and ending: a client may
  refuse to read for ever.
- Session: the driver polls the timer, time passes, it dials when asked, and a
  dial ends one way or the other. No user, network or hub action is fair.
- Cli: the writer, the ends of reader and writer, the conference's messages of
  its state, the way out and the payment loop; the hub closes a stream its
  client has finished. No command, failure or frame is fair.

### Findings

Four runs state what a document says and TLC refutes it on the code's model:

- **HubEarlyMedia**: the end-to-end gate lets a participant that has not joined
  pass, expecting the next section to refuse it; if it is admitted between the
  two, its packet is relayed without a key.
- **ConnLeave**: `handle_conn` waits for the writer before `handle_disconnect`,
  and the room owns a sender of the writer's queue; when a client closes and
  nothing is sent to it any more, its participant stays. `LeavesOnceWritten`
  says what does hold: the next message ends it.
- **ConnPresence**: deltas are numbered under the lock and sent after it, so a
  client may receive 2 before 1 (and the native client then drops 1).
- **CliQuit**: the payment loop of the legacy room keeps a sender; when nothing
  is due, `/quit` waits for a writer that waits for the loop, and no leave is
  submitted. `QuitCompletes` says what does hold.

### Deviations that shaped the models

Met while modelling, kept as the code has them, without a run of their own.

Hub (`crates/kaigi-hub-echo/src/main.rs`): MediaTrackState ignores
`max_screen_shares` (1327; README.md:21), hence `ShareLimit` is about
ParticipantState. Admission ignores the capacity (2636; roadmap.md:43), hence
`ClosedDoor` holds only those to it who join by a frame of their own. A
handler that fails through `?` leaves its own participant behind (381). A kick's
or the biller's Close is lost on a full queue (2428, 614). A denial of a waiting
host hands the role on without moving `permissions_epoch` (hence the condition
in `JoinedHostChangeMovesEpoch`), and a waiting participant that inherits the
host role joins by a second Hello (`ClosedDoor` allows those who hold a
moderation role). The clock is read before the lock is taken (296, 541, 1511,
2080): a section that waited moves the cursor back, what was charged since is
charged again, and a participant may be disconnected that much too early
(`ChargedFairly` and `EnforcedFairly` allow exactly that much). RoomConfigUpdate
charges those who have not joined (1537).

Native client (`crates/kaigi-linux-client/src/lib.rs`): a connection request is
dropped in the background (1502, 1837), and `on_app_foregrounded` does not clear
that flag after a hang-up (1507), so that a later request is dropped in the
foreground (`Wanted` takes the flag at its word). A late handshakeAck or
mediaProfileNegotiation shows a session that policy rejected as Connected, even
with a payment due. A lost link reported after a manual disconnect shows
Degraded; a late `on_transport_connected` forgets that the user hung up, and
resets the attempts before any handshake. `FallbackRecovered` keeps
`activated_at`. An unknown settlement status counts as not required.
`presence_sequence` survives a reconnection, so the deltas of a room created
anew are dropped until they pass it. `SessionContract` and the properties allow
exactly these.

Command line client (`crates/kaigi-cli/src/main.rs`): the conference's End is
not reserved to the host (3566; README.md:191). A nonce is used up, and `join`
submitted to the ledger, before the payment arguments are checked: a refusal
there leaves no `leave`. `/pay` is declared all the same after a failed
transfer, and a loop without a ledger declares what nobody moved; both go
without a transaction (`unbacked`), which the hub credits unless it requires a
hash. The conference has no payment loop (README.md:459 says it pays by
default), and an anonymous one sends no escrow proof. A mistyped command, a
failed read of standard input or a writer's error leaves the legacy room past
the last ledger calls. A transfer whose result is lost is made again
(`PaymentsBacked` counts it as lost). A change of rate bills the running
interval at the new rate (`BillsAsMetered` excludes it). A sealed frame of a
newer epoch ends the conference's reader. The policy epoch goes back on a late
echo. The proof loop, like the payment loop, keeps a sender.

## 4. Proofs

All theorems hold for every value of the constants that satisfies the named
assumptions:

- `HubState`: at least one connection; `None` is no id, handle or key; claimed
  ids do not collide with connection ids; `Frames` any subset of `Frame`;
  positive limits.
- `HubBilling`: a minute is at least one unit of time, amounts have a limit, the
  default rate and the fee are within it and so is every rate a frame asks for
  (a u64 on the wire); the default rate is not 0 unless calls are free; the
  clock never shows 0.
- `Wire`: a base of at least two; a header can hold lengths above the limit; the
  frames' payloads are what lets a receiver tell them apart, so they differ and
  none is empty.
- `HubConn`: the connections are finitely many positive numbers (the counter of
  connection ids starts at one), each queue has a place; what clients send is
  made of frames, zero lengths and garbage.
- `SessionRuntime`: the backoff is a sequence of natural numbers, and a field of
  a raw frame that is not missing is what its reader returns (`IsRaw`: numbers
  of `get_i64` and `get_i32`, flags of `get_bool`, ids and the family of an
  error's code). Roles, actions, statuses and categories stay free, so that it
  is `decode_frame` that keeps unknown words out.
- `Cli`: the command lines are made of the fields the argument parser fills, a
  minute is at least one tick, a reader's rates are natural numbers.

- **HubRoom_proofs**, `TypeCorrect`: `Spec => []TypeOK`, action by action from
  lemmas on the fields of frames and on each helper's result.
- **HubRoles_proofs**, `RolesCorrect`: `Spec => []RoleInv`, and from it
  `CoHostsBound`, `HostsSound`, `IdsUnique`. `RoleInv`
  joins these properties with two facts: a connection that has not started
  is not in the room (so that a new connection disturbs nobody), and a
  transparent room has no anonymous participant (so that unique ids cover
  everybody whose id counts). The four need each other: that the owner is host
  after a grant rests on unique ids, that bindings survive a departure on the
  heir being present. Steps are split into `Quiet` ones, shown once to leave
  roster and roles alone, and the thirteen that do not, each with a lemma on its
  effect.
  `ModesCorrect`: `Spec => []ModeInv`, and from it `ModesStayApart` and
  `KeyedStateCorrect`. The mode is tested in one section and relied on in
  another, so `ModeInv` says what a handler in between may count on: a plaintext frame in the hands of a handler
  of an anonymous room belongs to somebody who has not joined
  (`StrandedPlaintext`), and once a handler has found its sender to have joined
  the room is transparent and the sender stays (`CommittedJoined`, `IdleTask`).
  The latter holds because a joined transparent participant keeps the room
  transparent and only its own read loop, idle between frames, lets it leave.
- **HubRules_proofs**: the other properties of `HubRoom`. `ReservedJoin` and
  `RosterSound` are inductive beside `RoleInv` and `ModeInv`; a roster within
  its capacity needs cardinalities of what a hello adds, a rekeying replaces and
  a departure removes. `SealedRelays` is tested in one section and relied on in
  the next, as modes are: the sender stays in the roster, because only its own
  read loop, busy with the frame, removes or rekeys it (`MemberKept`). The
  action properties (`SelfPromotionImpossible`, `LossAlwaysJustified`,
  `RoleChangesMoveEpoch`, `DoorCloses`, `RoomRemembers`, `SharesBounded`) follow
  from the invariants: each step that moves roles, roster or clocks is shown to
  do it in a permitted way, each other to be `Quiet`.
  `AuthorityKept`: `Spec => KeepsAuthority`, the refinement of `HubAuthority`.
  What the abstract room has as a rule, that powers follow from seats and
  reservations at every step, is `CoHostBinding` in the detailed one
  (`PowersKept`); that a seat is an id at all needs an invariant of its own,
  `Named` (`AllNamed`). Each step that moves the roster or the roles is then
  shown to be one abstract move: `DepartureKeepsAuthority` (a successor is
  found, or the room dissolves), `JoinKeepsAuthority` (the id is free, and the
  owner's return alone takes the role from another),
  `RoleFrameKeepsAuthority` (the sender is the joined host). All others stutter
  (`AuthorityStutters`).
- **HubConn_proofs**, `DeltasAccounted` and `DropsCounted`. `Typed` says what
  tasks and queues hold; `Departed` that a reader past its loop has seen its
  client close, and `Paused` that it has no job left, so that no delta is on
  its way from a handler that is over. With them `EveryDeltaAccounted` is
  inductive: a delta moves from a handler's targets to a queue, from the queue
  to the client or to the dropped, and never out of all of them. `DropsAddUp`
  equates sums over connections. The sums are folds, and that a fold over a
  finite set is what its elements add up to in any order is proved here from
  the well-foundedness of the natural numbers (a least counterexample among
  the sizes); `Uncounted` says that a job has counted nothing before it has
  tried to send.
  `CloseNeverLost` is the safety half of `CloseIsObeyed`: no step takes a
  queued Close away from a connection that stays open. `HandlersGoOn` is what
  `HandlersNeverStall` asks, in terms of guards: `Purposeful` says that a job
  with nothing to do is `Idle` and that one about to close connections has some
  to close, so that wherever a handler stands one of its steps is possible.
- **HubStream_proofs**, `StreamsIntact`, `HandledInOrder` and `ConnTypeCorrect`. The invariant
  says of each connection that its buffer followed by what the network holds is
  the `Stream` of the frames it has not handled, so that whatever prefix has
  arrived, `try_next` finds the header and the payload of the first of them or
  waits for more. It rests on three facts about data, each proved from a least
  counterexample, as induction is out of reach: a length is read back as it was
  written in digits of any base, header bytes are bytes, and a stream splits at
  its first and its last frame. `Weight` in `Wire` is the power of the base as
  a recursive function, since no installed prover knows exponentiation.
  `HandledInOrder` draws the conclusion for the read loop: what `handle_frame`
  gets is the next frame its client sent, and nothing but garbage ends the loop
  with an error.
- **HubBilling_proofs**, `ChargesFair`: `BillingSpec => []ChargedFairly`. Steps of
  the billed room are steps of `HubRoom` or touch accounts alone (`RoomSteps`),
  so `BilledRoomCorrect` carries `TypeOK`, `RoleInv` and `ModeInv` over,
  `BilledRoomSafe` the other invariants of the room, `BilledRoomKeepsRules` its
  action properties and `BilledRoomKeepsAuthority` the refinement.
  `ChargeIsExact` is the arithmetic of a charge up to a later time: whatever the
  remainder carried, bill and remainder grow by exactly the rate times the time
  charged, until the amount saturates. A section that waited charges up to a
  time that has passed (`StampsPast`, `PastStep`): `CursorMoves` says what
  moving the cursor to such a time, forwards or backwards, does to what a charge
  at this instant would come to, and `ChargeMade` and `ChargeMadeAgain` that this
  is the charge made and the stretch charged again, and nothing else.
  `ChargeInv` extends `ChargedFairly` to those who have not joined, who owe
  nothing of what is due since joining, and says that no cursor is ahead of the
  clock, without which time would pass uncharged. It needs that who has joined
  stays joined while present, that an anonymous room turns transparent only by
  emptying (`PresenceSteps`), and that a handler that has read the clock comes
  straight from the gate (`MeteredTask`). `TicksFair`: `BillingSpec =>
  EnforcedFairly` compares the bill at the end of a tick, on which the task
  decides, with the bounds of `ChargeInv`, up to the remainder of a minute and
  the time the task has waited. Nothing is assumed of how long anybody waits.
- **Session_proofs**, `SessionCorrect`: `Spec => []SessionInv`, and from it
  `QuietProved`, `ShakenProved`, `TetheredProved`. `SessionInv` is
  `GoodRuntime` (retries within the backoff, no timer of an unwanted session,
  connected only after a handshake, the fallback's phase only on the web) and
  `Tethered`. `NeverStranded` is not inductive: the way to the foreground leaves
  a session alone that still looks connected or connecting, so such a session
  needs its link, request or timer in the background already, where it is not
  wanted, and this is what `Tethered` adds. `ContractKept` is the refinement:
  every method is shown once to make a `SoundStep`, which includes
  `ContractStep`, the contract's step or a stuttering one read off the runtime
  before and after; the theorem then follows for `Next`.
  `NothingRollsBackProved`: `Spec => NothingRollsBack`. Link events and methods
  are shown to leave alone everything the property looks at (`Remembers`), frames
  to move it `Forward` only, one lemma per kind; the acknowledgement that `on_frame` applies to its
  own state after a key epoch is a second step within one action (`AckAfter`).
  The invariant adds to `SessionInv` the types of the state (`KnownTypes`),
  without which nothing can be compared; what `decode_frame` makes of a raw frame
  has the types the reducer relies on (`DecodedTypes`). `SessionTypeCorrect`:
  `Spec => []SessionTypeOK` puts the two together.
- **Cli_proofs**, `CliCorrect`: `Spec => []CliInv`, and from it
  `CliStaysSealed`, `CliDialsFreshLinks`, `CliBillsAsMetered`,
  `CliPaymentsBacked`, `CliMutedSoon`, `CliLeft`, `CliTypeCorrect`. `Staged`
  says what the main task has not started yet and what only a transparent
  process reaches, so that no task of a transparent process runs beside an
  anonymous one; `Metered` that billing starts from nothing; `Muted` that the
  next look at the controls finds the microphone off once a late packet is out;
  `Left` that the calls are made before the process reports its usage.
  `PaymentsBacked` is inductive beside them: the loop's transfer puts what it
  moved in hand, its declaration takes that out, and `Settle` weighs what /pay
  moves against what it declares (`CommandRoom`).

Only model-checked, as ENABLED and fairness are out of the prover's reach:
`HandlersNeverStall` and liveness (`DefaultersTold`, `CloseIsObeyed`,
`LeavesOnceWritten`, `GetsThrough`, `QuitCompletes`, `ConferenceLeaves`).

Of `HandlersNeverStall` and `CloseIsObeyed` the parts without ENABLED and fairness
are proved (`HandlersGoOn`, `CloseNeverLost`).

## 5. Not modelled

Display names, texts, telemetry, logging and rendering; signatures, formats and
the encoding of payloads; wall clocks that step back; more than one room; the
contents of the native client's handshake frames and its ConfigUpdated event
(the runtime never sends it); the GTK shell; the adaptive media profiles of the
command line client (they decide only how often media is due) and its other
subcommands; certificates and the noise handshake of the SoraNet client; the
platform contract; the web, Android, Apple and Windows clients, which repeat
the reducer in other languages; the release scripts.

The hub and its clients are not composed: a client meets any traffic its runs
list, whatever hub sent it, and the hub any frames.

## 6. Plan

1. The other clients, where their reducers differ from the native one.
2. A client composed with the hub, so that a client's traffic is what a hub
   really sends.
