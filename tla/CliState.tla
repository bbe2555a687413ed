------------------------------ MODULE CliState ------------------------------
(***************************************************************************)
(* State of one `kaigi-cli room-chat` process: its arguments, its main     *)
(* task, the outbound channel with the tasks that hold a sender of it, the *)
(* writer and reader tasks, what the client knows of the room, and the     *)
(* ledger calls it makes.  Names, keys and payloads are left out; times    *)
(* are kept as what is left or has elapsed, never as a date.               *)
(***************************************************************************)
EXTENDS Integers, FiniteSets, Sequences

CONSTANTS
    Args,       \* the argument records a process may be started with
    MaxLife,    \* MAX_JOIN_LINK_EXPIRES_IN_SECS, in ticks
    MaxNonces,  \* MAX_JOIN_LINK_NONCE_CACHE_ENTRIES
    MaxAmount,  \* u64::MAX nano-XOR
    Capacity,   \* of the outbound channel (256, 512 in the conference)
    Minute,     \* 60_000 ms, in ticks
    Rates,      \* rates a RoomConfig may announce
    MaxEpoch,   \* bound on policy, key and group epochs
    MaxElapsed, \* bound on the ticks the payment loop may be late
    MaxOwed,    \* bound on what may be billed and not paid
    MaxLost,    \* bound on the transfers whose outcome is not learnt
    MaxUnbacked \* bound on what is declared without a transaction

None == "none"

VARIABLES
    args,       \* RoomChatArgs after the defaults, and the scenario
    pc,         \* where the main task is
    nonces,     \* SEEN_JOIN_LINK_NONCES
    outq,       \* the outbound channel
    senders,    \* tasks that hold a sender of it
    writer,     \* the writer task
    reader,     \* the reader task
    stream,     \* the QUIC stream, as the client finds it
    room,       \* what reader and commands share
    pay,        \* the payment loop
    media,      \* the media sender of the conference
    life,       \* outcome of each lifecycle call on the ledger
    ending,     \* end_requested
    hist        \* what the properties compare the state with

vars == <<args, pc, nonces, outq, senders, writer, reader, stream, room, pay,
          media, life, ending, hist>>

Tasks == {"main", "pay", "proof", "media", "ping"}

\* A join link, as parse_join_link_with_mode reads it.  form is none when there
\* is no link, left the time to the expiry if exp names one, and sig whether
\* the signature is that of the payload.
JoinLinks ==
    [form : {None, "ok", "bad"}, version : 1 .. 3, exp : BOOLEAN, left : Nat,
     nonce : {None, "bad", "hex"}, sig : {None, "bad", "wrong", "hex"},
     domain : BOOLEAN, call : BOOLEAN, privacy : {None, "transparent", "zk"},
     torii : BOOLEAN, pay_to : BOOLEAN]

\* The environment variables that may stand in for an argument.
EnvNames == {"torii", "pay_config", "pay_to", "life_config", "domain", "call",
             "privacy", "participant"}

\* The scenario: the kinds of commands this user ever types and of frames this
\* hub ever sends.
Commands == {"talk", "policy", "keys", "pay", "end", "typo", "mic", "video", "pause"}
Frames == {"rate", "host", "policy", "roster", "bad"}

\* RoomChatArgs: what is present, and the values the start depends on.  An
\* optional argument of a fixed format is absent, well formed or not.
Optional == {None, "ok", "bad"}
PayArgs ==
    [auto : BOOLEAN, no_auto : BOOLEAN, rate : Nat, config : BOOLEAN,
     to : BOOLEAN, from : BOOLEAN, unsettled : BOOLEAN]
AnonArgs ==
    [prepay : Nat, extra : Nat, minutes : Nat,
     interval : {"default", "off", "other"}, id : Optional, proof : Optional,
     unshield : BOOLEAN, details : {None, "partial", "ok", "bad"}]
LifeArgs ==
    [config : BOOLEAN, domain : BOOLEAN, call : BOOLEAN, participant : BOOLEAN,
     hex : Optional, alias : BOOLEAN, issued : BOOLEAN, usage : BOOLEAN,
     gas : BOOLEAN]
RoomChatArgs ==
    [typed : SUBSET Commands, heard : SUBSET Frames,
     legacy_ui : BOOLEAN, tui : BOOLEAN, env : SUBSET EnvNames,
     link : JoinLinks, route : BOOLEAN, torii : BOOLEAN, local : BOOLEAN,
     params : Optional, handle : Optional,
     privacy : {None, "transparent", "zk", "zk_roster_v1", "other"},
     pay : PayArgs, anon : AnonArgs, life : LifeArgs]

\* The three user interfaces: the conference serves both privacy modes.
Anonymous == args.privacy = "zk"
Conference == ~args.legacy_ui
Alive == pc \notin {"done", "failed"}

\* LocalSessionPolicyState::default, the host and rate atomics, the roster of
\* keys and the group key before anything arrives.
NewRoom(rate) ==
    [rate |-> rate, host |-> "unknown", policy_epoch |-> 0, e2ee_epoch |-> 0,
     profile_epoch |-> 0, key_epoch |-> 0, peers |-> {}, group_epoch |-> 0,
     group_key |-> None, mic |-> FALSE, camera |-> FALSE, share |-> FALSE,
     paused |-> FALSE]

NoPay == [at |-> "off", owed |-> 0, remainder |-> 0, elapsed |-> 0, delta |-> 0]
NoMedia == [at |-> "off", mic |-> FALSE, video |-> FALSE]
NoCalls == [join |-> "no", end |-> "no", leave |-> "no", usage |-> "no",
            prepay |-> "no", unshield |-> "no"]
\* surplus is all that was moved less all that was declared; lost was moved and
\* declared under no transaction, unbacked declared under none.
NoHistory == [drift |-> 0, retro |-> FALSE, surplus |-> 0, lost |-> 0,
              unbacked |-> 0, late |-> 0]

\* mpsc::Sender::send: waits for room, and fails once the receiver, the writer
\* task, is gone.
Ready == writer = "run" /\ Len(outq) < Capacity
Closed == writer \in {"done", "failed"}
Send(frame) == Ready /\ outq' = Append(outq, frame)

\* A frame that tells the hub, in the clear, who the participant is or what
\* it says or shows.
Clear == {"Hello", "MediaCapability", "State", "Track", "Video", "Audio", "Chat",
          "Control", "Policy", "Payment", "End"}
Sealed == {"AnonHello", "GroupKeyUpdate", "EscrowProof", "EncryptedControl",
           "AnonEncryptedPayload", "Ping"}
=============================================================================
