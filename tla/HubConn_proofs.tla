--------------------------- MODULE HubConn_proofs ---------------------------
(***************************************************************************)
(* Proofs about the tasks of a connection: for any number of connections,  *)
(* any capacity of their queues and any frames of the clients, no presence *)
(* delta is lost without a trace, no drop goes uncounted, a queued Close   *)
(* is not lost, and a handler can always go on.                            *)
(***************************************************************************)
EXTENDS HubConn, FiniteSetTheorems, WellFoundedInduction, TLAPS

(***************************************************************************)
(* Sequences of messages.                                                  *)
(***************************************************************************)
\* What an Append adds, ...
LEMMA AppendElements ==
    ASSUME NEW S, NEW s \in Seq(S), NEW x \in S
    PROVE  /\ Append(s, x) \in Seq(S) /\ Len(Append(s, x)) = Len(s) + 1
           /\ Elements(Append(s, x)) = Elements(s) \cup {x}
<1>1. /\ Append(s, x) \in Seq(S) /\ Len(Append(s, x)) = Len(s) + 1
      /\ \A i \in 1 .. Len(s) : Append(s, x)[i] = s[i]
      /\ Append(s, x)[Len(s) + 1] = x
  OBVIOUS
<1>2. Len(s) \in Nat
  OBVIOUS
<1>3. 1 .. Len(s) + 1 = (1 .. Len(s)) \cup {Len(s) + 1}
  BY <1>2
<1> QED BY <1>1, <1>3 DEF Elements

\* ... what a Tail leaves, ...
LEMMA TailElements ==
    ASSUME NEW S, NEW s \in Seq(S), s # <<>>
    PROVE  /\ Head(s) \in S /\ Tail(s) \in Seq(S) /\ Len(Tail(s)) < Len(s)
           /\ Elements(s) = {Head(s)} \cup Elements(Tail(s))
<1>1. /\ Head(s) \in S /\ Tail(s) \in Seq(S) /\ Len(Tail(s)) = Len(s) - 1
      /\ Head(s) = s[1] /\ Len(s) \in Nat \ {0}
      /\ \A i \in 1 .. Len(s) - 1 : Tail(s)[i] = s[i + 1]
  OBVIOUS
<1>2. \A i \in 2 .. Len(s) : i - 1 \in 1 .. Len(s) - 1 /\ s[i] = Tail(s)[i - 1]
  <2> TAKE i \in 2 .. Len(s)
  <2>1. i - 1 \in 1 .. Len(s) - 1 /\ (i - 1) + 1 = i
    BY <1>1
  <2> QED BY <1>1, <2>1
<1>3. \A i \in 1 .. Len(s) : i = 1 \/ i \in 2 .. Len(s)
  BY <1>1
<1>4. \A i \in 1 .. Len(s) - 1 : i + 1 \in 1 .. Len(s)
  BY <1>1
<1>5. 1 \in 1 .. Len(s)
  BY <1>1
<1>6. ASSUME NEW x \in Elements(s) PROVE x \in {Head(s)} \cup Elements(Tail(s))
  <2>1. PICK i \in 1 .. Len(s) : x = s[i]
    BY <1>6 DEF Elements
  <2> QED BY <1>1, <1>2, <1>3, <2>1 DEF Elements
<1>7. ASSUME NEW x \in Elements(Tail(s)) PROVE x \in Elements(s)
  <2>1. PICK i \in 1 .. Len(s) - 1 : x = Tail(s)[i]
    BY <1>1, <1>7 DEF Elements
  <2> QED BY <1>1, <1>4, <2>1 DEF Elements
<1>8. Head(s) \in Elements(s)
  BY <1>1, <1>5 DEF Elements
<1> QED BY <1>1, <1>6, <1>7, <1>8

\* ... and what two sequences hold together.
LEMMA ConcatElements ==
    ASSUME NEW S, NEW s \in Seq(S), NEW t \in Seq(S)
    PROVE  Elements(s \o t) = Elements(s) \cup Elements(t)
<1>1. /\ Len(s \o t) = Len(s) + Len(t) /\ Len(s) \in Nat /\ Len(t) \in Nat
      /\ \A i \in 1 .. Len(s) : (s \o t)[i] = s[i]
      /\ \A i \in 1 .. Len(t) : (s \o t)[Len(s) + i] = t[i]
  OBVIOUS
<1>2. ASSUME NEW x \in Elements(s \o t) PROVE x \in Elements(s) \cup Elements(t)
  <2>1. PICK i \in 1 .. Len(s) + Len(t) : x = (s \o t)[i]
    BY <1>1, <1>2 DEF Elements
  <2>2. CASE i \in 1 .. Len(s)
    BY <1>1, <2>1, <2>2 DEF Elements
  <2>3. CASE i \notin 1 .. Len(s)
    <3>1. i - Len(s) \in 1 .. Len(t) /\ Len(s) + (i - Len(s)) = i
      BY <1>1, <2>3
    <3> QED BY <1>1, <2>1, <3>1 DEF Elements
  <2> QED BY <2>2, <2>3
<1>3. ASSUME NEW x \in Elements(s) PROVE x \in Elements(s \o t)
  <2>1. PICK i \in 1 .. Len(s) : x = s[i]
    BY <1>3 DEF Elements
  <2>2. i \in 1 .. Len(s) + Len(t)
    BY <1>1
  <2> QED BY <1>1, <2>1, <2>2 DEF Elements
<1>4. ASSUME NEW x \in Elements(t) PROVE x \in Elements(s \o t)
  <2>1. PICK i \in 1 .. Len(t) : x = t[i]
    BY <1>4 DEF Elements
  <2>2. Len(s) + i \in 1 .. Len(s) + Len(t)
    BY <1>1
  <2> QED BY <1>1, <2>1, <2>2 DEF Elements
<1> QED BY <1>2, <1>3, <1>4
-----------------------------------------------------------------------------
(***************************************************************************)
(* Types, those of the histories included.  That no more is handled than   *)
(* was sent, which ConnTypeOK says as well, rests on the codec.            *)
(***************************************************************************)
RoomTyped ==
    /\ participants \subseteq Conns /\ waiting \subseteq participants
    /\ host_conn_id \in Conns \cup {0}
    /\ presence_sequence \in Nat /\ backpressure_dropped_messages \in Nat

TasksTyped ==
    /\ reader \in [Conns -> {"reading", "await", "leaving", "gone", "failed"}]
    /\ job \in [Conns -> Jobs]
    /\ writer \in [Conns -> {"running", "ended"}]

QueuesTyped ==
    /\ queue \in [Conns -> Seq(Messages)]
    /\ \A c \in Conns : Len(queue[c]) <= QueueCap
    /\ missed \in [Conns -> Seq(Messages)]
    /\ got \in [Conns -> Seq(Nat)]
    /\ link \in [Conns -> {"open", "client closed", "hub closed"}]

Typed == RoomTyped /\ TasksTyped /\ QueuesTyped

LEMMA MessageTypes ==
    /\ Error \in Messages /\ Close \in Messages /\ Audit \in Messages
    /\ \A n \in Nat : Delta(n) \in Messages
    /\ \A m \in Messages : m.kind = "delta" => m.n \in Nat /\ m = Delta(m.n)
    /\ \A n : Delta(n) # Error /\ Delta(n) # Close /\ Delta(n) # Audit
    /\ \A m, n : Delta(m) = Delta(n) => m = n
<1>1. /\ Error \in Messages /\ Close \in Messages /\ Audit \in Messages
      /\ \A n \in Nat : Delta(n) \in Messages
  BY DEF Error, Close, Audit, Delta, Messages
<1>2. ASSUME NEW m \in Messages, m.kind = "delta"
      PROVE  m.n \in Nat /\ m = Delta(m.n)
  BY <1>2 DEF Messages, Delta
<1>3. \A n : Delta(n).kind = "delta" /\ Delta(n).n = n
  BY DEF Delta
<1>4. Error.kind # "delta" /\ Close.kind # "delta" /\ Audit.kind # "delta"
  BY DEF Error, Close, Audit
<1> QED BY <1>1, <1>2, <1>3, <1>4

\* The fields of a job.
LEMMA JobFields ==
    ASSUME NEW j \in Jobs
    PROVE  /\ j.stage \in {"idle", "fan", "send", "count", "notify", "tell", "shut"}
           /\ j.msg \in Messages /\ j.to \subseteq Conns /\ j.missed \in Nat
           /\ j.shut \subseteq Conns
BY DEF Jobs

\* A job that goes on to another stage, senders and number of drops.
LEMMA JobMoves ==
    ASSUME NEW j \in Jobs, NEW to \in SUBSET Conns, NEW n \in Nat,
           NEW s \in {"idle", "fan", "send", "count", "notify", "tell", "shut"}
    PROVE  /\ [j EXCEPT !.stage = s, !.to = to, !.missed = n] \in Jobs
           /\ [j EXCEPT !.stage = s, !.to = to] \in Jobs
           /\ [j EXCEPT !.to = to, !.missed = n] \in Jobs
           /\ [j EXCEPT !.stage = s] \in Jobs
BY DEF Jobs

LEMMA JobStarts ==
    /\ Idle \in Jobs /\ Idle.stage = "idle" /\ Idle.msg = Error
    /\ Idle.missed = 0
    /\ \A m \in Messages, S \in SUBSET Conns :
           /\ Fanout(m, S) \in Jobs /\ Fanout(m, S).stage = "fan"
           /\ Fanout(m, S).msg = m /\ Fanout(m, S).missed = 0
           /\ Fanout(m, S) # Idle
<1>1. /\ Idle \in Jobs /\ Idle.stage = "idle" /\ Idle.msg = Error
      /\ Idle.missed = 0
  BY MessageTypes DEF Idle, Jobs
<1>2. ASSUME NEW m \in Messages, NEW S \in SUBSET Conns
      PROVE  /\ Fanout(m, S) \in Jobs /\ Fanout(m, S).stage = "fan"
             /\ Fanout(m, S).msg = m /\ Fanout(m, S).missed = 0
  BY DEF Fanout, Jobs
<1> QED BY <1>1, <1>2

\* A job whose broadcast is over sends nothing to the room.
LEMMA JobEnds ==
    ASSUME Typed, NEW c \in Conns
    PROVE  /\ Ended(c) \in Jobs
           /\ Ended(c).stage \in {"idle", "tell"} /\ Ended(c).missed = 0
<1>1. job[c] \in Jobs
  BY DEF Typed, TasksTyped
<1>2. CASE job[c].shut # {}
  <2>1. Ended(c) = [job[c] EXCEPT !.stage = "tell", !.to = {}, !.missed = 0]
    BY <1>2 DEF Ended
  <2>2. {} \in SUBSET Conns /\ 0 \in Nat
    OBVIOUS
  <2>3. [job[c] EXCEPT !.stage = "tell", !.to = {}, !.missed = 0] \in Jobs
    BY <1>1, <2>2, JobMoves
  <2>4. Ended(c).stage = "tell" /\ Ended(c).missed = 0
    BY <1>1, <2>1 DEF Jobs
  <2> QED BY <2>1, <2>3, <2>4
<1>3. CASE job[c].shut = {}
  <2>1. Ended(c) = Idle
    BY <1>3 DEF Ended
  <2> QED BY <2>1, JobStarts
<1> QED BY <1>2, <1>3

\* The oldest connection is one of them.
LEMMA OldestType ==
    ASSUME NEW S \in SUBSET Conns
    PROVE  Oldest(S) \in Conns \cup {0}
<1> SUFFICES ASSUME S # {} PROVE Oldest(S) \in S
  BY DEF Oldest
<1> DEFINE R == OpToRel(<, Nat)
<1>1. IsWellFoundedOn(R, Nat)
  BY NatLessThanWellFounded, Zenon
<1>2. \A m, n \in Nat : m < n => <<m, n>> \in R
  BY DEF OpToRel
<1> HIDE DEF R
<1>3. S \subseteq Nat
  BY ConnAssumption
<1>4. PICK x \in S : \A y \in S : ~ (<<y, x>> \in R)
  BY <1>1, <1>3, WFMin, Zenon
<1>5. \A y \in S : x <= y
  <2> SUFFICES ASSUME NEW y \in S, ~(x <= y) PROVE FALSE
    OBVIOUS
  <2>1. x \in Nat /\ y \in Nat /\ y < x
    BY <1>3
  <2> QED BY <1>2, <1>4, <2>1
<1> QED BY <1>5 DEF Oldest

\* What a sender adds to a queue, which never outgrows its places.
LEMMA TrySendType ==
    ASSUME Typed, NEW c \in Conns, NEW m \in Messages, try_send(c, m)
    PROVE  /\ queue' \in [Conns -> Seq(Messages)]
           /\ \A d \in Conns : /\ Len(queue'[d]) <= QueueCap
                               /\ Elements(queue[d]) \subseteq Elements(queue'[d])
<1>1. /\ queue \in [Conns -> Seq(Messages)] /\ QueueCap \in Nat
      /\ \A d \in Conns : Len(queue[d]) <= QueueCap
  BY ConnAssumption DEF Typed, QueuesTyped
<1>2. CASE Accepts(c)
  <2>1. queue' = [queue EXCEPT ![c] = Append(queue[c], m)]
    BY <1>2 DEF try_send
  <2>2. /\ Append(queue[c], m) \in Seq(Messages)
        /\ Len(Append(queue[c], m)) = Len(queue[c]) + 1
        /\ Elements(queue[c]) \subseteq Elements(Append(queue[c], m))
    BY <1>1, AppendElements
  <2>3. Len(queue[c]) < QueueCap /\ Len(queue[c]) \in Nat
    BY <1>1, <1>2 DEF Accepts
  <2>4. Len(queue[c]) + 1 <= QueueCap
    BY <1>1, <2>3
  <2> QED BY <1>1, <2>1, <2>2, <2>4
<1>3. CASE ~Accepts(c)
  BY <1>1, <1>3 DEF try_send
<1> QED BY <1>2, <1>3
-----------------------------------------------------------------------------
(***************************************************************************)
(* Every step keeps the types.                                             *)
(***************************************************************************)
\* The steps that leave the room as it is.
LEMMA RoomUntouched ==
    ASSUME NEW c \in Conns,
           \/ HandlerStep(c) /\ ~Count(c)
           \/ WriterStep(c) \/ BillerStep(c) \/ Overdue(c)
           \/ ClientCloses(c) \/ ClientSends(c)
           \/ Receive(c) \/ DecodeFails(c) \/ ReadClose(c) \/ HandleZero(c)
           \/ \E d \in Conns : HandleKick(c, d)
    PROVE  UNCHANGED roomVars
<1>1. ASSUME \E d \in Conns : HandleKick(c, d) PROVE UNCHANGED roomVars
  BY <1>1 DEF HandleKick
<1>2. ASSUME HandlerStep(c), ~Count(c) PROVE UNCHANGED roomVars
  BY <1>2 DEF HandlerStep, Collect, FanDone, Notify, Tell, Shut, Fan
<1>3. ASSUME WriterStep(c) \/ BillerStep(c) \/ Overdue(c) PROVE UNCHANGED roomVars
  BY <1>3 DEF WriterStep, Write, WriteFails, WriterEnds, BillerStep,
         BillerCloses, BillerEnds, Overdue
<1>4. ASSUME \/ ClientCloses(c) \/ ClientSends(c) \/ Receive(c)
             \/ DecodeFails(c) \/ ReadClose(c) \/ HandleZero(c)
      PROVE  UNCHANGED roomVars
  BY <1>4 DEF ClientCloses, ClientSends, Receive, DecodeFails, ReadClose,
         HandleZero
<1> QED BY <1>1, <1>2, <1>3, <1>4

\* The connections of a step, by what it does to the room.
LEMMA RoomSteps ==
    ASSUME Next
    PROVE  \E c \in Conns :
               \/ UNCHANGED roomVars \/ Count(c) \/ HandlePresence(c)
               \/ handle_disconnect(c) \/ \E d \in Conns : HandleDeny(c, d)
<1>1. PICK c \in Conns : \/ ConnStep(c) \/ WriterStep(c) \/ BillerStep(c)
                         \/ Overdue(c) \/ ClientCloses(c) \/ ClientSends(c)
  BY DEF Next
<1>2. CASE ConnStep(c)
  <2>1. CASE HandlerStep(c)
    BY <2>1, RoomUntouched
  <2>2. CASE ReaderStep(c)
    BY <2>2, RoomUntouched DEF ReaderStep
  <2> QED BY <1>2, <2>1, <2>2 DEF ConnStep
<1>3. CASE ~ConnStep(c)
  BY <1>1, <1>3, RoomUntouched
<1> QED BY <1>2, <1>3

\* The participants and the sequence of a room.
LEMMA RoomNext ==
    ASSUME Typed, Next
    PROVE  /\ RoomTyped' /\ participants' \subseteq participants
           /\ presence_sequence' \in {presence_sequence, presence_sequence + 1}
<1>1. PICK c \in Conns :
          \/ UNCHANGED roomVars \/ Count(c) \/ HandlePresence(c)
          \/ handle_disconnect(c) \/ \E d \in Conns : HandleDeny(c, d)
  BY RoomSteps
<1> USE DEF Typed, RoomTyped
<1>2. CASE UNCHANGED roomVars
  BY <1>2 DEF roomVars
<1>3. CASE Count(c)
  <2>1. job[c].missed \in Nat
    BY JobFields DEF TasksTyped
  <2>2. Tally(c) \in Nat
    BY <2>1 DEF Tally
  <2> QED BY <1>3, <2>2 DEF Count
<1>4. CASE HandlePresence(c)
  BY <1>4 DEF HandlePresence
<1>5. CASE handle_disconnect(c)
  <2>1. Oldest(participants') \in Conns \cup {0}
    BY <1>5, OldestType DEF handle_disconnect
  <2> QED BY <1>5, <2>1 DEF handle_disconnect
<1>6. CASE \E d \in Conns : HandleDeny(c, d)
  <2>1. PICK d \in Conns : HandleDeny(c, d)
    BY <1>6
  <2>2. Oldest(participants \ {d}) \in Conns \cup {0}
    BY OldestType
  <2> QED BY <2>1, <2>2 DEF HandleDeny
<1> QED BY <1>1, <1>2, <1>3, <1>4, <1>5, <1>6
-----------------------------------------------------------------------------
\* The steps that broadcast nothing.
NoBroadcast ==
    UNCHANGED <<job, missed, presence_sequence, backpressure_dropped_messages>>

LEMMA JobUntouched ==
    ASSUME NEW c \in Conns,
           \/ WriterStep(c) \/ BillerStep(c) \/ Overdue(c)
           \/ ClientCloses(c) \/ ClientSends(c)
           \/ Receive(c) \/ DecodeFails(c) \/ ReadClose(c) \/ HandleZero(c)
    PROVE  NoBroadcast
<1>1. ASSUME WriterStep(c) \/ BillerStep(c) \/ Overdue(c)
      PROVE  UNCHANGED <<job, missed>>
  BY <1>1 DEF WriterStep, Write, WriteFails, WriterEnds, BillerStep,
         BillerCloses, BillerEnds, Overdue, taskVars
<1>2. ASSUME \/ ClientCloses(c) \/ ClientSends(c) \/ Receive(c)
             \/ DecodeFails(c) \/ ReadClose(c)
      PROVE  UNCHANGED <<job, missed>>
  BY <1>2 DEF ClientCloses, ClientSends, Receive, DecodeFails, ReadClose,
         taskVars
<1>3. ASSUME HandleZero(c) PROVE UNCHANGED <<job, missed>>
  BY <1>3 DEF HandleZero, NextFrame
<1>4. UNCHANGED roomVars
  BY RoomUntouched
<1> QED BY <1>1, <1>2, <1>3, <1>4 DEF NoBroadcast, roomVars

\* A handler that has read a frame, or the end of its connection.
Starts(c) ==
    \/ HandlePresence(c) \/ handle_disconnect(c)
    \/ \E d \in Conns : HandleKick(c, d) \/ HandleDeny(c, d)

\* The connections of a step, by what it does to the broadcasts.
LEMMA JobSteps ==
    ASSUME Next
    PROVE  \E c \in Conns :
               NoBroadcast \/ HandlerStep(c) \/ Starts(c)
<1>1. PICK c \in Conns : \/ ConnStep(c) \/ WriterStep(c) \/ BillerStep(c)
                         \/ Overdue(c) \/ ClientCloses(c) \/ ClientSends(c)
  BY DEF Next
<1>2. CASE ConnStep(c)
  BY <1>2, JobUntouched DEF ConnStep, ReaderStep, Starts
<1>3. CASE ~ConnStep(c)
  BY <1>1, <1>3, JobUntouched
<1> QED BY <1>2, <1>3

\* A step that writes a job of c.
LEMMA StartType ==
    ASSUME Typed, NEW c \in Conns, NEW j \in Jobs, Start(c, j)
    PROVE  /\ job' \in [Conns -> Jobs] /\ job'[c] = j
           /\ \A d \in Conns \ {c} : job'[d] = job[d]
BY DEF Typed, TasksTyped, Start

LEMMA FinishEffect ==
    ASSUME Typed, NEW c \in Conns, Finish(c)
    PROVE  /\ job' \in [Conns -> Jobs] /\ job'[c] = Ended(c)
           /\ \A d \in Conns \ {c} : job'[d] = job[d]
BY StartType, JobEnds DEF Finish

\* What a handler makes of the rest of its job.
LEMMA HandlerJob ==
    ASSUME Typed, NEW c \in Conns, HandlerStep(c)
    PROVE  /\ job' \in [Conns -> Jobs] /\ job[c] # Idle
           /\ \A d \in Conns \ {c} : job'[d] = job[d]
           /\ ~Collect(c) /\ ~Fan(c) =>
                  /\ \/ job[c].stage = "send" /\ job[c].to = {}
                     \/ job[c].stage \in {"notify", "tell", "shut"}
                  /\ job'[c].stage \in {"idle", "notify", "tell", "shut"}
<1>1. job[c] \in Jobs
  BY DEF Typed, TasksTyped
<1>2. Idle.stage = "idle" /\ Idle \in Jobs
  BY JobStarts
<1>3. CASE Collect(c)
  <2>1. CASE Finish(c)
    BY <1>2, <1>3, <2>1, FinishEffect DEF Collect
  <2>2. CASE ~Finish(c)
    <3>1. participants \in SUBSET Conns
      BY DEF Typed, RoomTyped
    <3>2. [job[c] EXCEPT !.stage = "send", !.to = participants] \in Jobs
      BY <1>1, <3>1, JobMoves
    <3>3. Start(c, [job[c] EXCEPT !.stage = "send", !.to = participants])
      BY <1>3, <2>2 DEF Collect, Recipients
    <3> QED BY <1>2, <1>3, <3>2, <3>3, StartType DEF Collect
  <2> QED BY <2>1, <2>2
<1>4. CASE Fan(c)
  <2> DEFINE refusing == {d \in job[c].to : ~Accepts(d)}
  <2>1. refusing \subseteq Conns
    BY <1>1, JobFields
  <2>2. Cardinality(refusing) \in Nat
    BY <2>1, ConnAssumption, FS_Subset, FS_CardinalityType
  <2>3. Start(c, [job[c] EXCEPT !.to = {}, !.missed = Cardinality(refusing)])
    BY <1>4 DEF Fan
  <2> HIDE DEF refusing
  <2>4. {} \in SUBSET Conns
    OBVIOUS
  <2>5. [job[c] EXCEPT !.to = {}, !.missed = Cardinality(refusing)] \in Jobs
    BY <1>1, <2>2, <2>4, JobMoves
  <2> QED BY <1>2, <1>4, <2>3, <2>5, StartType DEF Fan
<1>5. CASE FanDone(c)
  BY <1>2, <1>5, FinishEffect, JobEnds DEF FanDone
<1>6. CASE Count(c)
  <2>1. CASE Finish(c)
    BY <1>2, <1>6, <2>1, FinishEffect, JobEnds DEF Count
  <2>2. CASE ~Finish(c)
    <3>1. {host_conn_id} \ {0} \in SUBSET Conns /\ 0 \in Nat
      BY DEF Typed, RoomTyped
    <3> DEFINE j == [job[c] EXCEPT !.stage = "notify",
                                   !.to = {host_conn_id} \ {0}, !.missed = 0]
    <3>2. j \in Jobs
      BY <1>1, <3>1, JobMoves
    <3>3. j.stage = "notify"
      BY <1>1 DEF Jobs
    <3>4. Start(c, j)
      BY <1>6, <2>2 DEF Count
    <3> HIDE DEF j
    <3> QED BY <1>2, <1>6, <3>2, <3>3, <3>4, StartType DEF Count
  <2> QED BY <2>1, <2>2
<1>7. CASE Notify(c)
  <2>1. CASE Finish(c)
    BY <1>2, <1>7, <2>1, FinishEffect, JobEnds DEF Notify
  <2>2. CASE ~Finish(c)
    BY <1>2, <1>7, <2>2, StartType DEF Notify
  <2> QED BY <2>1, <2>2
<1>8. CASE Tell(c)
  <2>1. [job[c] EXCEPT !.stage = "shut"] \in Jobs
    BY <1>1, JobMoves
  <2>2. [job[c] EXCEPT !.stage = "shut"].stage = "shut"
    BY <1>1 DEF Jobs
  <2>3. Start(c, [job[c] EXCEPT !.stage = "shut"]) /\ job[c].stage = "tell"
    BY <1>8 DEF Tell
  <2> QED BY <1>2, <1>8, <2>1, <2>2, <2>3, StartType
<1>9. CASE Shut(c)
  BY <1>2, <1>9, StartType DEF Shut
<1> QED BY <1>3, <1>4, <1>5, <1>6, <1>7, <1>8, <1>9 DEF HandlerStep
-----------------------------------------------------------------------------
(***************************************************************************)
(* Where the read loops stand.  A handle_conn that has left its loop did   *)
(* so because its client had closed, and had nothing left to send.         *)
(***************************************************************************)
LeftLoop == {"await", "leaving", "gone"}

Departed == \A c \in Conns : reader[c] \in LeftLoop => link[c] = "client closed"

Paused == \A c \in Conns : reader[c] = "await" => job[c] = Idle

\* Handlers that wait for something to read leave their read loop alone.
LEMMA StartsEffect ==
    ASSUME Typed, Paused, NEW c \in Conns, Starts(c)
    PROVE  /\ job[c] = Idle
           /\ \/ UNCHANGED <<job, presence_sequence>>
              \/ \E m \in Messages, S \in SUBSET Conns :
                     /\ Start(c, Fanout(m, S))
                     /\ \/ m = Audit /\ UNCHANGED presence_sequence
                        \/ /\ m = Delta(presence_sequence')
                           /\ presence_sequence' = presence_sequence + 1
           /\ UNCHANGED <<queue, missed, got, link, writer,
                          backpressure_dropped_messages>>
<1>1. /\ Audit \in Messages /\ {} \in SUBSET Conns
      /\ \A d \in Conns : {d} \in SUBSET Conns
      /\ Delta(presence_sequence + 1) \in Messages
  BY MessageTypes DEF Typed, RoomTyped
<1>2. CASE HandlePresence(c)
  BY <1>1, <1>2 DEF HandlePresence, NextFrame, Reading
<1>3. CASE \E d \in Conns : HandleKick(c, d)
  <2>1. PICK d \in Conns : HandleKick(c, d)
    BY <1>3
  <2>2. /\ job[c] = Idle
        /\ UNCHANGED <<queue, missed, got, link, writer, presence_sequence,
                       backpressure_dropped_messages>>
    BY <2>1 DEF HandleKick, NextFrame, Reading, roomVars
  <2>3. Start(c, Fanout(Audit, {d})) \/ UNCHANGED job
    BY <2>1 DEF HandleKick
  <2> QED BY <1>1, <2>2, <2>3
<1>4. CASE \E d \in Conns : HandleDeny(c, d)
  <2>1. PICK d \in Conns : HandleDeny(c, d)
    BY <1>4
  <2>2. /\ job[c] = Idle
        /\ UNCHANGED <<queue, missed, got, link, writer, presence_sequence,
                       backpressure_dropped_messages>>
    BY <2>1 DEF HandleDeny, NextFrame, Reading
  <2>3. Start(c, Fanout(Audit, {d})) \/ UNCHANGED job
    BY <2>1 DEF HandleDeny
  <2> QED BY <1>1, <2>2, <2>3
<1>5. CASE handle_disconnect(c)
  BY <1>1, <1>5 DEF handle_disconnect, Paused, clientVars
<1> QED BY <1>2, <1>3, <1>4, <1>5 DEF Starts

\* The jobs keep their type.
LEMMA JobNext ==
    ASSUME Typed, Paused, Next
    PROVE  job' \in [Conns -> Jobs]
<1>1. PICK c \in Conns : NoBroadcast \/ HandlerStep(c) \/ Starts(c)
  BY JobSteps
<1>2. CASE NoBroadcast
  BY <1>2 DEF NoBroadcast, Typed, TasksTyped
<1>3. CASE HandlerStep(c)
  BY <1>3, HandlerJob
<1>4. CASE Starts(c)
  <2>1. ASSUME NEW m \in Messages, NEW S \in SUBSET Conns, Start(c, Fanout(m, S))
        PROVE  job' \in [Conns -> Jobs]
    BY <2>1, StartType, JobStarts
  <2> QED BY <1>4, <2>1, StartsEffect DEF Typed, TasksTyped
<1> QED BY <1>1, <1>2, <1>3, <1>4

\* The steps that leave every read loop where it is.
LEMMA ReaderUntouched ==
    ASSUME NEW c \in Conns,
           \/ WriterStep(c) \/ BillerStep(c) \/ Overdue(c)
           \/ ClientCloses(c) \/ ClientSends(c) \/ Receive(c) \/ HandleZero(c)
           \/ Starts(c) /\ ~handle_disconnect(c)
           \/ Fan(c) \/ Tell(c) \/ Shut(c)
    PROVE  UNCHANGED reader
<1>1. ASSUME WriterStep(c) \/ BillerStep(c) \/ Overdue(c) PROVE UNCHANGED reader
  BY <1>1 DEF WriterStep, Write, WriteFails, WriterEnds, BillerStep,
         BillerCloses, BillerEnds, Overdue, taskVars
<1>2. ASSUME ClientCloses(c) \/ ClientSends(c) \/ Receive(c) \/ HandleZero(c)
      PROVE  UNCHANGED reader
  BY <1>2 DEF ClientCloses, ClientSends, Receive, HandleZero, taskVars
<1>3. ASSUME Starts(c), ~handle_disconnect(c) PROVE UNCHANGED reader
  BY <1>3 DEF Starts, HandlePresence, HandleKick, HandleDeny
<1>4. ASSUME Fan(c) \/ Tell(c) \/ Shut(c) PROVE UNCHANGED reader
  BY <1>4 DEF Fan, Tell, Shut
<1> QED BY <1>1, <1>2, <1>3, <1>4

\* Where the read loop of c goes, when it goes anywhere.
ReaderMoves(c) ==
    \/ UNCHANGED reader
    \/ reader' = [reader EXCEPT ![c] = "failed"]
    \/ /\ reader' = [reader EXCEPT ![c] = "await"]
       /\ link[c] = "client closed" /\ job[c] = Idle /\ UNCHANGED job
    \/ /\ \E r \in {"leaving", "gone"} : reader' = [reader EXCEPT ![c] = r]
       /\ reader[c] \in {"await", "leaving"}

LEMMA ReaderSteps ==
    ASSUME Typed, Next
    PROVE  \E c \in Conns : ReaderMoves(c)
<1>1. PICK c \in Conns : \/ ConnStep(c) \/ WriterStep(c) \/ BillerStep(c)
                         \/ Overdue(c) \/ ClientCloses(c) \/ ClientSends(c)
  BY DEF Next
<1>2. CASE UNCHANGED reader
  BY <1>2 DEF ReaderMoves
<1>3. CASE Collect(c) \/ FanDone(c) \/ Count(c)
  <2>1. Finish(c) \/ UNCHANGED reader
    BY <1>3 DEF Collect, FanDone, Count
  <2> QED BY <2>1 DEF Finish, ReaderMoves
<1>4. CASE Notify(c)
  <2>1. \/ Finish(c)
        \/ reader' = [reader EXCEPT ![c] = IF reader[c] = "leaving" THEN "gone"
                                           ELSE "failed"]
    BY <1>4 DEF Notify
  <2>2. CASE reader[c] = "leaving"
    BY <2>1, <2>2 DEF Finish, ReaderMoves
  <2>3. CASE reader[c] # "leaving"
    BY <2>1, <2>3 DEF Finish, ReaderMoves
  <2> QED BY <2>2, <2>3
<1>5. CASE DecodeFails(c)
  BY <1>5 DEF DecodeFails, ReaderMoves
<1>6. CASE ReadClose(c)
  BY <1>6 DEF ReadClose, Reading, ReaderMoves
<1>7. CASE handle_disconnect(c)
  BY <1>7 DEF handle_disconnect, ReaderMoves
<1> QED BY <1>1, <1>2, <1>3, <1>4, <1>5, <1>6, <1>7, ReaderUntouched
        DEF ConnStep, HandlerStep, ReaderStep, Starts
-----------------------------------------------------------------------------
(***************************************************************************)
(* What a step does to the queues and to the histories of the deltas.      *)
(***************************************************************************)
TriesToSend ==
    /\ \E d \in Conns : \E m \in {Error, Close} : try_send(d, m)
    /\ UNCHANGED <<missed, got, link>>

LEMMA QueueSteps ==
    ASSUME Typed, Paused, Next
    PROVE  \E c \in Conns :
               \/ UNCHANGED <<queue, missed, got, link>>
               \/ ClientCloses(c) \/ TriesToSend
               \/ Fan(c) \/ Write(c) \/ WriteFails(c)
<1>1. PICK c \in Conns : \/ ConnStep(c) \/ WriterStep(c) \/ BillerStep(c)
                         \/ Overdue(c) \/ ClientCloses(c) \/ ClientSends(c)
  BY DEF Next
<1> DEFINE Still == UNCHANGED <<queue, missed, got, link>>
<1>2. CASE Starts(c)
  BY <1>2, StartsEffect
<1>3. CASE \/ Collect(c) \/ FanDone(c) \/ Count(c) \/ Receive(c)
           \/ DecodeFails(c) \/ ReadClose(c) \/ HandleZero(c)
           \/ WriterEnds(c) \/ BillerEnds(c) \/ ClientSends(c)
  <2>1. ASSUME Collect(c) \/ FanDone(c) \/ Count(c) PROVE Still
    BY <2>1 DEF Collect, FanDone, Count, clientVars
  <2>2. ASSUME \/ Receive(c) \/ DecodeFails(c) \/ ReadClose(c) \/ HandleZero(c)
        PROVE  Still
    BY <2>2 DEF Receive, DecodeFails, ReadClose, HandleZero, NextFrame, clientVars
  <2>3. ASSUME WriterEnds(c) \/ BillerEnds(c) \/ ClientSends(c) PROVE Still
    BY <2>3 DEF WriterEnds, BillerEnds, ClientSends, clientVars
  <2> QED BY <1>3, <2>1, <2>2, <2>3
<1>4. CASE Overdue(c) \/ BillerCloses(c)
  BY <1>4 DEF Overdue, BillerCloses, clientVars, TriesToSend
<1>5. job[c].to \subseteq Conns /\ job[c].shut \subseteq Conns
  BY JobFields DEF Typed, TasksTyped
<1>6. CASE Tell(c) \/ Shut(c)
  BY <1>5, <1>6 DEF Tell, Shut, clientVars, TriesToSend
<1>7. CASE Notify(c)
  BY <1>5, <1>7 DEF Notify, clientVars, TriesToSend
<1> QED BY <1>1, <1>2, <1>3, <1>4, <1>6, <1>7
        DEF ConnStep, HandlerStep, ReaderStep, Starts, WriterStep, BillerStep

\* What a fan-out adds to the queues and to what they refused.
LEMMA FanEffect ==
    ASSUME Typed, NEW c \in Conns, Fan(c)
    PROVE  /\ queue' \in [Conns -> Seq(Messages)]
           /\ missed' \in [Conns -> Seq(Messages)]
           /\ \A d \in Conns :
                  /\ Len(queue'[d]) <= QueueCap
                  /\ Elements(queue[d]) \subseteq Elements(queue'[d])
                  /\ Elements(missed[d]) \subseteq Elements(missed'[d])
                  /\ d \in job[c].to =>
                         \/ job[c].msg \in Elements(queue'[d])
                         \/ job[c].msg \in Elements(missed'[d])
           /\ UNCHANGED <<got, link>>
<1> DEFINE refusing == {d \in job[c].to : ~Accepts(d)}
           m == job[c].msg
<1>1. /\ queue' = [d \in Conns |-> IF d \in job[c].to \ refusing
                                   THEN Append(queue[d], m) ELSE queue[d]]
      /\ missed' = [d \in Conns |-> IF d \in refusing
                                    THEN Append(missed[d], m) ELSE missed[d]]
      /\ UNCHANGED <<got, link>>
  BY Zenon DEF Fan, clientVars
<1>2. m \in Messages
  BY JobFields DEF Typed, TasksTyped
<1>3. \A d \in job[c].to \ refusing : Accepts(d)
  OBVIOUS
<1> HIDE DEF refusing, m
<1>4. ASSUME NEW d \in Conns
      PROVE  /\ queue'[d] \in Seq(Messages) /\ missed'[d] \in Seq(Messages)
             /\ Len(queue'[d]) <= QueueCap
             /\ Elements(queue[d]) \subseteq Elements(queue'[d])
             /\ Elements(missed[d]) \subseteq Elements(missed'[d])
             /\ d \in job[c].to =>
                    m \in Elements(queue'[d]) \/ m \in Elements(missed'[d])
  <2>1. /\ queue[d] \in Seq(Messages) /\ missed[d] \in Seq(Messages)
        /\ Len(queue[d]) <= QueueCap /\ QueueCap \in Nat
    BY ConnAssumption DEF Typed, QueuesTyped
  <2>2. /\ Append(queue[d], m) \in Seq(Messages)
        /\ Len(Append(queue[d], m)) = Len(queue[d]) + 1
        /\ Elements(Append(queue[d], m)) = Elements(queue[d]) \cup {m}
    BY <1>2, <2>1, AppendElements
  <2>3. /\ Append(missed[d], m) \in Seq(Messages)
        /\ Elements(Append(missed[d], m)) = Elements(missed[d]) \cup {m}
    BY <1>2, <2>1, AppendElements
  <2>4. CASE d \in job[c].to \ refusing
    <3>0. Accepts(d)
      BY <1>3, <2>4
    <3>1. Len(queue[d]) < QueueCap /\ Len(queue[d]) \in Nat
      BY <2>1, <3>0 DEF Accepts
    <3>2. Len(queue[d]) + 1 <= QueueCap
      BY <2>1, <3>1
    <3>3. queue'[d] = Append(queue[d], m)
      BY <1>1, <2>4
    <3>4. missed'[d] = missed[d] \/ missed'[d] = Append(missed[d], m)
      BY <1>1
    <3> QED BY <2>1, <2>2, <2>3, <3>2, <3>3, <3>4
  <2>5. CASE d \in refusing
    BY <1>1, <2>1, <2>3, <2>5
  <2>6. CASE d \notin job[c].to /\ d \notin refusing
    BY <1>1, <2>1, <2>6
  <2> QED BY <2>4, <2>5, <2>6
<1>5. queue' \in [Conns -> Seq(Messages)] /\ missed' \in [Conns -> Seq(Messages)]
  BY <1>1, <1>4
<1> QED BY <1>1, <1>4, <1>5 DEF m

\* What the writer of c takes from its queue.
LEMMA WriteEffect ==
    ASSUME Typed, NEW c \in Conns, Write(c)
    PROVE  /\ queue' \in [Conns -> Seq(Messages)] /\ got' \in [Conns -> Seq(Nat)]
           /\ link' \in [Conns -> {"open", "client closed", "hub closed"}]
           /\ \A d \in Conns : /\ Len(queue'[d]) <= QueueCap
                               /\ Elements(got[d]) \subseteq Elements(got'[d])
                               /\ link[d] # "open" => link'[d] = link[d]
           /\ \A d \in Conns \ {c} : queue'[d] = queue[d]
           /\ LET m == Head(queue[c]) IN
              /\ m \in Messages
              /\ Elements(queue[c]) = {m} \cup Elements(queue'[c])
              /\ m.kind = "delta" /\ link[c] = "open" => m.n \in Elements(got'[c])
           /\ UNCHANGED missed
<1> DEFINE m == Head(queue[c])
<1>1. /\ queue \in [Conns -> Seq(Messages)] /\ got \in [Conns -> Seq(Nat)]
      /\ link \in [Conns -> {"open", "client closed", "hub closed"}]
      /\ \A d \in Conns : Len(queue[d]) <= QueueCap
      /\ QueueCap \in Nat
  BY ConnAssumption DEF Typed, QueuesTyped
<1>2. /\ queue[c] # <<>>
      /\ queue' = [queue EXCEPT ![c] = Tail(queue[c])]
      /\ got' = IF m.kind = "delta" /\ link[c] = "open"
                THEN [got EXCEPT ![c] = Append(got[c], m.n)] ELSE got
      /\ link' = IF m.kind = "close" /\ link[c] = "open"
                 THEN [link EXCEPT ![c] = "hub closed"] ELSE link
      /\ UNCHANGED missed
  BY DEF Write
<1>3. /\ m \in Messages /\ Tail(queue[c]) \in Seq(Messages)
      /\ Len(Tail(queue[c])) < Len(queue[c])
      /\ Elements(queue[c]) = {m} \cup Elements(Tail(queue[c]))
  BY <1>1, <1>2, TailElements
<1>4. m.kind = "delta" => m.n \in Nat
  BY <1>3, MessageTypes
<1> HIDE DEF m
<1>5. Len(Tail(queue[c])) <= QueueCap
  <2>1. \A s \in Seq(Messages) : Len(s) \in Nat
    OBVIOUS
  <2>2. Len(queue[c]) \in Nat /\ Len(Tail(queue[c])) \in Nat
    BY <1>1, <1>3, <2>1
  <2>3. Len(queue[c]) <= QueueCap /\ QueueCap \in Nat
    BY <1>1
  <2>4. Len(Tail(queue[c])) < Len(queue[c])
    BY <1>3
  <2>5. \A i, j, k \in Nat : i < j /\ j <= k => i <= k
    OBVIOUS
  <2> QED BY <2>2, <2>3, <2>4, <2>5
<1>6. /\ queue' \in [Conns -> Seq(Messages)] /\ queue'[c] = Tail(queue[c])
      /\ \A d \in Conns \ {c} : queue'[d] = queue[d]
  BY <1>1, <1>2, <1>3
<1>7. /\ got' \in [Conns -> Seq(Nat)]
      /\ \A d \in Conns : Elements(got[d]) \subseteq Elements(got'[d])
      /\ m.kind = "delta" /\ link[c] = "open" => m.n \in Elements(got'[c])
  <2>1. CASE m.kind = "delta" /\ link[c] = "open"
    <3>1. m.n \in Nat /\ got[c] \in Seq(Nat)
      BY <1>1, <1>4, <2>1
    <3>2. /\ Append(got[c], m.n) \in Seq(Nat)
          /\ Elements(Append(got[c], m.n)) = Elements(got[c]) \cup {m.n}
      BY <3>1, AppendElements
    <3> QED BY <1>1, <1>2, <2>1, <3>2
  <2>2. CASE ~(m.kind = "delta" /\ link[c] = "open")
    BY <1>1, <1>2, <2>2
  <2> QED BY <2>1, <2>2
<1>8. /\ link' \in [Conns -> {"open", "client closed", "hub closed"}]
      /\ \A d \in Conns : link[d] # "open" => link'[d] = link[d]
  BY <1>1, <1>2
<1>9. \A d \in Conns : Len(queue'[d]) <= QueueCap
  BY <1>1, <1>5, <1>6
<1> QED BY <1>2, <1>3, <1>6, <1>7, <1>8, <1>9 DEF m

\* A writer that may not send drops its queue: the connection is not open.
LEMMA WriteFailsEffect ==
    ASSUME Typed, Departed, NEW c \in Conns, WriteFails(c)
    PROVE  /\ queue' = [queue EXCEPT ![c] = <<>>] /\ link[c] # "open"
           /\ UNCHANGED <<missed, got, link>>
<1>1. /\ queue' = [queue EXCEPT ![c] = <<>>] /\ ~Sendable(c)
      /\ UNCHANGED <<missed, got, link>>
  BY DEF WriteFails, clientVars
<1>2. reader[c] \in {"reading", "await", "leaving", "gone", "failed"}
  BY DEF Typed, TasksTyped
<1>3. ASSUME link[c] = "open" PROVE FALSE
  BY <1>1, <1>2, <1>3 DEF Sendable, Departed, LeftLoop
<1> QED BY <1>1, <1>3

LEMMA QueueNext ==
    ASSUME Typed, Paused, Departed, Next
    PROVE  /\ QueuesTyped'
           /\ \A c \in Conns : /\ link'[c] = "open" => link[c] = "open"
                               /\ link[c] = "client closed" => link'[c] = link[c]
<1>1. PICK c \in Conns : \/ UNCHANGED <<queue, missed, got, link>>
                         \/ ClientCloses(c) \/ TriesToSend
                         \/ Fan(c) \/ Write(c) \/ WriteFails(c)
  BY QueueSteps
<1>2. QueuesTyped
  BY DEF Typed
<1>3. CASE UNCHANGED <<queue, missed, got, link>>
  BY <1>2, <1>3 DEF QueuesTyped
<1>4. CASE ClientCloses(c)
  BY <1>2, <1>4 DEF ClientCloses, QueuesTyped
<1>5. CASE TriesToSend
  <2>1. PICK d \in Conns : \E m \in {Error, Close} : try_send(d, m)
    BY <1>5 DEF TriesToSend
  <2>2. PICK m \in {Error, Close} : try_send(d, m)
    BY <2>1
  <2>3. m \in Messages
    BY MessageTypes
  <2>4. /\ queue' \in [Conns -> Seq(Messages)]
        /\ \A e \in Conns : Len(queue'[e]) <= QueueCap
    BY <2>2, <2>3, TrySendType
  <2> QED BY <1>2, <1>5, <2>4 DEF TriesToSend, QueuesTyped
<1>6. CASE Fan(c)
  BY <1>2, <1>6, FanEffect DEF QueuesTyped
<1>7. CASE Write(c)
  <2>1. /\ queue' \in [Conns -> Seq(Messages)] /\ got' \in [Conns -> Seq(Nat)]
        /\ link' \in [Conns -> {"open", "client closed", "hub closed"}]
        /\ \A d \in Conns : /\ Len(queue'[d]) <= QueueCap
                            /\ link[d] # "open" => link'[d] = link[d]
        /\ UNCHANGED missed
    BY <1>7, WriteEffect
  <2> QED BY <1>2, <2>1 DEF QueuesTyped
<1>8. CASE WriteFails(c)
  <2>1. <<>> \in Seq(Messages) /\ Len(<<>>) <= QueueCap
    BY ConnAssumption
  <2>2. /\ queue' = [queue EXCEPT ![c] = <<>>]
        /\ UNCHANGED <<missed, got, link>>
    BY <1>8, WriteFailsEffect
  <2>3. /\ queue' \in [Conns -> Seq(Messages)]
        /\ \A d \in Conns : queue'[d] = <<>> \/ queue'[d] = queue[d]
    BY <1>2, <2>1, <2>2 DEF QueuesTyped
  <2> QED BY <1>2, <2>1, <2>2, <2>3 DEF QueuesTyped
<1> QED BY <1>1, <1>3, <1>4, <1>5, <1>6, <1>7, <1>8

\* The writers keep their type.
LEMMA WriterNext ==
    ASSUME Typed, Next
    PROVE  writer' \in [Conns -> {"running", "ended"}]
<1>1. PICK c \in Conns : \/ ConnStep(c) \/ WriterStep(c) \/ BillerStep(c)
                         \/ Overdue(c) \/ ClientCloses(c) \/ ClientSends(c)
  BY DEF Next
<1>2. writer \in [Conns -> {"running", "ended"}]
  BY DEF Typed, TasksTyped
<1>3. CASE WriterStep(c)
  BY <1>2, <1>3 DEF WriterStep, Write, WriteFails, WriterEnds, taskVars
<1>4. CASE BillerStep(c) \/ Overdue(c) \/ ClientCloses(c) \/ ClientSends(c)
  BY <1>2, <1>4 DEF BillerStep, BillerCloses, BillerEnds, Overdue,
         ClientCloses, ClientSends, taskVars
<1>5. CASE HandlerStep(c)
  BY <1>2, <1>5 DEF HandlerStep, Collect, FanDone, Count, Notify, Tell, Shut, Fan
<1>6. CASE ReaderStep(c)
  <2>1. ASSUME Receive(c) \/ DecodeFails(c) \/ ReadClose(c) PROVE UNCHANGED writer
    BY <2>1 DEF Receive, DecodeFails, ReadClose
  <2>2. ASSUME NEW f, NextFrame(c, f) PROVE UNCHANGED writer
    BY <2>2 DEF NextFrame
  <2> QED BY <1>2, <1>6, <2>1, <2>2 DEF ReaderStep, HandleZero, HandlePresence,
             HandleKick, HandleDeny
<1>7. CASE handle_disconnect(c)
  BY <1>2, <1>7 DEF handle_disconnect
<1> QED BY <1>1, <1>3, <1>4, <1>5, <1>6, <1>7 DEF ConnStep

\* The types, and where the read loops stand, are inductive together.
ReadersInv == Typed /\ Departed /\ Paused

LEMMA ReadersInit == Init => ReadersInv
<1> SUFFICES ASSUME Init PROVE ReadersInv
  OBVIOUS
<1>1. Pending \subseteq Conns /\ QueueCap \in Nat
  BY ConnAssumption
<1>2. RoomTyped
  <2>1. Oldest(Conns \ waiting) \in Conns \cup {0}
    BY OldestType
  <2> QED BY <1>1, <2>1 DEF Init, RoomTyped
<1>3. TasksTyped
  BY JobStarts DEF Init, TasksTyped
<1>4. QueuesTyped
  <2>1. \A S : <<>> \in Seq(S)
    OBVIOUS
  <2>2. Len(<<>>) = 0
    OBVIOUS
  <2> QED BY <1>1, <2>1, <2>2 DEF Init, QueuesTyped
<1>5. Departed /\ Paused
  BY DEF Init, Departed, Paused, LeftLoop
<1> QED BY <1>2, <1>3, <1>4, <1>5 DEF ReadersInv, Typed

LEMMA ReadersNext == ReadersInv /\ [Next]_vars => ReadersInv'
<1> SUFFICES ASSUME Typed, Departed, Paused, [Next]_vars PROVE ReadersInv'
  BY DEF ReadersInv
<1>1. CASE Next
  <2>1. RoomTyped' /\ QueuesTyped'
    BY <1>1, RoomNext, QueueNext
  <2>2. PICK c \in Conns : ReaderMoves(c)
    BY <1>1, ReaderSteps
  <2>3. TasksTyped'
    BY <1>1, <2>2, JobNext, WriterNext DEF Typed, TasksTyped, ReaderMoves
  <2>4. \A d \in Conns : link[d] = "client closed" => link'[d] = "client closed"
    BY <1>1, QueueNext
  <2>5. Departed'
    BY <2>2, <2>4 DEF ReaderMoves, Departed, LeftLoop, Typed, TasksTyped
  <2>6. Paused'
    <3> SUFFICES ASSUME NEW d \in Conns, reader'[d] = "await" PROVE job'[d] = Idle
      BY DEF Paused
    <3>1. CASE reader[d] # "await"
      BY <2>2, <3>1 DEF ReaderMoves, Typed, TasksTyped
    <3>2. CASE reader[d] = "await"
      <4>1. job[d] = Idle
        BY <3>2 DEF Paused
      <4>2. PICK e \in Conns : NoBroadcast \/ HandlerStep(e) \/ Starts(e)
        BY <1>1, JobSteps
      <4>3. CASE HandlerStep(e)
        BY <4>1, <4>3, HandlerJob
      <4>4. CASE Starts(e)
        <5>1. CASE d = e
          <6>1. CASE handle_disconnect(d)
            BY <3>2, <4>1, <6>1 DEF handle_disconnect, Typed, TasksTyped
          <6>2. CASE ~handle_disconnect(d)
            BY <3>2, <4>4, <5>1, <6>2 DEF Starts, HandlePresence, HandleKick,
                   HandleDeny, NextFrame, Reading
          <6> QED BY <6>1, <6>2
        <5>2. CASE d # e
          BY <4>1, <4>4, <5>2, StartsEffect, StartType, JobStarts
        <5> QED BY <5>1, <5>2
      <4> QED BY <4>1, <4>2, <4>3, <4>4 DEF NoBroadcast
    <3> QED BY <3>1, <3>2
  <2> QED BY <2>1, <2>3, <2>5, <2>6 DEF ReadersInv, Typed
<1>2. CASE UNCHANGED vars
  BY <1>2 DEF vars, roomVars, taskVars, clientVars, ReadersInv, Typed, RoomTyped,
         TasksTyped, QueuesTyped, Departed, Paused
<1> QED BY <1>1, <1>2
-----------------------------------------------------------------------------
(***************************************************************************)
(* Every delta is accounted for.                                           *)
(***************************************************************************)
\* A delta that reached c, waits in its queue, or was refused by it.
Delivered(c, n) ==
    \/ n \in Elements(got[c])
    \/ Delta(n) \in Elements(queue[c])
    \/ Delta(n) \in Elements(missed[c])

LEMMA DeliveredElements ==
    ASSUME Typed, NEW c \in Conns, NEW n
    PROVE  Delivered(c, n) <=> \/ n \in Elements(got[c])
                               \/ Delta(n) \in Elements(queue[c] \o missed[c])
<1>1. queue[c] \in Seq(Messages) /\ missed[c] \in Seq(Messages)
  BY DEF Typed, QueuesTyped
<1>2. Elements(queue[c] \o missed[c]) = Elements(queue[c]) \cup Elements(missed[c])
  BY <1>1, ConcatElements
<1> QED BY <1>2 DEF Delivered

\* What was delivered stays delivered while the connection is open.
LEMMA StaysDelivered ==
    ASSUME ReadersInv, Next, NEW c \in Conns, link'[c] = "open",
           NEW n \in Nat, Delivered(c, n)
    PROVE  Delivered(c, n)'
<1> USE DEF ReadersInv
<1>1. PICK d \in Conns : \/ UNCHANGED <<queue, missed, got, link>>
                         \/ ClientCloses(d) \/ TriesToSend
                         \/ Fan(d) \/ Write(d) \/ WriteFails(d)
  BY QueueSteps
<1>2. link[c] = "open"
  BY QueueNext
<1>3. CASE UNCHANGED <<queue, missed, got, link>>
  BY <1>3 DEF Delivered, Elements
<1>4. CASE ClientCloses(d)
  BY <1>4 DEF ClientCloses, Delivered, Elements
<1>5. CASE TriesToSend
  <2>1. PICK e \in Conns : \E m \in {Error, Close} : try_send(e, m)
    BY <1>5 DEF TriesToSend
  <2>2. PICK m \in {Error, Close} : try_send(e, m)
    BY <2>1
  <2>3. Elements(queue[c]) \subseteq Elements(queue'[c])
    BY <2>2, MessageTypes, TrySendType
  <2>4. UNCHANGED <<missed, got>>
    BY <1>5 DEF TriesToSend
  <2> QED BY <2>3, <2>4 DEF Delivered, Elements
<1>6. CASE Fan(d)
  <2>1. /\ Elements(queue[c]) \subseteq Elements(queue'[c])
        /\ Elements(missed[c]) \subseteq Elements(missed'[c])
        /\ UNCHANGED got
    BY <1>6, FanEffect
  <2> QED BY <2>1 DEF Delivered, Elements
<1>7. CASE Write(d)
  <2>1. /\ Elements(got[c]) \subseteq Elements(got'[c])
        /\ UNCHANGED missed
    BY <1>7, WriteEffect
  <2>2. CASE c # d
    <3>1. queue'[c] = queue[c]
      BY <1>7, <2>2, WriteEffect
    <3> QED BY <2>1, <3>1 DEF Delivered, Elements
  <2>3. CASE c = d
    <3> DEFINE m == Head(queue[c])
    <3>1. /\ Elements(queue[c]) = {m} \cup Elements(queue'[c])
          /\ m.kind = "delta" => m.n \in Elements(got'[c])
      BY <1>2, <1>7, <2>3, WriteEffect
    <3>2. m = Delta(n) => n \in Elements(got'[c])
      BY <3>1 DEF Delta
    <3> HIDE DEF m
    <3> QED BY <2>1, <3>1, <3>2 DEF Delivered, Elements
  <2> QED BY <2>2, <2>3
<1>8. CASE WriteFails(d)
  <2>1. d # c
    BY <1>2, <1>8, WriteFailsEffect
  <2>2. queue'[c] = queue[c] /\ UNCHANGED <<missed, got>>
    BY <1>8, <2>1, WriteFailsEffect DEF Typed, QueuesTyped
  <2> QED BY <2>2 DEF Delivered, Elements
<1> QED BY <1>1, <1>3, <1>4, <1>5, <1>6, <1>7, <1>8

\* A handler that goes on with its job numbers nothing.
LEMMA HandlerNumbersNothing ==
    ASSUME NEW c \in Conns, HandlerStep(c)
    PROVE  UNCHANGED presence_sequence
<1>1. CASE Count(c)
  BY <1>1 DEF Count
<1>2. CASE ~Count(c)
  BY <1>2, RoomUntouched DEF roomVars
<1> QED BY <1>1, <1>2

\* A job that has nothing to send to c.
Spares(j, c, n) ==
    j.msg = Delta(n) => j.stage # "fan" /\ (j.stage = "send" => c \notin j.to)

\* A delta that a step settles was delivered by it; a new one is not settled.
LEMMA SettlesDelivered ==
    ASSUME ReadersInv, Next, NEW c \in participants', NEW n \in 1 .. presence_sequence',
           Settled(c, n)'
    PROVE  \/ n \in 1 .. presence_sequence /\ Settled(c, n)
           \/ Delivered(c, n)'
<1> USE DEF ReadersInv
<1>1. PICK d \in Conns : NoBroadcast \/ HandlerStep(d) \/ Starts(d)
  BY JobSteps
<1>2. /\ c \in participants /\ c \in Conns
      /\ presence_sequence \in Nat /\ job[d] \in Jobs
  BY RoomNext DEF Typed, RoomTyped, TasksTyped
<1>3. \A e \in Conns : Spares(job'[e], c, n)
  BY DEF Settled, Spares
<1>4. (\A e \in Conns : Spares(job[e], c, n)) => Settled(c, n)
  BY DEF Settled, Spares
<1>5. CASE NoBroadcast
  BY <1>3, <1>4, <1>5 DEF NoBroadcast
<1>6. CASE Starts(d)
  <2>1. job[d] = Idle /\ Spares(Idle, c, n)
    BY <1>6, StartsEffect, JobStarts, MessageTypes DEF Spares
  <2>2. CASE UNCHANGED <<job, presence_sequence>>
    BY <1>3, <1>4, <2>2
  <2>3. ASSUME NEW m \in Messages, NEW S \in SUBSET Conns, Start(d, Fanout(m, S))
        PROVE  /\ \A e \in Conns : Spares(job[e], c, n)
               /\ m # Delta(n)
    <3>1. job'[d] = Fanout(m, S) /\ \A e \in Conns \ {d} : job'[e] = job[e]
      BY <2>3, StartType, JobStarts
    <3>2. Spares(Fanout(m, S), c, n)
      BY <1>3, <3>1
    <3>3. m # Delta(n)
      BY <3>2, JobStarts DEF Spares
    <3> QED BY <1>3, <2>1, <3>1, <3>3
  <2>4. CASE ~UNCHANGED <<job, presence_sequence>>
    <3>1. PICK m \in Messages, S \in SUBSET Conns :
              /\ Start(d, Fanout(m, S))
              /\ \/ m = Audit /\ UNCHANGED presence_sequence
                 \/ /\ m = Delta(presence_sequence')
                    /\ presence_sequence' = presence_sequence + 1
      BY <1>6, <2>4, StartsEffect
    <3>2. (\A e \in Conns : Spares(job[e], c, n)) /\ m # Delta(n)
      BY <2>3, <3>1
    <3>3. n \in 1 .. presence_sequence
      <4>1. CASE UNCHANGED presence_sequence
        BY <4>1
      <4>2. CASE m = Delta(presence_sequence') /\ presence_sequence' = presence_sequence + 1
        <5>1. n # presence_sequence'
          BY <3>2, <4>2
        <5> QED BY <1>2, <4>2, <5>1
      <4> QED BY <3>1, <4>1, <4>2
    <3> QED BY <1>4, <3>2, <3>3
  <2> QED BY <2>2, <2>4
<1>7. CASE HandlerStep(d)
  <2>1. UNCHANGED presence_sequence
    BY <1>7, HandlerNumbersNothing
  <2>2. \A e \in Conns \ {d} : job'[e] = job[e]
    BY <1>7, HandlerJob
  <2>3. CASE Spares(job[d], c, n)
    BY <1>3, <1>4, <2>1, <2>2, <2>3
  <2>4. CASE Collect(d)
    <3>1. Start(d, [job[d] EXCEPT !.stage = "send", !.to = participants])
      BY <1>2, <2>4 DEF Collect, Recipients
    <3>2. job'[d] = [job[d] EXCEPT !.stage = "send", !.to = participants]
      BY <3>1 DEF Start, Typed, TasksTyped
    <3>3. /\ job'[d].msg = job[d].msg /\ job'[d].stage = "send"
          /\ job'[d].to = participants
      BY <1>2, <3>2 DEF Jobs
    <3>4. job[d].msg # Delta(n)
      BY <1>2, <1>3, <3>3 DEF Spares
    <3>5. Spares(job[d], c, n)
      BY <3>4 DEF Spares
    <3> QED BY <2>3, <3>5
  <2>5. CASE Fan(d) /\ ~Spares(job[d], c, n)
    <3>1. job[d].stage = "send"
      BY <2>5 DEF Fan
    <3>2. job[d].msg = Delta(n) /\ c \in job[d].to
      BY <2>5, <3>1 DEF Spares
    <3>3. Delta(n) \in Elements(queue'[c]) \/ Delta(n) \in Elements(missed'[c])
      BY <1>2, <2>5, <3>2, FanEffect
    <3> QED BY <3>3 DEF Delivered, Elements
  <2>6. CASE ~Collect(d) /\ ~Fan(d)
    <3>1. Spares(job[d], c, n)
      BY <1>7, <2>6, HandlerJob DEF Spares
    <3> QED BY <2>3, <3>1
  <2> QED BY <2>3, <2>4, <2>5, <2>6
<1> QED BY <1>1, <1>5, <1>6, <1>7

\* EveryDeltaAccounted, with what it rests on, is inductive.
DeltaInv == ReadersInv /\ EveryDeltaAccounted

LEMMA DeltaNext == DeltaInv /\ [Next]_vars => DeltaInv'
<1> SUFFICES ASSUME ReadersInv, EveryDeltaAccounted, [Next]_vars PROVE DeltaInv'
  BY DEF DeltaInv
<1>1. ReadersInv'
  BY ReadersNext
<1>2. Typed /\ Typed'
  BY <1>1 DEF ReadersInv
<1>3. CASE Next
  <2>1. ASSUME NEW c \in participants', link'[c] = "open",
               NEW n \in 1 .. presence_sequence', Settled(c, n)'
        PROVE  Delivered(c, n)'
    <3>1. c \in participants /\ c \in Conns
      BY <1>2, <1>3, RoomNext DEF Typed, RoomTyped
    <3>2. link[c] = "open"
      BY <1>3, <2>1, <3>1, QueueNext DEF ReadersInv
    <3>3. n \in Nat
      BY <1>2 DEF Typed, RoomTyped
    <3>4. CASE n \in 1 .. presence_sequence /\ Settled(c, n)
      <4>1. Delivered(c, n)
        BY <1>2, <3>1, <3>2, <3>4, DeliveredElements DEF EveryDeltaAccounted
      <4> QED BY <1>3, <2>1, <3>1, <3>3, <4>1, StaysDelivered
    <3> QED BY <1>3, <2>1, <3>4, SettlesDelivered
  <2>2. ASSUME NEW c \in Conns, NEW n
        PROVE  Delivered(c, n)' => \/ n \in Elements(got'[c])
                                   \/ Delta(n) \in Elements(queue'[c] \o missed'[c])
    <3>1. queue'[c] \in Seq(Messages) /\ missed'[c] \in Seq(Messages)
      BY <1>2 DEF Typed, QueuesTyped
    <3>2. Elements(queue'[c] \o missed'[c]) = Elements(queue'[c]) \cup Elements(missed'[c])
      BY <3>1, ConcatElements
    <3> QED BY <3>2 DEF Delivered, Elements
  <2>3. participants' \subseteq Conns
    BY <1>2 DEF Typed, RoomTyped
  <2>4. EveryDeltaAccounted'
    BY <2>1, <2>2, <2>3 DEF EveryDeltaAccounted, Elements
  <2> QED BY <1>1, <2>4 DEF DeltaInv
<1>4. CASE UNCHANGED vars
  <2>1. UNCHANGED <<participants, link, presence_sequence, job, got, queue, missed>>
    BY <1>4 DEF vars, roomVars, taskVars, clientVars
  <2>2. \A c, n : Settled(c, n)' <=> Settled(c, n)
    BY <2>1 DEF Settled
  <2>3. \A c : /\ Elements(got[c])' = Elements(got[c])
               /\ Elements(queue[c] \o missed[c])' = Elements(queue[c] \o missed[c])
    BY <2>1, Zenon DEF Elements
  <2>4. EveryDeltaAccounted'
    BY <2>1, <2>2, <2>3, Zenon DEF EveryDeltaAccounted
  <2> QED BY <1>1, <2>4 DEF DeltaInv
<1> QED BY <1>3, <1>4

\* Every presence delta reaches every participant that the room still has and
\* whose connection is open, or is in its queue, or was refused by it while it
\* was full: for any number of connections and of handlers that broadcast at
\* the same time.
THEOREM DeltasAccounted == Spec => []EveryDeltaAccounted
<1>1. Init => DeltaInv
  <2>1. Init => EveryDeltaAccounted
    BY DEF Init, EveryDeltaAccounted
  <2> QED BY <2>1, ReadersInit DEF DeltaInv
<1>2. DeltaInv => EveryDeltaAccounted
  BY DEF DeltaInv
<1> QED BY <1>1, <1>2, DeltaNext, PTL DEF Spec
-----------------------------------------------------------------------------
(***************************************************************************)
(* Sums.  SumOf adds up a function by a recursion over the subsets of its  *)
(* domain, which takes the elements away one by one.  That it is defined   *)
(* at all, and unique, is by induction on the size of the subset.          *)
(***************************************************************************)
\* Induction, of a set of naturals.
LEMMA SetInduction ==
    ASSUME NEW P \in SUBSET Nat, 0 \in P, \A n \in P : n + 1 \in P
    PROVE  P = Nat
<1> DEFINE R == OpToRel(<, Nat)
           T == Nat \ P
<1> SUFFICES ASSUME T # {} PROVE FALSE
  OBVIOUS
<1>1. IsWellFoundedOn(R, Nat)
  BY NatLessThanWellFounded, Zenon
<1>2. \A m, n \in Nat : m < n => <<m, n>> \in R
  BY DEF OpToRel
<1> HIDE DEF R
<1>3. PICK x \in T : \A y \in T : ~ (<<y, x>> \in R)
  <2>1. T \subseteq Nat
    OBVIOUS
  <2> HIDE DEF T
  <2> QED BY <1>1, <2>1, WFMin, Zenon
<1>4. x - 1 \in Nat /\ x - 1 < x /\ (x - 1) + 1 = x
  OBVIOUS
<1>5. x - 1 \in T
  BY <1>4
<1> QED BY <1>2, <1>3, <1>4, <1>5

AnyOf(s) == CHOOSE x \in s : TRUE

\* One step of the recursion of SumOf.
Add(f, g, s) == IF s = {} THEN 0 ELSE f[AnyOf(s)] + g[s \ {AnyOf(s)}]

Solves(g, f, S) == \A s \in SUBSET S : g[s] = Add(f, g, s)

Adder(f) == CHOOSE g : g = [s \in SUBSET DOMAIN f |-> Add(f, g, s)]

LEMMA SumIsAdder == \A f : SumOf(f) = Adder(f)[DOMAIN f]
BY DEF SumOf, MapThenSumSet, MapThenFoldSet, Adder, Add, AnyOf

\* The subsets of S of at most n elements.
UpTo(S, n) == {s \in SUBSET S : Cardinality(s) <= n}

\* What is left of a subset is smaller.
LEMMA Fewer ==
    ASSUME NEW S, IsFiniteSet(S), NEW s \in SUBSET S
    PROVE  /\ Cardinality(s) \in Nat
           /\ s # {} => /\ AnyOf(s) \in s /\ s \ {AnyOf(s)} \in SUBSET S
                        /\ Cardinality(s \ {AnyOf(s)}) = Cardinality(s) - 1
                        /\ Cardinality(s) > 0
<1>1. IsFiniteSet(s) /\ Cardinality(s) \in Nat
  BY FS_Subset, FS_CardinalityType
<1>2. ASSUME s # {} PROVE AnyOf(s) \in s
  BY <1>2 DEF AnyOf
<1>3. ASSUME s # {}
      PROVE  Cardinality(s \ {AnyOf(s)}) = Cardinality(s) - 1
  BY <1>1, <1>2, <1>3, FS_RemoveElement
<1>4. ASSUME s # {} PROVE Cardinality(s) > 0
  BY <1>1, <1>4, FS_EmptySet
<1> QED BY <1>1, <1>2, <1>3, <1>4

LEMMA UpToNone ==
    ASSUME NEW S, IsFiniteSet(S), NEW s \in UpTo(S, 0)
    PROVE  s = {} /\ s \in SUBSET S
<1>1. s \in SUBSET S /\ Cardinality(s) <= 0
  BY DEF UpTo
<1>2. ASSUME s # {} PROVE FALSE
  <2>1. Cardinality(s) \in Nat /\ Cardinality(s) > 0
    BY <1>1, <1>2, Fewer
  <2> QED BY <1>1, <2>1
<1> QED BY <1>1, <1>2

\* A recursion over the subsets has one solution, ...
LEMMA AdderUnique ==
    ASSUME NEW S, IsFiniteSet(S), NEW f, NEW g, NEW h,
           Solves(g, f, S), Solves(h, f, S)
    PROVE  \A s \in SUBSET S : g[s] = h[s]
<1> DEFINE P == {n \in Nat : \A s \in UpTo(S, n) : g[s] = h[s]}
<1>1. 0 \in P
  <2> SUFFICES ASSUME NEW s \in UpTo(S, 0) PROVE g[s] = h[s]
    OBVIOUS
  <2>1. s = {} /\ s \in SUBSET S
    BY UpToNone
  <2> QED BY <2>1 DEF Solves, Add
<1>2. ASSUME NEW n \in P PROVE n + 1 \in P
  <2>1. n \in Nat /\ n + 1 \in Nat /\ \A s \in UpTo(S, n) : g[s] = h[s]
    OBVIOUS
  <2> SUFFICES ASSUME NEW s \in UpTo(S, n + 1) PROVE g[s] = h[s]
    BY <2>1
  <2>2. s \in SUBSET S /\ Cardinality(s) <= n + 1
    BY DEF UpTo
  <2>3. CASE s = {}
    BY <2>2, <2>3 DEF Solves, Add
  <2>4. CASE s # {}
    <3>1. /\ s \ {AnyOf(s)} \in SUBSET S /\ Cardinality(s) \in Nat
          /\ Cardinality(s \ {AnyOf(s)}) = Cardinality(s) - 1
      BY <2>2, <2>4, Fewer
    <3>2. Cardinality(s) - 1 <= n
      BY <2>1, <2>2, <3>1
    <3>3. s \ {AnyOf(s)} \in UpTo(S, n)
      BY <3>1, <3>2 DEF UpTo
    <3>4. g[s \ {AnyOf(s)}] = h[s \ {AnyOf(s)}]
      BY <2>1, <3>3
    <3> QED BY <2>2, <2>4, <3>4 DEF Solves, Add
  <2> QED BY <2>3, <2>4
<1>3. P = Nat
  <2>1. P \in SUBSET Nat
    OBVIOUS
  <2> HIDE DEF P
  <2> QED BY <1>1, <1>2, <2>1, SetInduction
<1>4. TAKE s \in SUBSET S
<1>5. Cardinality(s) \in Nat
  BY Fewer
<1>6. s \in UpTo(S, Cardinality(s))
  BY <1>5 DEF UpTo
<1>7. Cardinality(s) \in P
  BY <1>3, <1>5
<1> QED BY <1>6, <1>7

\* ... and the one of SumOf is a natural number for every subset.
LEMMA AdderExists ==
    ASSUME NEW S, IsFiniteSet(S), NEW f \in [S -> Nat]
    PROVE  \E g \in [SUBSET S -> Nat] : Solves(g, f, S)
<1> DEFINE Sums(n, g) == \A s \in UpTo(S, n) : g[s] = Add(f, g, s)
           P == {n \in Nat : \E g \in [UpTo(S, n) -> Nat] : Sums(n, g)}
<1>1. 0 \in P
  <2> DEFINE z == [s \in UpTo(S, 0) |-> 0]
  <2>1. ASSUME NEW s \in UpTo(S, 0) PROVE s = {}
    BY UpToNone
  <2>2. Sums(0, z)
    BY <2>1 DEF Add
  <2>3. z \in [UpTo(S, 0) -> Nat]
    OBVIOUS
  <2> HIDE DEF z, Sums
  <2>4. \E h \in [UpTo(S, 0) -> Nat] : Sums(0, h)
    BY <2>2, <2>3
  <2> QED BY <2>4
<1>2. ASSUME NEW n \in P PROVE n + 1 \in P
  <2>1. n \in Nat
    OBVIOUS
  <2>2. PICK g \in [UpTo(S, n) -> Nat] : Sums(n, g)
    OBVIOUS
  <2> DEFINE h == [s \in UpTo(S, n + 1) |->
                      IF s \in UpTo(S, n) THEN g[s] ELSE Add(f, g, s)]
  <2>3. ASSUME NEW s \in UpTo(S, n + 1), s # {}
        PROVE  /\ s \ {AnyOf(s)} \in UpTo(S, n) /\ AnyOf(s) \in S
               /\ s \ {AnyOf(s)} \in UpTo(S, n + 1)
    <3>1. s \in SUBSET S /\ Cardinality(s) <= n + 1
      BY DEF UpTo
    <3>2. /\ AnyOf(s) \in s /\ s \ {AnyOf(s)} \in SUBSET S /\ Cardinality(s) \in Nat
          /\ Cardinality(s \ {AnyOf(s)}) = Cardinality(s) - 1
      BY <2>3, <3>1, Fewer
    <3>3. Cardinality(s) - 1 <= n /\ Cardinality(s) - 1 <= n + 1
      BY <2>1, <3>1, <3>2
    <3> QED BY <3>1, <3>2, <3>3 DEF UpTo
  <2>4. ASSUME NEW s \in UpTo(S, n + 1)
        PROVE  Add(f, g, s) \in Nat /\ Add(f, h, s) = Add(f, g, s)
    BY <2>1, <2>3 DEF Add
  <2>5. h \in [UpTo(S, n + 1) -> Nat]
    BY <2>4
  <2>6. Sums(n + 1, h)
    BY <2>2, <2>4
  <2>7. n + 1 \in Nat
    BY <2>1
  <2> HIDE DEF h, Sums
  <2>8. \E k \in [UpTo(S, n + 1) -> Nat] : Sums(n + 1, k)
    BY <2>5, <2>6
  <2> QED BY <2>7, <2>8
<1>3. P = Nat
  <2>1. P \in SUBSET Nat
    OBVIOUS
  <2> HIDE DEF P
  <2> QED BY <1>1, <1>2, <2>1, SetInduction
<1>4. Cardinality(S) \in P
  BY <1>3, FS_CardinalityType
<1>5. UpTo(S, Cardinality(S)) = SUBSET S
  <2>1. \A s \in SUBSET S : Cardinality(s) <= Cardinality(S)
    BY FS_Subset
  <2> QED BY <2>1 DEF UpTo
<1>6. PICK g \in [SUBSET S -> Nat] : \A s \in SUBSET S : g[s] = Add(f, g, s)
  BY <1>4, <1>5
<1> QED BY <1>6 DEF Solves

\* SumOf obeys its recursion.
LEMMA AdderAdds ==
    ASSUME NEW S, IsFiniteSet(S), NEW f \in [S -> Nat]
    PROVE  Adder(f) \in [SUBSET S -> Nat] /\ Solves(Adder(f), f, S)
<1>1. DOMAIN f = S
  OBVIOUS
<1>2. PICK g \in [SUBSET S -> Nat] : Solves(g, f, S)
  BY AdderExists
<1>3. g = [s \in SUBSET S |-> Add(f, g, s)]
  BY <1>2 DEF Solves
<1> DEFINE Rec(k) == k = [s \in SUBSET DOMAIN f |-> Add(f, k, s)]
           h == Adder(f)
<1>4. h = [s \in SUBSET S |-> Add(f, h, s)]
  <2>1. Rec(g)
    BY <1>1, <1>3
  <2>2. h = CHOOSE k : Rec(k)
    BY Zenon DEF Adder
  <2> HIDE DEF Rec, h
  <2>3. Rec(h)
    BY <2>1, <2>2, Zenon
  <2> QED BY <1>1, <2>3, Zenon DEF Rec
<1> HIDE DEF h
<1>5. Solves(h, f, S)
  BY <1>4 DEF Solves
<1>6. \A s \in SUBSET S : g[s] = h[s]
  BY <1>2, <1>5, AdderUnique
<1>7. h = g
  BY <1>3, <1>4, <1>6
<1> QED BY <1>2, <1>7 DEF h

\* What satisfies the recursion of SumOf is the sum.
LEMMA SumIs ==
    ASSUME NEW S, IsFiniteSet(S), NEW f \in [S -> Nat], NEW T, Solves(T, f, S)
    PROVE  SumOf(f) = T[S] /\ SumOf(f) \in Nat
<1>1. Adder(f) \in [SUBSET S -> Nat] /\ Solves(Adder(f), f, S)
  BY AdderAdds
<1>2. \A s \in SUBSET S : T[s] = Adder(f)[s]
  BY <1>1, AdderUnique
<1>3. SumOf(f) = Adder(f)[S]
  BY SumIsAdder
<1> QED BY <1>1, <1>2, <1>3

\* One summand changes: so does the sum, by as much.
LEMMA SumMoves ==
    ASSUME NEW S, IsFiniteSet(S), NEW f \in [S -> Nat], NEW g \in [S -> Nat],
           NEW c \in S, \A d \in S \ {c} : g[d] = f[d]
    PROVE  SumOf(g) + f[c] = SumOf(f) + g[c]
<1> DEFINE A == Adder(f)
           T == [s \in SUBSET S |-> IF c \in s THEN A[s] - f[c] + g[c] ELSE A[s]]
<1>1. A \in [SUBSET S -> Nat] /\ Solves(A, f, S)
  BY AdderAdds
<1> HIDE DEF A
<1>2. ASSUME NEW s \in SUBSET S PROVE T[s] = Add(g, T, s)
  <2>1. A[s] = Add(f, A, s)
    BY <1>1 DEF Solves
  <2>2. CASE s = {}
    BY <2>1, <2>2 DEF Add
  <2>3. CASE s # {}
    <3> DEFINE x == AnyOf(s)
    <3>1. x \in s /\ s \ {x} \in SUBSET S
      BY <2>3, Fewer
    <3>2. A[s] = f[x] + A[s \ {x}]
      BY <2>1, <2>3 DEF Add
    <3>3. Add(g, T, s) = g[x] + T[s \ {x}]
      BY <2>3 DEF Add
    <3>4. /\ A[s] \in Nat /\ A[s \ {x}] \in Nat /\ x \in S
          /\ f[x] \in Nat /\ g[x] \in Nat /\ f[c] \in Nat /\ g[c] \in Nat
      BY <1>1, <3>1
    <3> HIDE DEF x
    <3>5. CASE x = c
      <4>1. T[s] = A[s] - f[c] + g[c] /\ T[s \ {x}] = A[s \ {x}]
        BY <3>1, <3>5
      <4> QED BY <3>2, <3>3, <3>4, <3>5, <4>1
    <3>6. CASE x # c
      <4>1. g[x] = f[x]
        BY <3>4, <3>6
      <4>2. CASE c \in s
        <5>1. T[s] = A[s] - f[c] + g[c] /\ T[s \ {x}] = A[s \ {x}] - f[c] + g[c]
          BY <3>1, <3>6, <4>2
        <5> QED BY <3>2, <3>3, <3>4, <4>1, <5>1
      <4>3. CASE c \notin s
        <5>1. T[s] = A[s] /\ T[s \ {x}] = A[s \ {x}]
          BY <3>1, <3>6, <4>3
        <5> QED BY <3>2, <3>3, <4>1, <5>1
      <4> QED BY <4>2, <4>3
    <3> QED BY <3>5, <3>6
  <2> QED BY <2>2, <2>3
<1>3. T[S] = A[S] - f[c] + g[c]
  OBVIOUS
<1> HIDE DEF T
<1>4. Solves(T, g, S)
  BY <1>2 DEF Solves
<1>5. SumOf(g) = T[S] /\ SumOf(f) = A[S]
  BY <1>1, <1>4, SumIs
<1> QED BY <1>1, <1>3, <1>5

\* The summands of R grow by one: the sum grows by their number.
LEMMA SumGrows ==
    ASSUME NEW S, IsFiniteSet(S), NEW f \in [S -> Nat], NEW g \in [S -> Nat],
           NEW R \in SUBSET S,
           \A d \in S : g[d] = IF d \in R THEN f[d] + 1 ELSE f[d]
    PROVE  SumOf(g) = SumOf(f) + Cardinality(R)
<1> DEFINE A == Adder(f)
           T == [s \in SUBSET S |-> A[s] + Cardinality(R \cap s)]
<1>1. A \in [SUBSET S -> Nat] /\ Solves(A, f, S)
  BY AdderAdds
<1> HIDE DEF A
<1>2. ASSUME NEW s \in SUBSET S PROVE T[s] = Add(g, T, s)
  <2>1. A[s] = Add(f, A, s)
    BY <1>1 DEF Solves
  <2>2. CASE s = {}
    <3>1. R \cap s = {} /\ Cardinality({}) = 0
      BY <2>2, FS_EmptySet
    <3> QED BY <2>1, <2>2, <3>1 DEF Add
  <2>3. CASE s # {}
    <3> DEFINE x == AnyOf(s)
    <3>1. x \in s /\ s \ {x} \in SUBSET S
      BY <2>3, Fewer
    <3>2. A[s] = f[x] + A[s \ {x}]
      BY <2>1, <2>3 DEF Add
    <3>3. Add(g, T, s) = g[x] + T[s \ {x}]
      BY <2>3 DEF Add
    <3> HIDE DEF x
    <3>4. IsFiniteSet(R \cap s)
      BY FS_Subset
    <3>5. /\ A[s] \in Nat /\ A[s \ {x}] \in Nat /\ x \in S /\ f[x] \in Nat
          /\ Cardinality(R \cap s) \in Nat
      BY <1>1, <3>1, <3>4, FS_CardinalityType
    <3>6. /\ T[s] = A[s] + Cardinality(R \cap s)
          /\ T[s \ {x}] = A[s \ {x}] + Cardinality(R \cap (s \ {x}))
      BY <3>1
    <3> HIDE DEF T
    <3>7. CASE x \in R
      <4>1. x \in R \cap s /\ R \cap (s \ {x}) = (R \cap s) \ {x}
        BY <3>1, <3>7
      <4>2. Cardinality((R \cap s) \ {x}) = Cardinality(R \cap s) - 1
        BY <3>4, <4>1, FS_RemoveElement, Zenon
      <4>4. Cardinality(R \cap (s \ {x})) = Cardinality(R \cap s) - 1
        BY <4>1, <4>2, Zenon
      <4>3. g[x] = f[x] + 1
        BY <3>5, <3>7
      <4> QED BY <3>2, <3>3, <3>5, <3>6, <4>3, <4>4
    <3>8. CASE x \notin R
      <4>1. R \cap (s \ {x}) = R \cap s
        BY <3>1, <3>8
      <4>2. g[x] = f[x]
        BY <3>5, <3>8
      <4>3. T[s \ {x}] = A[s \ {x}] + Cardinality(R \cap s)
        BY <3>6, <4>1, Zenon
      <4> QED BY <3>2, <3>3, <3>5, <3>6, <4>2, <4>3
    <3> QED BY <3>7, <3>8
  <2> QED BY <2>2, <2>3
<1>3. T[S] = A[S] + Cardinality(R)
  <2>1. R \cap S = R
    OBVIOUS
  <2> QED BY <2>1
<1> HIDE DEF T
<1>4. Solves(T, g, S)
  BY <1>2 DEF Solves
<1>5. SumOf(g) = T[S] /\ SumOf(f) = A[S]
  BY <1>1, <1>4, SumIs
<1> QED BY <1>3, <1>5
-----------------------------------------------------------------------------
(***************************************************************************)
(* The drops add up.                                                       *)
(***************************************************************************)
\* The two sides of DropsAddUp: what is being counted, what was refused.
Counting(j) == IF j.stage = "send" THEN j.missed ELSE 0
Pendings == [c \in Conns |-> Counting(job[c])]
Refused == [c \in Conns |-> Len(missed[c])]

\* A job counts its drops once it has tried its senders, not before.
Uncounted ==
    \A c \in Conns :
        /\ job[c].stage = "fan" => job[c].missed = 0
        /\ job[c].stage = "send" /\ job[c].to # {} => job[c].missed = 0

LEMMA CountType ==
    ASSUME Typed
    PROVE  Pendings \in [Conns -> Nat] /\ Refused \in [Conns -> Nat]
<1>1. \A c \in Conns : job[c].missed \in Nat
  BY JobFields DEF Typed, TasksTyped
<1>2. \A s \in Seq(Messages) : Len(s) \in Nat
  OBVIOUS
<1> QED BY <1>1, <1>2 DEF Pendings, Counting, Refused, Typed, QueuesTyped

LEMMA SumNat ==
    ASSUME NEW f \in [Conns -> Nat]
    PROVE  SumOf(f) \in Nat
<1>1. IsFiniteSet(Conns)
  BY ConnAssumption
<1>2. Solves(Adder(f), f, Conns)
  BY <1>1, AdderAdds
<1> QED BY <1>1, <1>2, SumIs

LEMMA SumTypes ==
    ASSUME NEW jobs \in [Conns -> Jobs], NEW drops \in [Conns -> Seq(Messages)]
    PROVE  /\ SumOf([c \in Conns |-> Counting(jobs[c])]) \in Nat
           /\ SumOf([c \in Conns |-> Len(drops[c])]) \in Nat
<1>1. \A c \in Conns : Counting(jobs[c]) \in Nat
  BY JobFields DEF Counting
<1>2. \A s \in Seq(Messages) : Len(s) \in Nat
  OBVIOUS
<1>3. [c \in Conns |-> Counting(jobs[c])] \in [Conns -> Nat]
  BY <1>1
<1>4. [c \in Conns |-> Len(drops[c])] \in [Conns -> Nat]
  BY <1>2
<1> QED BY <1>3, <1>4, SumNat

\* The job of c changes, and with it what is being counted.
LEMMA PendingMoves ==
    ASSUME Typed, job' \in [Conns -> Jobs], NEW c \in Conns,
           \A d \in Conns \ {c} : job'[d] = job[d]
    PROVE  SumOf(Pendings') + Counting(job[c]) = SumOf(Pendings) + Counting(job'[c])
<1>1. Pendings \in [Conns -> Nat]
  BY CountType
<1>2. Pendings' \in [Conns -> Nat]
  BY JobFields DEF Pendings, Counting
<1>3. \A d \in Conns \ {c} : Pendings'[d] = Pendings[d]
  BY DEF Pendings, Counting
<1>4. Pendings[c] = Counting(job[c]) /\ Pendings'[c] = Counting(job'[c])
  BY DEF Pendings, Counting
<1> DEFINE f == Pendings
           g == Pendings'
<1>5. SumOf(g) + f[c] = SumOf(f) + g[c]
  <2>1. f \in [Conns -> Nat] /\ g \in [Conns -> Nat]
    BY <1>1, <1>2
  <2>2. \A d \in Conns \ {c} : g[d] = f[d]
    BY <1>3
  <2>3. IsFiniteSet(Conns)
    BY ConnAssumption
  <2> HIDE DEF f, g
  <2> QED BY <2>1, <2>2, <2>3, SumMoves
<1> QED BY <1>4, <1>5

DropsInv == ReadersInv /\ Uncounted /\ DropsAddUp

\* What a fan-out leaves to be counted is what it was refused.
LEMMA FanCounts ==
    ASSUME Typed, NEW c \in Conns, Fan(c)
    PROVE  /\ job'[c].stage = "send" /\ job'[c].to = {}
           /\ SumOf(Refused') = SumOf(Refused) + job'[c].missed
           /\ UNCHANGED <<participants, backpressure_dropped_messages>>
<1> DEFINE refusing == {d \in job[c].to : ~Accepts(d)}
           m == job[c].msg
<1>1. /\ missed' = [d \in Conns |-> IF d \in refusing
                                    THEN Append(missed[d], m) ELSE missed[d]]
      /\ Start(c, [job[c] EXCEPT !.to = {}, !.missed = Cardinality(refusing)])
      /\ job[c].stage = "send"
      /\ UNCHANGED <<participants, backpressure_dropped_messages>>
  BY Zenon DEF Fan, roomVars
<1>2. job[c] \in Jobs /\ missed \in [Conns -> Seq(Messages)] /\ m \in Messages
  BY JobFields DEF Typed, TasksTyped, QueuesTyped
<1>3. refusing \in SUBSET Conns
  BY <1>2, JobFields
<1> HIDE DEF refusing, m
<1>4. job'[c] = [job[c] EXCEPT !.to = {}, !.missed = Cardinality(refusing)]
  BY <1>1 DEF Start, Typed, TasksTyped
<1>5. /\ job'[c].stage = "send" /\ job'[c].to = {}
      /\ job'[c].missed = Cardinality(refusing)
  BY <1>1, <1>2, <1>4 DEF Jobs
<1>6. ASSUME NEW d \in Conns
      PROVE  /\ Refused'[d] \in Nat
             /\ Refused'[d] = IF d \in refusing THEN Refused[d] + 1 ELSE Refused[d]
  <2>1. /\ missed[d] \in Seq(Messages) /\ Len(missed[d]) \in Nat
        /\ Len(Append(missed[d], m)) = Len(missed[d]) + 1
    BY <1>2, AppendElements
  <2>2. missed'[d] = IF d \in refusing THEN Append(missed[d], m) ELSE missed[d]
    BY <1>1
  <2>3. Refused'[d] = Len(missed'[d]) /\ Refused[d] = Len(missed[d])
    BY DEF Refused
  <2> QED BY <2>1, <2>2, <2>3
<1>7. Refused' \in [Conns -> Nat]
  BY <1>6 DEF Refused
<1> DEFINE f == Refused
           g == Refused'
<1>8. SumOf(g) = SumOf(f) + Cardinality(refusing)
  <2>1. f \in [Conns -> Nat] /\ g \in [Conns -> Nat]
    BY <1>7, CountType
  <2>2. \A d \in Conns : g[d] = IF d \in refusing THEN f[d] + 1 ELSE f[d]
    BY <1>6
  <2>3. IsFiniteSet(Conns)
    BY ConnAssumption
  <2> HIDE DEF f, g
  <2> QED BY <1>3, <2>1, <2>2, <2>3, SumGrows
<1> QED BY <1>1, <1>5, <1>8

\* The handlers that try no queue drop nothing.
LEMMA NothingRefused ==
    ASSUME NEW c \in Conns, HandlerStep(c), ~Fan(c)
    PROVE  UNCHANGED <<missed, participants>>
<1>1. ASSUME Count(c) PROVE UNCHANGED <<missed, participants>>
  BY <1>1 DEF Count
<1>2. ASSUME \/ Collect(c) \/ FanDone(c) \/ Notify(c) \/ Tell(c) \/ Shut(c)
      PROVE  UNCHANGED <<missed, participants>>
  BY <1>2 DEF Collect, FanDone, Notify, Tell, Shut, roomVars
<1> QED BY <1>1, <1>2 DEF HandlerStep

\* Each handler step moves as many drops out of what is being counted as it
\* adds to the counter.
LEMMA HandlerAddsUp ==
    ASSUME Typed, Uncounted, NEW c \in Conns, HandlerStep(c), participants # {}
    PROVE  /\ UNCHANGED participants
           /\ backpressure_dropped_messages' + Counting(job'[c]) + SumOf(Refused)
              = backpressure_dropped_messages + Counting(job[c]) + SumOf(Refused')
<1>1. job[c] \in Jobs /\ job'[c] \in Jobs
  BY HandlerJob DEF Typed, TasksTyped
<1>2. /\ Counting(job[c]) \in Nat /\ Counting(job'[c]) \in Nat
      /\ backpressure_dropped_messages \in Nat /\ SumOf(Refused) \in Nat
  BY <1>1, JobFields, CountType, SumNat DEF Counting, Typed, RoomTyped
<1>3. CASE Fan(c)
  <2>1. /\ job'[c].stage = "send" /\ UNCHANGED participants
        /\ UNCHANGED backpressure_dropped_messages
        /\ SumOf(Refused') = SumOf(Refused) + job'[c].missed
    BY <1>3, FanCounts
  <2>2. Counting(job[c]) = 0
    BY <1>3 DEF Fan, Uncounted, Counting
  <2>3. Counting(job'[c]) = job'[c].missed
    BY <2>1 DEF Counting
  <2> QED BY <1>2, <2>1, <2>2, <2>3
<1>4. CASE ~Fan(c)
  <2>1. UNCHANGED <<missed, participants>>
    BY <1>4, NothingRefused
  <2>2. SumOf(Refused') = SumOf(Refused)
    BY <2>1 DEF Refused
  <2>3. CASE Count(c)
    <3>1. backpressure_dropped_messages' = backpressure_dropped_messages + job[c].missed
      BY <2>3 DEF Count, Tally
    <3>2. Counting(job[c]) = job[c].missed /\ ~Collect(c)
      BY <2>3 DEF Count, Collect, Counting
    <3>3. Counting(job'[c]) = 0
      BY <1>4, <3>2, HandlerJob DEF Counting
    <3> QED BY <1>2, <2>1, <2>2, <3>1, <3>2, <3>3
  <2>4. CASE ~Count(c)
    <3>1. UNCHANGED backpressure_dropped_messages
      BY <2>4, RoomUntouched DEF roomVars
    <3>2. CASE Collect(c)
      <4>1. Start(c, [job[c] EXCEPT !.stage = "send", !.to = participants])
        BY <3>2 DEF Collect, Recipients
      <4>2. job'[c] = [job[c] EXCEPT !.stage = "send", !.to = participants]
        BY <4>1 DEF Start, Typed, TasksTyped
      <4>3. job'[c].stage = "send" /\ job'[c].missed = job[c].missed
        BY <1>1, <4>2 DEF Jobs
      <4>4. job[c].stage = "fan" /\ job[c].missed = 0
        BY <3>2 DEF Collect, Uncounted
      <4>5. Counting(job'[c]) = 0 /\ Counting(job[c]) = 0
        BY <4>3, <4>4 DEF Counting
      <4> QED BY <1>2, <2>1, <2>2, <3>1, <4>5
    <3>3. CASE ~Collect(c)
      <4>1. Counting(job'[c]) = 0
        BY <1>4, <3>3, HandlerJob DEF Counting
      <4>2. Counting(job[c]) = 0
        <5>1. CASE FanDone(c)
          BY <5>1 DEF FanDone, Counting
        <5>2. CASE Notify(c) \/ Tell(c) \/ Shut(c)
          BY <5>2 DEF Notify, Tell, Shut, Counting
        <5> QED BY <1>4, <2>4, <3>3, <5>1, <5>2 DEF HandlerStep
      <4> QED BY <1>2, <2>1, <2>2, <3>1, <4>1, <4>2
    <3> QED BY <3>2, <3>3
  <2> QED BY <2>3, <2>4
<1> QED BY <1>3, <1>4

\* What a job has not tried yet it does not count.
LEMMA UncountedNext ==
    ASSUME ReadersInv, Uncounted, Next
    PROVE  Uncounted'
<1> USE DEF ReadersInv
<1>1. PICK c \in Conns : NoBroadcast \/ HandlerStep(c) \/ Starts(c)
  BY JobSteps
<1>2. CASE NoBroadcast
  BY <1>2 DEF NoBroadcast, Uncounted
<1>3. CASE HandlerStep(c)
  <2>1. \A d \in Conns \ {c} : job'[d] = job[d]
    BY <1>3, HandlerJob
  <2>2. job[c] \in Jobs
    BY DEF Typed, TasksTyped
  <2>3. CASE Collect(c)
    <3>1. \/ Finish(c)
          \/ Start(c, [job[c] EXCEPT !.stage = "send", !.to = participants])
      BY <2>3 DEF Collect, Recipients
    <3>2. \/ job'[c] = Ended(c)
          \/ job'[c] = [job[c] EXCEPT !.stage = "send", !.to = participants]
      BY <3>1 DEF Finish, Start, Typed, TasksTyped
    <3>3. job[c].missed = 0
      BY <2>3 DEF Collect, Uncounted
    <3>4. job'[c].missed = 0
      BY <2>2, <3>2, <3>3, JobEnds DEF Jobs
    <3> QED BY <2>1, <3>4 DEF Uncounted
  <2>4. CASE Fan(c)
    BY <2>1, <2>4, FanCounts DEF Uncounted
  <2>5. CASE ~Collect(c) /\ ~Fan(c)
    BY <1>3, <2>1, <2>5, HandlerJob DEF Uncounted
  <2> QED BY <2>3, <2>4, <2>5
<1>4. CASE Starts(c)
  <2>1. ASSUME NEW m \in Messages, NEW S \in SUBSET Conns, Start(c, Fanout(m, S))
        PROVE  Uncounted'
    <3>1. job'[c] = Fanout(m, S) /\ \A d \in Conns \ {c} : job'[d] = job[d]
      BY <2>1, StartType, JobStarts
    <3>2. job'[c].missed = 0
      BY <3>1, JobStarts
    <3> QED BY <3>1, <3>2 DEF Uncounted
  <2>2. CASE UNCHANGED job
    BY <2>2 DEF Uncounted
  <2> QED BY <1>4, <2>1, <2>2, StartsEffect
<1> QED BY <1>1, <1>2, <1>3, <1>4

\* The property, in the terms of the lemmas.
LEMMA DropsSums ==
    DropsAddUp <=> (participants # {} =>
        backpressure_dropped_messages + SumOf(Pendings) = SumOf(Refused))
BY DEF DropsAddUp, Pendings, Counting, Refused

LEMMA DropsNext == DropsInv /\ [Next]_vars => DropsInv'
<1> SUFFICES ASSUME ReadersInv, Uncounted, DropsAddUp, [Next]_vars PROVE DropsInv'
  BY DEF DropsInv
<1>1. ReadersInv' /\ Typed
  BY ReadersNext DEF ReadersInv
<1>2. CASE Next
  <2>1. Uncounted'
    BY <1>2, UncountedNext
  <2>2. SUFFICES ASSUME participants' # {}
                 PROVE  backpressure_dropped_messages' + SumOf(Pendings') = SumOf(Refused')
    BY <1>1, <2>1 DEF DropsInv, DropsAddUp, Pendings, Counting, Refused
  <2>3. participants # {}
    BY <1>1, <1>2, <2>2, RoomNext
  <2>4. backpressure_dropped_messages + SumOf(Pendings) = SumOf(Refused)
    BY <2>3, DropsSums
  <2>5. /\ backpressure_dropped_messages \in Nat
        /\ SumOf(Pendings) \in Nat /\ SumOf(Refused) \in Nat
    BY <1>1, CountType, SumNat DEF Typed, RoomTyped
  <2>6. Typed'
    BY <1>1 DEF ReadersInv
  <2>7. /\ backpressure_dropped_messages' \in Nat /\ job' \in [Conns -> Jobs]
        /\ missed' \in [Conns -> Seq(Messages)]
    BY <2>6 DEF Typed, RoomTyped, TasksTyped, QueuesTyped
  <2> DEFINE P == SumOf(Pendings')
             R == SumOf(Refused')
  <2>12. P \in Nat /\ R \in Nat
    BY <2>7, SumTypes DEF Pendings, Refused
  <2>8. PICK c \in Conns : NoBroadcast \/ HandlerStep(c) \/ Starts(c)
    BY <1>2, JobSteps
  <2>9. CASE NoBroadcast
    <3>1. SumOf(Pendings') = SumOf(Pendings) /\ SumOf(Refused') = SumOf(Refused)
      BY <2>9 DEF NoBroadcast, Pendings, Refused, Counting
    <3> QED BY <2>4, <2>9, <3>1 DEF NoBroadcast
  <2>10. CASE HandlerStep(c)
    <3>1. backpressure_dropped_messages' + Counting(job'[c]) + SumOf(Refused)
          = backpressure_dropped_messages + Counting(job[c]) + SumOf(Refused')
      BY <1>1, <2>3, <2>10, HandlerAddsUp
    <3>2. SumOf(Pendings') + Counting(job[c]) = SumOf(Pendings) + Counting(job'[c])
      BY <1>1, <2>7, <2>10, HandlerJob, PendingMoves
    <3>3. Counting(job[c]) \in Nat /\ Counting(job'[c]) \in Nat
      BY <1>1, <2>7, JobFields DEF Counting, Typed, TasksTyped
    <3>4. \A b, bb, k, kk, r, rr, q, qq \in Nat :
              /\ bb + kk + r = b + k + rr
              /\ qq + k = q + kk
              /\ b + q = r
              => bb + qq = rr
      OBVIOUS
    <3> DEFINE b == backpressure_dropped_messages
               bb == backpressure_dropped_messages'
               k == Counting(job[c])
               kk == Counting(job'[c])
               q == SumOf(Pendings)
               r == SumOf(Refused)
    <3>6. /\ b \in Nat /\ bb \in Nat /\ k \in Nat /\ kk \in Nat
          /\ P \in Nat /\ q \in Nat /\ R \in Nat /\ r \in Nat
      BY <2>5, <2>7, <2>12, <3>3
    <3>7. bb + kk + r = b + k + R /\ P + k = q + kk /\ b + q = r
      BY <2>4, <3>1, <3>2
    <3> HIDE DEF P, R, b, bb, k, kk, q, r
    <3>5. bb + P = R
      BY <3>4, <3>6, <3>7
    <3> QED BY <3>5 DEF bb, P, R
  <2>11. CASE Starts(c)
    <3>1. /\ UNCHANGED <<missed, backpressure_dropped_messages>>
          /\ job[c] = Idle
      BY <1>1, <2>11, StartsEffect DEF ReadersInv
    <3>2. SumOf(Refused') = SumOf(Refused)
      BY <3>1 DEF Refused
    <3>3. /\ Counting(job'[c]) = 0 /\ \A d \in Conns \ {c} : job'[d] = job[d]
      <4>1. ASSUME NEW m \in Messages, NEW S \in SUBSET Conns, Start(c, Fanout(m, S))
            PROVE  /\ job'[c].stage = "fan"
                   /\ \A d \in Conns \ {c} : job'[d] = job[d]
        BY <1>1, <4>1, StartType, JobStarts
      <4>2. CASE UNCHANGED job
        BY <3>1, <4>2, JobStarts DEF Counting
      <4>3. CASE ~UNCHANGED job
        BY <1>1, <2>11, <4>1, <4>3, StartsEffect DEF Counting, ReadersInv
      <4> QED BY <4>2, <4>3
    <3>4. Counting(job[c]) = 0
      BY <3>1, JobStarts DEF Counting
    <3>5. SumOf(Pendings') + 0 = SumOf(Pendings) + 0
      BY <1>1, <2>7, <3>3, <3>4, PendingMoves
    <3> QED BY <2>4, <2>5, <2>12, <3>1, <3>2, <3>5
  <2> QED BY <2>8, <2>9, <2>10, <2>11
<1>3. CASE UNCHANGED vars
  <2>1. UNCHANGED <<participants, backpressure_dropped_messages, job, missed>>
    BY <1>3 DEF vars, roomVars, taskVars
  <2>2. Uncounted' /\ DropsAddUp'
    BY <2>1 DEF Uncounted, DropsAddUp
  <2> QED BY <1>1, <2>2 DEF DropsInv
<1> QED BY <1>2, <1>3

\* No drop is forgotten when several handlers count theirs: for any number of
\* them, what the notices report and what is being counted add up to every
\* message that a queue refused.
THEOREM DropsCounted == Spec => []DropsAddUp
<1>1. Init => DropsInv
  <2> SUFFICES ASSUME Init PROVE DropsInv
    OBVIOUS
  <2>1. ReadersInv /\ Typed
    BY ReadersInit DEF ReadersInv
  <2>2. Uncounted
    BY JobStarts DEF Init, Uncounted
  <2>3. Pendings = [c \in Conns |-> 0] /\ Refused = [c \in Conns |-> 0]
    BY JobStarts DEF Init, Pendings, Counting, Refused
  <2>4. SumOf(Pendings) = SumOf(Refused) /\ SumOf(Pendings) \in Nat
    BY <2>1, <2>3, CountType, SumNat
  <2>5. SumOf(Refused) = SumOf(Refused) + 0
    BY <2>4
  <2>6. backpressure_dropped_messages = 0
    BY DEF Init
  <2>7. DropsAddUp
    BY <2>4, <2>5, <2>6, DropsSums
  <2> QED BY <2>1, <2>2, <2>7 DEF DropsInv
<1>2. DropsInv => DropsAddUp
  BY DEF DropsInv
<1> QED BY <1>1, <1>2, DropsNext, PTL DEF Spec
-----------------------------------------------------------------------------
(***************************************************************************)
(* The safety half of CloseIsObeyed: no try_send, fan-out or drop of a     *)
(* writer takes a queued Close away from a connection that stays open.     *)
(***************************************************************************)
CloseOnlyObeyed ==
    \A c \in Conns :
        /\ Close \in Elements(queue[c])
        /\ Close \notin Elements(queue'[c])
        => link'[c] # "open"

LEMMA CloseStep ==
    ASSUME Typed, Departed, Paused, Next
    PROVE  CloseOnlyObeyed
<1> SUFFICES ASSUME NEW c \in Conns,
                    Close \in Elements(queue[c]), Close \notin Elements(queue'[c])
             PROVE  link'[c] # "open"
  BY DEF CloseOnlyObeyed
<1>1. PICK d \in Conns : \/ UNCHANGED <<queue, missed, got, link>>
                         \/ ClientCloses(d) \/ TriesToSend
                         \/ Fan(d) \/ Write(d) \/ WriteFails(d)
  BY QueueSteps
<1>2. CASE UNCHANGED <<queue, missed, got, link>> \/ ClientCloses(d)
  BY <1>2 DEF ClientCloses
<1>3. CASE TriesToSend
  <2>1. PICK e \in Conns : \E m \in {Error, Close} : try_send(e, m)
    BY <1>3 DEF TriesToSend
  <2>2. PICK m \in {Error, Close} : try_send(e, m)
    BY <2>1
  <2>3. m \in Messages
    BY MessageTypes
  <2> QED BY <2>2, <2>3, TrySendType
<1>4. CASE Fan(d)
  BY <1>4, FanEffect
<1>5. CASE Write(d)
  <2>1. /\ \A e \in Conns \ {d} : queue'[e] = queue[e]
        /\ Elements(queue[d]) = {Head(queue[d])} \cup Elements(queue'[d])
        /\ \A e \in Conns : link[e] # "open" => link'[e] = link[e]
    BY <1>5, WriteEffect
  <2>2. c = d /\ Head(queue[d]) = Close
    BY <2>1
  <2>3. link' = IF link[d] = "open" THEN [link EXCEPT ![d] = "hub closed"] ELSE link
    <3>1. link' = IF Head(queue[d]).kind = "close" /\ link[d] = "open"
                  THEN [link EXCEPT ![d] = "hub closed"] ELSE link
      BY <1>5 DEF Write
    <3>2. Close.kind = "close"
      BY DEF Close
    <3> QED BY <2>2, <3>1, <3>2
  <2> QED BY <2>1, <2>2, <2>3 DEF Typed, QueuesTyped
<1>6. CASE WriteFails(d)
  BY <1>6, WriteFailsEffect DEF Typed, QueuesTyped
<1> QED BY <1>1, <1>2, <1>3, <1>4, <1>5, <1>6

\* A Close that found its place in a queue leaves it only with a connection
\* that is closed on one side: the rest of CloseIsObeyed is that the tasks go
\* on, which TLC checks.
THEOREM CloseNeverLost == Spec => [][CloseOnlyObeyed]_vars
<1>1. ReadersInv /\ [Next]_vars => [CloseOnlyObeyed]_vars
  BY CloseStep DEF ReadersInv
<1> QED BY <1>1, ReadersInit, ReadersNext, PTL DEF Spec
-----------------------------------------------------------------------------
(***************************************************************************)
(* What HandlersNeverStall asks, without ENABLED: the guard of some step   *)
(* of the handler holds wherever the handler stands.                       *)
(***************************************************************************)
CanGoOn(c) ==
    \/ job[c].stage \in {"fan", "notify"}
    \/ job[c].stage = "send" /\ \A d \in job[c].to : CanTry(d)
    \/ job[c].stage \in {"tell", "shut"} /\ job[c].shut # {}

HandlersReady == \A c \in Conns : job[c] # Idle => CanGoOn(c)

\* A job that has nothing left to do is Idle, and one that is to close
\* connections has some to close.
Purposeful(j) ==
    /\ j.stage # "count"
    /\ j.stage = "idle" => j = Idle
    /\ j.stage \in {"tell", "shut"} => j.shut # {}

LEMMA FinishPurpose ==
    ASSUME Typed, NEW c \in Conns, Finish(c)
    PROVE  Purposeful(job'[c])
<1>1. job'[c] = Ended(c) /\ job[c] \in Jobs
  BY FinishEffect DEF Typed, TasksTyped
<1>2. CASE job[c].shut # {}
  <2>1. Ended(c) = [job[c] EXCEPT !.stage = "tell", !.to = {}, !.missed = 0]
    BY <1>2 DEF Ended
  <2>2. Ended(c).stage = "tell" /\ Ended(c).shut = job[c].shut
    BY <1>1, <2>1 DEF Jobs
  <2> QED BY <1>1, <1>2, <2>2 DEF Purposeful
<1>3. CASE job[c].shut = {}
  BY <1>1, <1>3, JobStarts DEF Ended, Purposeful
<1> QED BY <1>2, <1>3

LEMMA PurposeStep ==
    ASSUME Typed, Paused, Next, \A c \in Conns : Purposeful(job[c])
    PROVE  \A c \in Conns : Purposeful(job'[c])
<1>1. PICK c \in Conns : NoBroadcast \/ HandlerStep(c) \/ Starts(c)
  BY JobSteps
<1>2. CASE NoBroadcast
  BY <1>2 DEF NoBroadcast
<1>3. CASE HandlerStep(c)
  <2>1. /\ job[c] \in Jobs /\ Purposeful(job[c])
        /\ \A d \in Conns \ {c} : job'[d] = job[d]
    BY <1>3, HandlerJob DEF Typed, TasksTyped
  <2>2. ASSUME NEW j, Start(c, j) PROVE job'[c] = j
    BY <2>2 DEF Start, Typed, TasksTyped
  <2>3. CASE Finish(c)
    BY <2>1, <2>3, FinishPurpose
  <2>4. CASE \E to : Start(c, [job[c] EXCEPT !.stage = "send", !.to = to])
    BY <2>1, <2>2, <2>4 DEF Purposeful, Jobs
  <2>5. CASE \E n : /\ job[c].stage = "send"
                    /\ Start(c, [job[c] EXCEPT !.to = {}, !.missed = n])
    <3>1. PICK n : Start(c, [job[c] EXCEPT !.to = {}, !.missed = n])
      BY <2>5
    <3>2. job'[c] = [job[c] EXCEPT !.to = {}, !.missed = n]
      BY <2>2, <3>1
    <3>3. job'[c].stage = "send"
      BY <2>1, <2>5, <3>2 DEF Jobs
    <3> QED BY <2>1, <3>3 DEF Purposeful
  <2>6. CASE \E to : Start(c, [job[c] EXCEPT !.stage = "notify", !.to = to,
                                             !.missed = 0])
    BY <2>1, <2>2, <2>6 DEF Purposeful, Jobs
  <2>7. CASE Start(c, Idle)
    BY <2>1, <2>2, <2>7, JobStarts DEF Purposeful
  <2>8. CASE /\ job[c].stage = "tell"
             /\ Start(c, [job[c] EXCEPT !.stage = "shut"])
    BY <2>1, <2>2, <2>8 DEF Purposeful, Jobs
  <2> QED BY <1>3, <2>3, <2>4, <2>5, <2>6, <2>7, <2>8
          DEF HandlerStep, Collect, Fan, FanDone, Count, Notify, Tell, Shut
<1>4. CASE Starts(c)
  <2>1. CASE UNCHANGED job
    BY <2>1
  <2>2. CASE job' # job
    <3>1. PICK m \in Messages, S \in SUBSET Conns : Start(c, Fanout(m, S))
      BY <1>4, <2>2, StartsEffect
    <3>2. Fanout(m, S) \in Jobs /\ Fanout(m, S).stage = "fan"
      BY JobStarts
    <3> QED BY <3>1, <3>2, StartType DEF Purposeful
  <2> QED BY <2>1, <2>2
<1> QED BY <1>1, <1>2, <1>3, <1>4

\* A handler with something left to send can always go on, whatever clients
\* read, queues hold or writers have ended.
THEOREM HandlersGoOn == Spec => []HandlersReady
<1> DEFINE Inv == ReadersInv /\ \A c \in Conns : Purposeful(job[c])
<1>1. Init => Inv
  BY ReadersInit, JobStarts DEF Init, Purposeful
<1>2. Inv /\ [Next]_vars => Inv'
  <2>1. CASE Next
    BY <2>1, ReadersNext, PurposeStep DEF ReadersInv
  <2>2. CASE UNCHANGED vars
    BY <2>2, ReadersNext DEF vars, taskVars
  <2> QED BY <2>1, <2>2
<1>3. Inv => HandlersReady
  BY DEF ReadersInv, Typed, TasksTyped, Jobs, Purposeful, HandlersReady,
         CanGoOn, CanTry
<1> QED BY <1>1, <1>2, <1>3, PTL DEF Spec
=============================================================================
