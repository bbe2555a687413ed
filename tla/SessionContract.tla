--------------------------- MODULE SessionContract --------------------------
(***************************************************************************)
(* What the native client promises about reconnection, without the session *)
(* state: it retries at most MaxTries times before it moves to the web,    *)
(* every retry waits for its timer, a session that was hung up stays so    *)
(* until it is started again, and the web is left by recovery only.        *)
(***************************************************************************)
EXTENDS Naturals

CONSTANT MaxTries

VARIABLES
    mode,    \* "idle", "trying", "waiting", "asleep", "hungUp" or "web"
    tries    \* retries since the last start

vars == <<mode, tries>>

Init == mode = "idle" /\ tries = 0

\* The user connects, or the transport does; the web stays the web.
Start ==
    /\ mode # "asleep"
    /\ mode' = IF mode = "web" THEN "web" ELSE "trying"
    /\ tries' = 0

\* The timer is due, the network or the application is back.
Retry ==
    /\ mode \in {"idle", "trying", "waiting", "asleep"}
    /\ mode' = "trying"
    /\ UNCHANGED tries

Fail ==
    /\ mode \in {"idle", "trying"}
    /\ IF tries < MaxTries
       THEN mode' = "waiting" /\ tries' = tries + 1
       ELSE mode' = "web" /\ UNCHANGED tries

Sleep ==
    /\ mode \in {"idle", "trying", "waiting"}
    /\ mode' = "asleep"
    /\ UNCHANGED tries

HangUp ==
    /\ mode # "web"
    /\ mode' = "hungUp"
    /\ UNCHANGED tries

\* A policy is violated and the configuration prefers the web.
GoWeb ==
    /\ mode' = "web"
    /\ UNCHANGED tries

Recover ==
    /\ mode' \in {"trying", "asleep"}
    /\ tries' = 0

Next ==
    Start \/ Retry \/ Fail \/ Sleep \/ HangUp \/ GoWeb \/ Recover

Spec == Init /\ [][Next]_vars
=============================================================================
