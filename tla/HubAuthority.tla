---------------------------- MODULE HubAuthority ----------------------------
(***************************************************************************)
(* What the hub promises about who may moderate a transparent room, with   *)
(* no frames, tasks or waiting room, and without the co-host bindings the  *)
(* code keeps up to date by hand: authority belongs to participant ids,    *)
(* the host alone hands it out, and the connections that hold it follow    *)
(* from who has joined.                                                    *)
(***************************************************************************)
CONSTANTS Conns, Ids, None

VARIABLES
    seat,        \* the participant id of each joined connection, or None
    host,        \* the connection that holds the host role, joined or not
    owner,       \* the id the host role is reserved for
    cohosts,     \* the ids co-host roles are reserved for
    moderators   \* the joined connections that may moderate

vars == <<seat, host, owner, cohosts, moderators>>

Empty == [c \in Conns |-> None]
Seated(s) == {c \in Conns : s[c] # None}

\* Authority follows from the seats and the reservations, at every step.
PowersFollow ==
    moderators' = {c \in Seated(seat') : c = host' \/ seat'[c] \in cohosts'}

Init ==
    /\ seat = Empty
    /\ host = None /\ owner = None
    /\ cohosts = {}
    /\ moderators = {}

\* A newcomer takes an id nobody has.  It becomes host where there is none,
\* and where it is the one the role is reserved for.
Join(c) ==
    /\ seat[c] = None
    /\ \E p \in Ids :
           /\ seat' = [seat EXCEPT ![c] = p]
           /\ \A d \in Conns : seat[d] # p
           /\ IF host = None
              THEN host' = c /\ owner' = p
              ELSE host' = (IF p = owner THEN c ELSE host) /\ owner' = owner
    /\ cohosts' = cohosts

\* Somebody leaves; another connection succeeds a host, reservations stay.
Leave(c) ==
    /\ seat[c] # None
    /\ seat' = [seat EXCEPT ![c] = None]
    /\ IF host = c THEN host' \in Conns \ {c} ELSE host' = host
    /\ UNCHANGED <<owner, cohosts>>

\* A host that has not joined is gone, and is succeeded.
Succeed ==
    /\ host \in Conns /\ seat[host] = None
    /\ host' \in Conns \ {host}
    /\ UNCHANGED <<seat, owner, cohosts>>

\* A room nobody has joined and that has no host is claimed.
Claim ==
    /\ host = None /\ seat = Empty
    /\ host' \in Conns /\ owner' \in Ids
    /\ UNCHANGED <<seat, cohosts>>

\* The host hands its role on for good ...
Appoint ==
    /\ host \in Seated(seat)
    /\ host' \in Seated(seat) /\ owner' = seat[host']
    /\ UNCHANGED <<seat, cohosts>>

\* ... or makes a co-host of another who has joined, or dismisses one.
Reserve ==
    /\ host \in Seated(seat)
    /\ \E t \in Seated(seat) :
           \/ t # host /\ cohosts' = cohosts \cup {seat[t]}
           \/ cohosts' = cohosts \ {seat[t]}
    /\ UNCHANGED <<seat, host, owner>>

\* The last participant leaves: the room is forgotten.
Dissolve ==
    /\ host' = None /\ owner' = None
    /\ cohosts' = {}
    /\ seat' = Empty
    /\ \E c \in Conns : Seated(seat) \subseteq {c}

Move ==
    \/ Succeed \/ Claim \/ Appoint \/ Reserve \/ Dissolve
    \/ \E c \in Conns : Join(c) \/ Leave(c)

Next == Move /\ PowersFollow

Spec == Init /\ [][Next]_vars
=============================================================================
