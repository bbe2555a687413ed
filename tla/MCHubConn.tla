----------------------------- MODULE MCHubConn ------------------------------
(***************************************************************************)
(* Instances of HubConn for TLC: a host 1 and a participant 2, or a 2 that *)
(* still waits, with a header of two bits.                                 *)
(***************************************************************************)
EXTENDS HubConn, TLC

MCPayload == (Presence :> <<1>>) @@ (Kick(2) :> <<0>>) @@ (Deny(2) :> <<0, 1>>)

\* The participant's two frames may be cut and glued, or it sends garbage.
MCScripts ==
    (1 :> {<<Presence>>, <<Kick(2)>>, <<Deny(2)>>})
    @@ (2 :> {<<Zero, Presence>>, <<Garbage>>})

\* Two participants announce themselves at once.
HelloScripts == [c \in Conns |-> {<<Presence>>}]
=============================================================================
