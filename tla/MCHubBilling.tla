---------------------------- MODULE MCHubBilling ----------------------------
(***************************************************************************)
(* Instances of HubBilling for TLC.                                        *)
(***************************************************************************)
EXTENDS HubBilling

CONSTANTS alice, bob, h1, k1

\* Transparent and anonymous clients that pay or prove, or do not, under a
\* host who changes the rate.
BillingFrames ==
    [kind : {"Hello"}, pid : {alice}]
    \cup [kind : {"AnonHello"}, handle : {h1}, key : {k1}]
    \cup [kind : {"RoomConfigUpdate"}, max_screen_shares : {1}, rate : {0}]
    \cup [kind : {"Payment"}, amount : {4}, hashed : {TRUE}]
    \cup [kind : {"EscrowProof"}, handle : {h1}, escrow : {1, 2}]
=============================================================================
