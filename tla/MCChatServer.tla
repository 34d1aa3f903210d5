----------------------------- MODULE MCChatServer -----------------------------
(* Three connections: two share a loop, the third has another. *)
EXTENDS ChatServer, TLC

CONSTANTS c1, c2, c3, l1, l2

TwoLoops == (c1 :> l1) @@ (c2 :> l1) @@ (c3 :> l2)
=============================================================================
