-------------------------- MODULE MCClientConnection --------------------------
(* A small instance of ClientConnection: the cfg file chooses the bounds.    *)
EXTENDS ClientConnection
=============================================================================
