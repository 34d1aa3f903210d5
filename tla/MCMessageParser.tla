--------------------------- MODULE MCMessageParser ---------------------------
(* One client, with all the commands it may send. *)
EXTENDS MessageParser
=============================================================================
