----------------------------- MODULE MCServerEnd -----------------------------
(* Small instances of ServerEnd for TLC: the cfg file chooses the bounds. *)
EXTENDS ServerEnd
=============================================================================
