------------------------------ MODULE MCBuffer ------------------------------
(* A small vector, and strings that do and do not fit into it. *)
EXTENDS Buffer
=============================================================================
