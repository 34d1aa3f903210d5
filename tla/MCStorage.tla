------------------------------ MODULE MCStorage ------------------------------
(* A small instance of Storage. *)
EXTENDS Storage
=============================================================================
