---------------------------- MODULE MCServerLoops ----------------------------
(* A small instance of LightServer with its loops.                           *)
EXTENDS ServerLoops, TLC

\* The clients are interchangeable in the safety properties.
Symmetry == Permutations(Clients)
=============================================================================
