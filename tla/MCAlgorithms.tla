----------------------------- MODULE MCAlgorithms -----------------------------
(* Small instances of Algorithms for TLC. *)
EXTENDS Algorithms, MatchInputs
=============================================================================
