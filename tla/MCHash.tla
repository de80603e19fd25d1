-------------------------------- MODULE MCHash --------------------------------
(* Small instances of HashReconciler for TLC. *)
EXTENDS HashReconciler, MatchInputs
=============================================================================
