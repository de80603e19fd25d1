----------------------------- MODULE MCRetention -----------------------------
(* A small instance of Retention for TLC: a pair and a lone record. *)
EXTENDS Retention

MCFiles ==
  {[source |-> "INTERNAL", key |-> "A"], [source |-> "EXTERNAL", key |-> "A"],
   [source |-> "EXTERNAL", key |-> "B"]}
=============================================================================
