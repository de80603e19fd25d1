----------------------------- MODULE MCIngestion -----------------------------
(***************************************************************************)
(* Small instances of Ingestion for TLC.  The contents are chosen for what *)
(* their lines do to a batch of two: a partial last batch, an exact        *)
(* multiple, a rejected row between two flushes, a failure in the second   *)
(* insert, after the first one is committed.                               *)
(***************************************************************************)
EXTENDS Ingestion, TLC

CONSTANTS p1, p2

\* A CSV file's lines by the name of its contents; the header comes first.
FileLines ==
  [ empty       |-> <<>>,
    header_only |-> <<"blank">>,
    one         |-> <<"valid", "valid">>,
    exact       |-> <<"valid", "valid", "blank", "rejected", "valid", "blank">>,
    partial     |-> <<"valid", "rejected", "valid", "valid", "blank", "rejected", "valid">>,
    bad_date    |-> <<"valid", "valid", "valid", "raising", "valid">>,
    too_big     |-> <<"valid", "valid", "valid", "valid", "unstorable">>,
    too_big_2   |-> <<"valid", "valid", "unstorable", "valid", "valid">>,
    nul         |-> <<"valid", "rejected", "unloggable", "valid">>,
    rejects     |-> <<"valid", "rejected", "rejected", "rejected", "valid">> ]

MCLines == [c \in Contents |-> FileLines[c]]

Symmetry == Permutations(Invocations)
=============================================================================
