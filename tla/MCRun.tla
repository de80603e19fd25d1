------------------------------- MODULE MCRun -------------------------------
(***************************************************************************)
(* Small instances of ReconciliationRun for TLC: two runs, and ingests     *)
(* that commit to both sources, to one of them out of the order of the     *)
(* ids, while the runs go on.                                              *)
(***************************************************************************)
EXTENDS ReconciliationRun, TLC

CONSTANTS p1, p2

Row1 ==
  [db_id |-> 0, source |-> "INTERNAL", transaction_id |-> <<65>>,
   invoice_number |-> <<49>>, vendor_id |-> <<86>>, transaction_date |-> <<50>>,
   amount |-> 10, tax_amount |-> 2, currency |-> "INR"]

Row2 == [Row1 EXCEPT !.transaction_id = <<66>>, !.invoice_number = <<50>>]
Row3 == [Row1 EXCEPT !.amount = 12]
Row4 == [Row2 EXCEPT !.transaction_id = <<67>>]

\* By id: one amount mismatch, one duplicate, one external record alone.  By
\* composite key: one match within the tolerance, one key that the internal
\* source repeats, the external one does not.
SourceBatches ==
  [s \in C!SourceSystem |->
     IF s = "INTERNAL" THEN {<<Row1>>, <<Row1, Row2>>} ELSE {<<Row3, Row4>>}]

Hash == [algorithm |-> "hash", strategy |-> "exact_id", tolerance_cents |-> 0]
Composite == [algorithm |-> "two_pointer", strategy |-> "composite_key", tolerance_cents |-> 2]
Misspelt == [algorithm |-> "brute_force", strategy |-> "unknown", tolerance_cents |-> 1]
Negative == [Hash EXCEPT !.tolerance_cents = -1]
NoAlgorithm == [Hash EXCEPT !.algorithm = "unknown"]

CommandLinesUsed == {Composite, Misspelt, Negative, NoAlgorithm}
OneCommandLine == {Hash}

Symmetry == Permutations(Runners)
=============================================================================
