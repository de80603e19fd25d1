----------------------------- MODULE MatchInputs -----------------------------
(***************************************************************************)
(* Small lists of transactions for TLC: every list up to a length over a   *)
(* few kinds of records, each in both sources.  Texts are character codes: *)
(* 65 is "A", 124 is "|".                                                  *)
(***************************************************************************)
EXTENDS MatchClassifier

Base ==
  [db_id |-> 0, source |-> "INTERNAL", transaction_id |-> <<65>>,
   invoice_number |-> <<49>>, vendor_id |-> <<86>>, transaction_date |-> <<50>>,
   amount |-> 10, tax_amount |-> 2, currency |-> "INR"]

\* The lists of at most n records of these kinds that a source may hold; the
\* ids are those of freshly inserted rows.
ListsOver(kinds, n, src) ==
  UNION {{[k \in 1..m |-> [s[k] EXCEPT !.db_id = k, !.source = src]] : s \in [1..m -> kinds]} :
         m \in 0..n}

\* Amounts and taxes below, at and above the tolerance of 1; two ids, one a
\* prefix of the other; composite keys that differ in one text, and texts that
\* only the delimiter tells apart.
Kinds ==
  {Base,
   [Base EXCEPT !.transaction_id = <<65, 66>>, !.amount = 11],
   [Base EXCEPT !.amount = 12, !.tax_amount = 4],
   [Base EXCEPT !.tax_amount = 4],
   [Base EXCEPT !.transaction_date = <<51>>],
   [Base EXCEPT !.vendor_id = <<86, 49>>],
   [Base EXCEPT !.transaction_id = <<65, 66>>, !.invoice_number = <<49, 49>>]}

FewKinds == {Base, [Base EXCEPT !.transaction_date = <<51>>]}

\* A delimiter inside the texts of the key.
PipeKinds ==
  {[Base EXCEPT !.vendor_id = <<86, Pipe, 49>>, !.invoice_number = <<49>>],
   [Base EXCEPT !.vendor_id = <<86>>, !.invoice_number = <<49, Pipe, 49>>]}

SmallInternal == ListsOver(Kinds, 2, "INTERNAL") \union ListsOver(FewKinds, 3, "INTERNAL")
SmallExternal == ListsOver(Kinds, 2, "EXTERNAL") \union ListsOver(FewKinds, 3, "EXTERNAL")
PipeInternal == ListsOver(PipeKinds, 1, "INTERNAL")
PipeExternal == ListsOver(PipeKinds, 1, "EXTERNAL")
=============================================================================
