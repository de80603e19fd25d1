------------------------------- MODULE SqlJoin -------------------------------
(***************************************************************************)
(* sql/sample_queries.sql, queries 1 and 3: reconciliation "by letting the *)
(* database do it", with a FULL OUTER JOIN on transaction_id and a CASE    *)
(* expression, and the query that finds repeated external transaction ids. *)
(***************************************************************************)
EXTENDS Integers, FiniteSets

CONSTANT None  \* NULL

\* Fault: a LEFT JOIN, which has no rows for external records alone
\* (JoinIsExactOnUniqueKeys).
LeftJoined(I, E) ==
  {p \in I \X E : p[1].transaction_id = p[2].transaction_id}
    \union {<<i, None>> : i \in {i \in I : \A e \in E : i.transaction_id # e.transaction_id}}

\* FROM internal_transactions i FULL OUTER JOIN external_transactions e
Joined(I, E) ==
  {p \in I \X E : p[1].transaction_id = p[2].transaction_id}
    \union {<<i, None>> : i \in {i \in I : \A e \in E : i.transaction_id # e.transaction_id}}
    \union {<<None, e>> : e \in {e \in E : \A i \in I : i.transaction_id # e.transaction_id}}

\* The CASE expression: the first condition that holds decides.
StatusOf(p) ==
  IF p[1] = None THEN "MISSING_INTERNAL"
  ELSE IF p[2] = None THEN "MISSING_EXTERNAL"
  ELSE IF p[1].amount # p[2].amount THEN "AMOUNT_MISMATCH"
  ELSE IF p[1].tax_amount # p[2].tax_amount THEN "TAX_MISMATCH"
  ELSE IF p[1].transaction_date # p[2].transaction_date THEN "DATE_MISMATCH"
  ELSE IF p[1].vendor_id # p[2].vendor_id THEN "VENDOR_MISMATCH"
  ELSE "MATCHED"

\* FROM external_transactions GROUP BY transaction_id HAVING COUNT(*) > 1: no
\* query looks for repetitions in internal_transactions.
RepeatedIds(E) ==
  {id \in {e.transaction_id : e \in E} : Cardinality({e \in E : e.transaction_id = id}) > 1}
=============================================================================
