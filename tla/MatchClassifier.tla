--------------------------- MODULE MatchClassifier ---------------------------
(***************************************************************************)
(* reconciliation/match_classifier.py: the key under which records are     *)
(* paired and the result a record or a pair of records gets.  The three    *)
(* reconcilers share it.                                                   *)
(*                                                                         *)
(* A text is the sequence of its character codes, because the composite    *)
(* key joins three texts with a character that one of them may hold.       *)
(* mismatch_details is abstracted to the set of statements it makes.       *)
(*                                                                         *)
(* A definition whose comment says "Fault:" is not part of the model, see  *)
(* Ingestion.                                                              *)
(***************************************************************************)
EXTENDS Integers, Sequences, Functions

CONSTANTS
  Strategy,       \* MatchingConfig.strategy
  Tolerance,      \* MatchingConfig.amount_tolerance_cents
  InternalLists,  \* what find_all(INTERNAL) may return, and with it the
  ExternalLists,  \* argument internal_transactions; the same for EXTERNAL
  None

MatchingStrategy == {"EXACT_ID", "COMPOSITE_KEY"}

SourceSystem == {"INTERNAL", "EXTERNAL"}

Text == Seq(Nat)

\* Transactions read back from the database: RowValidator lets no negative
\* amount in.  The date stands for its to_string(), which is injective.
Transaction ==
  [db_id : Nat, source : SourceSystem, transaction_id : Text, invoice_number : Text,
   vendor_id : Text, transaction_date : Text, amount : Nat, tax_amount : Nat,
   currency : {"INR", "USD", "EUR", "GBP"}]

\* find_all selects the rows of one table: no row comes twice.
ListsOf(source) ==
  {s \in Seq(Transaction) :
     /\ \A k \in DOMAIN s : s[k].source = source
     /\ \A k, l \in DOMAIN s : s[k].db_id = s[l].db_id => k = l}

ASSUME MatchingAssumption ==
  /\ Strategy \in MatchingStrategy
  /\ Tolerance \in Nat
  /\ None \notin Transaction

ASSUME ListsAssumption ==
  /\ \A s \in InternalLists : s \in ListsOf("INTERNAL")
  /\ \A s \in ExternalLists : s \in ListsOf("EXTERNAL")

Status ==
  {"MATCHED", "AMOUNT_MISMATCH", "TAX_MISMATCH", "DATE_MISMATCH", "VENDOR_MISMATCH",
   "MISSING_INTERNAL", "MISSING_EXTERNAL", "DUPLICATE", "MULTIPLE_MISMATCHES"}

Detail ==
  {"amount differs", "tax differs", "date differs", "vendor differs",
   "present in internal source only", "present in external source only",
   "duplicate key within internal source", "duplicate key within external source"}

ReconciliationResult ==
  [transaction_id : Text, internal_transaction : Transaction \union {None},
   external_transaction : Transaction \union {None}, status : Status,
   amount_difference_cents : Nat, tax_difference_cents : Nat,
   mismatch_details : SUBSET Detail]

Pipe == 124

\* Fault: the texts are joined without a delimiter (PairsAgree).
KeyWithoutDelimiter(t) ==
  IF Strategy = "EXACT_ID"
  THEN t.transaction_id
  ELSE t.vendor_id \o t.invoice_number \o t.transaction_date

BuildKey(t) ==
  IF Strategy = "EXACT_ID"
  THEN t.transaction_id
  ELSE t.vendor_id \o <<Pipe>> \o t.invoice_number \o <<Pipe>> \o t.transaction_date

AbsDifference(a, b) == IF a < b THEN b - a ELSE a - b

\* The mismatches of a pair: the flags of classify_match, as the set of those
\* that are raised.
Mismatches(i, e) ==
  {d \in {"amount differs", "tax differs", "date differs", "vendor differs"} :
     \/ d = "amount differs" /\ AbsDifference(i.amount, e.amount) > Tolerance
     \/ d = "tax differs" /\ AbsDifference(i.tax_amount, e.tax_amount) > Tolerance
     \/ d = "date differs" /\ i.transaction_date # e.transaction_date
     \/ d = "vendor differs" /\ i.vendor_id # e.vendor_id}

StatusOf(mismatches) ==
  CASE mismatches = {} -> "MATCHED"
    [] mismatches = {"amount differs"} -> "AMOUNT_MISMATCH"
    [] mismatches = {"tax differs"} -> "TAX_MISMATCH"
    [] mismatches = {"date differs"} -> "DATE_MISMATCH"
    [] mismatches = {"vendor differs"} -> "VENDOR_MISMATCH"
    [] OTHER -> "MULTIPLE_MISMATCHES"

\* Fault: the differences keep their sign (AllTypesOK).
ClassifySigned(i, e) ==
  [transaction_id |-> i.transaction_id, internal_transaction |-> i,
   external_transaction |-> e, status |-> StatusOf(Mismatches(i, e)),
   amount_difference_cents |-> i.amount - e.amount,
   tax_difference_cents |-> i.tax_amount - e.tax_amount,
   mismatch_details |-> Mismatches(i, e)]

ClassifyMatch(i, e) ==
  [transaction_id |-> i.transaction_id, internal_transaction |-> i,
   external_transaction |-> e, status |-> StatusOf(Mismatches(i, e)),
   amount_difference_cents |-> AbsDifference(i.amount, e.amount),
   tax_difference_cents |-> AbsDifference(i.tax_amount, e.tax_amount),
   mismatch_details |-> Mismatches(i, e)]

MissingExternal(i) ==
  [transaction_id |-> i.transaction_id, internal_transaction |-> i,
   external_transaction |-> None, status |-> "MISSING_EXTERNAL",
   amount_difference_cents |-> i.amount, tax_difference_cents |-> 0,
   mismatch_details |-> {"present in internal source only"}]

MissingInternal(e) ==
  [transaction_id |-> e.transaction_id, internal_transaction |-> None,
   external_transaction |-> e, status |-> "MISSING_INTERNAL",
   amount_difference_cents |-> e.amount, tax_difference_cents |-> 0,
   mismatch_details |-> {"present in external source only"}]

Duplicate(t) ==
  [transaction_id |-> t.transaction_id,
   internal_transaction |-> IF t.source = "INTERNAL" THEN t ELSE None,
   external_transaction |-> IF t.source = "INTERNAL" THEN None ELSE t,
   status |-> "DUPLICATE", amount_difference_cents |-> 0, tax_difference_cents |-> 0,
   mismatch_details |-> {IF t.source = "INTERNAL"
                         THEN "duplicate key within internal source"
                         ELSE "duplicate key within external source"}]

\* What a reconciler appends for every record of a group it reports as
\* duplicate.
Duplicates(group) == [k \in DOMAIN group |-> Duplicate(group[k])]

-----------------------------------------------------------------------------
(* The policy the reconcilers implement, record by record. *)

\* The records of S that have t's key.
Peers(t, S) == {u \in S : BuildKey(u) = BuildKey(t)}

\* A key is ambiguous once either source holds it twice.
Ambiguous(t, I, E) ==
  \/ \E u, v \in Peers(t, I) : u # v
  \/ \E u, v \in Peers(t, E) : u # v

OneOf(S) == CHOOSE x \in S : TRUE

\* The result in which record t has to appear, I and E being the records of
\* the two sources.
Verdict(t, I, E) ==
  IF Ambiguous(t, I, E) THEN Duplicate(t)
  ELSE IF Peers(t, E) = {} THEN MissingExternal(t)
  ELSE IF Peers(t, I) = {} THEN MissingInternal(t)
  ELSE ClassifyMatch(OneOf(Peers(t, I)), OneOf(Peers(t, E)))

Expected(I, E) == {Verdict(t, I, E) : t \in I \union E}

\* The three texts of the composite key hold no delimiter.
DelimiterFree(t) ==
  \A text \in {t.vendor_id, t.invoice_number, t.transaction_date} : Pipe \notin Range(text)

\* Result r tells about record t.
Tells(r, t) == t \in {r.internal_transaction, r.external_transaction}

\* Every record appears in exactly one result, and every result tells about
\* a record: nothing is dropped, repeated or invented.
ReportsOnce(results, I, E) ==
  /\ \A t \in I \union E :
       \E k \in DOMAIN results : \A l \in DOMAIN results : Tells(results[l], t) <=> l = k
  /\ \A k \in DOMAIN results : \E t \in I \union E : Tells(results[k], t)
=============================================================================
