----------------------------- MODULE IngestLedger -----------------------------
(***************************************************************************)
(* What `reconcile ingest` promises about one file of one source, whoever  *)
(* ingests it and however often it is tried: somebody claims the file, its *)
(* rows come in whole inserts and in file order, then its rejected rows    *)
(* all at once, then it is ingested, and nothing about it changes again.   *)
(* A claim may be left unfinished for ever.                                *)
(***************************************************************************)
EXTENDS Integers, Sequences

CONSTANTS
  Files,        \* pairs of a source and what a file holds
  Accepted(_),  \* the rows of a file that are stored, in file order
  Rejected(_),  \* those recorded as errors
  BatchSize     \* the most rows one insert brings

VARIABLE ledger  \* an entry for every file claimed

Init == ledger = [f \in {} |-> {}]

Claimed == DOMAIN ledger

Put(f, entry) ==
  ledger' = [g \in Claimed \union {f} |-> IF g = f THEN entry ELSE ledger[g]]

Claim(f) ==
  /\ f \notin Claimed
  /\ Put(f, [rows |-> <<>>, errors |-> <<>>, ingested |-> FALSE])

Open(f) == ~ledger[f].ingested

InsertRows(f) ==
  LET n == Len(ledger[f].rows)
      all == Len(Accepted(f))
  IN /\ Open(f) /\ n < all /\ ledger[f].errors = <<>>
     /\ Put(f, [ledger[f] EXCEPT !.rows =
                  SubSeq(Accepted(f), 1, IF n + BatchSize < all THEN n + BatchSize ELSE all)])

RecordErrors(f) ==
  /\ Open(f) /\ ledger[f].rows = Accepted(f) /\ ledger[f].errors = <<>>
  /\ Put(f, [ledger[f] EXCEPT !.errors = Rejected(f)])

Finish(f) ==
  /\ Open(f) /\ ledger[f].rows = Accepted(f) /\ ledger[f].errors = Rejected(f)
  /\ Put(f, [ledger[f] EXCEPT !.ingested = TRUE])

Next ==
  \/ \E f \in Claimed : InsertRows(f) \/ RecordErrors(f) \/ Finish(f)
  \/ \E f \in Files : Claim(f)

Spec == Init /\ [][Next]_ledger
=============================================================================
