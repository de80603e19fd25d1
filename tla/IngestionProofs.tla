-------------------------- MODULE IngestionProofs --------------------------
(***************************************************************************)
(* Proofs about Ingestion, for any number of concurrent commands, any      *)
(* files, any batch size and any crash.                                    *)
(***************************************************************************)
EXTENDS Ingestion, SequenceTheorems, TLAPS

-----------------------------------------------------------------------------
(* Rows in file order. *)

LEMMA ListsEmpty == Lists(<<>>, {})
  BY DEF Lists, Ascending, Range

\* Appending the next row extends the list.
LEMMA ListsAppend ==
  ASSUME NEW s \in Seq(Nat), NEW S, NEW x \in Nat, Lists(s, S), \A y \in S : y < x
  PROVE  Lists(Append(s, x), S \union {x})
<1> DEFINE t == Append(s, x)
<1>1. /\ t \in Seq(Nat) /\ Len(t) = Len(s) + 1 /\ Len(s) \in Nat
      /\ \A i \in 1..Len(s) : t[i] = s[i] /\ s[i] \in S
      /\ t[Len(s) + 1] = x
      /\ DOMAIN t = 1..(Len(s) + 1) /\ DOMAIN s = 1..Len(s)
  BY DEF Lists, Range
<1> HIDE DEF t
<1>2. Range(t) = S \union {x}
  <2>1. \A y \in Range(t) : y \in S \union {x}
    BY <1>1 DEF Range
  <2>2. \A y \in S : y \in Range(t)
    BY <1>1 DEF Range, Lists
  <2>3. x \in Range(t)
    BY <1>1 DEF Range
  <2> QED BY <2>1, <2>2, <2>3
<1>3. Ascending(t)
  <2> SUFFICES ASSUME NEW i \in 1..(Len(s) + 1), NEW j \in 1..(Len(s) + 1), i < j
               PROVE  t[i] < t[j]
    BY <1>1 DEF Ascending
  <2>1. CASE j = Len(s) + 1
    BY <1>1, <2>1
  <2>2. CASE j # Len(s) + 1
    <3>1. i \in 1..Len(s) /\ j \in 1..Len(s)
      <4>1. Len(s) \in Nat
        BY <1>1
      <4> QED BY <4>1, <2>2
    <3>2. s[i] < s[j]
      BY <1>1, <3>1 DEF Lists, Ascending
    <3>3. t[i] = s[i] /\ t[j] = s[j] /\ s[i] \in Nat /\ s[j] \in Nat
      BY <1>1, <3>1, ElementOfSeq
    <3> QED BY <3>2, <3>3
  <2> QED BY <2>1, <2>2
<1> QED BY <1>2, <1>3 DEF Lists, t

-----------------------------------------------------------------------------
(* Types. *)

\* AddRows appends to one batch's rows and leaves every other batch alone.
LEMMA AddRowsProperties ==
  ASSUME NEW table \in Seq(Seq(Nat)), NEW b \in 1..Len(table), NEW rows \in Seq(Nat)
  PROVE  /\ AddRows(table, b, rows) \in Seq(Seq(Nat))
         /\ Len(AddRows(table, b, rows)) = Len(table)
         /\ AddRows(table, b, rows)[b] = table[b] \o rows
         /\ \A a \in 1..Len(table) : a # b => AddRows(table, b, rows)[a] = table[a]
<1>1. table[b] \in Seq(Nat)
  BY ElementOfSeq
<1>2. table[b] \o rows \in Seq(Nat)
  BY <1>1, ConcatProperties
<1> QED BY <1>2, ExceptSeq DEF AddRows

\* What counting a row does to the summary.
LEMMA CountValidProperties ==
  ASSUME NEW s \in IngestionSummary
  PROVE  /\ CountValid(s) \in IngestionSummary
         /\ CountValid(s).rows_read = s.rows_read + 1
         /\ CountValid(s).rows_valid = s.rows_valid + 1
         /\ CountValid(s).rows_failed = s.rows_failed
         /\ CountValid(s).errors = s.errors
<1>1. s.rows_read + 1 \in Nat /\ s.rows_valid + 1 \in Nat
  BY DEF IngestionSummary
<1>2. CountValid(s) \in IngestionSummary
  BY <1>1 DEF CountValid, IngestionSummary
<1>3. CountValid(s).rows_read = s.rows_read + 1
  BY DEF CountValid, IngestionSummary
<1>4. CountValid(s).rows_valid = s.rows_valid + 1
  BY DEF CountValid, IngestionSummary
<1>5. CountValid(s).rows_failed = s.rows_failed
  BY DEF CountValid, IngestionSummary
<1>6. CountValid(s).errors = s.errors
  BY DEF CountValid, IngestionSummary
<1> QED BY <1>2, <1>3, <1>4, <1>5, <1>6

LEMMA CountFailedProperties ==
  ASSUME NEW s \in IngestionSummary, NEW row \in Nat
  PROVE  /\ CountFailed(s, row) \in IngestionSummary
         /\ CountFailed(s, row).rows_read = s.rows_read + 1
         /\ CountFailed(s, row).rows_valid = s.rows_valid
         /\ CountFailed(s, row).rows_failed = s.rows_failed + 1
         /\ CountFailed(s, row).errors = Append(s.errors, row)
<1>1. Append(s.errors, row) \in Seq(Nat)
  BY AppendProperties DEF IngestionSummary
<1>2. s.rows_read + 1 \in Nat /\ s.rows_failed + 1 \in Nat
  BY DEF IngestionSummary
<1>3. CountFailed(s, row) \in IngestionSummary
  BY <1>1, <1>2 DEF CountFailed, IngestionSummary
<1>4. CountFailed(s, row).rows_read = s.rows_read + 1
  BY DEF CountFailed, IngestionSummary
<1>5. CountFailed(s, row).rows_valid = s.rows_valid
  BY DEF CountFailed, IngestionSummary
<1>6. CountFailed(s, row).rows_failed = s.rows_failed + 1
  BY DEF CountFailed, IngestionSummary
<1>7. CountFailed(s, row).errors = Append(s.errors, row)
  BY DEF CountFailed, IngestionSummary
<1> QED BY <1>3, <1>4, <1>5, <1>6, <1>7

LEMMA HashedStep ==
  ASSUME TypeOK, Hashed, [Next]_vars
  PROVE  Hashed'
<1> USE DEF TypeOK, Hashed, locals, tables, vars, Goto
<1>1. ASSUME NEW p \in Invocations, Step(p)
      PROVE  Hashed'
  <2>1. CASE HashFile(p)
    BY <2>1 DEF HashFile
  <2>2. CASE FindExistingBatch(p)
    BY <2>2 DEF FindExistingBatch
  <2>3. CASE CreateBatch(p)
    BY <2>3 DEF CreateBatch
  <2>4. CASE OpenFile(p)
    BY <2>4 DEF OpenFile
  <2>5. CASE SkipBlankLine(p) \/ AcceptRow(p) \/ RejectRow(p) \/ RaiseOnRow(p) \/ FinishFile(p)
    BY <2>5 DEF SkipBlankLine, AcceptRow, RejectRow, RaiseOnRow, FinishFile
  <2>6. CASE InsertBatch(p) \/ InsertErrors(p) \/ CompleteBatch(p)
    BY <2>6 DEF InsertBatch, InsertErrors, CompleteBatch
  <2> QED BY <1>1, <2>1, <2>2, <2>3, <2>4, <2>5, <2>6 DEF Step
<1>2. ASSUME NEW p \in Invocations, Abort(p)
      PROVE  Hashed'
  BY <1>2 DEF Abort
<1>3. CASE ReplaceFile \/ Terminated \/ UNCHANGED vars
  BY <1>3 DEF ReplaceFile, Terminated
<1> QED BY <1>1, <1>2, <1>3 DEF Next

\* complete_batch writes the summary into its own row and no other.
LEMMA CompleteBatchProperties ==
  ASSUME TypeOK, OneOwner, NEW p \in Invocations, CompleteBatch(p)
  PROVE  /\ batch_id[p] \in 1..Len(batches)
         /\ batches' \in Seq(Batch)
         /\ Len(batches') = Len(batches)
         /\ \A b \in 1..Len(batches) : b # batch_id[p] => batches'[b] = batches[b]
         /\ batches'[batch_id[p]].completed_at
         /\ batches'[batch_id[p]].records_read = summary[p].rows_read
         /\ batches'[batch_id[p]].records_valid = summary[p].rows_valid
         /\ batches'[batch_id[p]].records_failed = summary[p].rows_failed
<1> DEFINE b == batch_id[p]
           new == Completed(batches[b], summary[p])
<1>1. b \in 1..Len(batches)
  BY DEF CompleteBatch, Goto, OneOwner, HasBatch, TypeOK
<1>2. batches[b] \in Batch /\ summary[p] \in IngestionSummary
  BY <1>1, ElementOfSeq DEF TypeOK
<1>3. /\ new \in Batch
      /\ new.completed_at
      /\ new.records_read = summary[p].rows_read
      /\ new.records_valid = summary[p].rows_valid
      /\ new.records_failed = summary[p].rows_failed
  BY <1>2 DEF Completed, Batch, IngestionSummary
<1>4. batches' = [batches EXCEPT ![b] = new]
  BY DEF CompleteBatch
<1> HIDE DEF new
<1>5. batches \in Seq(Batch)
  BY DEF TypeOK
<1>6. /\ batches' \in Seq(Batch)
      /\ Len(batches') = Len(batches)
      /\ \A a \in 1..Len(batches) : batches'[a] = IF a = b THEN new ELSE batches[a]
  BY <1>1, <1>3, <1>4, <1>5, ExceptSeq
<1> QED BY <1>1, <1>3, <1>6

LEMMA TypeOKStep ==
  ASSUME TypeOK, Hashed, OneOwner, [Next]_vars
  PROVE  TypeOK'
<1> USE ConstantsAssumption DEF TypeOK, locals, tables, vars, Goto, Ended
<1>1. ASSUME NEW p \in Invocations, Step(p)
      PROVE  TypeOK'
  <2>1. CASE HashFile(p)
    BY <2>1 DEF HashFile
  <2>2. CASE FindExistingBatch(p)
    BY <2>2 DEF FindExistingBatch
  <2>3. CASE CreateBatch(p)
    <3>1. CASE UniqueViolation(p)
      BY <2>3, <3>1 DEF CreateBatch
    <3>2. CASE ~UniqueViolation(p)
      <4> DEFINE new == [source_system |-> args[p].source, file_hash |-> file_hash[p],
                         records_read |-> 0, records_valid |-> 0, records_failed |-> 0,
                         completed_at |-> FALSE]
      <4>1. new \in Batch
        BY <2>3, <3>2 DEF CreateBatch, Hashed, Batch
      <4>2. batches' = Append(batches, new) /\ transactions' = Append(transactions, <<>>)
            /\ ingestion_errors' = Append(ingestion_errors, <<>>)
        BY <2>3, <3>2 DEF CreateBatch
      <4> HIDE DEF new
      <4>3. batches' \in Seq(Batch)
        BY <4>1, <4>2, AppendProperties
      <4>4. transactions' \in Seq(Seq(Nat)) /\ ingestion_errors' \in Seq(Seq(Nat))
        BY <4>2, AppendProperties, EmptySeq
      <4>5. batch_id' \in [Invocations -> Nat]
        <5>1. Len(batches) + 1 \in Nat
          BY LenProperties
        <5> QED BY <2>3, <3>2, <5>1 DEF CreateBatch
      <4> QED BY <2>3, <3>2, <4>3, <4>4, <4>5 DEF CreateBatch
    <3> QED BY <3>1, <3>2
  <2>4. CASE OpenFile(p)
    BY <2>4 DEF OpenFile
  <2>5. CASE SkipBlankLine(p)
    BY <2>5 DEF SkipBlankLine, NextLine
  <2>6. CASE AcceptRow(p)
    <3>1. row_number' \in [Invocations -> Nat]
      BY <2>6 DEF AcceptRow, NextLine
    <3>2. current_batch' \in [Invocations -> Seq(Nat)]
      <4>1. Append(current_batch[p], row_number[p] + 1) \in Seq(Nat)
        BY AppendProperties
      <4> QED BY <2>6, <4>1 DEF AcceptRow
    <3>3. summary' \in [Invocations -> IngestionSummary]
      <4>1. CountValid(summary[p]) \in IngestionSummary
        BY CountValidProperties
      <4> QED BY <2>6, <4>1 DEF AcceptRow
    <3> QED BY <2>6, <3>1, <3>2, <3>3 DEF AcceptRow
  <2>7. CASE RejectRow(p)
    <3>1. row_number' \in [Invocations -> Nat]
      BY <2>7 DEF RejectRow, NextLine
    <3>2. summary' \in [Invocations -> IngestionSummary]
      <4>1. CountFailed(summary[p], row_number[p] + 1) \in IngestionSummary
        BY CountFailedProperties
      <4> QED BY <2>7, <4>1 DEF RejectRow
    <3> QED BY <2>7, <3>1, <3>2 DEF RejectRow
  <2>8. CASE RaiseOnRow(p) \/ FinishFile(p)
    BY <2>8 DEF RaiseOnRow, FinishFile
  <2>9. CASE InsertBatch(p)
    <3>1. batch_id[p] \in 1..Len(transactions) /\ current_batch[p] \in Seq(Nat)
      BY <2>9 DEF InsertBatch, OneOwner, HasBatch
    <3>2. AddRows(transactions, batch_id[p], current_batch[p]) \in Seq(Seq(Nat))
      BY <3>1, AddRowsProperties
    <3>3. transactions' \in Seq(Seq(Nat))
      BY <2>9, <3>2 DEF InsertBatch
    <3>4. current_batch' \in [Invocations -> Seq(Nat)]
      <4>1. <<>> \in Seq(Nat)
        BY EmptySeq
      <4> QED BY <2>9, <4>1 DEF InsertBatch
    <3> QED BY <2>9, <3>3, <3>4 DEF InsertBatch
  <2>10. CASE InsertErrors(p)
    <3>1. batch_id[p] \in 1..Len(ingestion_errors) /\ summary[p].errors \in Seq(Nat)
      BY <2>10 DEF InsertErrors, OneOwner, HasBatch, IngestionSummary
    <3>2. AddRows(ingestion_errors, batch_id[p], summary[p].errors) \in Seq(Seq(Nat))
      BY <3>1, AddRowsProperties
    <3>3. ingestion_errors' \in Seq(Seq(Nat))
      BY <2>10, <3>2 DEF InsertErrors
    <3> QED BY <2>10, <3>3 DEF InsertErrors
  <2>11. CASE CompleteBatch(p)
    <3>1. batches' \in Seq(Batch)
      BY <2>11, CompleteBatchProperties
    <3> QED BY <2>11, <3>1 DEF CompleteBatch
  <2> QED BY <1>1, <2>1, <2>2, <2>3, <2>4, <2>5, <2>6, <2>7, <2>8, <2>9, <2>10, <2>11 DEF Step
<1>2. ASSUME NEW p \in Invocations, Abort(p)
      PROVE  TypeOK'
  BY <1>2 DEF Abort
<1>3. CASE ReplaceFile
  BY <1>3 DEF ReplaceFile
<1>4. CASE Terminated \/ UNCHANGED vars
  BY <1>4 DEF Terminated
<1> QED BY <1>1, <1>2, <1>3, <1>4 DEF Next

-----------------------------------------------------------------------------
(* One owner per batch. *)

LEMMA InsertBatchLength ==
  ASSUME TypeOK, OneOwner, NEW p \in Invocations, InsertBatch(p)
  PROVE  Len(transactions') = Len(transactions)
<1>1. transactions \in Seq(Seq(Nat)) /\ current_batch[p] \in Seq(Nat)
  BY DEF TypeOK
<1>2. batch_id[p] \in 1..Len(transactions)
  BY DEF InsertBatch, Goto, OneOwner, HasBatch
<1>3. Len(AddRows(transactions, batch_id[p], current_batch[p])) = Len(transactions)
  BY <1>1, <1>2, AddRowsProperties
<1> QED BY <1>3 DEF InsertBatch, tables

LEMMA InsertErrorsLength ==
  ASSUME TypeOK, OneOwner, NEW p \in Invocations, InsertErrors(p)
  PROVE  Len(ingestion_errors') = Len(ingestion_errors)
<1>1. ingestion_errors \in Seq(Seq(Nat)) /\ summary[p].errors \in Seq(Nat)
  BY DEF TypeOK, IngestionSummary
<1>2. batch_id[p] \in 1..Len(ingestion_errors)
  BY DEF InsertErrors, Goto, OneOwner, HasBatch
<1>3. Len(AddRows(ingestion_errors, batch_id[p], summary[p].errors)) = Len(ingestion_errors)
  BY <1>1, <1>2, AddRowsProperties
<1> QED BY <1>3 DEF InsertErrors, tables

LEMMA OneOwnerStep ==
  ASSUME TypeOK, OneOwner, [Next]_vars
  PROVE  OneOwner'
<1> USE DEF TypeOK, OneOwner, HasBatch, locals, tables, vars, Goto, Ended
<1>0. Len(batches) \in Nat
  BY LenProperties
<1>1. ASSUME NEW p \in Invocations, Step(p)
      PROVE  OneOwner'
  <2>1. CASE HashFile(p)
    BY <2>1 DEF HashFile
  <2>2. CASE FindExistingBatch(p)
    BY <2>2 DEF FindExistingBatch
  <2>3. CASE CreateBatch(p)
    <3>1. CASE UniqueViolation(p)
      BY <2>3, <3>1 DEF CreateBatch
    <3>2. CASE ~UniqueViolation(p)
      <4>1. /\ Len(batches') = Len(batches) + 1
            /\ Len(transactions') = Len(batches) + 1
            /\ Len(ingestion_errors') = Len(batches) + 1
        BY <2>3, <3>2 DEF CreateBatch
      <4>2. /\ batch_id' = [batch_id EXCEPT ![p] = Len(batches) + 1]
            /\ content' = content
            /\ pc' = [pc EXCEPT ![p] = IF BatchSize > 0 THEN "open" ELSE "failed"]
        BY <2>3, <3>2 DEF CreateBatch
      <4> QED BY <1>0, <4>1, <4>2
    <3> QED BY <3>1, <3>2
  <2>4. CASE OpenFile(p)
    BY <2>4 DEF OpenFile
  <2>5. CASE SkipBlankLine(p) \/ AcceptRow(p) \/ RejectRow(p) \/ RaiseOnRow(p) \/ FinishFile(p)
    BY <2>5 DEF SkipBlankLine, AcceptRow, RejectRow, RaiseOnRow, FinishFile
  <2>6. CASE InsertBatch(p)
    <3>1. Len(transactions') = Len(transactions)
      BY <2>6, InsertBatchLength
    <3> QED BY <2>6, <3>1 DEF InsertBatch
  <2>7. CASE InsertErrors(p)
    <3>1. Len(ingestion_errors') = Len(ingestion_errors)
      BY <2>7, InsertErrorsLength
    <3> QED BY <2>7, <3>1 DEF InsertErrors
  <2>8. CASE CompleteBatch(p)
    <3>1. Len(batches') = Len(batches)
      BY <2>8, CompleteBatchProperties
    <3> QED BY <2>8, <3>1 DEF CompleteBatch
  <2> QED BY <1>1, <2>1, <2>2, <2>3, <2>4, <2>5, <2>6, <2>7, <2>8 DEF Step
<1>2. ASSUME NEW p \in Invocations, Abort(p)
      PROVE  OneOwner'
  BY <1>2 DEF Abort
<1>3. CASE ReplaceFile
  BY <1>3 DEF ReplaceFile
<1>4. CASE Terminated \/ UNCHANGED vars
  BY <1>4 DEF Terminated
<1> QED BY <1>1, <1>2, <1>3, <1>4 DEF Next

-----------------------------------------------------------------------------
(* How far a command has come. *)

\* A step that touches nothing of q's leaves its progress as it was.
LEMMA ProgressFrame ==
  ASSUME NEW q \in Invocations, Progress(q),
         UNCHANGED <<pc[q], batch_id[q], content[q], row_number[q], current_batch[q],
                     summary[q]>>,
         pc[q] \in HasBatch => UNCHANGED <<batches[batch_id[q]],
                                           transactions[batch_id[q]],
                                           ingestion_errors[batch_id[q]]>>
  PROVE  Progress(q)'
  BY DEF Progress, ReadSoFar, ReadAll, Counted, HoldsAllOf, HasBatch

LEMMA Ownership ==
  ASSUME TypeOK, OneOwner, NEW p \in Invocations, pc[p] \in HasBatch
  PROVE  /\ batch_id[p] \in 1..Len(batches)
         /\ transactions[batch_id[p]] \in Seq(Nat)
         /\ ingestion_errors[batch_id[p]] \in Seq(Nat)
         /\ current_batch[p] \in Seq(Nat)
         /\ summary[p] \in IngestionSummary /\ summary[p].errors \in Seq(Nat)
         /\ pc[p] # "open" => content[p] \in Contents /\ Lines[content[p]] \in Seq(LineKind)
         /\ \A q \in Invocations : q # p /\ pc[q] \in HasBatch => batch_id[q] # batch_id[p]
<1>1. batch_id[p] \in 1..Len(batches)
  BY DEF OneOwner
<1>2. batch_id[p] \in 1..Len(transactions) /\ batch_id[p] \in 1..Len(ingestion_errors)
  BY <1>1 DEF OneOwner
<1>3. transactions[batch_id[p]] \in Seq(Nat) /\ ingestion_errors[batch_id[p]] \in Seq(Nat)
  BY <1>2, ElementOfSeq DEF TypeOK
<1>4. current_batch[p] \in Seq(Nat)
      /\ summary[p] \in IngestionSummary /\ summary[p].errors \in Seq(Nat)
  BY DEF TypeOK, IngestionSummary
<1>5. pc[p] # "open" => content[p] \in Contents /\ Lines[content[p]] \in Seq(LineKind)
  BY ConstantsAssumption DEF OneOwner
<1> QED BY <1>1, <1>3, <1>4, <1>5 DEF OneOwner

\* Reading line r accepts it, rejects it or, a blank, leaves both lists alone.
LEMMA NextRows ==
  ASSUME NEW c \in Contents, NEW n \in 1..Len(Lines[c]), n < Len(Lines[c])
  PROVE  LET acc(m) == {r \in AcceptedRows(c) : r <= m}
             rej(m) == {r \in RejectedRows(c) : r <= m}
             kind == Lines[c][n + 1]
         IN /\ kind \in Validated => acc(n + 1) = acc(n) \union {n + 1} /\ rej(n + 1) = rej(n)
            /\ kind \in {"rejected", "unloggable"} =>
                 acc(n + 1) = acc(n) /\ rej(n + 1) = rej(n) \union {n + 1}
            /\ kind = "blank" => acc(n + 1) = acc(n) /\ rej(n + 1) = rej(n)
<1>1. Len(Lines[c]) \in Nat
  BY ConstantsAssumption, LenProperties
<1> QED BY <1>1 DEF AcceptedRows, RejectedRows, Validated

\* The batch of another command is out of p's reach.
LEMMA OtherBatch ==
  ASSUME TypeOK, OneOwner, NEW p \in Invocations, Step(p),
         NEW q \in Invocations, q # p, pc[q] \in HasBatch
  PROVE  UNCHANGED <<batches[batch_id[q]], transactions[batch_id[q]],
                     ingestion_errors[batch_id[q]]>>
<1> DEFINE b == batch_id[q]
<1>1. b \in 1..Len(batches) /\ b \in 1..Len(transactions) /\ b \in 1..Len(ingestion_errors)
  BY Ownership DEF OneOwner
<1>2. /\ batches \in Seq(Batch) /\ transactions \in Seq(Seq(Nat))
      /\ ingestion_errors \in Seq(Seq(Nat))
  BY DEF TypeOK
<1>3. pc[p] \in HasBatch => batch_id[p] # b
  BY Ownership
<1> HIDE DEF b
<1>4. CASE CreateBatch(p)
  <2> DEFINE new == [source_system |-> args[p].source, file_hash |-> file_hash[p],
                     records_read |-> 0, records_valid |-> 0, records_failed |-> 0,
                     completed_at |-> FALSE]
  <2>1. \/ UNCHANGED <<batches, transactions, ingestion_errors>>
        \/ /\ transactions' = Append(transactions, <<>>)
           /\ ingestion_errors' = Append(ingestion_errors, <<>>)
           /\ batches' = Append(batches, new)
    BY <1>4 DEF CreateBatch, tables
  <2> HIDE DEF new
  <2>2. Append(batches, new)[b] = batches[b]
    BY <1>1, <1>2
  <2>3. Append(transactions, <<>>)[b] = transactions[b]
    BY <1>1, <1>2
  <2>4. Append(ingestion_errors, <<>>)[b] = ingestion_errors[b]
    BY <1>1, <1>2
  <2>5. /\ batches'[b] = batches[b] /\ transactions'[b] = transactions[b]
        /\ ingestion_errors'[b] = ingestion_errors[b]
    BY <2>1, <2>2, <2>3, <2>4
  <2>6. b' = b
    <3>1. batch_id'[q] = batch_id[q]
      BY <1>4 DEF CreateBatch, locals, TypeOK
    <3> QED BY <3>1 DEF b
  <2> QED BY <2>5, <2>6 DEF b
<1>5. CASE InsertBatch(p)
  <2>1. batch_id[p] # b /\ batch_id[p] \in 1..Len(transactions)
    BY <1>5, <1>3, Ownership DEF InsertBatch, Goto, HasBatch, OneOwner
  <2>2. current_batch[p] \in Seq(Nat)
    BY DEF TypeOK
  <2>3. AddRows(transactions, batch_id[p], current_batch[p])[b] = transactions[b]
    BY <1>1, <1>2, <2>1, <2>2, AddRowsProperties
  <2>4. UNCHANGED <<batches, ingestion_errors, batch_id>> /\ transactions'[b] = transactions[b]
    BY <1>5, <2>3 DEF InsertBatch, tables, locals
  <2> QED BY <2>4 DEF b
<1>6. CASE InsertErrors(p)
  <2>1. batch_id[p] # b /\ batch_id[p] \in 1..Len(ingestion_errors)
    BY <1>6, <1>3, Ownership DEF InsertErrors, Goto, HasBatch, OneOwner
  <2>2. summary[p].errors \in Seq(Nat)
    BY DEF TypeOK, IngestionSummary
  <2>3. AddRows(ingestion_errors, batch_id[p], summary[p].errors)[b] = ingestion_errors[b]
    BY <1>1, <1>2, <2>1, <2>2, AddRowsProperties
  <2>4. /\ UNCHANGED <<batches, transactions, batch_id>>
        /\ ingestion_errors'[b] = ingestion_errors[b]
    BY <1>6, <2>3 DEF InsertErrors, tables, locals
  <2> QED BY <2>4 DEF b
<1>7. CASE CompleteBatch(p)
  <2>1. batch_id[p] # b
    BY <1>7, <1>3 DEF CompleteBatch, Goto, HasBatch
  <2>2. batches'[b] = batches[b]
    BY <1>7, <1>1, <2>1, CompleteBatchProperties
  <2>3. UNCHANGED <<transactions, ingestion_errors, batch_id>>
    BY <1>7 DEF CompleteBatch, locals
  <2> QED BY <2>2, <2>3 DEF b
<1>8. CASE \/ HashFile(p) \/ FindExistingBatch(p) \/ OpenFile(p) \/ SkipBlankLine(p)
           \/ AcceptRow(p) \/ RejectRow(p) \/ RaiseOnRow(p) \/ FinishFile(p)
  <2>1. UNCHANGED <<batches, transactions, ingestion_errors, batch_id>>
    BY <1>8 DEF HashFile, FindExistingBatch, OpenFile, SkipBlankLine, AcceptRow, RejectRow,
                RaiseOnRow, FinishFile, tables, locals
  <2> QED BY <2>1
<1> QED BY <1>4, <1>5, <1>6, <1>7, <1>8 DEF Step

\* Nor does a step of p touch the locals of another command.
LEMMA OtherLocals ==
  ASSUME TypeOK, NEW p \in Invocations, Step(p), NEW q \in Invocations, q # p
  PROVE  UNCHANGED <<pc[q], batch_id[q], content[q], row_number[q], current_batch[q],
                     summary[q]>>
<1> USE DEF TypeOK, Goto, tables, locals, NextLine
<1>1. CASE HashFile(p)
  BY <1>1 DEF HashFile
<1>2. CASE FindExistingBatch(p)
  BY <1>2 DEF FindExistingBatch
<1>3. CASE CreateBatch(p)
  BY <1>3 DEF CreateBatch
<1>4. CASE OpenFile(p)
  BY <1>4 DEF OpenFile
<1>5. CASE SkipBlankLine(p)
  BY <1>5 DEF SkipBlankLine
<1>6. CASE AcceptRow(p)
  BY <1>6 DEF AcceptRow
<1>7. CASE RejectRow(p)
  BY <1>7 DEF RejectRow
<1>8. CASE RaiseOnRow(p) \/ FinishFile(p)
  BY <1>8 DEF RaiseOnRow, FinishFile
<1>9. CASE InsertBatch(p)
  BY <1>9 DEF InsertBatch
<1>10. CASE InsertErrors(p)
  BY <1>10 DEF InsertErrors
<1>11. CASE CompleteBatch(p)
  BY <1>11 DEF CompleteBatch
<1> QED BY <1>1, <1>2, <1>3, <1>4, <1>5, <1>6, <1>7, <1>8, <1>9, <1>10, <1>11 DEF Step

LEMMA OtherProgress ==
  ASSUME TypeOK, OneOwner, NEW p \in Invocations, Step(p),
         NEW q \in Invocations, q # p, Progress(q)
  PROVE  Progress(q)'
  BY OtherBatch, OtherLocals, ProgressFrame

\* The rows up to row n, for the two ends of the file.
LEMMA RowsUpTo ==
  ASSUME NEW c \in Contents
  PROVE  /\ {r \in AcceptedRows(c) : r <= 1} = {} /\ {r \in RejectedRows(c) : r <= 1} = {}
         /\ {r \in AcceptedRows(c) : r <= Len(Lines[c])} = AcceptedRows(c)
         /\ {r \in RejectedRows(c) : r <= Len(Lines[c])} = RejectedRows(c)
         /\ Lines[c] = <<>> => AcceptedRows(c) = {} /\ RejectedRows(c) = {}
         /\ Len(Lines[c]) \in Nat /\ (Lines[c] # <<>> => 1 \in 1..Len(Lines[c]))
         /\ AcceptedRows(c) \subseteq Nat /\ RejectedRows(c) \subseteq Nat
<1>1. Lines[c] \in Seq(LineKind)
  BY ConstantsAssumption
<1>2. Len(Lines[c]) \in Nat /\ (Lines[c] # <<>> => Len(Lines[c]) # 0) /\ Len(<<>>) = 0
  BY <1>1, EmptySeq, LenProperties
<1> QED BY <1>2 DEF AcceptedRows, RejectedRows

LEMMA OpenFileProgress ==
  ASSUME TypeOK, OneOwner, NEW p \in Invocations, Progress(p), OpenFile(p)
  PROVE  Progress(p)'
<1> DEFINE c == files[args[p].path]
           b == batch_id[p]
<1>1. c \in Contents
  BY DEF TypeOK
<1>2. /\ transactions[b] = <<>> /\ ingestion_errors[b] = <<>>
      /\ current_batch[p] = <<>> /\ summary[p] = EmptySummary
  BY DEF Progress, OpenFile, Goto
<1>3. /\ transactions' = transactions /\ ingestion_errors' = ingestion_errors
      /\ batch_id' = batch_id /\ current_batch' = current_batch /\ summary' = summary
      /\ content'[p] = c /\ row_number'[p] = 1
      /\ pc'[p] = IF Lines[c] = <<>> THEN "errors" ELSE "stream"
  BY DEF OpenFile, Goto, tables, TypeOK
<1>4. /\ summary[p].rows_read = 0 /\ summary[p].rows_valid = 0 /\ summary[p].rows_failed = 0
      /\ summary[p].errors = <<>>
  BY <1>2 DEF EmptySummary
<1>5. <<>> \o <<>> = <<>> /\ Len(<<>>) = 0
  BY ConcatEmptySeq, EmptySeq
<1>8. /\ Len(transactions'[batch_id'[p]]) = 0
      /\ Len(current_batch'[p]) = 0 /\ Len(summary'[p].errors) = 0
  BY <1>2, <1>3, <1>4, <1>5
<1>9. summary'[p].rows_read = 0 /\ summary'[p].rows_valid = 0 /\ summary'[p].rows_failed = 0
  BY <1>3, <1>4
<1> HIDE DEF c
<1>6. CASE Lines[c] = <<>>
  <2>1. AcceptedRows(c) = {} /\ RejectedRows(c) = {}
    BY <1>1, <1>6, RowsUpTo
  <2>2. Counted(p, Len(transactions[batch_id[p]]))'
    BY <1>8, <1>9 DEF Counted
  <2>3. ReadAll(p)' /\ ingestion_errors'[batch_id'[p]] = <<>>
    BY <1>2, <1>3, <1>4, <2>1, <2>2, ListsEmpty DEF ReadAll
  <2> QED BY <2>3, <1>3, <1>6 DEF Progress
<1>7. CASE Lines[c] # <<>>
  <2>1. /\ Lists(transactions'[b] \o current_batch'[p], {r \in AcceptedRows(c) : r <= 1})
        /\ Lists(summary'[p].errors, {r \in RejectedRows(c) : r <= 1})
    BY <1>1, <1>2, <1>3, <1>4, <1>5, RowsUpTo, ListsEmpty
  <2>2. 1 \in 1..Len(Lines[c])
    BY <1>1, <1>7, RowsUpTo
  <2>3. Counted(p, Len(transactions[b]) + Len(current_batch[p]))'
    BY <1>8, <1>9 DEF Counted
  <2>4. ReadSoFar(p)'
    BY <2>1, <2>2, <2>3, <1>2, <1>3 DEF ReadSoFar
  <2> QED BY <2>4, <1>3, <1>7 DEF Progress
<1> QED BY <1>6, <1>7

LEMMA SkipBlankLineProgress ==
  ASSUME TypeOK, OneOwner, NEW p \in Invocations, Progress(p), SkipBlankLine(p)
  PROVE  Progress(p)'
<1> DEFINE c == content[p]
           n == row_number[p]
<1>1. c \in Contents
  BY Ownership DEF SkipBlankLine, Goto, HasBatch
<1>2. ReadSoFar(p)
  BY DEF SkipBlankLine, Goto, Progress
<1>3. n \in 1..Len(Lines[c]) /\ n < Len(Lines[c]) /\ Lines[c][n + 1] = "blank"
      /\ Len(Lines[c]) \in Nat
  BY <1>1, <1>2, RowsUpTo DEF SkipBlankLine, AtLine, ReadSoFar
<1>4. /\ {r \in AcceptedRows(c) : r <= n + 1} = {r \in AcceptedRows(c) : r <= n}
      /\ {r \in RejectedRows(c) : r <= n + 1} = {r \in RejectedRows(c) : r <= n}
  BY <1>1, <1>3, NextRows
<1>5. /\ UNCHANGED <<batches, transactions, ingestion_errors, batch_id, content,
                     current_batch, summary>>
      /\ row_number'[p] = n + 1 /\ pc'[p] = "stream"
  BY DEF SkipBlankLine, Goto, NextLine, tables, TypeOK
<1>6. n + 1 \in 1..Len(Lines[c])
  BY <1>3
<1>7. ReadSoFar(p)'
  BY <1>2, <1>4, <1>5, <1>6 DEF ReadSoFar, Counted
<1> QED BY <1>5, <1>7 DEF Progress

LEMMA AppendToConcat ==
  ASSUME NEW s \in Seq(Nat), NEW t \in Seq(Nat), NEW x \in Nat
  PROVE  s \o Append(t, x) = Append(s \o t, x) /\ s \o t \in Seq(Nat)
<1>1. <<x>> \in Seq(Nat)
  OBVIOUS
<1>2. Append(t, x) = t \o <<x>>
  BY AppendIsConcat
<1>3. s \o t \in Seq(Nat)
  BY ConcatProperties
<1>4. Append(s \o t, x) = (s \o t) \o <<x>>
  BY <1>3, AppendIsConcat
<1>5. (s \o t) \o <<x>> = s \o (t \o <<x>>)
  BY <1>1, ConcatAssociative
<1> QED BY <1>2, <1>3, <1>4, <1>5

LEMMA AcceptRowProgress ==
  ASSUME TypeOK, OneOwner, NEW p \in Invocations, Progress(p), AcceptRow(p)
  PROVE  Progress(p)'
<1> DEFINE c == content[p]
           n == row_number[p]
           stored == transactions[batch_id[p]]
           held == current_batch[p]
           accepted(m) == {r \in AcceptedRows(c) : r <= m}
<1>1. c \in Contents /\ stored \in Seq(Nat) /\ held \in Seq(Nat)
      /\ summary[p] \in IngestionSummary
  BY Ownership DEF AcceptRow, Goto, HasBatch
<1>2. ReadSoFar(p)
  BY DEF AcceptRow, Goto, Progress
<1>3. n \in 1..Len(Lines[c]) /\ n < Len(Lines[c]) /\ Lines[c][n + 1] \in Validated
      /\ Len(Lines[c]) \in Nat
  BY <1>1, <1>2, RowsUpTo DEF AcceptRow, AtLine, ReadSoFar
<1>4. /\ accepted(n + 1) = accepted(n) \union {n + 1}
      /\ {r \in RejectedRows(c) : r <= n + 1} = {r \in RejectedRows(c) : r <= n}
  BY <1>1, <1>3, NextRows
<1>5. /\ UNCHANGED <<batches, transactions, ingestion_errors, batch_id, content>>
      /\ row_number'[p] = n + 1 /\ pc'[p] \in {"stream", "flush"}
      /\ current_batch'[p] = Append(held, n + 1)
      /\ summary'[p] = CountValid(summary[p])
  BY DEF AcceptRow, Goto, NextLine, tables, TypeOK
<1>6. n + 1 \in 1..Len(Lines[c]) /\ n + 1 \in Nat
  BY <1>3
<1>7. stored \o Append(held, n + 1) = Append(stored \o held, n + 1)
      /\ stored \o held \in Seq(Nat)
  BY <1>1, <1>6, AppendToConcat
<1>8. Lists(stored \o held, accepted(n))
  BY <1>2 DEF ReadSoFar
<1>9. \A y \in accepted(n) : y < n + 1
  BY <1>1, <1>3, RowsUpTo
<1>10. Lists(Append(stored \o held, n + 1), accepted(n) \union {n + 1})
  <2> HIDE DEF accepted, stored, held, n
  <2> QED BY <1>6, <1>7, <1>8, <1>9, ListsAppend
<1>11. Counted(p, Len(transactions[batch_id[p]]) + Len(current_batch[p]))'
  <2>1. /\ summary'[p].rows_read = summary[p].rows_read + 1
        /\ summary'[p].rows_valid = summary[p].rows_valid + 1
        /\ summary'[p].rows_failed = summary[p].rows_failed
        /\ summary'[p].errors = summary[p].errors
    BY <1>1, <1>5, CountValidProperties
  <2>2. /\ summary[p].rows_read \in Nat /\ summary[p].rows_valid \in Nat
        /\ summary[p].rows_failed \in Nat
    BY <1>1 DEF IngestionSummary
  <2>3. Counted(p, Len(stored) + Len(held))
    BY <1>2 DEF ReadSoFar
  <2>4. Len(stored) \in Nat /\ Len(held) \in Nat /\ Len(current_batch'[p]) = Len(held) + 1
    BY <1>1, <1>5, <1>6, AppendProperties, LenProperties
  <2>5. /\ summary'[p].rows_valid = Len(stored) + Len(current_batch'[p])
        /\ summary'[p].rows_failed = Len(summary'[p].errors)
        /\ summary'[p].rows_read = summary'[p].rows_valid + summary'[p].rows_failed
    <3> HIDE DEF stored, held
    <3>1. summary[p].rows_valid = Len(stored) + Len(held)
      BY <2>3 DEF Counted
    <3>2. summary'[p].rows_valid = Len(stored) + Len(current_batch'[p])
      BY <2>1, <2>4, <3>1
    <3>3. summary'[p].rows_failed = Len(summary'[p].errors)
      BY <2>1, <2>3 DEF Counted
    <3>4. summary[p].rows_read = summary[p].rows_valid + summary[p].rows_failed
      BY <2>3 DEF Counted
    <3>5. summary'[p].rows_read = summary'[p].rows_valid + summary'[p].rows_failed
      BY <2>1, <2>2, <3>4
    <3> QED BY <3>2, <3>3, <3>5
  <2> QED BY <1>5, <2>5 DEF Counted
<1>12. Lists(transactions'[batch_id'[p]] \o current_batch'[p],
             {r \in AcceptedRows(content'[p]) : r <= row_number'[p]})
  BY <1>4, <1>5, <1>7, <1>10
<1>13. Lists(summary'[p].errors, {r \in RejectedRows(content'[p]) : r <= row_number'[p]})
  <2>1. summary'[p].errors = summary[p].errors
    BY <1>1, <1>5, CountValidProperties
  <2> QED BY <2>1, <1>2, <1>4, <1>5 DEF ReadSoFar
<1>14. ReadSoFar(p)'
  BY <1>2, <1>5, <1>6, <1>11, <1>12, <1>13 DEF ReadSoFar
<1> QED BY <1>5, <1>14 DEF Progress

LEMMA RejectRowProgress ==
  ASSUME TypeOK, OneOwner, NEW p \in Invocations, Progress(p), RejectRow(p)
  PROVE  Progress(p)'
<1> DEFINE c == content[p]
           n == row_number[p]
           errors == summary[p].errors
           rejected(m) == {r \in RejectedRows(c) : r <= m}
<1>1. c \in Contents /\ errors \in Seq(Nat) /\ summary[p] \in IngestionSummary
  BY Ownership DEF RejectRow, Goto, HasBatch
<1>2. ReadSoFar(p)
  BY DEF RejectRow, Goto, Progress
<1>3. n \in 1..Len(Lines[c]) /\ n < Len(Lines[c]) /\ Len(Lines[c]) \in Nat
      /\ Lines[c][n + 1] \in {"rejected", "unloggable"}
  BY <1>1, <1>2, RowsUpTo DEF RejectRow, AtLine, ReadSoFar
<1>4. /\ {r \in AcceptedRows(c) : r <= n + 1} = {r \in AcceptedRows(c) : r <= n}
      /\ rejected(n + 1) = rejected(n) \union {n + 1}
  BY <1>1, <1>3, NextRows
<1>5. /\ UNCHANGED <<batches, transactions, ingestion_errors, batch_id, content,
                     current_batch>>
      /\ row_number'[p] = n + 1 /\ pc'[p] = "stream"
      /\ summary'[p] = CountFailed(summary[p], n + 1)
  BY DEF RejectRow, Goto, NextLine, tables, TypeOK
<1>6. n + 1 \in 1..Len(Lines[c]) /\ n + 1 \in Nat
  BY <1>3
<1>7. /\ summary'[p].rows_read = summary[p].rows_read + 1
      /\ summary'[p].rows_valid = summary[p].rows_valid
      /\ summary'[p].rows_failed = summary[p].rows_failed + 1
      /\ summary'[p].errors = Append(errors, n + 1)
  <2>1. /\ CountFailed(summary[p], n + 1).rows_read = summary[p].rows_read + 1
        /\ CountFailed(summary[p], n + 1).rows_valid = summary[p].rows_valid
        /\ CountFailed(summary[p], n + 1).rows_failed = summary[p].rows_failed + 1
        /\ CountFailed(summary[p], n + 1).errors = Append(errors, n + 1)
    BY <1>1, <1>6, CountFailedProperties
  <2> QED BY <1>5, <2>1
<1>8. Lists(errors, rejected(n)) /\ \A y \in rejected(n) : y < n + 1
  BY <1>1, <1>2, <1>3, RowsUpTo DEF ReadSoFar
<1>9. Lists(Append(errors, n + 1), rejected(n) \union {n + 1})
  <2> HIDE DEF rejected, errors, n
  <2> QED BY <1>1, <1>6, <1>8, ListsAppend
<1>10. Counted(p, Len(transactions[batch_id[p]]) + Len(current_batch[p]))'
  <2>1. /\ summary[p].rows_valid = Len(transactions[batch_id[p]]) + Len(current_batch[p])
        /\ summary[p].rows_failed = Len(errors)
        /\ summary[p].rows_read = summary[p].rows_valid + summary[p].rows_failed
    BY <1>2 DEF ReadSoFar, Counted
  <2>2. /\ summary[p].rows_read \in Nat /\ summary[p].rows_valid \in Nat
        /\ summary[p].rows_failed \in Nat
    BY <1>1 DEF IngestionSummary
  <2>3. Len(Append(errors, n + 1)) = Len(errors) + 1
    BY <1>1, <1>6, AppendProperties
  <2>4. summary'[p].rows_failed = Len(summary'[p].errors)
    BY <1>7, <2>1, <2>3
  <2>5. summary'[p].rows_read = summary'[p].rows_valid + summary'[p].rows_failed
    <3>1. summary[p].rows_read = summary[p].rows_valid + summary[p].rows_failed
      BY <2>1
    <3> QED BY <1>7, <2>2, <3>1
  <2>6. summary'[p].rows_valid = Len(transactions'[batch_id'[p]]) + Len(current_batch'[p])
    BY <1>5, <1>7, <2>1
  <2> QED BY <2>4, <2>5, <2>6 DEF Counted
<1>11. Lists(transactions'[batch_id'[p]] \o current_batch'[p],
             {r \in AcceptedRows(content'[p]) : r <= row_number'[p]})
  BY <1>2, <1>4, <1>5 DEF ReadSoFar
<1>12. Lists(summary'[p].errors, {r \in RejectedRows(content'[p]) : r <= row_number'[p]})
  BY <1>4, <1>5, <1>7, <1>9
<1>13. ReadSoFar(p)'
  BY <1>2, <1>5, <1>6, <1>10, <1>11, <1>12 DEF ReadSoFar
<1> QED BY <1>5, <1>13 DEF Progress

LEMMA FinishFileProgress ==
  ASSUME TypeOK, OneOwner, NEW p \in Invocations, Progress(p), FinishFile(p)
  PROVE  Progress(p)'
<1> DEFINE c == content[p]
           stored == transactions[batch_id[p]]
<1>1. c \in Contents /\ stored \in Seq(Nat)
  BY Ownership DEF FinishFile, Goto, HasBatch
<1>2. ReadSoFar(p) /\ row_number[p] = Len(Lines[c])
  BY DEF FinishFile, Goto, Progress
<1>3. /\ UNCHANGED <<batches, transactions, ingestion_errors, batch_id, content,
                     current_batch, row_number, summary>>
      /\ pc'[p] = IF current_batch[p] = <<>> THEN "errors" ELSE "flush"
  BY DEF FinishFile, Goto, tables, locals, TypeOK
<1>4. CASE current_batch[p] # <<>>
  <2>1. ReadSoFar(p)'
    BY <1>2, <1>3 DEF ReadSoFar, Counted
  <2> QED BY <1>3, <1>4, <2>1 DEF Progress
<1>5. CASE current_batch[p] = <<>>
  <2>1. stored \o current_batch[p] = stored /\ Len(stored) \in Nat
        /\ Len(current_batch[p]) = 0
    BY <1>1, <1>5, ConcatEmptySeq, EmptySeq, LenProperties
  <2>2. Lists(stored, AcceptedRows(c)) /\ Lists(summary[p].errors, RejectedRows(c))
    BY <1>1, <1>2, <2>1, RowsUpTo DEF ReadSoFar
  <2>3. Counted(p, Len(stored)) /\ ingestion_errors[batch_id[p]] = <<>>
    BY <1>2, <2>1 DEF ReadSoFar, Counted
  <2>4. ReadAll(p)' /\ ingestion_errors'[batch_id'[p]] = <<>>
    BY <1>3, <2>2, <2>3 DEF ReadAll, Counted
  <2> QED BY <1>3, <1>5, <2>4 DEF Progress
<1> QED BY <1>4, <1>5

LEMMA InsertBatchProgress ==
  ASSUME TypeOK, OneOwner, NEW p \in Invocations, Progress(p), InsertBatch(p)
  PROVE  Progress(p)'
<1> DEFINE b == batch_id[p]
           stored == transactions[b]
           held == current_batch[p]
<1>1. /\ b \in 1..Len(transactions) /\ transactions \in Seq(Seq(Nat))
      /\ stored \in Seq(Nat) /\ held \in Seq(Nat)
  BY Ownership DEF InsertBatch, Goto, HasBatch, OneOwner, TypeOK
<1>2. ReadSoFar(p)
  BY DEF InsertBatch, Goto, Progress
<1>3. CASE \A r \in Range(current_batch[p]) : Lines[content[p]][r] = "valid"
  <2>1. /\ UNCHANGED <<ingestion_errors, batch_id, content, row_number, summary>>
        /\ transactions' = AddRows(transactions, b, held)
        /\ current_batch'[p] = <<>> /\ pc'[p] = "stream"
    BY <1>3 DEF InsertBatch, Goto, TypeOK
  <2>2. transactions'[b] = stored \o held
    BY <1>1, <2>1, AddRowsProperties
  <2>3. /\ (stored \o held) \o <<>> = stored \o held
        /\ Len(stored \o held) = Len(stored) + Len(held)
        /\ Len(stored) \in Nat /\ Len(held) \in Nat
    BY <1>1, ConcatProperties, ConcatEmptySeq, LenProperties
  <2>4. Len(transactions'[b]) + Len(current_batch'[p]) = Len(stored) + Len(held)
    BY <2>1, <2>2, <2>3, EmptySeq
  <2>5. transactions'[b] \o current_batch'[p] = stored \o held
    BY <2>1, <2>2, <2>3
  <2>6. ReadSoFar(p)'
    <3> HIDE DEF stored, held
    <3>1. Lists(stored \o held, {r \in AcceptedRows(content[p]) : r <= row_number[p]})
          /\ Counted(p, Len(stored) + Len(held))
      BY <1>2 DEF ReadSoFar, stored, held
    <3>2. Counted(p, Len(transactions[batch_id[p]]) + Len(current_batch[p]))'
      BY <2>1, <2>4, <3>1 DEF Counted
    <3> QED BY <1>2, <2>1, <2>5, <3>1, <3>2 DEF ReadSoFar
  <2> QED BY <2>1, <2>6 DEF Progress
<1>4. CASE ~\A r \in Range(current_batch[p]) : Lines[content[p]][r] = "valid"
  <2>1. pc'[p] = "failed"
    BY <1>4 DEF InsertBatch, Goto, TypeOK
  <2> QED BY <2>1 DEF Progress
<1> QED BY <1>3, <1>4

LEMMA InsertErrorsProgress ==
  ASSUME TypeOK, OneOwner, NEW p \in Invocations, Progress(p), InsertErrors(p)
  PROVE  Progress(p)'
<1> DEFINE b == batch_id[p]
           errors == summary[p].errors
<1>1. /\ b \in 1..Len(ingestion_errors) /\ ingestion_errors \in Seq(Seq(Nat))
      /\ errors \in Seq(Nat)
  BY Ownership DEF InsertErrors, Goto, HasBatch, OneOwner, TypeOK
<1>2. ReadAll(p) /\ ingestion_errors[b] = <<>>
  BY DEF InsertErrors, Goto, Progress
<1>3. CASE \A r \in Range(summary[p].errors) : Lines[content[p]][r] = "rejected"
  <2>1. /\ UNCHANGED <<transactions, batch_id, content, summary>>
        /\ ingestion_errors' = AddRows(ingestion_errors, b, errors)
        /\ pc'[p] = "complete"
    BY <1>3 DEF InsertErrors, Goto, locals, TypeOK
  <2>2. AddRows(ingestion_errors, b, errors)[b] = ingestion_errors[b] \o errors
    BY <1>1, AddRowsProperties
  <2>3. <<>> \o errors = errors
    BY <1>1, ConcatEmptySeq
  <2>4. ingestion_errors'[b] = errors
    BY <1>2, <2>1, <2>2, <2>3
  <2>5. ReadAll(p)'
    BY <1>2, <2>1 DEF ReadAll, Counted
  <2> QED BY <2>1, <2>4, <2>5 DEF Progress
<1>4. CASE ~\A r \in Range(summary[p].errors) : Lines[content[p]][r] = "rejected"
  <2>1. pc'[p] = "failed"
    BY <1>4 DEF InsertErrors, Goto, TypeOK
  <2> QED BY <2>1 DEF Progress
<1> QED BY <1>3, <1>4

LEMMA CompleteBatchProgress ==
  ASSUME TypeOK, OneOwner, NEW p \in Invocations, Progress(p), CompleteBatch(p)
  PROVE  Progress(p)'
<1>1. ReadAll(p) /\ ingestion_errors[batch_id[p]] = summary[p].errors
  BY DEF CompleteBatch, Goto, Progress
<1>2. /\ UNCHANGED <<transactions, ingestion_errors, batch_id, content, summary>>
      /\ pc'[p] = "done"
  BY DEF CompleteBatch, Goto, locals, TypeOK
<1>3. HoldsAllOf(batch_id[p], content[p])'
  BY <1>1, <1>2, CompleteBatchProperties DEF ReadAll, Counted, HoldsAllOf
<1> QED BY <1>2, <1>3 DEF Progress

\* A command's own steps keep its progress.
LEMMA OwnProgress ==
  ASSUME TypeOK, OneOwner, NEW p \in Invocations, Progress(p), Step(p)
  PROVE  Progress(p)'
<1>1. CASE HashFile(p)
  <2>1. pc[p] = "hash" /\ pc'[p] = "find" /\ UNCHANGED <<current_batch, summary>>
    BY <1>1 DEF HashFile, Goto, TypeOK
  <2> QED BY <2>1 DEF Progress
<1>2. CASE FindExistingBatch(p)
  <2>1. /\ pc[p] = "find" /\ pc'[p] \in {"create", "skipped"}
        /\ UNCHANGED <<current_batch, summary>>
    BY <1>2 DEF FindExistingBatch, Goto, locals, TypeOK
  <2> QED BY <2>1 DEF Progress
<1>3. CASE CreateBatch(p)
  <2>1. CASE UniqueViolation(p) \/ ~(BatchSize > 0)
    <3>1. pc'[p] = "failed"
      BY <1>3, <2>1 DEF CreateBatch, Goto, TypeOK
    <3> QED BY <3>1 DEF Progress
  <2>2. CASE ~UniqueViolation(p) /\ BatchSize > 0
    <3>1. /\ transactions' = Append(transactions, <<>>)
          /\ ingestion_errors' = Append(ingestion_errors, <<>>)
          /\ batch_id'[p] = Len(batches) + 1
          /\ pc'[p] = "open"
          /\ UNCHANGED <<current_batch, summary>>
      BY <1>3, <2>2 DEF CreateBatch, Goto, TypeOK
    <3>2. transactions'[Len(transactions) + 1] = <<>>
          /\ ingestion_errors'[Len(ingestion_errors) + 1] = <<>>
      BY <3>1 DEF TypeOK
    <3>3. transactions'[batch_id'[p]] = <<>> /\ ingestion_errors'[batch_id'[p]] = <<>>
      BY <3>1, <3>2 DEF OneOwner
    <3>4. current_batch[p] = <<>> /\ summary[p] = EmptySummary
      BY <1>3, <2>2 DEF CreateBatch, Goto, Progress
    <3> QED BY <3>1, <3>3, <3>4 DEF Progress
  <2> QED BY <2>1, <2>2
<1>4. CASE RaiseOnRow(p)
  <2>1. pc'[p] = "failed"
    BY <1>4 DEF RaiseOnRow, Goto, TypeOK
  <2> QED BY <2>1 DEF Progress
<1> QED BY <1>1, <1>2, <1>3, <1>4, OpenFileProgress, SkipBlankLineProgress,
           AcceptRowProgress, RejectRowProgress, FinishFileProgress, InsertBatchProgress,
           InsertErrorsProgress, CompleteBatchProgress DEF Step

LEMMA ProgressStep ==
  ASSUME Accounted, [Next]_vars, NEW q \in Invocations
  PROVE  Progress(q)'
<1>1. ASSUME NEW p \in Invocations, Step(p)
      PROVE  Progress(q)'
  BY <1>1, OwnProgress, OtherProgress DEF Accounted
<1>2. ASSUME NEW p \in Invocations, Abort(p)
      PROVE  Progress(q)'
  <2>1. CASE q = p
    <3>1. pc'[q] = "failed"
      BY <1>2, <2>1 DEF Abort, Accounted, TypeOK
    <3> QED BY <3>1 DEF Progress
  <2>2. CASE q # p
    <3>1. UNCHANGED <<pc[q], tables, locals>>
      BY <1>2, <2>2 DEF Abort, Accounted, TypeOK
    <3> QED BY <3>1, ProgressFrame DEF Accounted, tables, locals
  <2> QED BY <2>1, <2>2
<1>3. CASE ReplaceFile \/ Terminated \/ UNCHANGED vars
  <2>1. UNCHANGED <<pc, tables, locals>>
    BY <1>3 DEF ReplaceFile, Terminated, vars
  <2> QED BY <2>1, ProgressFrame DEF Accounted, tables, locals
<1> QED BY <1>1, <1>2, <1>3 DEF Accounted, Next

-----------------------------------------------------------------------------
(* The theorems. *)

LEMMA InitAccounted == Init => Accounted
<1> SUFFICES ASSUME Init PROVE Accounted
  OBVIOUS
<1>1. EmptySummary \in IngestionSummary
  BY EmptySeq DEF EmptySummary, IngestionSummary
<1>2. <<>> \in Seq(Batch) /\ <<>> \in Seq(Seq(Nat)) /\ <<>> \in Seq(Nat) /\ Len(<<>>) = 0
  BY EmptySeq
<1>3. TypeOK
  BY <1>1, <1>2 DEF Init, TypeOK, Ended
<1>4. Hashed /\ OneOwner
  BY <1>2 DEF Init, Hashed, OneOwner, HasBatch
<1>5. \A p \in Invocations : Progress(p)
  BY DEF Init, Progress
<1> QED BY <1>3, <1>4, <1>5 DEF Accounted

LEMMA NextAccounted == Accounted /\ [Next]_vars => Accounted'
<1> SUFFICES ASSUME Accounted, [Next]_vars PROVE Accounted'
  OBVIOUS
<1>1. TypeOK'
  BY TypeOKStep DEF Accounted
<1>2. Hashed'
  BY HashedStep DEF Accounted
<1>3. OneOwner'
  BY OneOwnerStep DEF Accounted
<1>4. \A p \in Invocations : Progress(p)'
  BY ProgressStep
<1> QED BY <1>1, <1>2, <1>3, <1>4 DEF Accounted

\* The accounts are inductive: whatever the files, the batch size and the
\* crashes, every command's tables and locals account for the rows it read.
THEOREM Accounting == Spec => []Accounted
  BY InitAccounted, NextAccounted, PTL DEF Spec

\* The tables and every command's locals stay well typed (Ingestion!TypeOK).
THEOREM TypeCorrect == Spec => []TypeOK
<1>1. Accounted => TypeOK
  BY DEF Accounted
<1> QED BY <1>1, Accounting, PTL

\* A command that ends without an exception has stored every accepted row and
\* recorded every rejected row of the file it read, once each and in order, in
\* its own batch: for every number of concurrent commands, every batch size and
\* every file (cli.ingest_file, StreamingCsvIngestor.ingest).
THEOREM DoneIsWhole == Spec => []DoneMeansWhole
<1>1. Accounted => DoneMeansWhole
  BY DEF Accounted, Progress, DoneMeansWhole
<1> QED BY <1>1, Accounting, PTL
=============================================================================
