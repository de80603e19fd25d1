------------------------------ MODULE Ingestion ------------------------------
(***************************************************************************)
(* `reconcile ingest internal|external <path.csv>`: cli.ingest_file, the   *)
(* StreamingCsvIngestor it drives and the repositories it writes through.  *)
(*                                                                         *)
(* Several invocations of the command run at once against one database;    *)
(* each database call of the code is a transaction of its own (every       *)
(* repository method ends in commit() or rollback()), so each is one step  *)
(* here, and an invocation can end between any two of them.                *)
(*                                                                         *)
(* A definition whose comment says "Fault:" is not part of the model: it   *)
(* is a plausible mistake in the definition that follows it, kept to show  *)
(* that the property it names would notice.                                *)
(***************************************************************************)
EXTENDS Integers, Sequences, FiniteSets, Functions

CONSTANTS
  Invocations,   \* runs of the command; a retry is one more invocation
  Crashable,     \* the invocations that may be killed or lose the database
  Paths,         \* CSV files
  Contents,      \* what a file may hold; stands for its SHA-256 digest too
  Lines,         \* Lines[c]: the kinds of the lines of c, header line first
  FilesChange,   \* may a file be replaced while the command runs?
  BatchSize,     \* `batch_size` of config/config.ini
  None

SourceSystem == {"INTERNAL", "EXTERNAL"}

(***************************************************************************)
(* What can become of one physical line.  "valid" is stored; "unstorable"  *)
(* passes RowValidator but not the INSERT (an amount beyond BIGINT, a NUL  *)
(* character); "rejected" fails RowValidator; "unloggable" does too and    *)
(* cannot be written to ingestion_errors either (NUL); "raising" makes     *)
(* validation raise something other than the exceptions that the validator *)
(* turns into an error message (a date whose characters are isdigit() but  *)
(* not int()); "blank" is skipped.                                         *)
(***************************************************************************)
LineKind == {"valid", "unstorable", "rejected", "unloggable", "raising", "blank"}

Validated == {"valid", "unstorable"}

ASSUME ConstantsAssumption ==
  /\ Crashable \subseteq Invocations
  /\ Lines \in [Contents -> Seq(LineKind)]
  /\ FilesChange \in BOOLEAN
  /\ BatchSize \in Int
  /\ None \notin Contents

\* The data rows (by row number; the header is row 1) that the validator
\* accepts and those it rejects.
AcceptedRows(c) == {r \in 2..Len(Lines[c]) : Lines[c][r] \in Validated}
RejectedRows(c) ==
  {r \in 2..Len(Lines[c]) : Lines[c][r] \in {"rejected", "unloggable"}}

\* A row of ingestion_batches, and what ingest() returns.
Batch == [source_system : SourceSystem, file_hash : Contents, records_read : Nat,
          records_valid : Nat, records_failed : Nat, completed_at : BOOLEAN]

IngestionSummary ==
  [rows_read : Nat, rows_valid : Nat, rows_failed : Nat, errors : Seq(Nat)]

VARIABLES
  files,             \* what each path holds now
  batches,           \* table ingestion_batches; a row's id is its position
  transactions,      \* transactions[b]: source_row_numbers inserted for batch b
  ingestion_errors,  \* ingestion_errors[b]: row_numbers recorded for batch b
  pc,                \* where each invocation is
  args,              \* its command line: source and path
  file_hash,         \* the digest it computed
  batch_id,          \* the batch it created, 0 before
  content,           \* what it reads from the file it opened for streaming
  row_number,        \* the last line it has read
  current_batch,     \* validated rows not yet handed to on_batch
  summary            \* its IngestionSummary

tables == <<batches, transactions, ingestion_errors>>
locals == <<args, file_hash, batch_id, content, row_number, current_batch, summary>>
vars == <<files, tables, pc, locals>>

EmptySummary == [rows_read |-> 0, rows_valid |-> 0, rows_failed |-> 0, errors |-> <<>>]

Init ==
  /\ files \in [Paths -> Contents]
  /\ batches = <<>> /\ transactions = <<>> /\ ingestion_errors = <<>>
  /\ pc = [p \in Invocations |-> "hash"]
  /\ args \in [Invocations -> [source : SourceSystem, path : Paths]]
  /\ file_hash = [p \in Invocations |-> None]
  /\ batch_id = [p \in Invocations |-> 0]
  /\ content = [p \in Invocations |-> None]
  /\ row_number = [p \in Invocations |-> 0]
  /\ current_batch = [p \in Invocations |-> <<>>]
  /\ summary = [p \in Invocations |-> EmptySummary]

Goto(p, from, to) == pc[p] = from /\ pc' = [pc EXCEPT ![p] = to]

-----------------------------------------------------------------------------
(* The command, call by call. *)

\* Fault: the digest is never computed (TypeOK).
HashNothing(p) ==
  Goto(p, "hash", "find") /\ UNCHANGED <<files, tables, locals>>

\* ingest_file reads the whole file once, only to hash it.
HashFile(p) ==
  /\ Goto(p, "hash", "find")
  /\ file_hash' = [file_hash EXCEPT ![p] = files[args[p].path]]
  /\ UNCHANGED <<files, tables, args, batch_id, content, row_number,
                 current_batch, summary>>

BatchesOf(source, hash) ==
  {b \in DOMAIN batches : batches[b].source_system = source /\ batches[b].file_hash = hash}

\* Fault: the command waits for a batch with this digest to be completed, which
\* one whose owner has died never is (EveryIngestEnds).
WaitForOwner(p) ==
  /\ \A b \in BatchesOf(args[p].source, file_hash[p]) : batches[b].completed_at
  /\ Goto(p, "find", IF BatchesOf(args[p].source, file_hash[p]) = {}
                     THEN "create" ELSE "skipped")
  /\ UNCHANGED <<files, tables, locals>>

\* find_existing_batch: a batch with this digest ends the command at once.
FindExistingBatch(p) ==
  /\ Goto(p, "find", IF BatchesOf(args[p].source, file_hash[p]) = {}
                     THEN "create" ELSE "skipped")
  /\ UNCHANGED <<files, tables, locals>>

\* Fault: the table has no UNIQUE constraint (EachFileLandsOnce).
NoUniqueConstraint(p) == FALSE

UniqueViolation(p) == BatchesOf(args[p].source, file_hash[p]) # {}

\* create_batch.  UNIQUE (source_system, file_hash) turns the loser of a race
\* away (DuplicateIngestionException); a batch size that is not positive is
\* noticed only after the row is committed, by StreamingCsvIngestor.
CreateBatch(p) ==
  IF ~UniqueViolation(p)
  THEN /\ Goto(p, "create", IF BatchSize > 0 THEN "open" ELSE "failed")
       /\ batches' = Append(batches,
            [source_system |-> args[p].source, file_hash |-> file_hash[p],
             records_read |-> 0, records_valid |-> 0, records_failed |-> 0,
             completed_at |-> FALSE])
       /\ transactions' = Append(transactions, <<>>)
       /\ ingestion_errors' = Append(ingestion_errors, <<>>)
       /\ batch_id' = [batch_id EXCEPT ![p] = Len(batches) + 1]
       /\ UNCHANGED <<files, args, file_hash, content, row_number, current_batch, summary>>
  ELSE /\ Goto(p, "create", "failed")
       /\ UNCHANGED <<files, tables, locals>>

\* Fault: the header is taken for a row (CompletedBatchIsWhole).
OpenFileKeepingHeader(p) ==
  LET c == files[args[p].path] IN
  /\ Goto(p, "open", "stream")
  /\ content' = [content EXCEPT ![p] = c]
  /\ UNCHANGED <<files, tables, args, file_hash, batch_id, row_number,
                 current_batch, summary>>

\* The ingestor opens the path a second time and discards the header; an
\* empty file returns an empty summary.
OpenFile(p) ==
  LET c == files[args[p].path] IN
  /\ Goto(p, "open", IF Lines[c] = <<>> THEN "errors" ELSE "stream")
  /\ content' = [content EXCEPT ![p] = c]
  /\ row_number' = [row_number EXCEPT ![p] = 1]
  /\ UNCHANGED <<files, tables, args, file_hash, batch_id, current_batch, summary>>

AtLine(p, kinds) ==
  /\ row_number[p] < Len(Lines[content[p]])
  /\ Lines[content[p]][row_number[p] + 1] \in kinds

NextLine(p) == row_number' = [row_number EXCEPT ![p] = @ + 1]

SkipBlankLine(p) ==
  /\ Goto(p, "stream", "stream")
  /\ AtLine(p, {"blank"})
  /\ NextLine(p)
  /\ UNCHANGED <<files, tables, args, file_hash, batch_id, content, current_batch, summary>>

CountValid(s) == [s EXCEPT !.rows_read = s.rows_read + 1, !.rows_valid = s.rows_valid + 1]

CountFailed(s, row) ==
  [s EXCEPT !.rows_read = s.rows_read + 1, !.rows_failed = s.rows_failed + 1,
            !.errors = Append(s.errors, row)]

\* A valid row joins the batch; a full batch goes to on_batch.
AcceptRow(p) ==
  /\ Goto(p, "stream", IF Len(current_batch[p]) + 1 >= BatchSize THEN "flush" ELSE "stream")
  /\ AtLine(p, Validated)
  /\ NextLine(p)
  /\ current_batch' = [current_batch EXCEPT ![p] = Append(@, row_number[p] + 1)]
  /\ summary' = [summary EXCEPT ![p] = CountValid(@)]
  /\ UNCHANGED <<files, tables, args, file_hash, batch_id, content>>

RejectRow(p) ==
  /\ Goto(p, "stream", "stream")
  /\ AtLine(p, {"rejected", "unloggable"})
  /\ NextLine(p)
  /\ summary' = [summary EXCEPT ![p] = CountFailed(@, row_number[p] + 1)]
  /\ UNCHANGED <<files, tables, args, file_hash, batch_id, content, current_batch>>

\* An exception out of the row loop reaches cli.run, which logs it and exits.
RaiseOnRow(p) ==
  /\ Goto(p, "stream", "failed")
  /\ AtLine(p, {"raising"})
  /\ UNCHANGED <<files, tables, locals>>

\* Fault: the last, partial batch is never flushed (DoneMeansWhole).
FinishFileWithoutFlush(p) ==
  /\ Goto(p, "stream", "errors")
  /\ row_number[p] = Len(Lines[content[p]])
  /\ UNCHANGED <<files, tables, locals>>

\* The loop is over: the last, partial batch is flushed, then ingest returns.
FinishFile(p) ==
  /\ Goto(p, "stream", IF current_batch[p] = <<>> THEN "errors" ELSE "flush")
  /\ row_number[p] = Len(Lines[content[p]])
  /\ UNCHANGED <<files, tables, locals>>

\* Fault: rows go to the newest batch, not to the command's own
\* (CompletedBatchFrozen, IInv).
AddToNewest(table, b, rows) == [table EXCEPT ![Len(table)] = @ \o rows]

AddRows(table, b, rows) == [table EXCEPT ![b] = @ \o rows]

\* Fault: no transaction around the insert: when a row cannot be stored, the
\* others of its batch stay (InsertsAreWhole).
InsertRowByRow(p) ==
  LET storable == SelectSeq(current_batch[p], LAMBDA r : Lines[content[p]][r] = "valid") IN
  /\ Goto(p, "flush", IF storable = current_batch[p] THEN "stream" ELSE "failed")
  /\ transactions' = AddRows(transactions, batch_id[p], storable)
  /\ current_batch' = [current_batch EXCEPT ![p] = <<>>]
  /\ UNCHANGED <<files, batches, ingestion_errors, args, file_hash, batch_id,
                 content, row_number, summary>>

\* insert_batch: the rows of one batch are inserted in one transaction, all
\* of them or, when one cannot be stored, none.
InsertBatch(p) ==
  IF \A r \in Range(current_batch[p]) : Lines[content[p]][r] = "valid"
  THEN /\ Goto(p, "flush", "stream")
       /\ transactions' = AddRows(transactions, batch_id[p], current_batch[p])
       /\ current_batch' = [current_batch EXCEPT ![p] = <<>>]
       /\ UNCHANGED <<files, batches, ingestion_errors, args, file_hash, batch_id,
                      content, row_number, summary>>
  ELSE /\ Goto(p, "flush", "failed")
       /\ UNCHANGED <<files, tables, locals>>

\* insert_errors: all rejected rows of the file, in one transaction.
InsertErrors(p) ==
  IF \A r \in Range(summary[p].errors) : Lines[content[p]][r] = "rejected"
  THEN /\ Goto(p, "errors", "complete")
       /\ ingestion_errors' = AddRows(ingestion_errors, batch_id[p], summary[p].errors)
       /\ UNCHANGED <<files, batches, transactions, locals>>
  ELSE /\ Goto(p, "errors", "failed")
       /\ UNCHANGED <<files, tables, locals>>

\* Fault: the counts are written but not completed_at (IngestedEventually).
CountOnly(p) == Goto(p, "complete", "done") /\ UNCHANGED <<files, tables, locals>>

Completed(row, s) ==
  [row EXCEPT !.records_read = s.rows_read, !.records_valid = s.rows_valid,
              !.records_failed = s.rows_failed, !.completed_at = TRUE]

\* complete_batch: the counts and completed_at, in one UPDATE.
CompleteBatch(p) ==
  /\ Goto(p, "complete", "done")
  /\ batches' = [batches EXCEPT ![batch_id[p]] = Completed(@, summary[p])]
  /\ UNCHANGED <<files, transactions, ingestion_errors, locals>>

-----------------------------------------------------------------------------
(* The environment. *)

Ended == {"done", "skipped", "failed"}

\* The process is killed, the file cannot be opened or decoded, or a call
\* raises psycopg2.Error: PostgreSQL drops the open transaction, the command
\* ends.
Abort(p) ==
  /\ p \in Crashable
  /\ pc[p] \notin Ended
  /\ pc' = [pc EXCEPT ![p] = "failed"]
  /\ UNCHANGED <<files, tables, locals>>

\* Somebody saves another version of a file under the same name.
ReplaceFile ==
  /\ FilesChange
  /\ \E f \in Paths, c \in Contents : files' = [files EXCEPT ![f] = c]
  /\ UNCHANGED <<tables, pc, locals>>

\* Every command has ended: nothing more happens.
Terminated == (\A p \in Invocations : pc[p] \in Ended) /\ UNCHANGED vars

Step(p) ==
  \/ HashFile(p) \/ FindExistingBatch(p) \/ CreateBatch(p) \/ OpenFile(p)
  \/ SkipBlankLine(p) \/ AcceptRow(p) \/ RejectRow(p) \/ RaiseOnRow(p)
  \/ FinishFile(p) \/ InsertBatch(p) \/ InsertErrors(p) \/ CompleteBatch(p)

Next == (\E p \in Invocations : Step(p) \/ Abort(p)) \/ ReplaceFile \/ Terminated

Spec == Init /\ [][Next]_vars

\* A started command is one Python process that keeps executing.
FairSpec == Spec /\ \A p \in Invocations : WF_vars(Step(p))

-----------------------------------------------------------------------------
(* Properties. *)

Ascending(s) == \A i, j \in DOMAIN s : i < j => s[i] < s[j]

\* s holds every element of S once, in file order.
Lists(s, S) == Range(s) = S /\ Ascending(s)

\* Batch b holds everything the code owes a file with contents c.
HoldsAllOf(b, c) ==
  /\ Lists(transactions[b], AcceptedRows(c))
  /\ Lists(ingestion_errors[b], RejectedRows(c))
  /\ batches[b].completed_at
  /\ batches[b].records_valid = Len(transactions[b])
  /\ batches[b].records_failed = Len(ingestion_errors[b])
  /\ batches[b].records_read = batches[b].records_valid + batches[b].records_failed

\* Every variable stays within its type: the tables, the command's locals and
\* the counters of IngestionSummary.
TypeOK ==
  /\ files \in [Paths -> Contents]
  /\ batches \in Seq(Batch)
  /\ transactions \in Seq(Seq(Nat))
  /\ ingestion_errors \in Seq(Seq(Nat))
  /\ pc \in [Invocations -> {"hash", "find", "create", "open", "stream", "flush",
                             "errors", "complete"} \union Ended]
  /\ args \in [Invocations -> [source : SourceSystem, path : Paths]]
  /\ file_hash \in [Invocations -> Contents \union {None}]
  /\ batch_id \in [Invocations -> Nat]
  /\ content \in [Invocations -> Contents \union {None}]
  /\ row_number \in [Invocations -> Nat]
  /\ current_batch \in [Invocations -> Seq(Nat)]
  /\ summary \in [Invocations -> IngestionSummary]

\* A command that reports success has stored every row of the file it read:
\* the accepted ones in the transactions table and the rejected ones in
\* ingestion_errors, each once and in file order, with the counts to match --
\* across any batch boundary, any other command and any replaced file
\* (streaming_csv_ingestor.py, cli.ingest_file).
DoneMeansWhole ==
  \A p \in Invocations : pc[p] = "done" => HoldsAllOf(batch_id[p], content[p])

\* A batch marked completed holds the whole file whose digest it carries, so
\* the digest can stand for the rows (ingestion_batches.file_hash).
CompletedBatchIsWhole ==
  \A b \in DOMAIN batches : batches[b].completed_at => HoldsAllOf(b, batches[b].file_hash)

\* The rows a batch has received are the accepted rows of its file up to some
\* row, in whole inserts: BatchSize at a time, or the rest of the file.  An
\* insert that fails, or a crash, leaves no part of an insert behind
\* (TransactionRepository.insert_batch commits or rolls back).
InsertsAreWhole ==
  \A p \in Invocations : content[p] # None =>
    LET stored == transactions[batch_id[p]]
        accepted == AcceptedRows(content[p])
        all == Lists(stored, accepted)
    IN \/ all
       \/ /\ Len(stored) % BatchSize = 0
          /\ \E n \in 0..Len(Lines[content[p]]) : Lists(stored, {r \in accepted : r <= n})

\* However commands race between find_existing_batch and create_batch, the
\* rows of one file enter a source's table through one command only.
EachFileLandsOnce ==
  \A p, q \in Invocations :
    (/\ p # q /\ args[p].source = args[q].source
     /\ content[p] # None /\ content[p] = content[q])
    => transactions[batch_id[p]] = <<>> \/ transactions[batch_id[q]] = <<>>

\* Once completed, a batch's row, its transactions and its errors never
\* change: no later or concurrent command writes into it.
CompletedBatchFrozen ==
  [][\A b \in DOMAIN batches : batches[b].completed_at =>
       /\ batches'[b] = batches[b]
       /\ transactions'[b] = transactions[b]
       /\ ingestion_errors'[b] = ingestion_errors[b]]_vars

\* The argument behind DoneMeansWhole.  Batches have one owner each, and at
\* every step what the owner has stored and what it still holds make up the
\* file read so far.
HasBatch == {"open", "stream", "flush", "errors", "complete", "done"}

OneOwner ==
  /\ Len(transactions) = Len(batches) /\ Len(ingestion_errors) = Len(batches)
  /\ \A p \in Invocations :
       /\ batch_id[p] \in 0..Len(batches)
       /\ pc[p] \in HasBatch => batch_id[p] # 0
       /\ pc[p] \in HasBatch \ {"open"} => content[p] \in Contents
       /\ \A q \in Invocations : p # q /\ batch_id[p] = batch_id[q] => batch_id[p] = 0

\* What the counters of IngestionSummary say of the rows stored and held.
Counted(p, n) ==
  /\ summary[p].rows_valid = n
  /\ summary[p].rows_failed = Len(summary[p].errors)
  /\ summary[p].rows_read = summary[p].rows_valid + summary[p].rows_failed

ReadSoFar(p) ==
  LET b == batch_id[p]
      c == content[p]
  IN /\ row_number[p] \in 1..Len(Lines[c])
     /\ Lists(transactions[b] \o current_batch[p], {r \in AcceptedRows(c) : r <= row_number[p]})
     /\ Lists(summary[p].errors, {r \in RejectedRows(c) : r <= row_number[p]})
     /\ Counted(p, Len(transactions[b]) + Len(current_batch[p]))
     /\ ingestion_errors[b] = <<>>

ReadAll(p) ==
  /\ Lists(transactions[batch_id[p]], AcceptedRows(content[p]))
  /\ Lists(summary[p].errors, RejectedRows(content[p]))
  /\ Counted(p, Len(transactions[batch_id[p]]))

Progress(p) ==
  /\ pc[p] \in {"hash", "find", "create", "open"} =>
       current_batch[p] = <<>> /\ summary[p] = EmptySummary
  /\ pc[p] = "open" =>
       transactions[batch_id[p]] = <<>> /\ ingestion_errors[batch_id[p]] = <<>>
  /\ pc[p] \in {"stream", "flush"} => ReadSoFar(p)
  /\ pc[p] = "errors" => ReadAll(p) /\ ingestion_errors[batch_id[p]] = <<>>
  /\ pc[p] = "complete" => ReadAll(p) /\ ingestion_errors[batch_id[p]] = summary[p].errors
  /\ pc[p] = "done" => HoldsAllOf(batch_id[p], content[p])

\* A digest is known from the moment the command looks for a batch.
Hashed ==
  \A p \in Invocations : pc[p] \in {"find", "create"} => file_hash[p] \in Contents

\* Types, one owner per batch, and how far each command has come.
Accounted == TypeOK /\ Hashed /\ OneOwner /\ \A p \in Invocations : Progress(p)

\* UNIQUE (source_system, file_hash).
OneBatchPerFile ==
  \A a, b \in DOMAIN batches :
    (/\ batches[a].source_system = batches[b].source_system
     /\ batches[a].file_hash = batches[b].file_hash) => a = b

\* A completed batch belongs to a command that is done.
CompletedByOwner ==
  \A b \in DOMAIN batches : batches[b].completed_at =>
    \E p \in Invocations : pc[p] = "done" /\ batch_id[p] = b

\* A command claims a batch for its file before it opens the file.
Claims(p) ==
  /\ pc[p] \in {"hash", "find", "create"} => batch_id[p] = 0
  /\ content[p] # None => batch_id[p] # 0
  /\ batch_id[p] # 0 =>
       /\ batches[batch_id[p]].source_system = args[p].source
       /\ batches[batch_id[p]].file_hash = file_hash[p]

\* What was hashed and what is read are the same, if the files are.
SameFile ==
  ~FilesChange =>
    \A p \in Invocations : {file_hash[p], content[p]} \subseteq {files[args[p].path], None}

\* Where in a batch a command is: what is stored is whole inserts, or else
\* the file is at its end, with nothing left to insert.
StoredInWholeInserts(p) ==
  /\ Len(transactions[batch_id[p]]) % BatchSize = 0
  /\ \E n \in 0..Len(Lines[content[p]]) :
       Lists(transactions[batch_id[p]], {r \in AcceptedRows(content[p]) : r <= n})

Batching(p) ==
  /\ batch_id[p] # 0 /\ pc[p] # "failed" => BatchSize > 0
  /\ content[p] # None =>
       \/ StoredInWholeInserts(p)
       \/ Lists(transactions[batch_id[p]], AcceptedRows(content[p]))
  /\ pc[p] = "stream" =>
       \/ Len(transactions[batch_id[p]]) % BatchSize = 0 /\ Len(current_batch[p]) < BatchSize
       \/ row_number[p] = Len(Lines[content[p]]) /\ current_batch[p] = <<>>
  /\ pc[p] = "flush" =>
       /\ Len(transactions[batch_id[p]]) % BatchSize = 0
       /\ Len(current_batch[p]) \in 1..BatchSize
       /\ Len(current_batch[p]) = BatchSize \/ row_number[p] = Len(Lines[content[p]])

\* The inductive invariant.
IInv ==
  /\ Accounted /\ OneBatchPerFile /\ CompletedByOwner /\ SameFile
  /\ \A p \in Invocations : Claims(p) /\ Batching(p)

\* Every command comes to an end, whatever the file holds: the row loop makes
\* progress and the last flush happens once.
EveryIngestEnds == \A p \in Invocations : <>(pc[p] \in Ended)

\* A file somebody tried to ingest ends up in a completed batch, unless the
\* command that owns its batch fails or, before there is a batch, its own
\* does.  Skipping the file and losing the race for it do no harm.
IngestedEventually ==
  \A p \in Invocations :
    LET owned == BatchesOf(args[p].source, file_hash[p])
    IN <>(\/ \E b \in owned : batches[b].completed_at
          \/ \E q \in Invocations : pc[q] = "failed" /\ batch_id[q] \in owned
          \/ pc[p] = "failed" /\ owned = {})

\* The rows of S in file order.
InOrder(S) == CHOOSE s \in [1..Cardinality(S) -> S] : Lists(s, S)

Sorted == [c \in Contents |-> [accepted |-> InOrder(AcceptedRows(c)),
                               rejected |-> InOrder(RejectedRows(c))]]

AcceptedInOrder(f) == Sorted[f[2]].accepted
RejectedInOrder(f) == Sorted[f[2]].rejected

\* The ledger of all files: the batch with a file's digest, if there is one.
LedgerEntry(f) ==
  LET b == CHOOSE b \in BatchesOf(f[1], f[2]) : TRUE
  IN [rows |-> transactions[b], errors |-> ingestion_errors[b], ingested |-> batches[b].completed_at]

FilesClaimed == {<<batches[b].source_system, batches[b].file_hash>> : b \in DOMAIN batches}

Ledger == INSTANCE IngestLedger WITH
  Files <- SourceSystem \X Contents,
  Accepted <- AcceptedInOrder,
  Rejected <- RejectedInOrder,
  ledger <- [f \in FilesClaimed |-> LedgerEntry(f)]

\* As long as files stay as they are, any number of commands that race, crash
\* and are tried again implement the ledger: one claim per file, whole inserts
\* in file order, errors after rows, completion last, and then no change
\* (cli.ingest_file).
ImplementsLedger == Ledger!Spec

\* cli.py:102 tells the user that a skipped file is "already ingested".  The
\* code only knows that somebody once started to ingest it.
AlreadyIngestedIsIngested ==
  (\A q \in Invocations : pc[q] \in Ended) =>
    \A p \in Invocations : pc[p] = "skipped" =>
      \E b \in BatchesOf(args[p].source, file_hash[p]) : batches[b].completed_at

\* transaction.py:7-9: "a single malformed row must not abort processing of
\* the other 999,999 rows in a large file".
MalformedRowDoesNotAbort ==
  \A p \in Invocations : pc[p] = "failed" => content[p] = None

\* schema.sql:87: a batch's file_hash is the "SHA-256 of file contents" of the
\* CSV file ingested.
HashIsOfIngestedFile ==
  \A p \in Invocations : content[p] # None => batches[batch_id[p]].file_hash = content[p]
=============================================================================
