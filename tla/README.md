# A TLA+ model of the reconciliation engine

`recon_engine` is a command line program that loads two CSV files of
transactions (*internal* and *external*) into PostgreSQL, pairs the records of
the two sources by a key, classifies every record or pair, and stores and
reports the results. This directory holds TLA+ modules translated from its
code, TLC configurations that check them on small instances, and proofs,
checked by TLAPS, that hold for every value of the constants. Paths below are
relative to the repository.

## 1. Inventory of the system

| Part | State | Operations | What makes it correct | Hard because |
|---|---|---|---|---|
| Ingest command (`cli.ingest_file`) and `StreamingCsvIngestor` | current batch, `IngestionSummary`, open file | hash, look the digest up, create the batch row, read line by line, flush a full batch, flush the rest, store the errors, complete the batch | a batch marked completed holds every row of its file, once and in order; one file enters a source once | each database call commits on its own, so a crash or an error stops half way; several commands race; the file is opened twice |
| Batch, transaction and error repositories | tables `ingestion_batches`, `internal_transactions`, `external_transactions`, `ingestion_errors` | `find_existing_batch`, `create_batch`, `insert_batch`, `bulk_insert_via_copy`, `insert_errors`, `complete_batch`, `find_all` | each call is all or nothing | UNIQUE constraint as the only guard against a race |
| Row validation (`RowValidator`, `csv_parser`, `Money`, `Date`) | none | `validate_row`, `split_line`, parsing and formatting | a bad row becomes an error message, never an exception or a guess | Unicode digits, quoting, truncation |
| Match classifier | none | `build_key`, `classify_match`, `missing_*`, `duplicate` | records are paired only if their key fields agree; the status names the mismatches | delimiter in a key, tolerance boundary |
| Hash, two-pointer and brute-force reconcilers | indexes, pointers, counts, result list | `reconcile` | every record appears in exactly one result, the one the duplicate policy calls for, whatever the algorithm | group boundaries, lone records under ambiguous keys, set iteration order, two loops that must share the records out |
| Run command (`cli.cmd_run`), run and result repositories | tables `reconciliation_runs`, `reconciliation_results` | load, load, create, reconcile, insert, complete, write the report | a completed run's counts, parameters and results fit together for ever | two snapshots, crashes between the calls, concurrent runs |
| Report command and `CsvReportWriter` | `data/output/reconciliation_report.csv` | `find_by_run`, `write` | what is shown is whole and stored | shared file, emptied first |
| Schema, schema manager, indexes, reset script | the six tables, their sequences | idempotent DDL, constraints, `ON DELETE` actions, reset | no row means anything else than it did | deletions by hand next to commands that hold ids, `ON DELETE SET NULL` against a CHECK |
| Sample queries | — | a `FULL OUTER JOIN` that reconciles in SQL | agrees with the classifier where it says so | repeated keys, lone records |
| Configuration, connection, logger, SHA-256 helper | environment, config file | lookups, connect | — | — |

**Interactions.** A command is one process with one connection and no threads.
Commands meet only in the database and in files: an ingest reads a CSV file and
writes three tables; a run reads what ingests have committed and writes two more
tables and the shared report file; a report reads one table. The ingestor hands
batches to the repository through a callback, `on_batch`. Connections are
not in autocommit mode and every repository method ends in `commit()` or
`rollback()`, so one repository call is one atomic step and a process can be
interrupted between any two of them. That is the grain of the command models,
`Ingestion`, `ReconciliationRun` and `Retention`.

The places where this code can go wrong in a way a test would hardly reach are
listed, with their lines and the properties that cover them, under `hazards` in
`PROJECT.json`.

## 2. Modules

| Module | Models | Kind |
|---|---|---|
| `IngestLedger` | what `reconcile ingest` promises about one file | abstract specification |
| `Ingestion` | `cli.ingest_file`, `StreamingCsvIngestor`, the three ingestion repositories | state machine of several commands; implements `IngestLedger` |
| `CsvLine` | `csv_parser.split_line`, one action per branch of its loop | state machine |
| `MoneyText`, `DateText` | `Money.from_decimal_string`, `to_string`, `Date.parse`, and the digits of Python's `str` | operators (a fold for the loop) |
| `RowPipeline` | `RowValidator`, both insert paths of `TransactionRepository`, `find_all`, the report line; extends the three above | state machine of one row |
| `MatchClassifier` | `match_classifier.py`, the record types, and the duplicate policy as `Verdict` and `Expected` | operators |
| `Reconciliation` | `IReconciler.reconcile`: return an enumeration of the expected results, in one step | abstract specification |
| `HashReconciler`, `TwoPointerReconciler`, `BruteForceReconciler` | the three algorithms, one action per loop body | state machines that implement `Reconciliation` |
| `SqlJoin` | queries 1 and 3 of `sample_queries.sql` | operators |
| `Algorithms` | the three reconcilers and the SQL join on the same two lists | composition |
| `ReconciliationRun` | `cmd_run`, `cmd_report`, run and result repositories, report writer; ingests appear through their commits | state machine of several commands |
| `Retention` | `REFERENCES`, `ON DELETE`, `ck_result_has_a_side`, sequences and `reset_database.sql`, next to one ingest and one run | state machine |
| `MCIngestion`, `MCRow`, `MatchInputs`, `MCAlgorithms`, `MCHash`, `MCRun`, `MCRetention` | values of the constants for TLC | — |
| `IngestionProofs`, `IngestionFileProofs` | theorems about `Ingestion`: the accounting of every command; the batches, the stable file and the ledger | proofs |
| `HashProofs`, `AlgorithmProofs` | theorems about `MatchClassifier` and the hash reconciler, and the other two with their composition and the SQL join | proofs |
| `RunProofs`, `RetentionProofs` | theorems about `ReconciliationRun`, `Retention` | proofs |
| `TextProofs` | lemmas about texts: numbers, dates, amounts, replacing and joining | proofs |
| `RowProofs` | theorems about `RowPipeline`, the scanner and what is stored and reported of a row | proofs |

The composition: `ReconciliationRun` takes the reconcilers through
`MatchClassifier!Expected`, which is what `Reconciliation` says they return and
what the refinements show they do, and takes `Ingestion` through its
`InsertBatch` commits, which are whole (`InsertsAreWhole`). `Ingestion` takes
`RowPipeline` through the kind of a line (accepted, rejected, not storable,
raising), which `RowPipeline` derives from its characters. `Retention` takes
both commands with the ids they hold between calls and nothing else.

### Correspondence with the code

*Ingestion.* `pc[p]` says which call invocation `p` is about to make: `hash`
(`HashFile`), `find`, `create`, `open`, `stream` (one line per step), `flush`
(`insert_batch`), `errors`, `complete`; it ends in `done`, `skipped` or
`failed`. Table rows are reduced to what the properties tell apart: a batch's
position is its id, a stored transaction is its `source_row_number`. File
contents are model values whose lines have a kind (accepted, rejected, blank,
not storable, raising an exception); the digest of a file is its contents. A
database error rolls its call back and ends the command, exactly like a crash
before the call; both are `Abort`. `ReplaceFile` is the outside world.

*Ledger.* A file of the ledger is a pair of a source and a digest; its entry is
read off the batch with that digest. What the ledger does not say is who
ingests the file and how often it was tried.

*Rows.* A character is a string of its own, so that a digit outside 0-9 can be
one: `"sup2"` (a digit to `isdigit()`, none to `int()`) and `"arabic2"` (a digit
to both). `from_decimal_string` is a fold of `Read` over the characters;
`CentsDenoted` says without a loop what a text denotes. `FieldsOf` does the same
for `split_line`: a comma separates when an even number of quotes precedes it.
A line never holds a line break, because the file iterator cuts there and the
ingestor strips it. `InsertBatch` and `BulkInsertViaCopy` are two actions with
one guard: either path may store the row. COPY's own reading of its text format
is external.

*Retention.* A file holds one row, so that a batch, its transaction and the
results about it are told apart by their ids. `crossed` is a history variable:
a reset has happened under a command that is still at work, or has worked since.

*Classifier.* A text is a sequence of character codes because the composite key
concatenates three of them; amounts are cents; a date is its ISO text;
`mismatch_details` is the set of statements it makes. `float` and formatting
play no part. `Expected(I, E)` is the README's duplicate policy, stated record by
record and independent of any grouping: the result for `t` depends on the
records with `t`'s key only.

*Reconcilers.* Hash: the dictionaries are functions from keys to groups; the set
of keys is visited in any order. Two-pointer: the sort is any result a stable
sort by key can return (there is one); `i` and `j` are one more than in the code.
Brute force: four counts, then two loops.

*ReconciliationRun.* The two `find_all` calls are two steps; `create_run`,
`insert_results` and `complete_run` one each; the report file is a sequence of
pieces, each marked with its run, that every run writes at its own position.
A table is the set of its committed rows. A row's id is taken from the sequence
when it is inserted and seen when its batch is committed: `InsertBatch` gives a
batch any free ids that rise along it, below or above those already visible.
`other_rows` is a history variable that the
code does not have; only two properties read it.

Definitions marked `Fault:` are not part of any specification. Each is a
plausible mistake in the definition that follows it, and shows, when put in its
place, that the named property notices.

## 3. What TLC checks

Passing runs:

| Run | Instance | Properties |
|---|---|---|
| `Ingest` | two commands, two paths, seven contents, crashes anywhere, stable files | `TypeOK`, `DoneMeansWhole`, `CompletedBatchIsWhole`, `EachFileLandsOnce`, `ImplementsLedger` |
| `IngestReplaced` | two commands for one path whose file may be replaced at any moment; one of them may crash | `IInv` (the proof's invariant), `InsertsAreWhole`, `CompletedBatchFrozen`, `EveryIngestEnds`, `IngestedEventually` |
| `Row` | every line of up to 5 quotes, commas and letters; some 150 rows that vary one or two fields | `TypeOK`, `InQuotesIsParity`, `SplitSoFar`, `AmountIsAsWritten`, `DateIsAsWritten`, `StoredIsReadBack`, `ReportReadsBack`, `EveryRowSettles` |
| `Algorithms` | composite keys, every pair of lists of up to 2 records of seven kinds or 3 of two kinds, any order of the key set | `AllTypesOK`, `IInv` (the proof's invariant), `MergedSoFar`, `CountsAgree`, `ReportedOnce`, `PairsAgree`, `AlgorithmsAgree`, `JoinIsExactOnUniqueKeys`, `ImplementsReconciliation`, `OthersImplement`, `Terminates` |
| `Run` | two runs with any of four command lines, ingests of both sources between their calls, with ids in and out of the order of the commits, crashes anywhere | `TypeOK`, `CompletedRunAddsUp`, `CompletedRunIsReproducible`, `MissingExternalWasMissing`, `ReportIsOfCompletedRuns`, `CompletedRunFrozen`, `ResultsAreWhole` |
| `Retention` | three files (a pair and a lone record), three ids per sequence; an ingest and a run at any point, deletions, resets, kills | `TypeOK`, `NothingDangles`, `AuditTrail`, `ResultsOutliveTheirRows` |

What the less obvious ones say:

* `ImplementsLedger`: however commands for one file race, die and are repeated,
  the database goes through claim, whole inserts in file order, errors,
  completion, and nothing follows. It contains what `InsertsAreWhole` and
  `CompletedBatchFrozen` say; those two are checked where files are replaced,
  and the ledger cannot hold.
* `CompletedBatchIsWhole` relates a batch's digest and counts to the rows and
  errors stored for it; `DoneMeansWhole` relates a command's success to the file
  it actually read, and so survives a replaced file, which the former does not.
* `IngestedEventually`: a file somebody tried to ingest ends up in a completed
  batch unless the command that owns its batch fails. Losing the race between
  `find_existing_batch` and `create_batch` therefore does no harm.
* `CompletedRunIsReproducible`: the result rows stored for a run refer to as many
  records of the two tables as its row counts, and its strategy and tolerance,
  applied to these records, give exactly those result rows, although ingests
  have committed before, during and after the run. The counts alone would not do:
  ids do not rise in the order of the commits, so the list a run loaded need not
  be the beginning of the list that `find_all` returns later.
  `CompletedRunAddsUp` is the conservation law between the counts:
  pairs count twice, everything else once.
* `MissingExternalWasMissing` holds because `find_all(EXTERNAL)` is the *second*
  load; its mirror image does not hold (`RunSkew`).
* `ResultsAreWhole` is what makes `reconcile report` safe at any moment: it shows
  nothing of a run, or all of it.
* `SplitSoFar` is the loop invariant of `split_line`; `InQuotesIsParity` is why it
  holds: a closing quote that a later quote reopens is a doubled quote.
* `StoredIsReadBack` is checked of both insert paths, with tabs, backslashes and
  quotes in the ids; `ReportReadsBack` splits the report's line with `FieldsOf`.
* `JoinIsExactOnUniqueKeys` is the exact form of the "KNOWN, VERIFIED
  LIMITATION" in `sample_queries.sql`: query 1 agrees with the policy, by id and
  without a tolerance, on ids that neither source repeats. Query 3 lists the ids
  that the external source repeats, and those only: an id that the internal
  source repeats is listed by no query, and query 1 shows each of its records as
  an ordinary row, as if it were alone.
* `ResultsOutliveTheirRows`: deleting a batch can take one side off a result, and
  is refused when it would take the last, so a run's results go only with the
  run. `AuditTrail` says that ids still lead to the rows they led to, and says
  itself when not: after a reset under a running command.

The three reconcilers implement the same `Reconciliation`, and `AlgorithmsAgree`
compares their results directly: the choice of `--algorithm` changes nothing but
their order. With `CompletedRunIsReproducible` this is the repository README's
claim that each algorithm "produces its own run row with identical counts".

Runs that refute a sentence of the repository (details under `findings`):

| Run | Sentence refuted |
|---|---|
| `IngestSkipped` | a skipped file is "already ingested": it may be half ingested for ever, after a crash |
| `IngestBadRow` | "a single malformed row must not abort processing of the other rows" |
| `IngestHash` | `file_hash` is the digest of the file's contents: the file is opened twice |
| `HashPipe` | "'\|' is not a valid character in any of these fields": nothing rejects it |
| `RunSkew` | "present in external source only" of a record both sources held |
| `MoneyGuess` | "must never 'guess' at a monetary value": a superscript two is 130 |

Met while modelling, and left without a run because a property would only
repeat the line: `summary.errors` keeps every rejected row of a file, against
"peak memory usage is O(batch_size)" (`README.md:179`); `classify_match` does not
compare currencies, against "detects and classifies every discrepancy"
(`README.md:12`); `cmd_report` says "either the run doesn't exist, or it produced
zero results" (`cli.py:233`) also of a run that is still computing or has died;
an unknown `--strategy` runs as `EXACT_ID` while the text typed is stored
(`cli.py:166-185`); the result for a lone record whose key the other source
repeats says "duplicate key within" its own source (`match_classifier.py:113`);
a date with Arabic-Indic digits is accepted and stored with ASCII ones, against
"a silently 'fixed' date would corrupt the audit trail" (`date_value.py:13`), so
`DateIsAsWritten` compares texts in ASCII only; "-0.001" is accepted as zero;
`bulk_insert_via_copy` says that no field can hold a tab or a backslash "per
RowValidator" (`transaction_repository.py:103-105`), which asks only that fields
are not empty -- its escaping is needed, and right; the `[reconciliation]` keys of
`config.example.ini` are read by no command.

### Bounds, and why they are enough

* Two invocations and two runs: the tables couple commands pairwise, by digest,
  by batch id, by run id and through the report file; a third process adds no
  new kind of encounter.
* `BatchSize = 2`, files of up to six data lines: zero, one, and two flushes, a
  partial last batch, an exact multiple, a rejected line between two flushes and
  at the end, a row that cannot be stored in the first and in the second insert.
* Lists of up to 2 records of any of seven kinds, or 3 of two kinds, on either
  side, over composite keys that only the delimiter tells apart, give every
  combination of group sizes 0, 1, 2 and 3, keys present on one side only,
  before, between and after common keys; amounts lie below, at and above the
  tolerance of one cent. By composite key only mismatches of amount and tax can
  occur; those of date and vendor occur by id, in the verdicts that
  `JoinIsExactOnUniqueKeys` compares the join with. The algorithms see a strategy
  only through `build_key`; `Run` takes both strategies, and the proofs hold for
  either.
* `ShortLines` of `MCRow`: five characters hold an opening, a doubled and a closing
  quote with a comma on either side of one. A branch of the scanner looks at
  two characters and one bit. `BigIntMax` is 99999, so that an amount can exceed
  it; nothing else depends on its size.
* `MaxId`: three ids of each sequence allow a pair, a lone record and one id after
  a deletion; the deletion of a batch, the second of a pair included, can come
  between any two calls of an ingest and a run.
* `MaxId` limits the ids of a table in `ReconciliationRun`, to two. The internal
  source has a batch of one row, which may commit twice and with either id first,
  and one of two rows; the external source has one batch of two. By id they hold a
  mismatch, a duplicate and lone records, by composite key a match within the
  tolerance and a repeated key; each may commit before, between or after the two
  loads of either run.

No counter of the code is capped otherwise: in the other modules state is
finite because files and lists are.

### Fairness

`Ingestion!FairSpec` assumes weak fairness of each command's own steps, never of
`Abort` or `ReplaceFile`: a started Python process keeps executing. The
reconcilers' `FairSpec` assumes the same of their single step relation: a
sequential loop runs on; so do `RowPipeline!FairSpec` and `Algorithms!RunsSpec`,
of one thread each. `IngestedEventually` names the failures that excuse it,
and `IngestSkipped` shows that they are then final. Commands end and the
algorithms stop, and the models say so with `Terminated`, so deadlock is checked
in every run (`Retention` never stops: a reset is always possible).

## 4. What is proved

Theorems hold for all values of the constants allowed by the `ASSUME`s of the
modules: any number of commands, files and contents, any batch size, any lists
of records, either strategy, any non-negative tolerance.

**Ingestion** (`IngestionProofs` and `IngestionFileProofs`, from
`ConstantsAssumption`). `DoneMeansWhole` is not inductive: it says nothing of a
command before its end. The accounting adds what holds on the way. `OneOwner`: a
batch belongs to at most one invocation, so no other command's insert disturbs
it. `Progress`: while streaming, the rows stored followed by the rows still in
the current batch are the accepted rows among the lines read so far, in
ascending order, and the errors are the rejected ones (`ReadSoFar`); at the end
of the file this becomes `ReadAll`. The proof has one lemma per action; the
steps that append a row use that the row number just read exceeds all earlier
ones. `Accounting`, `TypeCorrect` and `DoneIsWhole` follow.

`IngestionFileProofs` strengthens this to `IInv`: at most one batch has a given
digest and source, only its owner completes it, and what it has received comes
in whole inserts. From it, with files that are replaced at any moment,
`InsertedWhole` and the action property `CompletedFrozen`. With `~FilesChange`,
a constant of the module, the digest in the batch's row is that of the file
its owner reads; then `CompletedIsWhole`, `LandsOnce` and the refinement
`LedgerImplemented`. The hypothesis is needed: `IngestHash` refutes these
without it.

**Classifier** (`HashProofs`, first part, from `MatchingAssumption`).
`ExpectedReportsOnce`: any list that enumerates `Expected(I, E)` tells about each
record in exactly one of its elements. The heart is `VerdictIsOwn`: if the
verdict of `u` tells about `t`, it *is* the verdict of `t`, since an unambiguous
pair shares one verdict and every other verdict tells about its own record only.
`CompositeKeyIsExact`: texts without the delimiter are recovered from the key,
by splitting at its first delimiter twice (`SplitAtPipe`).

**Hash reconciler** (`HashProofs`, from both assumptions). `IInv` says that after
`n` records each index maps a key to the records among the first `n` with that
key, each once, and that the results so far are the verdicts, each once, of the
records whose key has been visited (`VisitedSoFar`). From it: `TypeCorrect`,
`Implements` (every step of the reconciler is a step of `Reconciliation` or
stutters), `EveryRecordReportedOnce` (through `ExpectedReportsOnce`), and
`CompositePairsAgree`, which adds the assumption that no key text holds a `|`:
exactly the sentence of `match_classifier.py` that `HashPipe` refutes.

**Brute force, two-pointer, all three, and the join** (`AlgorithmProofs`, from
`MatchingAssumption`). `OwnSteps` reduces the composition to each algorithm's
own specification. Brute force: the counts say how many records share a key
(`CountedSoFar`), so the verdict the first loop reaches is the one of the policy,
and the second loop skips exactly the records whose verdict the first has
reported (`DecidedSoFar`). Two-pointer: the order of the keys is total
(`TextLTTotal`, by the least position at which two texts differ), so that every
key behind the pointers is smaller than every key ahead of them, and the results
are the verdicts of the records behind (`MergedSoFar`); without totality a group
could be passed over. From these, `AllTypesCorrect`, `WalkIsMerged`,
`CountsAgreeAlways`, and `AllImplement`: both implement `Reconciliation`.
`AlgorithmsAgreeAlways`: sequences without repetition that enumerate one set have
one length. `JoinIsExact`: the join has one row for each record whose id the other
source does not repeat (`JoinRows`), whose status is that of the policy or one of
the mismatches it names (`JoinSaysVerdict`); for an id that only the internal
source repeats, it is that of the policy on the record alone.

**Runs and reports** (`RunProofs`). The inductive invariant ties what a run
holds, at each point between its calls, to its row and to the rows it loaded;
since ingests only add rows, under ids of their own, later commits change neither.
`AddsUp` is a counting argument: matched and mismatched results each stand for
two records, every other for one, and no record is in two. `Reproducible` needs in
addition that the results refer to every record loaded and to no other row of the
tables (`LoadedIsNamed`), since an id stands for one row. From the same invariant,
`MissingExternalHolds` (the external table is loaded last, and no row leaves it
meanwhile), `ReportHolds` (a piece is written only after completion),
and the action properties `RunFrozen` and `Whole` follow. The lemmas of the
classifier are used through its parameterised instance.

**Retention** (`RetentionProofs`). The ids a command still holds may have lost
their rows, so the invariant says, unless a reset has crossed the command, that
each was given out already (`Fresh`: no sequence gives it out again) and that its
row, if there is one, is the one the command meant (`StillMeant`).
`ReferencesHold`, `AuditTrailHolds`, and the action property `ResultsOutlive`.

**Rows** (`RowProofs` on `TextProofs`, from `LinesAssumption` and
`PipelineAssumption`, which say that the characters the code itself names are
characters). Texts, lines and fields have any length here. `Invariance` proves the
inductive invariant, whose parts say for each stage what the next one relies on.

* *Splitting.* `QuotesStayInStep`: the scanner is inside quotes exactly after an
  odd number of quotes; `ParityStep` adds one position to the set of quotes before
  it, and a doubled quote takes two such steps. `SplitIsTheLine`: `SplitSoFar` is
  inductive once it is known that the scanner never stands outside quotes between
  two quotes (`NoQuoteBehindQuote`; without it a closing quote and the first half
  of a doubled one cannot be told apart). What one
  character more does to `FieldsOf` is `FieldsStep`: it ends a field, extends the
  last one, or is dropped.
* *Validating.* The fields are texts and the verdict, once given, is
  `Verdict(fields)` and the row `TransactionOf(fields)` (`Judged`).
  `DatesAreAsWritten` and `EveryDayIsAccepted`: the digits of a year, month or day
  are the places of the number they make up (`FourDigits`, `FourDigitsPrint`), so
  parsing and printing undo each other. `AmountsAreAsWritten`: the fold of
  `from_decimal_string` goes through the states of its loop (`FoldIsLoop`); at each
  of them the flags say what the characters read were (`FlagsOf`) and the numbers
  what they denote (`PartsAt`, one case per branch); at the end that is the number
  `CentsDenoted` finds without a loop. The restriction to ASCII is needed:
  `MoneyGuess` refutes the property without it.
* *Storing.* `ReadBack`: COPY's reader, after the escapes of one text, is where it
  was with that text appended to its column (`CopiedEscape`, by the least position
  where it would not be); `CopiedLine` adds column after column behind tabs. A
  tab in the text cannot end a column because it is never written bare.
* *Reporting.* `ReportIsReadBack`: `Says(e, fs, q)` means that `e` splits into the
  fields `fs` and then the unfinished `q`. One lemma per way of continuing
  (`SaysSeparator`, `SaysQuotes`, `SaysPlain`, `SaysQuoted`) shows that an escaped
  field says that field (`SaysEscaped`), and `ReportSplits` goes through the five
  fields of the line. `MoneyReadsBack` is the round trip of `Money.to_string` and
  `from_decimal_string`, for every non-negative amount.
* `TypeCorrect`: the types of what is stored and loaded follow from it being the
  row that was accepted (`Kept`), which is also where no negative amount comes from.

**Model-checked only.** Liveness (`EveryIngestEnds`, `IngestedEventually`,
`EveryRowSettles`, `Terminates`), which needs `ENABLED`. Every invariant and every
action property of the passing runs is proved. No module here declares a
recursive operator. Where a proof needs induction over positions in a sequence
or over the turns of a loop, it takes the least counterexample in a concrete set
of numbers (`LeastNumber`, `EveryStep`); a recursive function or a fold is first
shown to have a value at every position (`NumeralExists`, `ReadsFold`). The
reference `FieldsOf` chooses the m-th position of a field (`Nth`) where a filter
over the line would do for TLC, because the library's filter is recursive; `Decimal`
cuts digits off one by one for the same reason.

## 5. Not modelled

* Line breaks inside quoted fields: the file iterator cuts lines before the
  scanner sees them.
* `count_all`, which only tests call and which changes nothing; queries 2, 4 and 5
  of `sample_queries.sql`, which list what is stored.
* Schema creation and indexes: DDL in one transaction, without an effect on what
  is checked.
* Line lengths in the CSV report (two runs that write it at once overwrite each
  other by bytes, in the model by pieces), logging, printing, connecting.
* Reading `.env` and `config.ini`: a pure loop over lines into a dictionary, whose
  only trap is that a value ends at its first `;` (`config.py:38`).
* Timestamps and durations.
* The order of the ids of batches and runs, which are numbered in commit order:
  they are only compared for equality. (Those of transactions have gaps and
  commit out of order in `ReconciliationRun`.)
* Negative amounts of more than 4300 digits: the message that rejects one
  (`row_validator.py:79`) converts it outside the `try`, and recent versions of
  Python then raise a `ValueError`, which would end the loop like the exception
  that `IngestBadRow` shows.

## 6. Plan

Done, in this order: `Ingestion`, its invariant and proofs; `MatchClassifier`
and `Reconciliation`; the three reconcilers; the proofs of the classifier and
of the hash reconciler; `ReconciliationRun`; `CsvLine`, `MoneyText`, `DateText` and
`RowPipeline`; `IngestLedger` and its refinement; `SqlJoin` and `Algorithms`;
`Retention`.

The proofs followed in the same order: ingestion (accounting, then batches and
the ledger), classifier, hash reconciler, scanner, runs, retention, the other
two reconcilers with their composition, dates and amounts, and the round trips
of a row through splitting, COPY and the report.

Next: the hazards that no property covers (section 1), first the rejected rows
that a large file keeps in memory and the batch left behind by a `batch_size` that
is not positive.
