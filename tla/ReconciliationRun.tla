-------------------------- MODULE ReconciliationRun --------------------------
(***************************************************************************)
(* `reconcile run` and `reconcile report`: cli.cmd_run and cli.cmd_report, *)
(* ReconciliationRunRepository, ReconciliationResultRepository and         *)
(* CsvReportWriter, next to invocations of `reconcile ingest` that commit  *)
(* rows meanwhile (module Ingestion, seen here through its inserts only).  *)
(*                                                                         *)
(* Each repository call is a transaction of its own, so each is one step;  *)
(* the two find_all of a run are two snapshots.  reconcile() is one step   *)
(* that returns what module Reconciliation promises, for lists in any      *)
(* order; so its two arguments, which find_all sorts by id, and its result *)
(* list are kept as sets.                                                  *)
(*                                                                         *)
(* A definition whose comment says "Fault:" is not part of the model, see  *)
(* Ingestion.                                                              *)
(***************************************************************************)
EXTENDS Integers, Sequences, FiniteSets, Functions

CONSTANTS
  Runners,        \* invocations of `reconcile run`
  CommandLines,   \* what follows `run`
  Batches,        \* Batches[s]: lists of rows an ingest of s may commit at once
  MaxId,          \* bound on the ids of one table
  None

\* The strategy and the tolerance of one run's MatchingConfig.
Classifier(strategy, tolerance) ==
  INSTANCE MatchClassifier WITH
    Strategy <- strategy, Tolerance <- tolerance, InternalLists <- {}, ExternalLists <- {}

\* The types and messages do not depend on them.
C == INSTANCE MatchClassifier WITH
       Strategy <- "EXACT_ID", Tolerance <- 0, InternalLists <- {}, ExternalLists <- {}

\* The flags' values after lower() and replace("-", "_").
CommandLine ==
  [algorithm : {"hash", "two_pointer", "brute_force", "unknown"},
   strategy : {"exact_id", "composite_key", "unknown"},
   tolerance_cents : Int]

ASSUME RunAssumption ==
  /\ CommandLines \subseteq CommandLine
  /\ Batches \in [C!SourceSystem -> SUBSET Seq(C!Transaction)]
  /\ MaxId \in Nat
  /\ None \notin C!Transaction \union Nat

\* build_reconciler knows three algorithms; a strategy it does not know is
\* EXACT_ID to cmd_run.
KnownAlgorithms == {"hash", "two_pointer", "brute_force"}

StrategyOf(text) == IF text = "composite_key" THEN "COMPOSITE_KEY" ELSE "EXACT_ID"

\* A row of reconciliation_runs; counts are those of RunStats.
Counts == [records_internal : Nat, records_external : Nat, matched_count : Nat,
           mismatched_count : Nat, missing_internal_count : Nat,
           missing_external_count : Nat, duplicate_count : Nat]

Run == [algorithm : KnownAlgorithms, matching_strategy : {"exact_id", "composite_key", "unknown"},
        amount_tolerance_cents : Nat, counts : Counts, completed_at : BOOLEAN]

ResultRow ==
  [run_id : Nat \ {0}, transaction_id : C!Text, internal_transaction_id : Nat \union {None},
   external_transaction_id : Nat \union {None}, status : C!Status,
   amount_difference_cents : Nat, tax_difference_cents : Nat,
   mismatch_details : SUBSET C!Detail]

VARIABLES
  tables,                  \* tables[s]: the committed rows of source s
  reconciliation_runs,     \* a row's id is its position
  reconciliation_results,  \* the set of its rows
  report,                  \* the report file: the run each piece of it is from
  pc,                      \* where each run is
  args,                    \* its command line
  loaded,                  \* loaded[p][s]: the records find_all(s) returned to it
  run_id,                  \* the run it created, 0 before
  results,                 \* what reconcile() returned to it
  written,                 \* the pieces of the report it has written
  other_rows               \* history: other_rows[p][s], the rows of the other
                           \* source when find_all(s) ran

database == <<tables, reconciliation_runs, reconciliation_results>>
locals == <<args, loaded, run_id, results, written, other_rows>>
vars == <<database, report, pc, locals>>

NoCounts ==
  [records_internal |-> 0, records_external |-> 0, matched_count |-> 0,
   mismatched_count |-> 0, missing_internal_count |-> 0, missing_external_count |-> 0,
   duplicate_count |-> 0]

Init ==
  /\ tables = [s \in C!SourceSystem |-> {}]
  /\ reconciliation_runs = <<>> /\ reconciliation_results = {}
  /\ report = <<>>
  /\ pc = [p \in Runners |-> "start"]
  /\ args \in [Runners -> CommandLines]
  /\ loaded = [p \in Runners |-> [s \in C!SourceSystem |-> {}]]
  /\ run_id = [p \in Runners |-> 0]
  /\ results = [p \in Runners |-> {}]
  /\ written = [p \in Runners |-> 0]
  /\ other_rows = [p \in Runners |-> [s \in C!SourceSystem |-> {}]]

Goto(p, from, to) == pc[p] = from /\ pc' = [pc EXCEPT ![p] = to]

-----------------------------------------------------------------------------
(* The ingest commands, seen from a run. *)

FreeIds(source) == 1..MaxId \ {t.db_id : t \in tables[source]}

\* insert_batch makes all rows of a batch visible at once.  Their ids were taken
\* from the table's sequence before, row by row, in between with those of
\* inserts that commit earlier, later or never: they rise along the batch, but
\* may have gaps and may lie below ids that are visible already.
InsertBatch(source, batch) ==
  \E ids \in [DOMAIN batch -> FreeIds(source)] :
    /\ \A k, l \in DOMAIN batch : k < l => ids[k] < ids[l]
    /\ tables' = [tables EXCEPT ![source] =
         @ \union {[batch[k] EXCEPT !.db_id = ids[k], !.source = source] : k \in DOMAIN batch}]
    /\ UNCHANGED <<reconciliation_runs, reconciliation_results, report, pc, locals>>

-----------------------------------------------------------------------------
(* cmd_run, call by call. *)

\* An unknown algorithm raises before the database is looked at.
BuildReconciler(p) ==
  /\ Goto(p, "start", IF args[p].algorithm \in KnownAlgorithms THEN "load" ELSE "failed")
  /\ UNCHANGED <<database, report, locals>>

OtherSource(source) == IF source = "INTERNAL" THEN "EXTERNAL" ELSE "INTERNAL"

Load(p, source) ==
  /\ loaded' = [loaded EXCEPT ![p][source] = tables[source]]
  /\ other_rows' = [other_rows EXCEPT ![p][source] = tables[OtherSource(source)]]
  /\ UNCHANGED <<database, report, args, run_id, results, written>>

\* Fault: the external list is loaded first (MissingExternalWasMissing).
FindAllExternalFirst(p) ==
  \/ Goto(p, "load", "load_other") /\ Load(p, "EXTERNAL")
  \/ Goto(p, "load_other", "create") /\ Load(p, "INTERNAL")

\* find_all(INTERNAL), then find_all(EXTERNAL).
FindAll(p) ==
  \/ Goto(p, "load", "load_other") /\ Load(p, "INTERNAL")
  \/ Goto(p, "load_other", "create") /\ Load(p, "EXTERNAL")

\* Fault: the table has no CHECK constraint (TypeOK).
NoToleranceCheck(p) == FALSE

ToleranceViolation(p) == args[p].tolerance_cents < 0

\* create_run; ck_tolerance_nonnegative turns a negative tolerance away.
CreateRun(p) ==
  IF ~ToleranceViolation(p)
  THEN /\ Goto(p, "create", "reconcile")
       /\ reconciliation_runs' = Append(reconciliation_runs,
            [algorithm |-> args[p].algorithm, matching_strategy |-> args[p].strategy,
             amount_tolerance_cents |-> args[p].tolerance_cents,
             counts |-> NoCounts, completed_at |-> FALSE])
       /\ run_id' = [run_id EXCEPT ![p] = Len(reconciliation_runs) + 1]
       /\ UNCHANGED <<tables, reconciliation_results, report, args, loaded,
                      results, written, other_rows>>
  ELSE /\ Goto(p, "create", "failed")
       /\ UNCHANGED <<database, report, locals>>

\* reconcile(): each algorithm implements Reconciliation.
Reconciled(p) ==
  Classifier(StrategyOf(args[p].strategy), args[p].tolerance_cents)!Expected(
    loaded[p]["INTERNAL"], loaded[p]["EXTERNAL"])

Reconcile(p) ==
  /\ Goto(p, "reconcile", "insert")
  /\ results' = [results EXCEPT ![p] = Reconciled(p)]
  /\ UNCHANGED <<database, report, args, loaded, run_id, written, other_rows>>

IdOf(t) == IF t = None THEN None ELSE t.db_id

Row(run, r) ==
  [run_id |-> run, transaction_id |-> r.transaction_id,
   internal_transaction_id |-> IdOf(r.internal_transaction),
   external_transaction_id |-> IdOf(r.external_transaction),
   status |-> r.status, amount_difference_cents |-> r.amount_difference_cents,
   tax_difference_cents |-> r.tax_difference_cents, mismatch_details |-> r.mismatch_details]

RowsFor(run, rs) == {Row(run, r) : r \in rs}

\* Fault: every row is committed by itself (ResultsAreWhole).
InsertOneByOne(p) ==
  /\ \E row \in RowsFor(run_id[p], results[p]) \ reconciliation_results :
       reconciliation_results' = reconciliation_results \union {row}
  /\ Goto(p, "insert",
          IF RowsFor(run_id[p], results[p]) \subseteq reconciliation_results'
          THEN "complete" ELSE "insert")
  /\ UNCHANGED <<tables, reconciliation_runs, report, locals>>

\* insert_results: one transaction for all rows (nothing to do for none).
InsertResults(p) ==
  /\ Goto(p, "insert", "complete")
  /\ reconciliation_results' = reconciliation_results \union RowsFor(run_id[p], results[p])
  /\ UNCHANGED <<tables, reconciliation_runs, report, locals>>

WithStatus(p, statuses) == Cardinality({r \in results[p] : r.status \in statuses})

\* Fault: duplicates fall through to the last branch (CompletedRunAddsUp).
StatsWithoutDuplicates(p) ==
  [records_internal |-> Cardinality(loaded[p]["INTERNAL"]),
   records_external |-> Cardinality(loaded[p]["EXTERNAL"]),
   matched_count |-> WithStatus(p, {"MATCHED"}),
   missing_internal_count |-> WithStatus(p, {"MISSING_INTERNAL"}),
   missing_external_count |-> WithStatus(p, {"MISSING_EXTERNAL"}),
   duplicate_count |-> 0,
   mismatched_count |->
     WithStatus(p, C!Status \ {"MATCHED", "MISSING_INTERNAL", "MISSING_EXTERNAL"})]

Stats(p) ==
  [records_internal |-> Cardinality(loaded[p]["INTERNAL"]),
   records_external |-> Cardinality(loaded[p]["EXTERNAL"]),
   matched_count |-> WithStatus(p, {"MATCHED"}),
   missing_internal_count |-> WithStatus(p, {"MISSING_INTERNAL"}),
   missing_external_count |-> WithStatus(p, {"MISSING_EXTERNAL"}),
   duplicate_count |-> WithStatus(p, {"DUPLICATE"}),
   mismatched_count |->
     WithStatus(p, C!Status \ {"MATCHED", "MISSING_INTERNAL", "MISSING_EXTERNAL", "DUPLICATE"})]

\* Fault: the records are counted again in the tables
\* (CompletedRunIsReproducible).
CompleteRecounting(p) ==
  /\ Goto(p, "complete", "open_report")
  /\ reconciliation_runs' = [reconciliation_runs EXCEPT
       ![run_id[p]].counts =
         [Stats(p) EXCEPT !.records_internal = Cardinality(tables["INTERNAL"]),
                          !.records_external = Cardinality(tables["EXTERNAL"])],
       ![run_id[p]].completed_at = TRUE]
  /\ UNCHANGED <<tables, reconciliation_results, report, locals>>

\* Fault: the UPDATE has no WHERE clause (CompletedRunFrozen).
CompleteEveryRun(p) ==
  /\ Goto(p, "complete", "open_report")
  /\ reconciliation_runs' = [k \in DOMAIN reconciliation_runs |->
       [reconciliation_runs[k] EXCEPT !.counts = Stats(p), !.completed_at = TRUE]]
  /\ UNCHANGED <<tables, reconciliation_results, report, locals>>

\* Fault: the UPDATE is never committed (ReportIsOfCompletedRuns).
CompleteWithoutCommit(p) ==
  /\ Goto(p, "complete", "open_report")
  /\ UNCHANGED <<database, report, locals>>

CompleteRun(p) ==
  /\ Goto(p, "complete", "open_report")
  /\ reconciliation_runs' = [reconciliation_runs EXCEPT
       ![run_id[p]].counts = Stats(p), ![run_id[p]].completed_at = TRUE]
  /\ UNCHANGED <<tables, reconciliation_results, report, locals>>

\* CsvReportWriter.write: open(path, "w") empties the file that all runs share.
OpenReport(p) ==
  /\ Goto(p, "open_report", "write_report")
  /\ report' = <<>>
  /\ UNCHANGED <<database, locals>>

\* The header and one line per result, all of one size here; they reach the
\* file piece by piece, each at the writer's own position, which another run
\* may have emptied (0: a hole).
WriteReport(p) ==
  LET at == written[p] + 1
  IN  /\ Goto(p, "write_report",
              IF at = 1 + Cardinality(results[p]) THEN "done" ELSE "write_report")
      /\ report' = [k \in 1..(IF at > Len(report) THEN at ELSE Len(report)) |->
                      IF k = at THEN run_id[p]
                      ELSE IF k <= Len(report) THEN report[k] ELSE 0]
      /\ written' = [written EXCEPT ![p] = at]
      /\ UNCHANGED <<database, args, loaded, run_id, results, other_rows>>

\* The process is killed or its database or file operation fails.
Abort(p) ==
  /\ pc[p] \notin {"done", "failed"}
  /\ pc' = [pc EXCEPT ![p] = "failed"]
  /\ UNCHANGED <<database, report, locals>>

-----------------------------------------------------------------------------
(* cmd_report is one read and changes nothing: what it lists of a run is
   what find_by_run returns at that moment. *)

StoredFor(run) == {row \in reconciliation_results : row.run_id = run}

-----------------------------------------------------------------------------
RunStep(p) ==
  \/ BuildReconciler(p) \/ FindAll(p) \/ CreateRun(p) \/ Reconcile(p) \/ InsertResults(p)
  \/ CompleteRun(p) \/ OpenReport(p) \/ WriteReport(p)

\* Every run has ended.
Terminated == (\A p \in Runners : pc[p] \in {"done", "failed"}) /\ UNCHANGED vars

Next ==
  \/ \E p \in Runners : RunStep(p) \/ Abort(p)
  \/ \E source \in C!SourceSystem : \E batch \in Batches[source] : InsertBatch(source, batch)
  \/ Terminated

Spec == Init /\ [][Next]_vars

-----------------------------------------------------------------------------
(* Types. *)

Steps == {"start", "load", "load_other", "create", "reconcile", "insert", "complete",
          "open_report", "write_report", "done", "failed"}

\* Type correctness.
TypeOK ==
  /\ tables \in [C!SourceSystem -> SUBSET C!Transaction]
  /\ reconciliation_runs \in Seq(Run)
  /\ reconciliation_results \subseteq ResultRow
  /\ report \in Seq(0..Len(reconciliation_runs))
  /\ pc \in [Runners -> Steps]
  /\ args \in [Runners -> CommandLines]
  /\ loaded \in [Runners -> [C!SourceSystem -> SUBSET C!Transaction]]
  /\ run_id \in [Runners -> 0..Len(reconciliation_runs)]
  /\ results \in [Runners -> SUBSET C!ReconciliationResult]
  /\ written \in [Runners -> Nat]
  /\ \A p \in Runners : written[p] <= 1 + Cardinality(results[p])
  /\ other_rows \in [Runners -> [C!SourceSystem -> SUBSET C!Transaction]]

-----------------------------------------------------------------------------
(* Safety. *)

Completed == {k \in DOMAIN reconciliation_runs : reconciliation_runs[k].completed_at}

\* The counts of a completed run account for every record it loaded: a
\* matched or mismatched result stands for two records, any other for one,
\* and together they are its stored result rows (cmd_run's counting loop
\* against insert_results and the policy of the reconcilers).
CompletedRunAddsUp ==
  \A k \in Completed :
    LET c == reconciliation_runs[k].counts
        singles == c.missing_internal_count + c.missing_external_count + c.duplicate_count
        pairs == c.matched_count + c.mismatched_count
    IN  /\ pairs + singles = Cardinality(StoredFor(k))
        /\ 2 * pairs + singles = c.records_internal + c.records_external

ColumnOf(source) ==
  IF source = "INTERNAL" THEN "internal_transaction_id" ELSE "external_transaction_id"

\* The records of a source that the stored results of a run refer to.
Named(run, source) ==
  {t \in tables[source] : \E row \in StoredFor(run) : row[ColumnOf(source)] = t.db_id}

\* A completed run can be repeated from what it has stored, whatever was
\* committed meanwhile and since: its results refer to as many records of either
\* source as its row says it loaded, and its strategy and tolerance, on these
\* records, give exactly its results.  (Ids do not rise in the order of the
\* commits, so the counts alone would not tell which records it loaded.)
CompletedRunIsReproducible ==
  \A k \in Completed :
    LET run == reconciliation_runs[k]
        I == Named(k, "INTERNAL")
        E == Named(k, "EXTERNAL")
    IN  /\ Cardinality(I) = run.counts.records_internal
        /\ Cardinality(E) = run.counts.records_external
        /\ StoredFor(k) = RowsFor(k,
             Classifier(StrategyOf(run.matching_strategy), run.amount_tolerance_cents)!Expected(
               I, E))

\* Once a run is completed, no step of any run or ingest changes its row
\* (complete_run updates its own run only).
CompletedRunFrozen ==
  [][\A k \in Completed : reconciliation_runs'[k] = reconciliation_runs[k]]_vars

\* Whenever `report` lists any result of a run, it lists all the run ever
\* stores: from the first result on, nothing is added, removed or changed
\* (insert_results is one transaction, however many pages it sends).
ResultsAreWhole ==
  [][\A run \in DOMAIN reconciliation_runs :
       StoredFor(run) # {} => StoredFor(run)' = StoredFor(run)]_vars

\* A record is called "present in internal source only" only if, when the run
\* started to load, no external row had its key: the external list is the
\* one that is loaded last, so an ingest in between cannot produce such a
\* result, only remove one.
MissingExternalWasMissing ==
  \A p \in Runners : \A r \in results[p] :
    r.status = "MISSING_EXTERNAL" =>
      Classifier(StrategyOf(args[p].strategy), args[p].tolerance_cents)!Peers(
        r.internal_transaction, other_rows[p]["INTERNAL"]) = {}

\* Whatever runs overwrite each other's report, every piece of the file comes
\* from a run whose results and counts are stored (cmd_run writes the report
\* after complete_run).
ReportIsOfCompletedRuns == Range(report) \subseteq Completed \union {0}

-----------------------------------------------------------------------------
(* Why the safety properties hold: the inductive invariant. *)

\* An id stands for one row of its table.
IdsAreKeys ==
  \A s \in C!SourceSystem : \A t \in tables[s] :
    /\ t.source = s /\ t.db_id \in 1..MaxId
    /\ \A u \in tables[s] : t.db_id = u.db_id => t = u

\* Ingests only add: what a run has loaded stays in its table, and so does what
\* it might have loaded instead.
SeenIsKept(p) ==
  \A s \in C!SourceSystem :
    /\ loaded[p][s] \subseteq tables[s]
    /\ other_rows[p][s] \subseteq tables[OtherSource(s)]

\* The external list, loaded last, holds what was there at the first load.
ExternalLast(p) == other_rows[p]["INTERNAL"] \subseteq loaded[p]["EXTERNAL"]

HasReconciled(p) == ExternalLast(p) /\ results[p] = Reconciled(p)

\* The steps of cmd_run before create_run and up to reconcile(), between
\* create_run and complete_run, and after it.
BeforeCreate == {"start", "load", "load_other", "create"}
BeforeReconcile == BeforeCreate \union {"reconcile"}
BeforeComplete == {"reconcile", "insert", "complete"}
AfterComplete == {"open_report", "write_report", "done"}
AfterInsert == AfterComplete \union {"complete"}

ReconciledInOrder(p) ==
  /\ pc[p] \in {"create", "reconcile"} => ExternalLast(p)
  /\ pc[p] \in BeforeReconcile => results[p] = {}
  /\ pc[p] \in AfterInsert \union {"insert"} => HasReconciled(p)
  /\ results[p] = {} \/ HasReconciled(p)

\* A run's row carries the configuration it runs with.
RunOf(p) ==
  /\ pc[p] \notin {"start", "failed"} => args[p].algorithm \in KnownAlgorithms
  /\ pc[p] \in BeforeCreate => run_id[p] = 0
  /\ pc[p] \in BeforeComplete => run_id[p] # 0 /\ run_id[p] \notin Completed
  /\ pc[p] \in AfterComplete => run_id[p] \in Completed
  /\ run_id[p] # 0 =>
       LET run == reconciliation_runs[run_id[p]]
       IN  run.matching_strategy = args[p].strategy
           /\ run.amount_tolerance_cents = args[p].tolerance_cents

RunsAreOwn ==
  \A p, q \in Runners : p # q /\ run_id[p] # 0 => run_id[p] # run_id[q]

StoredInOrder(p) ==
  /\ pc[p] \in {"reconcile", "insert"} => StoredFor(run_id[p]) = {}
  /\ pc[p] \in AfterInsert => StoredFor(run_id[p]) = RowsFor(run_id[p], results[p])

StoredOfRuns == \A row \in reconciliation_results : row.run_id <= Len(reconciliation_runs)

\* Run k is that of p, which has stored its results and counted them.
CountedBy(p, k) ==
  /\ run_id[p] = k
  /\ HasReconciled(p)
  /\ reconciliation_runs[k].counts = Stats(p)
  /\ StoredFor(k) = RowsFor(k, results[p])

CompletedIsCounted == \A k \in Completed : \E p \in Runners : CountedBy(p, k)

WrittenInOrder(p) ==
  /\ pc[p] \in BeforeReconcile \union {"insert", "complete", "open_report"} => written[p] = 0
  /\ pc[p] = "write_report" => written[p] <= Cardinality(results[p])

InOrder(p) ==
  SeenIsKept(p) /\ ReconciledInOrder(p) /\ RunOf(p) /\ StoredInOrder(p) /\ WrittenInOrder(p)

IInv ==
  /\ TypeOK /\ IdsAreKeys /\ RunsAreOwn /\ StoredOfRuns /\ CompletedIsCounted
  /\ ReportIsOfCompletedRuns
  /\ \A p \in Runners : InOrder(p)

-----------------------------------------------------------------------------
(* What the source says and the code does not do. *)

\* match_classifier.py says of a MISSING_INTERNAL result "present in external
\* source only": when its external list was loaded, no internal row had its
\* key.
MissingInternalWasMissing ==
  \A p \in Runners : \A r \in results[p] :
    r.status = "MISSING_INTERNAL" =>
      Classifier(StrategyOf(args[p].strategy), args[p].tolerance_cents)!Peers(
        r.external_transaction, other_rows[p]["EXTERNAL"]) = {}
=============================================================================
