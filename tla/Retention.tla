------------------------------ MODULE Retention ------------------------------
(***************************************************************************)
(* sql/schema.sql: what its foreign keys, their ON DELETE actions and      *)
(* ck_result_has_a_side do when rows are deleted or the database is reset  *)
(* (sql/reset_database.sql, then `reconcile init-db`) while an ingest and  *)
(* a run are under way, each holding ids it has read or been given before. *)
(* No command deletes anything: deletions are made by hand.                *)
(*                                                                         *)
(* A file holds one row here.  Each step of a command is one repository    *)
(* call, as in Ingestion and ReconciliationRun.                            *)
(*                                                                         *)
(* A definition whose comment says "Fault:" is not part of the model, see  *)
(* Ingestion.                                                              *)
(***************************************************************************)
EXTENDS Integers, FiniteSets

CONSTANTS
  Files,  \* records [source, key]: what the one row of a file says
  MaxId,  \* bound on the ids a sequence gives out
  None    \* NULL

SourceSystem == {"INTERNAL", "EXTERNAL"}

Keys == {f.key : f \in Files}

Id == 1..MaxId

ASSUME RetentionAssumption ==
  /\ \A f \in Files : f.source \in SourceSystem
  /\ MaxId \in Nat
  /\ None \notin Nat

VARIABLES
  batches,       \* ingestion_batches: the file of every id there is
  transactions,  \* transactions[s]: the batch and the file of every id there is
  runs,          \* the ids of reconciliation_runs
  results,       \* the rows of reconciliation_results
  next_id,       \* the BIGSERIAL sequences
  ingest,        \* the ingest under way: its file and its batch
  run,           \* the run under way: what it has loaded, its id
  crossed        \* history: a reset has crossed a command under way

database == <<batches, transactions, runs, results, next_id>>
vars == <<database, ingest, run, crossed>>

Empty == [id \in {} |-> None]

NoIngest == [file |-> None, batch_id |-> None]

NoRun == [step |-> "idle", loaded |-> [s \in SourceSystem |-> Empty], run_id |-> None]

NoTransactions == [s \in SourceSystem |-> Empty]

NewSequences == [t \in SourceSystem \union {"batch", "run"} |-> 1]

Init ==
  /\ batches = Empty /\ transactions = NoTransactions
  /\ runs = {} /\ results = {} /\ next_id = NewSequences
  /\ ingest = NoIngest /\ run = NoRun /\ crossed = FALSE

\* Fault: the next id is one more than the largest in use (AuditTrail).
MaxPlusOne(table, used) == CHOOSE n \in 1..(MaxId + 1) :
  (\A m \in used : m < n) /\ (n > 1 => n - 1 \in used)

\* BIGSERIAL never gives an id out again, whatever has been deleted.
NextId(table, used) == next_id[table]

Insert(f, id, value) == [k \in DOMAIN f \union {id} |-> IF k = id THEN value ELSE f[k]]

Advance(table) == next_id[table] <= MaxId /\ next_id' = [next_id EXCEPT ![table] = @ + 1]

-----------------------------------------------------------------------------
(* The commands. *)

\* create_batch, UNIQUE (source_system, file_hash)
CreateBatch ==
  \E f \in Files :
    LET id == NextId("batch", DOMAIN batches) IN
    /\ ingest = NoIngest /\ \A b \in DOMAIN batches : batches[b] # f
    /\ Advance("batch")
    /\ batches' = Insert(batches, id, f)
    /\ ingest' = [file |-> f, batch_id |-> id]
    /\ UNCHANGED <<transactions, runs, results, run, crossed>>

\* insert_batch; a foreign key violation ends the command.
InsertBatch ==
  LET s == ingest.file.source
      id == NextId(s, DOMAIN transactions[s])
  IN /\ ingest # NoIngest
     /\ ingest' = NoIngest
     /\ IF ingest.batch_id \in DOMAIN batches
        THEN /\ Advance(s)
             /\ transactions' = [transactions EXCEPT ![s] =
                  Insert(@, id, [batch |-> ingest.batch_id, file |-> ingest.file])]
        ELSE UNCHANGED <<transactions, next_id>>
     /\ UNCHANGED <<batches, runs, results, run, crossed>>

\* find_all, of the internal and then of the external table
FindAll(s, from, to) ==
  /\ run.step = from
  /\ run' = [run EXCEPT !.step = to,
               !.loaded = [run.loaded EXCEPT ![s] =
                  [id \in DOMAIN transactions[s] |-> transactions[s][id].file.key]]]
  /\ UNCHANGED <<database, ingest, crossed>>

CreateRun ==
  /\ run.step = "create"
  /\ Advance("run")
  /\ runs' = runs \union {NextId("run", runs)}
  /\ run' = [run EXCEPT !.step = "insert", !.run_id = NextId("run", runs)]
  /\ UNCHANGED <<batches, transactions, results, ingest, crossed>>

Holding(s, key) == {id \in DOMAIN run.loaded[s] : run.loaded[s][id] = key}

\* A pair for a key that each source holds once, otherwise a result for every
\* record.
ResultsOf(key) ==
  LET I == Holding("INTERNAL", key)
      E == Holding("EXTERNAL", key)
      Row(i, e) == [run |-> run.run_id, transaction_id |-> key, INTERNAL |-> i, EXTERNAL |-> e]
  IN IF Cardinality(I) = 1 /\ Cardinality(E) = 1
     THEN {Row(i, e) : i \in I, e \in E}
     ELSE {Row(i, None) : i \in I} \union {Row(None, e) : e \in E}

\* Fault: no foreign keys (NothingDangles).
NoForeignKeys(rows) == TRUE

ForeignKeysHold(rows) ==
  \A r \in rows :
    /\ r.run \in runs
    /\ \A s \in SourceSystem : r[s] # None => r[s] \in DOMAIN transactions[s]

\* insert_results: ids that were loaded may have been deleted since.
InsertResults ==
  LET rows == UNION {ResultsOf(key) : key \in Keys} IN
  /\ run.step = "insert"
  /\ results' = IF ForeignKeysHold(rows) THEN results \union rows ELSE results
  /\ run' = NoRun
  /\ UNCHANGED <<batches, transactions, runs, next_id, ingest, crossed>>

-----------------------------------------------------------------------------
(* What is done by hand. *)

Without(f, S) == [id \in DOMAIN f \ S |-> f[id]]

TransactionsOf(b, s) == {id \in DOMAIN transactions[s] : transactions[s][id].batch = b}

\* Fault: ON DELETE CASCADE from a transaction to its results
\* (ResultsOutliveTheirRows).
CascadeToResults(b) ==
  {r \in results : \A s \in SourceSystem : r[s] \notin TransactionsOf(b, s)}

\* ON DELETE SET NULL
SetNull(b) ==
  {[r EXCEPT !.INTERNAL = IF @ \in TransactionsOf(b, "INTERNAL") THEN None ELSE @,
             !.EXTERNAL = IF @ \in TransactionsOf(b, "EXTERNAL") THEN None ELSE @] : r \in results}

\* Fault: no ck_result_has_a_side (TypeOK).
NoSideCheck(rows) == TRUE

HasASide(rows) == \A r \in rows : r.INTERNAL # None \/ r.EXTERNAL # None

\* DELETE FROM ingestion_batches: ON DELETE CASCADE to the transactions, from
\* there ON DELETE SET NULL, and the whole statement is refused if a result is
\* left without a side.
DeleteBatch ==
  \E b \in DOMAIN batches :
    /\ HasASide(SetNull(b))
    /\ batches' = Without(batches, {b})
    /\ transactions' = [s \in SourceSystem |-> Without(transactions[s], TransactionsOf(b, s))]
    /\ results' = SetNull(b)
    /\ UNCHANGED <<runs, next_id, ingest, run, crossed>>

\* DELETE FROM reconciliation_runs
DeleteRun ==
  \E r \in runs :
    /\ runs' = runs \ {r}
    /\ results' = {row \in results : row.run # r}
    /\ UNCHANGED <<batches, transactions, next_id, ingest, run, crossed>>

\* Every table is dropped and created again, with new sequences; what was
\* wrong in the rows is gone with them.
Reset ==
  /\ batches' = Empty /\ transactions' = NoTransactions
  /\ runs' = {} /\ results' = {} /\ next_id' = NewSequences
  /\ crossed' = (ingest # NoIngest \/ run # NoRun)
  /\ UNCHANGED <<ingest, run>>

\* The command is killed.
Abort ==
  /\ \/ ingest # NoIngest /\ ingest' = NoIngest /\ UNCHANGED run
     \/ run # NoRun /\ run' = NoRun /\ UNCHANGED ingest
  /\ UNCHANGED <<database, crossed>>

Next ==
  \/ CreateBatch \/ InsertBatch
  \/ FindAll("INTERNAL", "idle", "load_other") \/ FindAll("EXTERNAL", "load_other", "create")
  \/ CreateRun \/ InsertResults
  \/ DeleteBatch \/ DeleteRun \/ Reset \/ Abort

Spec == Init /\ [][Next]_vars

-----------------------------------------------------------------------------
(* Properties. *)

\* Every variable stays within its type; every result has a side.
TypeOK ==
  /\ DOMAIN batches \subseteq Id /\ \A b \in DOMAIN batches : batches[b] \in Files
  /\ \A s \in SourceSystem :
       /\ DOMAIN transactions[s] \subseteq Id
       /\ \A id \in DOMAIN transactions[s] : transactions[s][id] \in [batch : Id, file : Files]
  /\ runs \subseteq Id
  /\ \A r \in results :
       /\ r \in [run : Id, transaction_id : Keys, INTERNAL : Id \union {None},
                 EXTERNAL : Id \union {None}]
       /\ r.INTERNAL # None \/ r.EXTERNAL # None
  /\ run.step \in {"idle", "load_other", "create", "insert"}

\* However deletions and a reset race with commands that hold ids from before,
\* no row refers to a row that is gone (the REFERENCES clauses of schema.sql
\* against the ids that find_all and create_batch have returned).
NothingDangles ==
  /\ \A s \in SourceSystem : \A id \in DOMAIN transactions[s] :
       transactions[s][id].batch \in DOMAIN batches
  /\ \A r \in results :
       r.run \in runs /\ \A s \in SourceSystem : r[s] \in DOMAIN transactions[s] \union {None}

\* "Historical runs stay queryable forever" (schema.sql:178): deleting what a
\* run has compared takes none of its results away; a result can lose one
\* side, and then what is left of it can no longer be deleted before the run.
\* Only a reset ends that.
ResultsOutliveTheirRows ==
  [][next_id' # NewSequences =>
       \A r \in results : r.run \in runs' =>
         \E q \in results' :
           /\ q.run = r.run /\ q.transaction_id = r.transaction_id
           /\ \A s \in SourceSystem :
                q[s] # r[s] => q[s] = None /\ r[s] \notin DOMAIN transactions'[s]]_vars

\* "Every transaction row links back to the batch that created it, so we can
\* always answer 'which file, and when, produced this row?'"
\* (schema.sql:32-33), and a result's ids lead to rows with its transaction
\* id -- unless a reset has crossed a command under way, whose old ids then
\* mean other rows.
AuditTrail ==
  ~crossed =>
    /\ \A s \in SourceSystem : \A id \in DOMAIN transactions[s] :
         batches[transactions[s][id].batch] = transactions[s][id].file
    /\ \A r \in results : \A s \in SourceSystem :
         r[s] # None => transactions[s][r[s]].file.key = r.transaction_id

\* The argument behind them.  An id is never given out twice, so whatever a
\* command still holds is either gone or the row it was.
Held ==
  /\ batches \in [DOMAIN batches -> Files]
  /\ transactions \in [SourceSystem -> {transactions[s] : s \in SourceSystem}]
  /\ \A s \in SourceSystem :
       transactions[s] \in [DOMAIN transactions[s] -> [batch : Id, file : Files]]
  /\ next_id \in [SourceSystem \union {"batch", "run"} -> 1..(MaxId + 1)]
  /\ ingest = NoIngest \/ ingest \in [file : Files, batch_id : Id]
  /\ run = [step |-> run.step, loaded |-> run.loaded, run_id |-> run.run_id]
  /\ run.loaded \in [SourceSystem -> {run.loaded[s] : s \in SourceSystem}]
  /\ \A s \in SourceSystem :
       /\ DOMAIN run.loaded[s] \subseteq Id
       /\ run.loaded[s] \in [DOMAIN run.loaded[s] -> Keys]
  /\ run.step = "insert" => run.run_id \in Id

Fresh ==
  /\ \A b \in DOMAIN batches : b < next_id["batch"]
  /\ \A s \in SourceSystem : \A id \in DOMAIN transactions[s] : id < next_id[s]

StillMeant ==
  ~crossed =>
    /\ ingest # NoIngest =>
         /\ ingest.batch_id < next_id["batch"]
         /\ ingest.batch_id \in DOMAIN batches => batches[ingest.batch_id] = ingest.file
    /\ \A s \in SourceSystem : \A id \in DOMAIN run.loaded[s] :
         /\ id < next_id[s]
         /\ id \in DOMAIN transactions[s] => transactions[s][id].file.key = run.loaded[s][id]

\* The inductive invariant.
IInv == TypeOK /\ Held /\ NothingDangles /\ Fresh /\ StillMeant /\ AuditTrail
=============================================================================
