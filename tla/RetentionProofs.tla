-------------------------- MODULE RetentionProofs --------------------------
(***************************************************************************)
(* Proofs about Retention, for any files and any bound on the ids: however *)
(* deletions and resets cross the commands, no foreign key dangles, and    *)
(* unless a reset crosses a command every id keeps its meaning.            *)
(***************************************************************************)
EXTENDS Retention, TLAPS

ResultRow == [run : Id, transaction_id : Keys, INTERNAL : Id \union {None},
              EXTERNAL : Id \union {None}]

-----------------------------------------------------------------------------
(* The helpers. *)

LEMMA InsertType ==
  ASSUME NEW T, NEW f, f \in [DOMAIN f -> T], NEW id, NEW v \in T, NEW g, g = Insert(f, id, v)
  PROVE  g \in [DOMAIN g -> T]
  BY DEF Insert

LEMMA WithoutType ==
  ASSUME NEW T, NEW f, f \in [DOMAIN f -> T], NEW S, NEW g, g = Without(f, S)
  PROVE  g \in [DOMAIN g -> T]
  BY DEF Without

Table == SourceSystem \union {"batch", "run"}

LEMMA AdvanceProperties ==
  ASSUME Held, NEW t \in Table, Advance(t)
  PROVE  /\ next_id[t] \in Id
         /\ next_id' \in [Table -> 1..(MaxId + 1)]
         /\ next_id'[t] = next_id[t] + 1
         /\ \A u \in Table : u # t => next_id'[u] = next_id[u]
<1>1. next_id \in [Table -> 1..(MaxId + 1)] /\ MaxId \in Nat
  BY RetentionAssumption DEF Held, Table
<1>2. next_id[t] \in 1..(MaxId + 1) /\ next_id[t] <= MaxId
  BY <1>1 DEF Advance
<1>3. next_id[t] \in Id /\ next_id[t] + 1 \in 1..(MaxId + 1)
  BY <1>1, <1>2 DEF Id
<1> QED BY <1>1, <1>3 DEF Advance

\* What a result looks like after ON DELETE SET NULL.
Cut(r, b) ==
  [r EXCEPT !.INTERNAL = IF @ \in TransactionsOf(b, "INTERNAL") THEN None ELSE @,
            !.EXTERNAL = IF @ \in TransactionsOf(b, "EXTERNAL") THEN None ELSE @]

LEMMA SetNullIsCut ==
  ASSUME NEW b
  PROVE  SetNull(b) = {Cut(r, b) : r \in results}
  BY DEF SetNull, Cut

LEMMA Sides ==
  ASSUME NEW r \in ResultRow
  PROVE  /\ r["INTERNAL"] = r.INTERNAL /\ r["EXTERNAL"] = r.EXTERNAL
         /\ r.run \in Id /\ r.transaction_id \in Keys
         /\ \A s \in SourceSystem : r[s] \in Id \union {None}
  BY DEF ResultRow, SourceSystem

LEMMA CutProperties ==
  ASSUME NEW r \in ResultRow, NEW b
  PROVE  /\ Cut(r, b) \in ResultRow
         /\ Cut(r, b).run = r.run /\ Cut(r, b).transaction_id = r.transaction_id
         /\ \A s \in SourceSystem :
              Cut(r, b)[s] = IF r[s] \in TransactionsOf(b, s) THEN None ELSE r[s]
<1> DEFINE i == IF r.INTERNAL \in TransactionsOf(b, "INTERNAL") THEN None ELSE r.INTERNAL
           e == IF r.EXTERNAL \in TransactionsOf(b, "EXTERNAL") THEN None ELSE r.EXTERNAL
<1>1. Cut(r, b) = [r EXCEPT !.INTERNAL = i, !.EXTERNAL = e]
  BY DEF Cut
<1>2. i \in Id \union {None} /\ e \in Id \union {None}
  BY Sides DEF ResultRow
<1>3. /\ i = IF r["INTERNAL"] \in TransactionsOf(b, "INTERNAL") THEN None ELSE r["INTERNAL"]
      /\ e = IF r["EXTERNAL"] \in TransactionsOf(b, "EXTERNAL") THEN None ELSE r["EXTERNAL"]
  BY Sides
<1> HIDE DEF i, e
<1>4. /\ Cut(r, b) \in ResultRow
      /\ Cut(r, b).run = r.run /\ Cut(r, b).transaction_id = r.transaction_id
      /\ Cut(r, b)["INTERNAL"] = i /\ Cut(r, b)["EXTERNAL"] = e
  BY <1>1, <1>2 DEF ResultRow
<1> QED BY <1>3, <1>4 DEF SourceSystem

\* What a run writes refers to what it has loaded.
LEMMA RowsOfRun ==
  ASSUME TypeOK, Held, run.step = "insert", NEW key \in Keys, NEW row \in ResultsOf(key)
  PROVE  /\ row \in ResultRow
         /\ row.run = run.run_id /\ row.transaction_id = key
         /\ row.INTERNAL # None \/ row.EXTERNAL # None
         /\ \A s \in SourceSystem : row[s] # None =>
              row[s] \in DOMAIN run.loaded[s] /\ run.loaded[s][row[s]] = key
<1> DEFINE I == Holding("INTERNAL", key)
           E == Holding("EXTERNAL", key)
           Row(i, e) == [run |-> run.run_id, transaction_id |-> key, INTERNAL |-> i, EXTERNAL |-> e]
<1>1. /\ run.run_id \in Id /\ None \notin Id
      /\ I \subseteq Id /\ \A i \in I : i \in DOMAIN run.loaded["INTERNAL"] /\ run.loaded["INTERNAL"][i] = key
      /\ E \subseteq Id /\ \A e \in E : e \in DOMAIN run.loaded["EXTERNAL"] /\ run.loaded["EXTERNAL"][e] = key
  BY RetentionAssumption DEF Held, Holding, Id, SourceSystem
<1>2. PICK i, e : /\ row = Row(i, e) /\ i \in I \union {None} /\ e \in E \union {None}
                  /\ i # None \/ e # None
  <2>1. \/ row \in {Row(i, e) : i \in I, e \in E}
        \/ row \in {Row(i, None) : i \in I}
        \/ row \in {Row(None, e) : e \in E}
    BY DEF ResultsOf
  <2> HIDE DEF I, E
  <2> QED BY <1>1, <2>1
<1> HIDE DEF I, E
<1>3. /\ row \in ResultRow /\ row.run = run.run_id /\ row.transaction_id = key
      /\ row.INTERNAL = i /\ row.EXTERNAL = e
  BY <1>1, <1>2 DEF ResultRow
<1>4. row["INTERNAL"] = i /\ row["EXTERNAL"] = e
  BY <1>3, Sides
<1> QED BY <1>1, <1>2, <1>3, <1>4 DEF SourceSystem

-----------------------------------------------------------------------------
(* One lemma per action: it preserves every part of the invariant. *)

LEMMA InitInvariant == Init => IInv
<1> SUFFICES ASSUME Init PROVE IInv
  OBVIOUS
<1> USE RetentionAssumption DEF Init, Empty, NoTransactions, NewSequences, NoIngest, NoRun
<1>1. TypeOK
  BY DEF TypeOK
<1>2. Held
  BY DEF Held, SourceSystem
<1>3. NothingDangles /\ AuditTrail
  BY DEF NothingDangles, AuditTrail
<1>4. Fresh /\ StillMeant
  BY DEF Fresh, StillMeant
<1> QED BY <1>1, <1>2, <1>3, <1>4 DEF IInv

\* create_batch takes an id that no row has and nobody holds.
LEMMA CreateBatchStep == IInv /\ CreateBatch => IInv'
<1> SUFFICES ASSUME IInv, CreateBatch PROVE IInv'
  OBVIOUS
<1>1. PICK f \in Files, id \in {next_id["batch"]} :
        /\ Advance("batch") /\ ingest = NoIngest
        /\ batches' = Insert(batches, id, f)
        /\ ingest' = [file |-> f, batch_id |-> id]
        /\ UNCHANGED <<transactions, runs, results, run, crossed>>
  BY DEF CreateBatch, NextId
<1>2. /\ id \in Id /\ next_id' \in [Table -> 1..(MaxId + 1)]
      /\ next_id'["batch"] = id + 1
      /\ \A u \in Table : u # "batch" => next_id'[u] = next_id[u]
  BY <1>1, AdvanceProperties DEF IInv, Table
<1>3. /\ DOMAIN batches \subseteq Id /\ batches \in [DOMAIN batches -> Files]
      /\ \A b \in DOMAIN batches : b < id
  BY <1>1 DEF IInv, TypeOK, Held, Fresh
<1>4. Id \subseteq Nat
  BY RetentionAssumption DEF Id
<1>5. /\ DOMAIN batches' = DOMAIN batches \union {id} /\ batches'[id] = f
      /\ \A b \in DOMAIN batches : b # id /\ batches'[b] = batches[b]
      /\ batches' \in [DOMAIN batches' -> Files]
  <2>1. \A b \in DOMAIN batches : b # id
    BY <1>2, <1>3, <1>4
  <2>2. batches' \in [DOMAIN batches' -> Files]
    BY <1>1, <1>3, InsertType
  <2>3. /\ DOMAIN batches' = DOMAIN batches \union {id} /\ batches'[id] = f
        /\ \A b \in DOMAIN batches : b # id => batches'[b] = batches[b]
    BY <1>1 DEF Insert
  <2> QED BY <2>1, <2>2, <2>3
<1>6. TypeOK'
  BY <1>1, <1>2, <1>3, <1>5 DEF IInv, TypeOK
<1>7. Held'
  BY <1>1, <1>2, <1>5 DEF IInv, Held, Table
<1>8. NothingDangles'
  BY <1>1, <1>5 DEF IInv, NothingDangles
<1>9. Fresh'
  <2>1. \A b \in DOMAIN batches' : b < next_id'["batch"]
    BY <1>2, <1>3, <1>4, <1>5
  <2>2. \A s \in SourceSystem : next_id'[s] = next_id[s]
    BY <1>2 DEF Table, SourceSystem
  <2> QED BY <1>1, <2>1, <2>2 DEF IInv, Fresh
<1>10. StillMeant'
  <2>1. id < next_id'["batch"]
    BY <1>2, <1>4
  <2>2. \A s \in SourceSystem : next_id'[s] = next_id[s]
    BY <1>2 DEF Table, SourceSystem
  <2> QED BY <1>1, <1>5, <2>1, <2>2 DEF IInv, StillMeant
<1>11. AuditTrail'
  BY <1>1, <1>5 DEF IInv, AuditTrail, NothingDangles
<1> QED BY <1>6, <1>7, <1>8, <1>9, <1>10, <1>11 DEF IInv

\* insert_batch adds a row for a batch that is there.
LEMMA InsertBatchStep == IInv /\ InsertBatch => IInv'
<1> SUFFICES ASSUME IInv, InsertBatch PROVE IInv'
  OBVIOUS
<1>1. /\ ingest # NoIngest /\ ingest' = NoIngest
      /\ ingest \in [file : Files, batch_id : Id]
      /\ UNCHANGED <<batches, runs, results, run, crossed>>
  BY DEF InsertBatch, IInv, Held
<1>2. CASE UNCHANGED <<transactions, next_id>>
  <2> USE <1>1, <1>2 DEF IInv
  <2>1. TypeOK' /\ NothingDangles'
    BY DEF TypeOK, NothingDangles
  <2>2. Held' /\ Fresh'
    BY DEF Held, Fresh
  <2>3. StillMeant' /\ AuditTrail'
    BY DEF StillMeant, AuditTrail
  <2> QED BY <2>1, <2>2, <2>3
<1>3. CASE ingest.batch_id \in DOMAIN batches
  <2>1. PICK s, id, new :
          /\ s \in SourceSystem /\ s = ingest.file.source /\ id = next_id[s]
          /\ new = [batch |-> ingest.batch_id, file |-> ingest.file]
          /\ Advance(s)
          /\ transactions' = [transactions EXCEPT ![s] = Insert(transactions[s], id, new)]
    BY <1>1, <1>3, RetentionAssumption DEF InsertBatch, NextId
  <2>2. /\ id \in Id /\ next_id' \in [Table -> 1..(MaxId + 1)]
        /\ next_id'[s] = id + 1
        /\ \A u \in Table : u # s => next_id'[u] = next_id[u]
    BY <2>1, AdvanceProperties DEF IInv, Table
  <2>3. new \in [batch : Id, file : Files] /\ new.batch = ingest.batch_id /\ new.file = ingest.file
    BY <1>1, <2>1
  <2>4. /\ DOMAIN transactions[s] \subseteq Id
        /\ transactions[s] \in [DOMAIN transactions[s] -> [batch : Id, file : Files]]
        /\ \A k \in DOMAIN transactions[s] : k < id
        /\ DOMAIN transactions = SourceSystem
    BY <2>1 DEF IInv, TypeOK, Held, Fresh
  <2>5. Id \subseteq Nat
    BY RetentionAssumption DEF Id
  <2>6. /\ DOMAIN transactions'[s] = DOMAIN transactions[s] \union {id}
        /\ transactions'[s][id] = new
        /\ \A k \in DOMAIN transactions[s] : k # id /\ transactions'[s][k] = transactions[s][k]
        /\ transactions'[s] \in [DOMAIN transactions'[s] -> [batch : Id, file : Files]]
    <3>1. \A k \in DOMAIN transactions[s] : k # id
      BY <2>2, <2>4, <2>5
    <3>2. transactions'[s] = Insert(transactions[s], id, new)
      BY <2>1, <2>4
    <3>3. transactions'[s] \in [DOMAIN transactions'[s] -> [batch : Id, file : Files]]
      <4> DEFINE T == [batch : Id, file : Files]
      <4>1. new \in T /\ transactions[s] \in [DOMAIN transactions[s] -> T]
        BY <2>3, <2>4
      <4> HIDE DEF T
      <4>2. transactions'[s] \in [DOMAIN transactions'[s] -> T]
        BY <3>2, <4>1, InsertType
      <4> QED BY <4>2 DEF T
    <3>4. /\ DOMAIN transactions'[s] = DOMAIN transactions[s] \union {id}
          /\ transactions'[s][id] = new
          /\ \A k \in DOMAIN transactions[s] : k # id => transactions'[s][k] = transactions[s][k]
      BY <3>2 DEF Insert
    <3> QED BY <3>1, <3>3, <3>4
  <2>7. /\ DOMAIN transactions' = SourceSystem
        /\ \A u \in SourceSystem : u # s => transactions'[u] = transactions[u]
        /\ transactions' \in [SourceSystem -> {transactions'[u] : u \in SourceSystem}]
    BY <2>1, <2>4 DEF IInv, Held
  <2>8. TypeOK'
    BY <1>1, <2>2, <2>4, <2>6, <2>7 DEF IInv, TypeOK
  <2>9. Held'
    BY <1>1, <2>2, <2>6, <2>7 DEF IInv, Held, Table
  <2>10. NothingDangles'
    BY <1>1, <1>3, <2>3, <2>6, <2>7 DEF IInv, NothingDangles
  <2>11. Fresh'
    <3>1. \A k \in DOMAIN transactions'[s] : k < next_id'[s]
      <4>1. ASSUME NEW k \in Nat, NEW m \in Nat, k < m \/ k = m
            PROVE  k < m + 1
        BY <4>1
      <4>2. id \in Nat /\ next_id'[s] = id + 1
        BY <2>2, <2>5
      <4>3. \A k \in DOMAIN transactions[s] : k \in Nat /\ k < id
        BY <2>4, <2>5
      <4>4. DOMAIN transactions'[s] = DOMAIN transactions[s] \union {id}
        BY <2>6
      <4> QED BY <4>1, <4>2, <4>3, <4>4
    <3>2. \A u \in Table : u # s => next_id'[u] = next_id[u]
      BY <2>2
    <3>3. s \in SourceSystem /\ UNCHANGED batches
      BY <1>1, <2>1
    <3>4. \A b \in DOMAIN batches : b < next_id'["batch"]
      BY <3>2, <3>3 DEF IInv, Fresh, Table, SourceSystem
    <3>5. \A u \in SourceSystem : \A k \in DOMAIN transactions'[u] : k < next_id'[u]
      BY <2>7, <3>1, <3>2 DEF IInv, Fresh, Table
    <3> QED BY <3>3, <3>4, <3>5 DEF Fresh
  <2>12. StillMeant'
    <3> SUFFICES ASSUME ~crossed, NEW u \in SourceSystem, NEW k \in DOMAIN run.loaded[u]
                 PROVE  /\ k < next_id'[u]
                        /\ k \in DOMAIN transactions'[u] =>
                             transactions'[u][k].file.key = run.loaded[u][k]
      BY <1>1 DEF StillMeant
    <3>1. /\ k < next_id[u] /\ k \in Nat
          /\ k \in DOMAIN transactions[u] => transactions[u][k].file.key = run.loaded[u][k]
      BY <2>5 DEF IInv, StillMeant, Held
    <3>2. CASE u = s
      <4>1. k < id + 1 /\ k # id
        BY <2>1, <2>2, <2>5, <3>1, <3>2
      <4> QED BY <2>2, <2>6, <3>1, <3>2, <4>1
    <3>3. CASE u # s
      BY <2>2, <2>7, <3>1, <3>3 DEF Table
    <3> QED BY <3>2, <3>3
  <2>13. AuditTrail'
    <3> SUFFICES ASSUME ~crossed PROVE AuditTrail'
      BY <1>1 DEF AuditTrail
    <3>1. batches[new.batch] = new.file
      BY <1>1, <1>3, <2>3 DEF IInv, StillMeant
    <3>2. ASSUME NEW u \in SourceSystem, NEW k \in DOMAIN transactions'[u]
          PROVE  batches[transactions'[u][k].batch] = transactions'[u][k].file
      BY <2>6, <2>7, <3>1, <3>2 DEF IInv, AuditTrail
    <3>3. ASSUME NEW r \in results, NEW u \in SourceSystem, r[u] # None
          PROVE  transactions'[u][r[u]].file.key = r.transaction_id
      <4>1. r[u] \in DOMAIN transactions[u] /\ transactions[u][r[u]].file.key = r.transaction_id
        BY <3>3 DEF IInv, AuditTrail, NothingDangles
      <4> QED BY <2>6, <2>7, <4>1
    <3> QED BY <1>1, <3>2, <3>3 DEF AuditTrail
  <2> QED BY <2>8, <2>9, <2>10, <2>11, <2>12, <2>13 DEF IInv
<1> QED BY <1>2, <1>3 DEF InsertBatch

\* find_all loads what the table holds.
LEMMA FindAllStep ==
  ASSUME IInv, NEW s \in SourceSystem, NEW from, NEW to \in {"load_other", "create"},
         FindAll(s, from, to)
  PROVE  IInv'
<1> DEFINE keys == [id \in DOMAIN transactions[s] |-> transactions[s][id].file.key]
<1>1. /\ UNCHANGED <<database, ingest, crossed>>
      /\ run' = [run EXCEPT !.step = to, !.loaded = [run.loaded EXCEPT ![s] = keys]]
  BY DEF FindAll
<1>2. /\ run = [step |-> run.step, loaded |-> run.loaded, run_id |-> run.run_id]
      /\ run.loaded \in [SourceSystem -> {run.loaded[u] : u \in SourceSystem}]
  BY DEF IInv, Held
<1>3. /\ run'.step = to /\ run'.run_id = run.run_id
      /\ run'.loaded = [run.loaded EXCEPT ![s] = keys]
      /\ run' = [step |-> to, loaded |-> run'.loaded, run_id |-> run.run_id]
  <2> HIDE DEF keys
  <2> QED BY <1>1, <1>2
<1>4. /\ run'.loaded[s] = keys /\ DOMAIN run'.loaded = SourceSystem
      /\ \A u \in SourceSystem : u # s => run'.loaded[u] = run.loaded[u]
      /\ run'.loaded \in [SourceSystem -> {run'.loaded[u] : u \in SourceSystem}]
  <2> HIDE DEF keys
  <2> QED BY <1>2, <1>3
<1>5. /\ DOMAIN keys = DOMAIN transactions[s] /\ DOMAIN transactions[s] \subseteq Id
      /\ \A id \in DOMAIN transactions[s] : keys[id] = transactions[s][id].file.key
      /\ \A id \in DOMAIN transactions[s] : transactions[s][id].file \in Files
      /\ keys \in [DOMAIN keys -> Keys]
  BY DEF IInv, TypeOK, Keys
<1> HIDE DEF keys
<1>6. TypeOK'
  BY <1>1, <1>3 DEF IInv, TypeOK, database
<1>7. Held'
  <2>1. \A u \in SourceSystem : /\ DOMAIN run'.loaded[u] \subseteq Id
                                /\ run'.loaded[u] \in [DOMAIN run'.loaded[u] -> Keys]
    BY <1>4, <1>5 DEF IInv, Held
  <2>2. /\ run' = [step |-> run'.step, loaded |-> run'.loaded, run_id |-> run'.run_id]
        /\ run'.step # "insert"
    BY <1>3
  <2>3. run'.loaded \in [SourceSystem -> {run'.loaded[u] : u \in SourceSystem}]
    BY <1>4
  <2>4. /\ batches' \in [DOMAIN batches' -> Files]
        /\ transactions' \in [SourceSystem -> {transactions'[u] : u \in SourceSystem}]
        /\ \A u \in SourceSystem :
             transactions'[u] \in [DOMAIN transactions'[u] -> [batch : Id, file : Files]]
        /\ next_id' \in [SourceSystem \union {"batch", "run"} -> 1..(MaxId + 1)]
        /\ ingest' = NoIngest \/ ingest' \in [file : Files, batch_id : Id]
    BY <1>1 DEF IInv, Held, database
  <2> QED BY <2>1, <2>2, <2>3, <2>4 DEF Held
<1>8. NothingDangles' /\ AuditTrail'
  BY <1>1 DEF IInv, NothingDangles, AuditTrail, database
<1>9. Fresh'
  BY <1>1 DEF IInv, Fresh, database
<1>10. StillMeant'
  <2> SUFFICES ASSUME ~crossed, NEW u \in SourceSystem, NEW k \in DOMAIN run'.loaded[u]
               PROVE  /\ k < next_id[u]
                      /\ k \in DOMAIN transactions[u] =>
                           transactions[u][k].file.key = run'.loaded[u][k]
    BY <1>1 DEF StillMeant, IInv, database
  <2>1. CASE u = s
    BY <1>4, <1>5, <2>1 DEF IInv, Fresh
  <2>2. CASE u # s
    BY <1>4, <2>2 DEF IInv, StillMeant
  <2> QED BY <2>1, <2>2
<1> QED BY <1>6, <1>7, <1>8, <1>9, <1>10 DEF IInv

LEMMA CreateRunStep == IInv /\ CreateRun => IInv'
<1> SUFFICES ASSUME IInv, CreateRun PROVE IInv'
  OBVIOUS
<1>1. PICK id \in {next_id["run"]} :
        /\ Advance("run") /\ runs' = runs \union {id}
        /\ run' = [run EXCEPT !.step = "insert", !.run_id = id]
        /\ UNCHANGED <<batches, transactions, results, ingest, crossed>>
  BY DEF CreateRun, NextId
<1>2. /\ id \in Id /\ next_id' \in [Table -> 1..(MaxId + 1)]
      /\ \A u \in Table : u # "run" => next_id'[u] = next_id[u]
  BY <1>1, AdvanceProperties DEF IInv, Table
<1>3. next_id'["batch"] = next_id["batch"] /\ \A s \in SourceSystem : next_id'[s] = next_id[s]
  BY <1>2 DEF Table, SourceSystem
<1>4. /\ run'.step = "insert" /\ run'.run_id = id /\ run'.loaded = run.loaded
      /\ run' = [step |-> "insert", loaded |-> run.loaded, run_id |-> id]
  BY <1>1 DEF IInv, Held
<1>5. TypeOK'
  BY <1>1, <1>2, <1>4 DEF IInv, TypeOK
<1>6. Held'
  <2>1. run'.loaded \in [SourceSystem -> {run'.loaded[s] : s \in SourceSystem}]
    BY <1>4 DEF IInv, Held
  <2>2. \A s \in SourceSystem : /\ DOMAIN run'.loaded[s] \subseteq Id
                                /\ run'.loaded[s] \in [DOMAIN run'.loaded[s] -> Keys]
    BY <1>4 DEF IInv, Held
  <2> QED BY <1>1, <1>2, <1>4, <2>1, <2>2 DEF IInv, Held, Table
<1>7. NothingDangles' /\ AuditTrail'
  BY <1>1 DEF IInv, NothingDangles, AuditTrail
<1>8. Fresh'
  BY <1>1, <1>3 DEF IInv, Fresh
<1>9. StillMeant'
  BY <1>1, <1>3, <1>4 DEF IInv, StillMeant
<1> QED BY <1>5, <1>6, <1>7, <1>8, <1>9 DEF IInv

\* insert_results: the foreign keys keep rows that have lost their side out.
LEMMA InsertResultsStep == IInv /\ InsertResults => IInv'
<1> SUFFICES ASSUME IInv, InsertResults PROVE IInv'
  OBVIOUS
<1> DEFINE rows == UNION {ResultsOf(key) : key \in Keys}
<1>1. /\ run.step = "insert" /\ run' = NoRun
      /\ results' = IF ForeignKeysHold(rows) THEN results \union rows ELSE results
      /\ UNCHANGED <<batches, transactions, runs, next_id, ingest, crossed>>
  BY DEF InsertResults
<1>2. ASSUME NEW row \in rows
      PROVE  /\ row \in ResultRow
             /\ row.INTERNAL # None \/ row.EXTERNAL # None
             /\ \A s \in SourceSystem : row[s] # None =>
                  row[s] \in DOMAIN run.loaded[s] /\ run.loaded[s][row[s]] = row.transaction_id
  <2>1. PICK key \in Keys : row \in ResultsOf(key)
    BY <1>2
  <2> QED BY <1>1, <2>1, RowsOfRun DEF IInv
<1> HIDE DEF rows
<1>3. ASSUME NEW row \in results'
      PROVE  \/ row \in results
             \/ row \in rows /\ ForeignKeysHold(rows)
  BY <1>1, <1>3
<1>4. TypeOK'
  <2>1. \A row \in results' : /\ row \in ResultRow
                              /\ row.INTERNAL # None \/ row.EXTERNAL # None
    BY <1>2, <1>3 DEF IInv, TypeOK, ResultRow
  <2>2. run'.step = "idle"
    BY <1>1 DEF NoRun
  <2> QED BY <1>1, <2>1, <2>2 DEF IInv, TypeOK, ResultRow
<1>5. Held'
  BY <1>1 DEF IInv, Held, NoRun, Empty, SourceSystem
<1>6. NothingDangles'
  <2>1. ASSUME NEW row \in results'
        PROVE  row.run \in runs /\ \A s \in SourceSystem : row[s] \in DOMAIN transactions[s] \union {None}
    BY <1>3, <2>1 DEF IInv, NothingDangles, ForeignKeysHold
  <2> QED BY <1>1, <2>1 DEF IInv, NothingDangles
<1>7. Fresh'
  BY <1>1 DEF IInv, Fresh
<1>8. StillMeant'
  <2>1. \A s \in SourceSystem : DOMAIN run'.loaded[s] = {}
    BY <1>1 DEF NoRun, Empty
  <2> QED BY <1>1, <2>1 DEF IInv, StillMeant
<1>9. AuditTrail'
  <2> SUFFICES ASSUME ~crossed, NEW row \in results', NEW s \in SourceSystem, row[s] # None
               PROVE  transactions[s][row[s]].file.key = row.transaction_id
    BY <1>1 DEF IInv, AuditTrail
  <2>1. CASE row \in results
    BY <2>1 DEF IInv, AuditTrail
  <2>2. CASE row \in rows /\ ForeignKeysHold(rows)
    <3>1. row[s] \in DOMAIN run.loaded[s] /\ run.loaded[s][row[s]] = row.transaction_id
      BY <1>2, <2>2
    <3>2. row[s] \in DOMAIN transactions[s]
      BY <2>2 DEF ForeignKeysHold
    <3> QED BY <3>1, <3>2 DEF IInv, StillMeant
  <2> QED BY <1>3, <2>1, <2>2
<1> QED BY <1>4, <1>5, <1>6, <1>7, <1>8, <1>9 DEF IInv

\* DELETE FROM ingestion_batches takes the batch's transactions along, and
\* cuts them out of the results.
LEMMA DeleteBatchFacts ==
  ASSUME IInv, DeleteBatch
  PROVE  \E b \in DOMAIN batches :
           /\ \A r \in results : Cut(r, b).INTERNAL # None \/ Cut(r, b).EXTERNAL # None
           /\ DOMAIN batches' = DOMAIN batches \ {b}
           /\ \A a \in DOMAIN batches' : batches'[a] = batches[a]
           /\ batches' \in [DOMAIN batches' -> Files]
           /\ DOMAIN transactions' = SourceSystem
           /\ transactions' \in [SourceSystem -> {transactions'[s] : s \in SourceSystem}]
           /\ \A s \in SourceSystem :
                /\ DOMAIN transactions'[s] = DOMAIN transactions[s] \ TransactionsOf(b, s)
                /\ \A k \in DOMAIN transactions'[s] : transactions'[s][k] = transactions[s][k]
                /\ transactions'[s] \in [DOMAIN transactions'[s] -> [batch : Id, file : Files]]
           /\ results' = {Cut(r, b) : r \in results}
           /\ UNCHANGED <<runs, next_id, ingest, run, crossed>>
<1>1. PICK b \in DOMAIN batches :
        /\ HasASide(SetNull(b))
        /\ batches' = Without(batches, {b})
        /\ transactions' = [s \in SourceSystem |-> Without(transactions[s], TransactionsOf(b, s))]
        /\ results' = SetNull(b)
        /\ UNCHANGED <<runs, next_id, ingest, run, crossed>>
  BY DEF DeleteBatch
<1>2. /\ results' = {Cut(r, b) : r \in results}
      /\ \A r \in results : Cut(r, b).INTERNAL # None \/ Cut(r, b).EXTERNAL # None
  BY <1>1, SetNullIsCut DEF HasASide
<1>3. /\ DOMAIN batches' = DOMAIN batches \ {b}
      /\ \A a \in DOMAIN batches' : batches'[a] = batches[a]
      /\ batches' \in [DOMAIN batches' -> Files]
  BY <1>1 DEF Without, IInv, Held
<1>4. /\ DOMAIN transactions' = SourceSystem
      /\ transactions' \in [SourceSystem -> {transactions'[s] : s \in SourceSystem}]
  BY <1>1
<1>5. ASSUME NEW s \in SourceSystem
      PROVE  /\ DOMAIN transactions'[s] = DOMAIN transactions[s] \ TransactionsOf(b, s)
             /\ \A k \in DOMAIN transactions'[s] : transactions'[s][k] = transactions[s][k]
             /\ transactions'[s] \in [DOMAIN transactions'[s] -> [batch : Id, file : Files]]
  <2> DEFINE T == [batch : Id, file : Files]
             gone == TransactionsOf(b, s)
  <2>1. transactions'[s] = Without(transactions[s], gone)
    BY <1>1
  <2>2. transactions[s] \in [DOMAIN transactions[s] -> T]
    BY DEF IInv, Held
  <2> HIDE DEF T, gone
  <2>3. /\ DOMAIN transactions'[s] = DOMAIN transactions[s] \ gone
        /\ \A k \in DOMAIN transactions'[s] : transactions'[s][k] = transactions[s][k]
    BY <2>1 DEF Without
  <2>4. transactions'[s] \in [DOMAIN transactions'[s] -> T]
    BY <2>1, <2>2, WithoutType
  <2> QED BY <2>3, <2>4 DEF T, gone
<1> QED BY <1>1, <1>2, <1>3, <1>4, <1>5

LEMMA DeleteBatchStep == IInv /\ DeleteBatch => IInv'
<1> SUFFICES ASSUME IInv, DeleteBatch PROVE IInv'
  OBVIOUS
<1>1. PICK b \in DOMAIN batches :
        /\ \A r \in results : Cut(r, b).INTERNAL # None \/ Cut(r, b).EXTERNAL # None
        /\ DOMAIN batches' = DOMAIN batches \ {b}
        /\ \A a \in DOMAIN batches' : batches'[a] = batches[a]
        /\ batches' \in [DOMAIN batches' -> Files]
        /\ DOMAIN transactions' = SourceSystem
        /\ transactions' \in [SourceSystem -> {transactions'[s] : s \in SourceSystem}]
        /\ \A s \in SourceSystem :
             /\ DOMAIN transactions'[s] = DOMAIN transactions[s] \ TransactionsOf(b, s)
             /\ \A k \in DOMAIN transactions'[s] : transactions'[s][k] = transactions[s][k]
             /\ transactions'[s] \in [DOMAIN transactions'[s] -> [batch : Id, file : Files]]
        /\ results' = {Cut(r, b) : r \in results}
        /\ UNCHANGED <<runs, next_id, ingest, run, crossed>>
  BY DeleteBatchFacts
<1>2. \A r \in results : r \in ResultRow
  BY DEF IInv, TypeOK, ResultRow
<1>3. ASSUME NEW q \in results'
      PROVE  \E r \in results :
               /\ r \in ResultRow /\ q \in ResultRow
               /\ q.INTERNAL # None \/ q.EXTERNAL # None
               /\ q.run = r.run /\ q.transaction_id = r.transaction_id
               /\ \A s \in SourceSystem : q[s] # None => q[s] = r[s] /\ r[s] \notin TransactionsOf(b, s)
  <2>1. PICK r \in results : q = Cut(r, b)
    BY <1>1, <1>3
  <2>2. /\ q \in ResultRow /\ q.run = r.run /\ q.transaction_id = r.transaction_id
        /\ \A s \in SourceSystem : q[s] = IF r[s] \in TransactionsOf(b, s) THEN None ELSE r[s]
    BY <1>2, <2>1, CutProperties
  <2> QED BY <1>1, <1>2, <2>1, <2>2
<1>4. TypeOK'
  <2>1. \A q \in results' : q \in ResultRow /\ (q.INTERNAL # None \/ q.EXTERNAL # None)
    BY <1>3
  <2>2. DOMAIN batches' \subseteq Id /\ \A a \in DOMAIN batches' : batches'[a] \in Files
    BY <1>1 DEF IInv, TypeOK
  <2>3. \A s \in SourceSystem :
          /\ DOMAIN transactions'[s] \subseteq Id
          /\ \A id \in DOMAIN transactions'[s] : transactions'[s][id] \in [batch : Id, file : Files]
    BY <1>1 DEF IInv, TypeOK
  <2> QED BY <1>1, <2>1, <2>2, <2>3 DEF IInv, TypeOK, ResultRow
<1>5. Held'
  BY <1>1 DEF IInv, Held
<1>6. NothingDangles'
  <2>1. ASSUME NEW s \in SourceSystem, NEW id \in DOMAIN transactions'[s]
        PROVE  transactions'[s][id].batch \in DOMAIN batches'
    BY <1>1, <2>1 DEF IInv, NothingDangles, TransactionsOf
  <2>2. ASSUME NEW q \in results'
        PROVE  q.run \in runs' /\ \A s \in SourceSystem : q[s] \in DOMAIN transactions'[s] \union {None}
    <3>1. PICK r \in results :
            /\ q.run = r.run
            /\ \A s \in SourceSystem : q[s] # None => q[s] = r[s] /\ r[s] \notin TransactionsOf(b, s)
      BY <1>3, <2>2
    <3>2. r.run \in runs /\ \A s \in SourceSystem : r[s] \in DOMAIN transactions[s] \union {None}
      BY DEF IInv, NothingDangles
    <3> QED BY <1>1, <3>1, <3>2
  <2> QED BY <2>1, <2>2 DEF NothingDangles
<1>7. Fresh'
  BY <1>1 DEF IInv, Fresh
<1>8. StillMeant'
  <2> SUFFICES ASSUME ~crossed PROVE StillMeant'
    BY <1>1 DEF StillMeant
  <2>1. ingest # NoIngest =>
          /\ ingest.batch_id < next_id["batch"]
          /\ ingest.batch_id \in DOMAIN batches' => batches'[ingest.batch_id] = ingest.file
    BY <1>1 DEF IInv, StillMeant
  <2>2. \A s \in SourceSystem : \A id \in DOMAIN run.loaded[s] :
          /\ id < next_id[s]
          /\ id \in DOMAIN transactions'[s] => transactions'[s][id].file.key = run.loaded[s][id]
    BY <1>1 DEF IInv, StillMeant
  <2> QED BY <1>1, <2>1, <2>2 DEF StillMeant
<1>9. AuditTrail'
  <2> SUFFICES ASSUME ~crossed PROVE AuditTrail'
    BY <1>1 DEF AuditTrail
  <2>1. ASSUME NEW s \in SourceSystem, NEW id \in DOMAIN transactions'[s]
        PROVE  batches'[transactions'[s][id].batch] = transactions'[s][id].file
    <3>1. /\ id \in DOMAIN transactions[s] /\ transactions'[s][id] = transactions[s][id]
          /\ transactions[s][id].batch # b
      BY <1>1, <2>1 DEF TransactionsOf
    <3>2. transactions[s][id].batch \in DOMAIN batches'
      BY <1>1, <3>1 DEF IInv, NothingDangles
    <3> QED BY <1>1, <3>1, <3>2 DEF IInv, AuditTrail
  <2>2. ASSUME NEW q \in results', NEW s \in SourceSystem, q[s] # None
        PROVE  transactions'[s][q[s]].file.key = q.transaction_id
    <3>1. PICK r \in results :
            /\ q.transaction_id = r.transaction_id
            /\ q[s] = r[s] /\ r[s] \notin TransactionsOf(b, s)
      BY <1>3, <2>2
    <3>2. r[s] \in DOMAIN transactions[s] /\ transactions[s][r[s]].file.key = r.transaction_id
      BY <2>2, <3>1 DEF IInv, NothingDangles, AuditTrail
    <3> QED BY <1>1, <3>1, <3>2
  <2> QED BY <2>1, <2>2 DEF AuditTrail
<1> QED BY <1>4, <1>5, <1>6, <1>7, <1>8, <1>9 DEF IInv

LEMMA DeleteRunStep == IInv /\ DeleteRun => IInv'
<1> SUFFICES ASSUME IInv, DeleteRun PROVE IInv'
  OBVIOUS
<1>1. /\ runs' \subseteq runs /\ results' \subseteq results
      /\ \A row \in results' : row.run \in runs => row.run \in runs'
      /\ UNCHANGED <<batches, transactions, next_id, ingest, run, crossed>>
  BY DEF DeleteRun
<1>2. TypeOK'
  BY <1>1 DEF IInv, TypeOK
<1>3. Held' /\ Fresh'
  BY <1>1 DEF IInv, Held, Fresh
<1>4. NothingDangles'
  BY <1>1 DEF IInv, NothingDangles
<1>5. StillMeant' /\ AuditTrail'
  BY <1>1 DEF IInv, StillMeant, AuditTrail
<1> QED BY <1>2, <1>3, <1>4, <1>5 DEF IInv

\* A reset leaves nothing to be wrong, and a command it crosses says so.
LEMMA ResetStep == IInv /\ Reset => IInv'
<1> SUFFICES ASSUME IInv, Reset PROVE IInv'
  OBVIOUS
<1>1. /\ DOMAIN batches' = {} /\ batches' \in [DOMAIN batches' -> Files]
      /\ transactions' = NoTransactions
      /\ \A s \in SourceSystem : DOMAIN transactions'[s] = {}
      /\ runs' = {} /\ results' = {}
      /\ crossed' = (ingest # NoIngest \/ run # NoRun) /\ UNCHANGED <<ingest, run>>
  BY DEF Reset, Empty, NoTransactions
<1>2. TypeOK'
  BY <1>1 DEF IInv, TypeOK
<1>3. Held'
  <2>1. next_id' \in [Table -> 1..(MaxId + 1)]
    BY RetentionAssumption DEF Reset, NewSequences, Table
  <2>2. /\ transactions' \in [SourceSystem -> {transactions'[s] : s \in SourceSystem}]
        /\ \A s \in SourceSystem :
             transactions'[s] \in [DOMAIN transactions'[s] -> [batch : Id, file : Files]]
    BY <1>1 DEF NoTransactions, Empty
  <2> QED BY <1>1, <2>1, <2>2 DEF IInv, Held, Table
<1>4. NothingDangles' /\ AuditTrail' /\ Fresh'
  BY <1>1 DEF NothingDangles, AuditTrail, Fresh
<1>5. StillMeant'
  <2> SUFFICES ASSUME ~crossed' PROVE StillMeant'
    BY DEF StillMeant
  <2>1. ingest' = NoIngest /\ run' = NoRun
    BY <1>1
  <2>2. \A s \in SourceSystem : DOMAIN run'.loaded[s] = {}
    BY <2>1 DEF NoRun, Empty
  <2> QED BY <2>1, <2>2 DEF StillMeant
<1> QED BY <1>2, <1>3, <1>4, <1>5 DEF IInv

LEMMA AbortStep == IInv /\ Abort => IInv'
<1> SUFFICES ASSUME IInv, Abort PROVE IInv'
  OBVIOUS
<1>1. /\ UNCHANGED <<database, crossed>>
      /\ ingest' = ingest \/ ingest' = NoIngest
      /\ run' = run \/ run' = NoRun
  BY DEF Abort
<1>2. TypeOK'
  BY <1>1 DEF IInv, TypeOK, database, NoRun
<1>3. Held'
  <2>1. CASE run' = run
    BY <1>1, <2>1 DEF IInv, Held, database
  <2>2. CASE run' = NoRun
    <3>1. /\ run' = [step |-> run'.step, loaded |-> run'.loaded, run_id |-> run'.run_id]
          /\ run'.loaded \in [SourceSystem -> {run'.loaded[s] : s \in SourceSystem}]
          /\ \A s \in SourceSystem :
               /\ DOMAIN run'.loaded[s] \subseteq Id
               /\ run'.loaded[s] \in [DOMAIN run'.loaded[s] -> Keys]
          /\ run'.step # "insert"
      BY <2>2 DEF NoRun, Empty
    <3> QED BY <1>1, <3>1 DEF IInv, Held, database
  <2> QED BY <1>1, <2>1, <2>2
<1>4. NothingDangles' /\ AuditTrail' /\ Fresh'
  BY <1>1 DEF IInv, NothingDangles, AuditTrail, Fresh, database
<1>5. StillMeant'
  <2>1. \A s \in SourceSystem : run' = NoRun => DOMAIN run'.loaded[s] = {}
    BY DEF NoRun, Empty
  <2> QED BY <1>1, <2>1 DEF IInv, StillMeant, database
<1> QED BY <1>2, <1>3, <1>4, <1>5 DEF IInv

-----------------------------------------------------------------------------
(* The theorems. *)

LEMMA NextInvariant == IInv /\ [Next]_vars => IInv'
<1>1. IInv /\ UNCHANGED vars => IInv'
  <2> SUFFICES ASSUME IInv, UNCHANGED vars PROVE IInv'
    OBVIOUS
  <2> USE DEF vars, database, IInv
  <2>1. TypeOK' /\ Held'
    BY DEF TypeOK, Held
  <2>2. NothingDangles' /\ Fresh' /\ StillMeant' /\ AuditTrail'
    BY DEF NothingDangles, Fresh, StillMeant, AuditTrail
  <2> QED BY <2>1, <2>2
<1>2. ASSUME IInv, \/ FindAll("INTERNAL", "idle", "load_other")
                   \/ FindAll("EXTERNAL", "load_other", "create")
      PROVE  IInv'
  BY <1>2, FindAllStep DEF SourceSystem
<1> QED BY <1>1, <1>2, CreateBatchStep, InsertBatchStep, CreateRunStep, InsertResultsStep,
           DeleteBatchStep, DeleteRunStep, ResetStep, AbortStep DEF Next

\* The whole invariant is inductive, for any files and any bound on the ids.
THEOREM Invariance == Spec => []IInv
  BY InitInvariant, NextInvariant, PTL DEF Spec

\* Every table keeps to its types, and every result has a side
\* (ck_result_has_a_side).
THEOREM TypeCorrect == Spec => []TypeOK
<1>1. IInv => TypeOK
  BY DEF IInv
<1> QED BY <1>1, Invariance, PTL

\* No row refers to a row that is gone, in whatever order the commands, the
\* deletions and the resets come.
THEOREM ReferencesHold == Spec => []NothingDangles
<1>1. IInv => NothingDangles
  BY DEF IInv
<1> QED BY <1>1, Invariance, PTL

\* As long as no reset crosses a command under way, a row's batch is the file
\* it came from and a result's ids lead to rows with its transaction id.
THEOREM AuditTrailHolds == Spec => []AuditTrail
<1>1. IInv => AuditTrail
  BY DEF IInv
<1> QED BY <1>1, Invariance, PTL

\* Short of deleting the run or a reset, no step takes a result away, and a
\* result loses only a side whose row goes.
THEOREM ResultsOutlive == Spec => ResultsOutliveTheirRows
<1> DEFINE Outlives(r) == \E q \in results' :
             /\ q.run = r.run /\ q.transaction_id = r.transaction_id
             /\ \A s \in SourceSystem :
                  q[s] # r[s] => q[s] = None /\ r[s] \notin DOMAIN transactions'[s]
<1>1. ASSUME IInv, [Next]_vars, next_id' # NewSequences, NEW r \in results, r.run \in runs'
      PROVE  Outlives(r)
  <2>1. r \in results' => Outlives(r)
    OBVIOUS
  <2>2. CASE DeleteBatch
    <3>1. PICK b \in DOMAIN batches :
            /\ \A s \in SourceSystem :
                 DOMAIN transactions'[s] = DOMAIN transactions[s] \ TransactionsOf(b, s)
            /\ results' = {Cut(a, b) : a \in results}
      BY <1>1, <2>2, DeleteBatchFacts
    <3>2. r \in ResultRow
      BY <1>1 DEF IInv, TypeOK, ResultRow
    <3>3. /\ Cut(r, b).run = r.run /\ Cut(r, b).transaction_id = r.transaction_id
          /\ \A s \in SourceSystem : Cut(r, b)[s] = IF r[s] \in TransactionsOf(b, s) THEN None ELSE r[s]
      BY <3>2, CutProperties
    <3>4. Cut(r, b) \in results'
      BY <3>1
    <3> QED BY <3>1, <3>3, <3>4
  <2>3. CASE DeleteRun
    BY <1>1, <2>1, <2>3 DEF DeleteRun
  <2>4. CASE Reset
    BY <1>1, <2>4 DEF Reset
  <2>5. CASE InsertResults
    <3>1. results \subseteq results'
      BY <2>5 DEF InsertResults
    <3> QED BY <1>1, <2>1, <3>1
  <2>6. CASE \/ CreateBatch \/ InsertBatch \/ CreateRun \/ Abort \/ UNCHANGED vars
             \/ FindAll("INTERNAL", "idle", "load_other")
             \/ FindAll("EXTERNAL", "load_other", "create")
    <3>1. results' = results
      BY <2>6 DEF CreateBatch, InsertBatch, CreateRun, Abort, FindAll, vars, database
    <3> QED BY <1>1, <2>1, <3>1
  <2> QED BY <1>1, <2>2, <2>3, <2>4, <2>5, <2>6 DEF Next
<1>2. IInv /\ [Next]_vars =>
        (next_id' # NewSequences => \A r \in results : r.run \in runs' => Outlives(r))
  <2> HIDE DEF Outlives
  <2> QED BY <1>1
<1> QED BY <1>2, Invariance, PTL DEF Spec, ResultsOutliveTheirRows
=============================================================================
