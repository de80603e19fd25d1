------------------------- MODULE IngestionFileProofs -------------------------
(***************************************************************************)
(* Proofs about Ingestion, continued: the batches, the files they stand    *)
(* for, and the inserts that fill them.  IngestionProofs shows that every  *)
(* command accounts for the rows it reads (Accounted); here the rest of    *)
(* the inductive invariant is proved, and what follows from it.            *)
(***************************************************************************)
EXTENDS IngestionProofs, FiniteSetTheorems

-----------------------------------------------------------------------------
(* What a step of a command may change. *)

\* Only create_batch adds a batch, for a file that has none.
LEMMA CreateBatchProperties ==
  ASSUME Accounted, NEW p \in Invocations, CreateBatch(p), ~UniqueViolation(p)
  PROVE  /\ Len(batches') = Len(batches) + 1
         /\ \A b \in 1..Len(batches) : batches'[b] = batches[b]
         /\ batches'[Len(batches) + 1].source_system = args[p].source
         /\ batches'[Len(batches) + 1].file_hash = file_hash[p]
         /\ ~batches'[Len(batches) + 1].completed_at
<1> DEFINE new == [source_system |-> args[p].source, file_hash |-> file_hash[p],
                   records_read |-> 0, records_valid |-> 0, records_failed |-> 0,
                   completed_at |-> FALSE]
<1>1. batches' = Append(batches, new) /\ batches \in Seq(Batch)
  BY DEF CreateBatch, Accounted, TypeOK
<1>2. new.source_system = args[p].source /\ new.file_hash = file_hash[p] /\ ~new.completed_at
  OBVIOUS
<1> HIDE DEF new
<1> QED BY <1>1, <1>2

\* complete_batch changes no digest, and completes no other batch.
LEMMA CompleteKeepsDigests ==
  ASSUME Accounted, NEW p \in Invocations, CompleteBatch(p)
  PROVE  /\ Len(batches') = Len(batches)
         /\ \A b \in 1..Len(batches) :
              /\ batches'[b].source_system = batches[b].source_system
              /\ batches'[b].file_hash = batches[b].file_hash
              /\ batches'[b].completed_at => batches[b].completed_at \/ b = batch_id[p]
<1> DEFINE a == batch_id[p]
           new == Completed(batches[a], summary[p])
<1>1. a \in 1..Len(batches) /\ batches \in Seq(Batch) /\ Len(batches') = Len(batches)
      /\ \A b \in 1..Len(batches) : b # a => batches'[b] = batches[b]
  BY CompleteBatchProperties DEF Accounted, TypeOK
<1>2. batches[a] \in Batch
  BY <1>1, ElementOfSeq
<1>3. new.source_system = batches[a].source_system /\ new.file_hash = batches[a].file_hash
  BY <1>2 DEF Completed, Batch
<1>4. batches'[a] = new
  <2> HIDE DEF new
  <2>1. batches' = [batches EXCEPT ![a] = new]
    BY DEF CompleteBatch, new
  <2> QED BY <1>1, <2>1
<1> HIDE DEF new
<1> QED BY <1>1, <1>3, <1>4

\* Every other step of a command leaves the table of batches alone.
LEMMA BatchesFrame ==
  ASSUME NEW p \in Invocations, Step(p), ~CompleteBatch(p),
         ~CreateBatch(p) \/ UniqueViolation(p)
  PROVE  UNCHANGED <<batches, batch_id>>
<1> USE DEF tables, locals
<1>1. CASE HashFile(p) \/ FindExistingBatch(p) \/ CreateBatch(p) \/ OpenFile(p)
  BY <1>1 DEF HashFile, FindExistingBatch, CreateBatch, OpenFile
<1>2. CASE SkipBlankLine(p) \/ AcceptRow(p) \/ RejectRow(p) \/ RaiseOnRow(p) \/ FinishFile(p)
  BY <1>2 DEF SkipBlankLine, AcceptRow, RejectRow, RaiseOnRow, FinishFile
<1>3. CASE InsertBatch(p) \/ InsertErrors(p)
  BY <1>3 DEF InsertBatch, InsertErrors
<1> QED BY <1>1, <1>2, <1>3 DEF Step

\* A command ends once.
LEMMA DoneStaysDone ==
  ASSUME Accounted, [Next]_vars, NEW q \in Invocations, pc[q] = "done"
  PROVE  pc'[q] = "done" /\ batch_id'[q] = batch_id[q]
<1>1. ASSUME NEW p \in Invocations, Step(p)
      PROVE  pc'[q] = pc[q] /\ batch_id'[q] = batch_id[q]
  <2>1. p # q
    BY <1>1 DEF Step, Goto, HashFile, FindExistingBatch, CreateBatch, OpenFile, SkipBlankLine,
                AcceptRow, RejectRow, RaiseOnRow, FinishFile, InsertBatch, InsertErrors,
                CompleteBatch
  <2> QED BY <1>1, <2>1, OtherLocals DEF Accounted
<1>2. ASSUME NEW p \in Invocations, Abort(p)
      PROVE  pc'[q] = pc[q] /\ batch_id'[q] = batch_id[q]
  BY <1>2 DEF Abort, Ended, locals, Accounted, TypeOK
<1>3. CASE ReplaceFile \/ Terminated \/ UNCHANGED vars
  BY <1>3 DEF ReplaceFile, Terminated, vars, locals
<1> QED BY <1>1, <1>2, <1>3 DEF Next

-----------------------------------------------------------------------------
(* One batch for a file, and one owner for a batch. *)

LEMMA OneBatchPerFileStep ==
  ASSUME Accounted, OneBatchPerFile, [Next]_vars
  PROVE  OneBatchPerFile'
<1> DEFINE Same(x, y) == x.source_system = y.source_system /\ x.file_hash = y.file_hash
<1>1. Len(batches) \in Nat /\ DOMAIN batches = 1..Len(batches)
      /\ Len(batches') \in Nat /\ DOMAIN batches' = 1..Len(batches')
  <2>1. TypeOK /\ TypeOK'
    BY NextAccounted DEF Accounted
  <2> QED BY <2>1, LenProperties DEF TypeOK
<1>2. ASSUME NEW p \in Invocations, CreateBatch(p), ~UniqueViolation(p)
      PROVE  OneBatchPerFile'
  <2>1. ASSUME NEW b \in 1..Len(batches)
        PROVE  ~Same(batches[b], batches'[Len(batches) + 1])
    <3>1. ~(batches[b].source_system = args[p].source /\ batches[b].file_hash = file_hash[p])
      BY <1>1, <1>2 DEF UniqueViolation, BatchesOf
    <3> QED BY <1>2, <3>1, CreateBatchProperties
  <2>2. /\ Len(batches') = Len(batches) + 1
        /\ \A b \in 1..Len(batches) : batches'[b] = batches[b]
    BY <1>2, CreateBatchProperties
  <2>3. \A a, b \in 1..Len(batches) : Same(batches[a], batches[b]) => a = b
    BY <1>1 DEF OneBatchPerFile
  <2>4. \A b \in 1..Len(batches') : b \in 1..Len(batches) \/ b = Len(batches) + 1
    BY <1>1, <2>2
  <2>5. ASSUME NEW a \in 1..Len(batches'), NEW b \in 1..Len(batches'),
               Same(batches'[a], batches'[b])
        PROVE  a = b
    BY <2>1, <2>2, <2>3, <2>4, <2>5
  <2> QED BY <1>1, <2>5 DEF OneBatchPerFile
<1>3. ASSUME NEW p \in Invocations, CompleteBatch(p)
      PROVE  OneBatchPerFile'
  BY <1>1, <1>3, CompleteKeepsDigests DEF OneBatchPerFile
<1>4. CASE batches' = batches
  BY <1>4 DEF OneBatchPerFile
<1>5. ASSUME NEW p \in Invocations, Step(p)
      PROVE  OneBatchPerFile'
  BY <1>2, <1>3, <1>4, <1>5, BatchesFrame
<1>6. (\E p \in Invocations : Abort(p)) \/ ReplaceFile \/ Terminated \/ UNCHANGED vars
      => batches' = batches
  BY DEF Abort, ReplaceFile, Terminated, vars, tables
<1> QED BY <1>4, <1>5, <1>6 DEF Next

LEMMA CompletedByOwnerStep ==
  ASSUME Accounted, CompletedByOwner, [Next]_vars
  PROVE  CompletedByOwner'
<1>1. Len(batches) \in Nat /\ DOMAIN batches = 1..Len(batches)
      /\ Len(batches') \in Nat /\ DOMAIN batches' = 1..Len(batches')
  <2>1. TypeOK /\ TypeOK'
    BY NextAccounted DEF Accounted
  <2> QED BY <2>1, LenProperties DEF TypeOK
<1>2. ASSUME NEW b \in DOMAIN batches, batches[b].completed_at
      PROVE  \E q \in Invocations : pc'[q] = "done" /\ batch_id'[q] = b
  <2>1. PICK q \in Invocations : pc[q] = "done" /\ batch_id[q] = b
    BY <1>2 DEF CompletedByOwner
  <2>2. pc'[q] = "done" /\ batch_id'[q] = batch_id[q]
    BY <2>1, DoneStaysDone
  <2> QED BY <2>1, <2>2
<1>3. ASSUME NEW p \in Invocations, CreateBatch(p), ~UniqueViolation(p)
      PROVE  CompletedByOwner'
  <2>1. \A b \in DOMAIN batches' : batches'[b].completed_at =>
          b \in DOMAIN batches /\ batches[b].completed_at
    <3>1. /\ Len(batches') = Len(batches) + 1
          /\ \A b \in 1..Len(batches) : batches'[b] = batches[b]
          /\ ~batches'[Len(batches) + 1].completed_at
      BY <1>3, CreateBatchProperties
    <3>2. \A b \in DOMAIN batches' : b \in 1..Len(batches) \/ b = Len(batches) + 1
      BY <1>1, <3>1
    <3> QED BY <1>1, <3>1, <3>2
  <2> QED BY <1>2, <2>1 DEF CompletedByOwner
<1>4. ASSUME NEW p \in Invocations, CompleteBatch(p)
      PROVE  CompletedByOwner'
  <2>1. pc'[p] = "done" /\ batch_id'[p] = batch_id[p]
    BY <1>4 DEF CompleteBatch, Goto, locals, Accounted, TypeOK
  <2>2. \A b \in DOMAIN batches' : batches'[b].completed_at =>
          (b \in DOMAIN batches /\ batches[b].completed_at) \/ b = batch_id[p]
    BY <1>1, <1>4, CompleteKeepsDigests
  <2> QED BY <1>2, <2>1, <2>2 DEF CompletedByOwner
<1>5. CASE batches' = batches
  BY <1>2, <1>5 DEF CompletedByOwner
<1>6. ASSUME NEW p \in Invocations, Step(p)
      PROVE  CompletedByOwner'
  BY <1>3, <1>4, <1>5, <1>6, BatchesFrame
<1>7. (\E p \in Invocations : Abort(p)) \/ ReplaceFile \/ Terminated \/ UNCHANGED vars
      => batches' = batches
  BY DEF Abort, ReplaceFile, Terminated, vars, tables
<1> QED BY <1>5, <1>6, <1>7 DEF Next

LEMMA ClaimsStep ==
  ASSUME Accounted, [Next]_vars, NEW q \in Invocations, Claims(q)
  PROVE  Claims(q)'
<1> USE DEF Accounted, TypeOK, Goto, tables, locals, NextLine
<1>1. Len(batches) \in Nat /\ batch_id[q] \in 0..Len(batches)
  BY LenProperties DEF OneOwner
<1>2. ASSUME UNCHANGED <<args[q], file_hash[q], batch_id[q]>>,
             pc'[q] \in {"hash", "find", "create"} => pc[q] \in {"hash", "find", "create"},
             content'[q] # None => batch_id[q] # 0,
             batch_id[q] # 0 =>
               /\ batches'[batch_id[q]].source_system = batches[batch_id[q]].source_system
               /\ batches'[batch_id[q]].file_hash = batches[batch_id[q]].file_hash
      PROVE  Claims(q)'
  BY <1>2 DEF Claims
<1>3. ASSUME NEW p \in Invocations, HashFile(p)
      PROVE  Claims(q)'
  BY <1>3 DEF HashFile, Claims
<1>4. ASSUME NEW p \in Invocations, OpenFile(p)
      PROVE  Claims(q)'
  BY <1>4 DEF OpenFile, Claims, OneOwner, HasBatch
<1>5. ASSUME NEW p \in Invocations, CreateBatch(p), ~UniqueViolation(p)
      PROVE  Claims(q)'
  <2>1. /\ UNCHANGED <<args, file_hash, content>>
        /\ batch_id' = [batch_id EXCEPT ![p] = Len(batches) + 1]
        /\ pc'[p] \in {"open", "failed"} /\ \A r \in Invocations \ {p} : pc'[r] = pc[r]
    BY <1>5 DEF CreateBatch
  <2>2. /\ \A b \in 1..Len(batches) : batches'[b] = batches[b]
        /\ batches'[Len(batches) + 1].source_system = args[p].source
        /\ batches'[Len(batches) + 1].file_hash = file_hash[p]
    BY <1>5, CreateBatchProperties
  <2>3. CASE q = p
    <3>1. batch_id'[q] = Len(batches) + 1 /\ Len(batches) + 1 # 0
      BY <1>1, <2>1, <2>3
    <3> QED BY <2>1, <2>2, <2>3, <3>1 DEF Claims
  <2>4. CASE q # p
    <3>1. batch_id[q] # 0 => batches'[batch_id[q]] = batches[batch_id[q]]
      BY <1>1, <2>2
    <3>2. UNCHANGED <<args[q], file_hash[q], batch_id[q], content[q], pc[q]>>
      BY <2>1, <2>4
    <3> QED BY <3>1, <3>2 DEF Claims
  <2> QED BY <2>3, <2>4
<1>6. ASSUME NEW p \in Invocations, CompleteBatch(p)
      PROVE  Claims(q)'
  <2>1. batch_id[q] # 0 =>
          /\ batches'[batch_id[q]].source_system = batches[batch_id[q]].source_system
          /\ batches'[batch_id[q]].file_hash = batches[batch_id[q]].file_hash
    BY <1>1, <1>6, CompleteKeepsDigests
  <2>2. UNCHANGED locals /\ (pc'[q] = pc[q] \/ pc'[q] = "done")
    BY <1>6 DEF CompleteBatch
  <2> QED BY <2>1, <2>2 DEF Claims
<1>7. ASSUME NEW p \in Invocations,
             \/ FindExistingBatch(p) \/ (CreateBatch(p) /\ UniqueViolation(p))
             \/ SkipBlankLine(p) \/ AcceptRow(p) \/ RejectRow(p) \/ RaiseOnRow(p)
             \/ FinishFile(p) \/ InsertBatch(p) \/ InsertErrors(p)
      PROVE  Claims(q)'
  <2>1. UNCHANGED <<args, file_hash, batch_id, content, batches>>
    BY <1>7 DEF FindExistingBatch, CreateBatch, SkipBlankLine, AcceptRow, RejectRow, RaiseOnRow,
                FinishFile, InsertBatch, InsertErrors
  <2>2. pc'[q] \in {"hash", "find", "create"} => pc[q] \in {"hash", "find", "create"}
    BY <1>7 DEF FindExistingBatch, CreateBatch, SkipBlankLine, AcceptRow, RejectRow, RaiseOnRow,
                FinishFile, InsertBatch, InsertErrors
  <2> QED BY <2>1, <2>2 DEF Claims
<1>8. (\E p \in Invocations : Abort(p)) \/ ReplaceFile \/ Terminated \/ UNCHANGED vars
      => Claims(q)'
  BY DEF Abort, ReplaceFile, Terminated, vars, Claims
<1> HIDE DEF Accounted, TypeOK, Goto, tables, locals, NextLine
<1>9. ASSUME NEW p \in Invocations, Step(p)
      PROVE  Claims(q)'
  BY <1>3, <1>4, <1>5, <1>6, <1>7, <1>9 DEF Step
<1> QED BY <1>8, <1>9 DEF Next

LEMMA SameFileStep ==
  ASSUME Accounted, SameFile, [Next]_vars
  PROVE  SameFile'
<1> SUFFICES ASSUME ~FilesChange,
                    \A p \in Invocations :
                      {file_hash[p], content[p]} \subseteq {files[args[p].path], None},
                    NEW q \in Invocations
             PROVE  {file_hash[q], content[q]}' \subseteq {files[args[q].path], None}'
  BY DEF SameFile
<1> USE DEF Accounted, TypeOK, Goto, tables, locals
<1>1. files' = files /\ args' = args
  BY DEF Next, Step, HashFile, FindExistingBatch, CreateBatch, OpenFile, SkipBlankLine, AcceptRow,
         RejectRow, RaiseOnRow, FinishFile, InsertBatch, InsertErrors, CompleteBatch, Abort,
         ReplaceFile, Terminated, vars
<1>2. ASSUME NEW p \in Invocations, HashFile(p) \/ OpenFile(p)
      PROVE  /\ file_hash'[q] \in {file_hash[q], files[args[q].path]}
             /\ content'[q] \in {content[q], files[args[q].path]}
  BY <1>2 DEF HashFile, OpenFile
<1>3. \/ \E p \in Invocations : HashFile(p) \/ OpenFile(p)
      \/ UNCHANGED <<file_hash, content>>
  BY DEF Next, Step, FindExistingBatch, CreateBatch, SkipBlankLine, AcceptRow,
         RejectRow, RaiseOnRow, FinishFile, InsertBatch, InsertErrors, CompleteBatch, Abort,
         ReplaceFile, Terminated, vars
<1> QED BY <1>1, <1>2, <1>3

-----------------------------------------------------------------------------
(* Whole inserts. *)

LEMMA MultipleOf ==
  ASSUME NEW a \in Nat, NEW n \in Nat \ {0}, NEW k \in Nat, a = n * k
  PROVE  a % n = 0
  OBVIOUS

\* One more whole insert.
LEMMA NextMultiple ==
  ASSUME NEW a \in Nat, NEW n \in Nat \ {0}, a % n = 0
  PROVE  (a + n) % n = 0
<1>1. PICK k \in Nat : a = n * k
  <2>1. a = n * (a \div n) + (a % n) /\ a \div n \in Nat
    OBVIOUS
  <2> QED BY <2>1
<1>2. a + n = n * (k + 1) /\ a + n \in Nat /\ k + 1 \in Nat
  BY <1>1
<1> HIDE <1>1
<1> QED BY <1>2, MultipleOf

\* The rows of a batch are out of every other command's reach, also after its
\* owner has failed.
LEMMA OthersRows ==
  ASSUME Accounted, NEW p \in Invocations, Step(p), NEW q \in Invocations,
         q # p, batch_id[q] # 0
  PROVE  transactions'[batch_id[q]] = transactions[batch_id[q]]
<1> DEFINE b == batch_id[q]
<1>1. /\ transactions \in Seq(Seq(Nat)) /\ b \in 1..Len(transactions)
      /\ current_batch[p] \in Seq(Nat)
  BY DEF Accounted, TypeOK, OneOwner
<1>2. CASE InsertBatch(p)
  <2>1. batch_id[p] \in 1..Len(transactions) /\ batch_id[p] # b
    BY <1>2 DEF Accounted, OneOwner, InsertBatch, Goto, HasBatch
  <2>2. AddRows(transactions, batch_id[p], current_batch[p])[b] = transactions[b]
    BY <1>1, <2>1, AddRowsProperties
  <2> QED BY <1>2, <2>2 DEF InsertBatch, tables
<1>3. CASE CreateBatch(p)
  <2>1. transactions' = transactions \/ transactions' = Append(transactions, <<>>)
    BY <1>3 DEF CreateBatch, tables
  <2>2. Append(transactions, <<>>)[b] = transactions[b]
    BY <1>1
  <2> QED BY <2>1, <2>2
<1>4. CASE ~InsertBatch(p) /\ ~CreateBatch(p)
  BY <1>4 DEF Step, HashFile, FindExistingBatch, OpenFile, SkipBlankLine, AcceptRow, RejectRow,
              RaiseOnRow, FinishFile, InsertErrors, CompleteBatch, tables
<1> QED BY <1>2, <1>3, <1>4

\* A step that adds no row to q's batch leaves its inserts as they were.
LEMMA BatchingFrame ==
  ASSUME NEW q \in Invocations, Batching(q),
         UNCHANGED <<pc[q], batch_id[q], content[q], row_number[q], current_batch[q]>>,
         batch_id[q] # 0 => UNCHANGED transactions[batch_id[q]],
         content[q] # None \/ pc[q] \in {"stream", "flush"} => batch_id[q] # 0
  PROVE  Batching(q)'
  BY DEF Batching, StoredInWholeInserts

\* A command fails with what it has stored.
LEMMA BatchingFailed ==
  ASSUME NEW q \in Invocations, Batching(q), pc'[q] = "failed",
         UNCHANGED <<batch_id[q], content[q]>>,
         UNCHANGED transactions[batch_id[q]]
  PROVE  Batching(q)'
  BY DEF Batching, StoredInWholeInserts

LEMMA OpenFileBatching ==
  ASSUME Accounted, NEW p \in Invocations, Claims(p), Batching(p), OpenFile(p)
  PROVE  Batching(p)'
<1> DEFINE c == files[args[p].path]
           b == batch_id[p]
<1>1. c \in Contents /\ BatchSize \in Nat \ {0} /\ Len(Lines[c]) \in Nat
  <2>1. BatchSize \in Int /\ BatchSize > 0
    BY ConstantsAssumption DEF OpenFile, Goto, Batching, Accounted, OneOwner, HasBatch
  <2>2. c \in Contents
    BY DEF Accounted, TypeOK
  <2> QED BY <2>1, <2>2, RowsUpTo
<1>2. transactions[b] = <<>> /\ current_batch[p] = <<>>
  BY DEF Accounted, Progress, OpenFile, Goto
<1>3. /\ UNCHANGED <<transactions, batch_id, current_batch>> /\ content'[p] = c
      /\ pc'[p] \in {"stream", "errors"}
  BY DEF OpenFile, Goto, tables, Accounted, TypeOK
<1>4. Len(<<>>) % BatchSize = 0 /\ Len(<<>>) < BatchSize
  BY <1>1, EmptySeq
<1> HIDE DEF c
<1>5. Lists(<<>>, {r \in AcceptedRows(c) : r <= 0})
  <2> DEFINE S == {r \in AcceptedRows(c) : r <= 0}
  <2>1. S = {}
    BY <1>1 DEF AcceptedRows
  <2> HIDE DEF S
  <2>2. Lists(<<>>, S)
    BY <2>1, ListsEmpty
  <2> QED BY <2>2 DEF S
<1>6. StoredInWholeInserts(p)'
  <2>1. 0 \in 0..Len(Lines[c])
    BY <1>1
  <2>2. transactions'[batch_id'[p]] = <<>> /\ content'[p] = c
    BY <1>2, <1>3
  <2>3. \E n \in 0..Len(Lines[content'[p]]) :
          Lists(transactions'[batch_id'[p]], {r \in AcceptedRows(content'[p]) : r <= n})
    <3>1. Lists(transactions'[batch_id'[p]], {r \in AcceptedRows(content'[p]) : r <= 0})
      BY <1>5, <2>2
    <3>2. 0 \in 0..Len(Lines[content'[p]])
      BY <2>1, <2>2
    <3> WITNESS 0 \in 0..Len(Lines[content'[p]])
    <3> QED BY <3>1
  <2>4. Len(transactions'[batch_id'[p]]) % BatchSize = 0
    BY <1>4, <2>2
  <2> QED BY <2>3, <2>4 DEF StoredInWholeInserts
<1>7. /\ Len(transactions'[batch_id'[p]]) % BatchSize = 0
      /\ Len(current_batch'[p]) < BatchSize /\ BatchSize > 0
  <2>1. transactions'[batch_id'[p]] = <<>> /\ current_batch'[p] = <<>>
    BY <1>2, <1>3
  <2> QED BY <1>1, <1>4, <2>1
<1>8. pc'[p] = "stream" \/ pc'[p] = "errors"
  BY <1>3
<1> QED BY <1>6, <1>7, <1>8 DEF Batching

\* Reading a line keeps what is held below a whole insert, until it is one.
LEMMA ReadLineBatching ==
  ASSUME Accounted, NEW p \in Invocations, Claims(p), Batching(p),
         SkipBlankLine(p) \/ AcceptRow(p) \/ RejectRow(p)
  PROVE  Batching(p)'
<1> USE DEF Goto, tables, Accounted, TypeOK, NextLine
<1>1. /\ pc[p] = "stream" /\ row_number[p] < Len(Lines[content[p]])
      /\ content[p] \in Contents /\ batch_id[p] # 0
  BY DEF SkipBlankLine, AcceptRow, RejectRow, AtLine, OneOwner, HasBatch
<1>2. /\ Len(transactions[batch_id[p]]) % BatchSize = 0
      /\ Len(current_batch[p]) < BatchSize
      /\ BatchSize > 0 /\ BatchSize \in Int /\ Len(current_batch[p]) \in Nat
  <2>1. Len(Lines[content[p]]) \in Nat /\ row_number[p] \in Nat
    BY <1>1, RowsUpTo
  <2>2. row_number[p] # Len(Lines[content[p]])
    BY <1>1, <2>1
  <2> QED BY <1>1, <2>2, ConstantsAssumption, LenProperties DEF Batching
<1>3. UNCHANGED <<transactions, batch_id, content>>
  BY DEF SkipBlankLine, AcceptRow, RejectRow
<1>4. CASE SkipBlankLine(p) \/ RejectRow(p)
  <2>1. pc'[p] = "stream" /\ current_batch' = current_batch
    BY <1>4 DEF SkipBlankLine, RejectRow
  <2> HIDE DEF Goto, tables, Accounted, TypeOK, NextLine
  <2> QED BY <1>1, <1>2, <1>3, <2>1 DEF Batching, StoredInWholeInserts
<1>5. CASE AcceptRow(p)
  <2>1. /\ current_batch'[p] = Append(current_batch[p], row_number[p] + 1)
        /\ pc'[p] = IF Len(current_batch[p]) + 1 >= BatchSize THEN "flush" ELSE "stream"
    BY <1>5 DEF AcceptRow
  <2>2. Len(current_batch'[p]) = Len(current_batch[p]) + 1
    BY <2>1, AppendProperties
  <2>3. \/ /\ pc'[p] = "flush" /\ Len(current_batch'[p]) = BatchSize
           /\ Len(current_batch'[p]) \in 1..BatchSize
        \/ pc'[p] = "stream" /\ Len(current_batch'[p]) < BatchSize
    BY <1>2, <2>1, <2>2
  <2> QED BY <1>1, <1>2, <1>3, <2>3 DEF Batching, StoredInWholeInserts
<1> QED BY <1>4, <1>5

\* An insert brings BatchSize rows, or the rest of the file.
LEMMA InsertBatchBatching ==
  ASSUME Accounted, NEW p \in Invocations, Claims(p), Batching(p), InsertBatch(p)
  PROVE  Batching(p)'
<1> DEFINE b == batch_id[p]
           c == content[p]
           stored == transactions[b]
           held == current_batch[p]
<1>1. /\ b \in 1..Len(transactions) /\ transactions \in Seq(Seq(Nat)) /\ b # 0
      /\ stored \in Seq(Nat) /\ held \in Seq(Nat) /\ c \in Contents /\ pc[p] = "flush"
  BY Ownership DEF InsertBatch, Goto, HasBatch, Accounted, OneOwner, TypeOK
<1>2. BatchSize \in Nat \ {0}
  <2>1. BatchSize \in Int /\ BatchSize > 0
    BY <1>1, ConstantsAssumption DEF Batching
  <2> QED BY <2>1
<1>3. /\ Len(stored) % BatchSize = 0
      /\ Len(held) = BatchSize \/ row_number[p] = Len(Lines[c])
  BY <1>1 DEF Batching
<1>4. CASE pc'[p] = "failed"
  <2>1. UNCHANGED <<batch_id, content, transactions>>
    BY <1>4 DEF InsertBatch, Goto, tables, locals, Accounted, TypeOK
  <2> QED BY <1>4, <2>1, BatchingFailed
<1>5. CASE pc'[p] # "failed"
  <2>1. /\ UNCHANGED <<batch_id, content, row_number>>
        /\ transactions' = AddRows(transactions, b, held)
        /\ current_batch'[p] = <<>> /\ pc'[p] = "stream"
    BY <1>5 DEF InsertBatch, Goto, Accounted, TypeOK
  <2>2. transactions'[b] = stored \o held
    BY <1>1, <2>1, AddRowsProperties
  <2>3. ReadSoFar(p)
    BY <1>1 DEF Accounted, Progress
  <2>4. Lists(transactions'[b], {r \in AcceptedRows(c) : r <= row_number[p]})
        /\ row_number[p] \in 1..Len(Lines[c]) /\ Len(Lines[c]) \in Nat
    BY <1>1, <2>2, <2>3, RowsUpTo DEF ReadSoFar
  <2>5. CASE Len(held) = BatchSize
    <3>1. Len(stored) \in Nat /\ Len(transactions'[b]) = Len(stored) + BatchSize
      <4> HIDE DEF stored, held
      <4>1. Len(stored \o held) = Len(stored) + Len(held)
        BY <1>1, ConcatProperties
      <4> QED BY <1>1, <2>2, <2>5, <4>1, LenProperties
    <3>2. Len(transactions'[b]) % BatchSize = 0
      BY <1>2, <1>3, <3>1, NextMultiple
    <3>3. \E n \in 0..Len(Lines[c]) : Lists(transactions'[b], {r \in AcceptedRows(c) : r <= n})
      <4>1. row_number[p] \in 0..Len(Lines[c])
        BY <2>4
      <4> WITNESS row_number[p] \in 0..Len(Lines[c])
      <4> QED BY <2>4
    <3>4. StoredInWholeInserts(p)'
      BY <2>1, <3>2, <3>3 DEF StoredInWholeInserts
    <3>5. Len(current_batch'[p]) < BatchSize
      BY <1>2, <2>1, EmptySeq
    <3> HIDE DEF b, c, stored, held
    <3>6. b = batch_id[p] /\ batch_id'[p] = b
      BY <2>1 DEF b
    <3> QED BY <1>2, <2>1, <3>2, <3>4, <3>5, <3>6 DEF Batching
  <2>6. CASE row_number[p] = Len(Lines[c])
    <3>1. Lists(transactions'[b], AcceptedRows(c))
      BY <1>1, <2>4, <2>6, RowsUpTo
    <3> QED BY <1>2, <2>1, <2>6, <3>1 DEF Batching
  <2> QED BY <1>3, <2>5, <2>6
<1> QED BY <1>4, <1>5

LEMMA OwnBatching ==
  ASSUME Accounted, NEW p \in Invocations, Claims(p), Batching(p), Step(p)
  PROVE  Batching(p)'
<1> USE DEF Goto, tables, locals, Accounted, TypeOK
<1>1. CASE HashFile(p) \/ FindExistingBatch(p)
  <2>1. batch_id'[p] = 0 /\ content'[p] = None /\ pc'[p] \in {"find", "create", "skipped"}
    BY <1>1 DEF HashFile, FindExistingBatch, Claims
  <2> QED BY <2>1 DEF Batching
<1>2. CASE CreateBatch(p)
  <2>1. content'[p] = None /\ pc'[p] \in {"open", "failed"} /\ (pc'[p] = "open" => BatchSize > 0)
    BY <1>2 DEF CreateBatch, Claims
  <2> QED BY <2>1 DEF Batching
<1>3. CASE RaiseOnRow(p)
  <2>1. pc'[p] = "failed" /\ UNCHANGED <<batch_id, content, transactions>>
    BY <1>3 DEF RaiseOnRow
  <2> QED BY <2>1, BatchingFailed
<1>4. CASE FinishFile(p)
  <2>1. /\ pc[p] = "stream" /\ row_number[p] = Len(Lines[content[p]])
        /\ pc'[p] = IF current_batch[p] = <<>> THEN "errors" ELSE "flush"
        /\ UNCHANGED <<batch_id, content, transactions, row_number, current_batch>>
    BY <1>4 DEF FinishFile
  <2>2. current_batch[p] # <<>> => /\ Len(transactions[batch_id[p]]) % BatchSize = 0
                                   /\ Len(current_batch[p]) \in 1..BatchSize
    <3>1. Len(current_batch[p]) \in Nat /\ (current_batch[p] # <<>> => Len(current_batch[p]) # 0)
      BY EmptySeq, LenProperties
    <3>2. current_batch[p] # <<>> => /\ Len(transactions[batch_id[p]]) % BatchSize = 0
                                     /\ Len(current_batch[p]) < BatchSize
      BY <2>1 DEF Batching
    <3>3. BatchSize \in Int
      BY ConstantsAssumption
    <3> HIDE DEF Goto, tables, locals, Accounted, TypeOK
    <3>4. ASSUME NEW n \in Nat, n # 0, n < BatchSize
          PROVE  n \in 1..BatchSize
      BY <3>3, <3>4
    <3> QED BY <3>1, <3>2, <3>4
  <2> HIDE DEF Goto, tables, locals, Accounted, TypeOK
  <2> QED BY <2>1, <2>2 DEF Batching, StoredInWholeInserts
<1>5. CASE InsertErrors(p) \/ CompleteBatch(p)
  <2>1. /\ pc[p] # "failed" /\ pc'[p] \in {"complete", "done", "failed"}
        /\ UNCHANGED <<batch_id, content, transactions>>
    BY <1>5 DEF InsertErrors, CompleteBatch
  <2> QED BY <2>1 DEF Batching, StoredInWholeInserts
<1> HIDE DEF Goto, tables, locals, Accounted, TypeOK
<1> QED BY <1>1, <1>2, <1>3, <1>4, <1>5, OpenFileBatching, ReadLineBatching,
           InsertBatchBatching DEF Step

LEMMA BatchingStep ==
  ASSUME Accounted, [Next]_vars, NEW q \in Invocations, Claims(q), Batching(q)
  PROVE  Batching(q)'
<1>1. content[q] # None \/ pc[q] \in {"stream", "flush"} => batch_id[q] # 0
  BY DEF Claims, Accounted, OneOwner, HasBatch
<1>2. ASSUME NEW p \in Invocations, Step(p)
      PROVE  Batching(q)'
  <2>1. CASE q = p
    BY <1>2, <2>1, OwnBatching
  <2>2. CASE q # p
    <3>1. UNCHANGED <<pc[q], batch_id[q], content[q], row_number[q], current_batch[q]>>
      BY <1>2, <2>2, OtherLocals DEF Accounted
    <3>2. batch_id[q] # 0 => UNCHANGED transactions[batch_id[q]]
      BY <1>2, <2>2, <3>1, OthersRows
    <3> QED BY <1>1, <3>1, <3>2, BatchingFrame
  <2> QED BY <2>1, <2>2
<1>3. ASSUME NEW p \in Invocations, Abort(p)
      PROVE  Batching(q)'
  <2>1. UNCHANGED <<transactions, batch_id, content, row_number, current_batch>>
        /\ (pc'[q] = pc[q] \/ pc'[q] = "failed")
    BY <1>3 DEF Abort, tables, locals, Accounted, TypeOK
  <2> QED BY <1>1, <2>1, BatchingFailed, BatchingFrame
<1>4. CASE ReplaceFile \/ Terminated \/ UNCHANGED vars
  <2>1. UNCHANGED <<transactions, pc, batch_id, content, row_number, current_batch>>
    BY <1>4 DEF ReplaceFile, Terminated, vars, tables, locals
  <2> QED BY <1>1, <2>1, BatchingFrame
<1> QED BY <1>2, <1>3, <1>4 DEF Next

-----------------------------------------------------------------------------
(* The theorems. *)

LEMMA InitInvariant == Init => IInv
<1> SUFFICES ASSUME Init PROVE IInv
  OBVIOUS
<1>1. Accounted
  BY InitAccounted
<1>2. DOMAIN batches = {}
  BY EmptySeq DEF Init
<1>3. OneBatchPerFile /\ CompletedByOwner
  BY <1>2 DEF OneBatchPerFile, CompletedByOwner
<1>4. SameFile /\ \A p \in Invocations : Claims(p) /\ Batching(p)
  BY DEF Init, SameFile, Claims, Batching
<1> QED BY <1>1, <1>3, <1>4 DEF IInv

LEMMA NextInvariant == IInv /\ [Next]_vars => IInv'
<1> SUFFICES ASSUME IInv, [Next]_vars PROVE IInv'
  OBVIOUS
<1>1. Accounted'
  BY NextAccounted DEF IInv
<1>2. OneBatchPerFile' /\ CompletedByOwner' /\ SameFile'
  BY OneBatchPerFileStep, CompletedByOwnerStep, SameFileStep DEF IInv
<1>3. \A p \in Invocations : Claims(p)' /\ Batching(p)'
  BY ClaimsStep, BatchingStep DEF IInv
<1> QED BY <1>1, <1>2, <1>3 DEF IInv

\* The whole invariant is inductive, for any number of commands, any files
\* (replaced meanwhile or not), any batch size and any crash.
THEOREM Invariance == Spec => []IInv
  BY InitInvariant, NextInvariant, PTL DEF Spec

\* What insert_batch has committed for a command, whatever became of it since,
\* is a beginning of its file in whole inserts, or all of it.
THEOREM InsertedWhole == Spec => []InsertsAreWhole
<1>1. IInv => InsertsAreWhole
  BY DEF IInv, Batching, StoredInWholeInserts, InsertsAreWhole
<1> QED BY <1>1, Invariance, PTL

\* Under a digest that names what was read, a batch marked completed holds all
\* of that file: the owner of the batch is done, and what it read is what it
\* had hashed.
THEOREM CompletedIsWhole == ~FilesChange => (Spec => []CompletedBatchIsWhole)
<1> SUFFICES ASSUME ~FilesChange PROVE Spec => []CompletedBatchIsWhole
  OBVIOUS
<1>1. IInv => CompletedBatchIsWhole
  <2> SUFFICES ASSUME IInv, NEW b \in DOMAIN batches, batches[b].completed_at
               PROVE  HoldsAllOf(b, batches[b].file_hash)
    BY DEF CompletedBatchIsWhole
  <2>1. PICK p \in Invocations : pc[p] = "done" /\ batch_id[p] = b
    BY DEF IInv, CompletedByOwner
  <2>2. HoldsAllOf(b, content[p]) /\ content[p] \in Contents /\ b # 0
    BY <2>1 DEF IInv, Accounted, Progress, OneOwner, HasBatch
  <2>3. batches[b].file_hash = file_hash[p]
    BY <2>1, <2>2 DEF IInv, Claims
  <2>4. batches[b].file_hash \in Contents
    <3>1. batches \in Seq(Batch) /\ b \in 1..Len(batches)
      BY DEF IInv, Accounted, TypeOK
    <3>2. batches[b] \in Batch
      BY <3>1, ElementOfSeq
    <3> QED BY <3>2 DEF Batch
  <2>5. content[p] = file_hash[p]
    BY <2>2, <2>3, <2>4, ConstantsAssumption DEF IInv, SameFile
  <2> QED BY <2>2, <2>3, <2>5
<1> QED BY <1>1, Invariance, PTL

\* Of all commands given the same file for the same source, one at most gets
\* to open it, so at most one has rows in the database: the others end at
\* find_existing_batch or at the UNIQUE constraint.
THEOREM LandsOnce == ~FilesChange => (Spec => []EachFileLandsOnce)
<1> SUFFICES ASSUME ~FilesChange PROVE Spec => []EachFileLandsOnce
  OBVIOUS
<1>1. IInv => EachFileLandsOnce
  <2> SUFFICES ASSUME IInv, NEW p \in Invocations, NEW q \in Invocations,
                      p # q, args[p].source = args[q].source,
                      content[p] # None, content[p] = content[q]
               PROVE  FALSE
    BY DEF EachFileLandsOnce
  <2>1. /\ batch_id[p] \in DOMAIN batches /\ batch_id[q] \in DOMAIN batches
        /\ batch_id[p] # 0 /\ batch_id[q] # 0
    BY LenProperties DEF IInv, Claims, Accounted, OneOwner, TypeOK
  <2>2. file_hash[p] # None /\ file_hash[q] # None
    <3>1. batches[batch_id[p]] \in Batch /\ batches[batch_id[q]] \in Batch
      BY <2>1, ElementOfSeq DEF IInv, Accounted, TypeOK
    <3> QED BY <2>1, <3>1, ConstantsAssumption DEF IInv, Claims, Batch
  <2>3. file_hash[p] = content[p] /\ file_hash[q] = content[q]
    BY <2>2 DEF IInv, SameFile
  <2>4. batch_id[p] = batch_id[q]
    BY <2>1, <2>3 DEF IInv, Claims, OneBatchPerFile
  <2> QED BY <2>1, <2>4 DEF IInv, Accounted, OneOwner
<1> QED BY <1>1, Invariance, PTL

\* Once completed, a batch, its transactions and its errors never change: its
\* owner has nothing left to do, and no other command has its id.
THEOREM CompletedFrozen == Spec => CompletedBatchFrozen
<1>1. ASSUME IInv, [Next]_vars, NEW b \in DOMAIN batches, batches[b].completed_at
      PROVE  /\ batches'[b] = batches[b]
             /\ transactions'[b] = transactions[b]
             /\ ingestion_errors'[b] = ingestion_errors[b]
  <2>1. PICK q \in Invocations : pc[q] = "done" /\ batch_id[q] = b
    BY <1>1 DEF IInv, CompletedByOwner
  <2>2. ASSUME NEW p \in Invocations, Step(p)
        PROVE  UNCHANGED <<batches[batch_id[q]], transactions[batch_id[q]],
                           ingestion_errors[batch_id[q]]>>
    <3>1. p # q
      BY <2>1, <2>2 DEF Step, Goto, HashFile, FindExistingBatch, CreateBatch, OpenFile,
                        SkipBlankLine, AcceptRow, RejectRow, RaiseOnRow, FinishFile,
                        InsertBatch, InsertErrors, CompleteBatch
    <3> QED BY <1>1, <2>1, <2>2, <3>1, OtherBatch DEF IInv, Accounted, HasBatch
  <2>3. batch_id'[q] = batch_id[q]
    BY <1>1, <2>1, DoneStaysDone DEF IInv
  <2>4. (\E p \in Invocations : Abort(p)) \/ ReplaceFile \/ Terminated \/ UNCHANGED vars
        => UNCHANGED <<batches, transactions, ingestion_errors>>
    BY DEF Abort, ReplaceFile, Terminated, vars, tables
  <2> QED BY <1>1, <2>1, <2>2, <2>3, <2>4 DEF Next
<1>2. IInv /\ [Next]_vars =>
        \A b \in DOMAIN batches : batches[b].completed_at =>
          /\ batches'[b] = batches[b]
          /\ transactions'[b] = transactions[b]
          /\ ingestion_errors'[b] = ingestion_errors[b]
  BY <1>1
<1> QED BY <1>2, Invariance, PTL DEF Spec, CompletedBatchFrozen

-----------------------------------------------------------------------------
(* Rows in file order: there is one way to list them. *)

\* Every set of natural numbers has a least element; all inductions below are
\* arguments about the least counterexample.
LEMMA LeastElement ==
  ASSUME NEW T, T \subseteq Nat, T # {}
  PROVE  \E x \in T : \A y \in T : x <= y
<1> DEFINE R == OpToRel(<, Nat)
<1>1. IsWellFoundedOn(R, Nat)
  BY NatLessThanWellFounded
<1>2. \A x, y \in Nat : x < y => <<x, y>> \in R
  BY DEF OpToRel
<1> HIDE DEF R
<1>3. PICK x \in T : \A y \in T : ~(<<y, x>> \in R)
  BY <1>1, WFMin
<1>4. ASSUME NEW y \in T
      PROVE  x <= y
  <2>1. x \in Nat /\ y \in Nat /\ ~(y < x)
    BY <1>2, <1>3
  <2> QED BY <2>1
<1> QED BY <1>4

\* A list of the rows of S up to m begins the list of S.
LEMMA ListsAgree ==
  ASSUME NEW s \in Seq(Nat), NEW t \in Seq(Nat), NEW S, NEW m \in Nat,
         Lists(t, S), Lists(s, {r \in S : r <= m})
  PROVE  /\ Len(s) <= Len(t)
         /\ \A i \in 1..Len(s) : s[i] = t[i]
<1> DEFINE Bad == {i \in 1..Len(s) : ~(i <= Len(t) /\ s[i] = t[i])}
<1>1. /\ Len(s) \in Nat /\ Len(t) \in Nat /\ DOMAIN s = 1..Len(s) /\ DOMAIN t = 1..Len(t)
      /\ \A i \in 1..Len(s) : s[i] \in Nat /\ s[i] \in S /\ s[i] <= m
      /\ \A i \in 1..Len(t) : t[i] \in Nat /\ t[i] \in S
      /\ \A i, j \in 1..Len(s) : i < j => s[i] < s[j]
      /\ \A i, j \in 1..Len(t) : i < j => t[i] < t[j]
  BY ElementOfSeq, LenProperties DEF Lists, Range, Ascending
<1>2. /\ \A x \in S : x <= m => \E i \in 1..Len(s) : s[i] = x
      /\ \A x \in S : \E i \in 1..Len(t) : t[i] = x
  BY <1>1 DEF Lists, Range
<1>3. Bad = {}
  <2> SUFFICES ASSUME Bad # {} PROVE FALSE
    OBVIOUS
  <2>1. PICK i \in Bad : \A k \in Bad : i <= k
    <3>1. Bad \subseteq Nat
      OBVIOUS
    <3> HIDE DEF Bad
    <3> QED BY <3>1, LeastElement
  <2>2. i \in 1..Len(s) /\ ~(i <= Len(t) /\ s[i] = t[i])
    OBVIOUS
  <2>3. \A k \in 1..Len(s) : k < i => k <= Len(t) /\ s[k] = t[k]
    BY <1>1, <2>1, <2>2
  <2> HIDE DEF Bad
  <2>4. PICK k \in 1..Len(t) : t[k] = s[i]
    BY <1>1, <1>2, <2>2
  <2>5. ~(k < i)
    <3> SUFFICES ASSUME k < i PROVE FALSE
      OBVIOUS
    <3>1. k \in 1..Len(s)
      BY <1>1, <2>2
    <3>2. s[k] = t[k] /\ s[k] < s[i] /\ s[k] \in Nat /\ s[i] \in Nat
      BY <1>1, <2>2, <2>3, <3>1
    <3> QED BY <2>4, <3>2
  <2>6. k # i
    BY <2>2, <2>4
  <2>7. i \in 1..Len(t) /\ i < k
    BY <1>1, <2>2, <2>5, <2>6
  <2>8. t[i] < s[i] /\ t[i] \in Nat /\ t[i] \in S /\ t[i] <= m
    <3>1. t[i] < t[k] /\ t[i] \in Nat /\ t[i] \in S /\ s[i] \in Nat /\ s[i] <= m
      BY <1>1, <2>2, <2>7
    <3> QED BY <2>4, <3>1
  <2>9. PICK l \in 1..Len(s) : s[l] = t[i]
    BY <1>2, <2>8
  <2>10. l < i
    <3>1. ~(i < l) /\ l # i /\ l \in Nat /\ i \in Nat
      <4>1. i < l => s[i] < s[l]
        BY <1>1, <2>2
      <4>2. s[i] \in Nat /\ s[l] \in Nat
        BY <1>1, <2>2
      <4> QED BY <1>1, <2>2, <2>8, <2>9, <4>1, <4>2
    <3> QED BY <3>1
  <2>11. t[l] = t[i] /\ l \in 1..Len(t) /\ t[l] < t[i]
    BY <1>1, <2>3, <2>7, <2>9, <2>10
  <2> QED BY <2>8, <2>11
<1>4. \A i \in 1..Len(s) : i <= Len(t) /\ s[i] = t[i]
  BY <1>3
<1>5. Len(s) <= Len(t)
  <2>1. CASE Len(s) = 0
    BY <1>1, <2>1
  <2>2. CASE Len(s) # 0
    BY <1>1, <1>4, <2>2
  <2> QED BY <2>1, <2>2
<1> QED BY <1>4, <1>5

\* Two lists of the same rows are one.
LEMMA ListsUnique ==
  ASSUME NEW s \in Seq(Nat), NEW t \in Seq(Nat), NEW S, NEW m \in Nat,
         \A r \in S : r <= m, Lists(s, S), Lists(t, S)
  PROVE  s = t
<1>1. S = {r \in S : r <= m}
  OBVIOUS
<1>2. Len(s) <= Len(t) /\ Len(t) <= Len(s) /\ \A i \in 1..Len(s) : s[i] = t[i]
  BY <1>1, ListsAgree
<1>3. Len(s) \in Nat /\ Len(t) \in Nat /\ s \in [1..Len(s) -> Nat] /\ t \in [1..Len(t) -> Nat]
  BY LenProperties
<1>4. Len(s) = Len(t)
  <2>1. Len(s) \in Nat /\ Len(t) \in Nat
    BY LenProperties
  <2>2. Len(s) <= Len(t) /\ Len(t) <= Len(s)
    BY <1>2
  <2> QED BY <2>1, <2>2
<1> QED BY <1>2, <1>3, <1>4

\* Any rows up to n can be listed in order.
LEMMA Listable ==
  ASSUME NEW n \in Nat, NEW S, S \subseteq 1..n
  PROVE  \E s \in Seq(Nat) : Lists(s, S)
<1> DEFINE UpTo(m) == {r \in S : r <= m}
           Bad == {m \in 0..n : ~\E s \in Seq(Nat) : Lists(s, UpTo(m))}
<1>1. Bad = {}
  <2> SUFFICES ASSUME Bad # {} PROVE FALSE
    OBVIOUS
  <2>1. PICK m \in Bad : \A k \in Bad : m <= k
    <3>1. Bad \subseteq Nat
      OBVIOUS
    <3> HIDE DEF Bad
    <3> QED BY <3>1, LeastElement
  <2>2. m \in 0..n /\ ~\E s \in Seq(Nat) : Lists(s, UpTo(m))
    OBVIOUS
  <2>3. m # 0
    <3> SUFFICES ASSUME m = 0 PROVE FALSE
      OBVIOUS
    <3>1. UpTo(0) = {}
      <4>1. \A r \in S : r \in 1..n /\ ~(r <= 0)
        OBVIOUS
      <4> QED BY <4>1
    <3>2. Lists(<<>>, UpTo(0)) /\ <<>> \in Seq(Nat)
      BY <3>1, ListsEmpty, EmptySeq
    <3> QED BY <2>2, <3>2
  <2>4. m - 1 \in 0..n /\ m \in Nat /\ m - 1 < m
    BY <2>2, <2>3
  <2>5. PICK s \in Seq(Nat) : Lists(s, UpTo(m - 1))
    <3>1. m - 1 \notin Bad
      <4>1. ~(m <= m - 1)
        BY <2>4
      <4> QED BY <2>1, <4>1
    <3> QED BY <2>4, <3>1
  <2>6. \A y \in UpTo(m - 1) : y < m
    BY <2>4
  <2>7. UpTo(m) = IF m \in S THEN UpTo(m - 1) \union {m} ELSE UpTo(m - 1)
    <3>1. \A r \in S : r \in Nat
      OBVIOUS
    <3>2. \A r \in S : r <= m <=> r <= m - 1 \/ r = m
      BY <2>4, <3>1
    <3>3. CASE m \in S
      BY <3>2, <3>3
    <3>4. CASE m \notin S
      BY <3>2, <3>4
    <3> QED BY <3>3, <3>4
  <2> HIDE DEF UpTo, Bad
  <2>8. CASE m \in S
    <3>1. Lists(Append(s, m), UpTo(m)) /\ Append(s, m) \in Seq(Nat)
      BY <2>4, <2>5, <2>6, <2>7, <2>8, ListsAppend, AppendProperties
    <3> QED BY <2>2, <3>1
  <2>9. CASE m \notin S
    BY <2>2, <2>5, <2>7, <2>9
  <2> QED BY <2>8, <2>9
<1>2. UpTo(n) = S
  <2>1. \A r \in S : r \in 1..n /\ r <= n
    OBVIOUS
  <2> QED BY <2>1
<1>3. \E s \in Seq(Nat) : Lists(s, UpTo(n))
  <2>1. n \in 0..n
    OBVIOUS
  <2> QED BY <1>1, <2>1
<1> HIDE DEF UpTo
<1> QED BY <1>2, <1>3

\* InOrder is that list.
LEMMA InOrderLists ==
  ASSUME NEW n \in Nat, NEW S, S \subseteq 1..n
  PROVE  InOrder(S) \in Seq(Nat) /\ Lists(InOrder(S), S)
<1>1. PICK s \in Seq(Nat) : Lists(s, S)
  BY Listable
<1>2. Len(s) \in Nat /\ DOMAIN s = 1..Len(s) /\ s \in [1..Len(s) -> Nat]
  BY LenProperties
<1>3. Cardinality(S) = Len(s)
  <2>1. s \in [1..Len(s) -> S]
    BY <1>1, <1>2 DEF Lists, Range
  <2>2. \A i, j \in 1..Len(s) : s[i] = s[j] => i = j
    <3> SUFFICES ASSUME NEW i \in 1..Len(s), NEW j \in 1..Len(s), i < j
                 PROVE  s[i] # s[j]
      BY <1>2
    <3>1. s[i] < s[j] /\ s[i] \in Nat /\ s[j] \in Nat
      BY <1>1, <1>2 DEF Lists, Ascending
    <3> QED BY <3>1
  <2>3. \A x \in S : \E i \in 1..Len(s) : s[i] = x
    BY <1>1, <1>2 DEF Lists, Range
  <2>4. ExistsBijection(1..Len(s), S)
    BY <2>1, <2>2, <2>3 DEF ExistsBijection, Bijection, Injection, Surjection, IsInjective
  <2> QED BY <1>2, <2>4, FS_CountingElements
<1>4. s \in [1..Cardinality(S) -> S]
  BY <1>1, <1>2, <1>3 DEF Lists, Range
<1>5. InOrder(S) \in [1..Cardinality(S) -> S] /\ Lists(InOrder(S), S)
  BY <1>1, <1>4 DEF InOrder
<1>6. S \subseteq Nat
  OBVIOUS
<1>7. InOrder(S) \in [1..Len(s) -> Nat]
  BY <1>3, <1>5, <1>6
<1>8. InOrder(S) \in Seq(Nat)
  BY <1>2, <1>7
<1> QED BY <1>5, <1>8

-----------------------------------------------------------------------------
(* The ledger: what the tables say of every file. *)

FileOf(b) == <<batches[b].source_system, batches[b].file_hash>>

EntryOf(b) ==
  [rows |-> transactions[b], errors |-> ingestion_errors[b], ingested |-> batches[b].completed_at]

TheLedger == [f \in FilesClaimed |-> LedgerEntry(f)]

\* The step leaves this entry for the file, and every other one as it was.
Puts(f, entry) ==
  TheLedger' = [g \in FilesClaimed \union {f} |-> IF g = f THEN entry ELSE TheLedger[g]]

\* The entry of a file is that of its one batch.
LEMMA LedgerAt ==
  ASSUME OneBatchPerFile, NEW b \in DOMAIN batches
  PROVE  FileOf(b) \in FilesClaimed /\ TheLedger[FileOf(b)] = EntryOf(b)
<1> DEFINE f == FileOf(b)
           owned == BatchesOf(f[1], f[2])
<1>1. f \in FilesClaimed
  BY DEF FilesClaimed, FileOf
<1>2. owned = {b}
  <2>1. f[1] = batches[b].source_system /\ f[2] = batches[b].file_hash
    BY DEF FileOf
  <2> HIDE DEF f
  <2> QED BY <2>1 DEF OneBatchPerFile, BatchesOf
<1>3. (CHOOSE a \in owned : TRUE) = b
  <2> HIDE DEF owned
  <2> QED BY <1>2
<1>4. LedgerEntry(f) = EntryOf(b)
  <2> HIDE DEF f
  <2> QED BY <1>3 DEF LedgerEntry, EntryOf, owned
<1> HIDE DEF f
<1>5. TheLedger[f] = LedgerEntry(f)
  BY <1>1 DEF TheLedger
<1> QED BY <1>1, <1>4, <1>5 DEF f

EntriesOfBatches == \A b \in DOMAIN batches : TheLedger[FileOf(b)] = EntryOf(b)

LEMMA LedgerAtAll == OneBatchPerFile => EntriesOfBatches
  BY LedgerAt DEF EntriesOfBatches

\* A step that writes about one batch puts the entry of its file.
LEMMA LedgerPut ==
  ASSUME OneBatchPerFile, OneBatchPerFile', NEW b \in DOMAIN batches',
         DOMAIN batches' = DOMAIN batches \union {b},
         \A a \in DOMAIN batches : FileOf(a)' = FileOf(a) /\ (a # b => EntryOf(a)' = EntryOf(a)),
         NEW f, f = FileOf(b)', NEW entry, entry = EntryOf(b)'
  PROVE  Puts(f, entry)
<1> DEFINE put == [g \in FilesClaimed \union {f} |-> IF g = f THEN entry ELSE TheLedger[g]]
<1>1. FilesClaimed = {FileOf(a) : a \in DOMAIN batches}
  BY DEF FilesClaimed, FileOf
<1>2. FilesClaimed' = {FileOf(a)' : a \in DOMAIN batches'}
  BY DEF FilesClaimed, FileOf
<1>3. FilesClaimed' = FilesClaimed \union {f}
  BY <1>1, <1>2
<1>4. \A a \in DOMAIN batches' : TheLedger'[FileOf(a)'] = EntryOf(a)'
  <2>1. (\A a \in DOMAIN batches : TheLedger[FileOf(a)] = EntryOf(a))'
    <3>1. EntriesOfBatches'
      BY LedgerAtAll, PTL
    <3> QED BY <3>1 DEF EntriesOfBatches
  <2> QED BY <2>1
<1>5. \A g \in FilesClaimed \union {f} : TheLedger'[g] = put[g]
  <2> SUFFICES ASSUME NEW g \in FilesClaimed \union {f} PROVE TheLedger'[g] = put[g]
    OBVIOUS
  <2>1. CASE g = f
    BY <1>4, <2>1
  <2>2. CASE g # f
    <3>1. PICK a \in DOMAIN batches : g = FileOf(a)
      BY <1>1, <2>2
    <3>2. a # b /\ FileOf(a)' = g /\ EntryOf(a)' = EntryOf(a)
      BY <2>2, <3>1
    <3>3. TheLedger'[g] = EntryOf(a)
      BY <1>4, <3>2
    <3>4. TheLedger[g] = EntryOf(a)
      BY <3>1, LedgerAt
    <3> QED BY <2>2, <3>3, <3>4
  <2> QED BY <2>1, <2>2
<1>6. TheLedger' = [g \in FilesClaimed' |-> LedgerEntry(g)']
  BY DEF TheLedger
<1>7. TheLedger' = [g \in FilesClaimed \union {f} |-> TheLedger'[g]]
  <2> DEFINE e(g) == LedgerEntry(g)'
  <2>1. TheLedger' = [g \in FilesClaimed \union {f} |-> e(g)]
    BY <1>3, <1>6
  <2> HIDE DEF e
  <2> QED BY <2>1
<1> QED BY <1>5, <1>7 DEF Puts

\* The rows of a file, in order.
LEMMA RowsBounded ==
  ASSUME NEW c \in Contents
  PROVE  /\ Len(Lines[c]) \in Nat
         /\ AcceptedRows(c) \subseteq 1..Len(Lines[c])
         /\ RejectedRows(c) \subseteq 1..Len(Lines[c])
<1>1. Len(Lines[c]) \in Nat
  BY RowsUpTo
<1> QED BY <1>1 DEF AcceptedRows, RejectedRows

LEMMA SortedRows ==
  ASSUME NEW c \in Contents, NEW source
  PROVE  /\ AcceptedInOrder(<<source, c>>) \in Seq(Nat)
         /\ Lists(AcceptedInOrder(<<source, c>>), AcceptedRows(c))
         /\ RejectedInOrder(<<source, c>>) \in Seq(Nat)
         /\ Lists(RejectedInOrder(<<source, c>>), RejectedRows(c))
<1>1. /\ AcceptedInOrder(<<source, c>>) = InOrder(AcceptedRows(c))
      /\ RejectedInOrder(<<source, c>>) = InOrder(RejectedRows(c))
  BY DEF AcceptedInOrder, RejectedInOrder, Sorted
<1> QED BY <1>1, RowsBounded, InOrderLists

\* A list of all of them is that list.
LEMMA SortedUnique ==
  ASSUME NEW c \in Contents, NEW source, NEW s \in Seq(Nat)
  PROVE  /\ Lists(s, AcceptedRows(c)) => s = AcceptedInOrder(<<source, c>>)
         /\ Lists(s, RejectedRows(c)) => s = RejectedInOrder(<<source, c>>)
<1> DEFINE n == Len(Lines[c])
           A == AcceptedInOrder(<<source, c>>)
           R == RejectedInOrder(<<source, c>>)
<1>1. n \in Nat /\ AcceptedRows(c) \subseteq 1..n /\ RejectedRows(c) \subseteq 1..n
  BY RowsBounded
<1>2. /\ \A r \in AcceptedRows(c) : r <= n
      /\ \A r \in RejectedRows(c) : r <= n
  BY <1>1
<1>3. A \in Seq(Nat) /\ R \in Seq(Nat) /\ Lists(A, AcceptedRows(c)) /\ Lists(R, RejectedRows(c))
  BY SortedRows
<1> HIDE DEF n, A, R
<1>4. Lists(s, AcceptedRows(c)) => s = A
  BY <1>1, <1>2, <1>3, ListsUnique
<1>5. Lists(s, RejectedRows(c)) => s = R
  BY <1>1, <1>2, <1>3, ListsUnique
<1> QED BY <1>4, <1>5 DEF A, R

\* The rows of file f when n of them are stored and one insert more succeeds.
AfterInsert(f, n) ==
  LET all == Len(AcceptedInOrder(f)) IN
  SubSeq(AcceptedInOrder(f), 1, IF n + BatchSize < all THEN n + BatchSize ELSE all)

\* What is stored and the rows held are the file's rows after one more insert.
LEMMA InsertExtends ==
  ASSUME NEW c \in Contents, NEW source, NEW m \in Nat, BatchSize \in Nat \ {0},
         NEW stored \in Seq(Nat), NEW held \in Seq(Nat),
         NEW T, \A r : r \in T <=> r \in AcceptedRows(c) /\ r <= m,
         Lists(stored \o held, T),
         Len(held) \in 1..BatchSize, Len(held) = BatchSize \/ m = Len(Lines[c])
  PROVE  /\ Len(stored) < Len(AcceptedInOrder(<<source, c>>))
         /\ stored \o held = AfterInsert(<<source, c>>, Len(stored))
<1> DEFINE all == AcceptedInOrder(<<source, c>>)
           S == AcceptedRows(c)
           N == Len(Lines[c])
           size == BatchSize
<1>a. all \in Seq(Nat) /\ Lists(all, S) /\ N \in Nat /\ S \subseteq 1..N
  BY SortedRows, RowsBounded
<1>b. /\ \A r : r \in T <=> r \in S /\ r <= m
      /\ size \in Nat \ {0} /\ Len(held) \in 1..size /\ (Len(held) = size \/ m = N)
  OBVIOUS
<1> HIDE DEF all, S, N, size
<1> DEFINE s == stored \o held
<1>0. T = {r \in S : r <= m}
  BY <1>b
<1>1. s \in Seq(Nat) /\ Len(s) = Len(stored) + Len(held)
  BY ConcatProperties
<1>2. Len(stored) \in Nat /\ Len(all) \in Nat /\ Len(s) \in Nat /\ Len(held) \in Nat
  BY <1>1, <1>a, LenProperties
<1>3. Len(s) <= Len(all) /\ \A i \in 1..Len(s) : s[i] = all[i]
  <2>1. Lists(s, {r \in S : r <= m})
    BY <1>0
  <2> HIDE DEF s
  <2> QED BY <1>1, <1>a, <2>1, ListsAgree
<1>4. m = N => Len(s) = Len(all)
  <2> SUFFICES ASSUME m = N PROVE Len(s) = Len(all)
    OBVIOUS
  <2>1. \A r \in S : r <= N
    BY <1>a
  <2>2. T = S
    BY <1>b, <2>1
  <2>3. Lists(s, S)
    BY <2>2
  <2> HIDE DEF s
  <2>4. s = all
    BY <1>1, <1>a, <2>1, <2>3, ListsUnique
  <2> QED BY <2>4
<1> HIDE DEF s
<1>5. Len(stored) < Len(all)
  BY <1>1, <1>2, <1>3, <1>b
<1>6. Len(s) = IF Len(stored) + size < Len(all) THEN Len(stored) + size ELSE Len(all)
  <2>1. Len(s) = Len(stored) + Len(held) /\ Len(s) <= Len(all) /\ Len(held) <= size
    BY <1>1, <1>2, <1>3, <1>b
  <2>2. Len(held) = size \/ Len(s) = Len(all)
    BY <1>4, <1>b
  <2>3. CASE Len(stored) + size < Len(all)
    <3>1. Len(held) = size
      BY <1>2, <1>b, <2>1, <2>2, <2>3
    <3> QED BY <2>1, <2>3, <3>1
  <2>4. CASE ~(Len(stored) + size < Len(all))
    <3>1. Len(s) = Len(all)
      BY <1>2, <1>b, <2>1, <2>2, <2>4
    <3> QED BY <2>4, <3>1
  <2> QED BY <2>3, <2>4
<1>7. s = SubSeq(all, 1, Len(s))
  <2> DEFINE t == SubSeq(all, 1, Len(s))
  <2>1. t \in Seq(Nat) /\ Len(t) = Len(s) /\ \A i \in 1..Len(s) : t[i] = all[i]
    <3>1. Len(s) \in 0..Len(all)
      BY <1>2, <1>3
    <3>2. \A i \in 1..Len(s) : all[i] \in Nat
      BY <1>2, <1>3, <1>a, ElementOfSeq
    <3>3. t = [i \in 1..Len(s) |-> all[i]]
      BY <1>2, <1>a, <3>1
    <3> HIDE DEF t
    <3> QED BY <1>2, <3>2, <3>3
  <2> HIDE DEF t
  <2>2. s \in Seq(Nat) /\ t \in Seq(Nat) /\ Len(s) = Len(t)
        /\ \A i \in 1..Len(s) : s[i] = t[i]
    BY <1>1, <1>3, <2>1
  <2>3. s = t
    BY <2>2, SeqEqual
  <2> QED BY <2>3 DEF t
<1> QED BY <1>5, <1>6, <1>7 DEF s, size, all, AfterInsert

-----------------------------------------------------------------------------
(* Every step of the commands is one of the ledger, or none. *)

\* A command that reads or has read its file fills the batch with that file's
\* digest, and the batch is not completed.
LEMMA OwnFile ==
  ASSUME IInv, ~FilesChange, NEW p \in Invocations, pc[p] \in {"flush", "errors", "complete"}
  PROVE  /\ batch_id[p] \in DOMAIN batches /\ batch_id[p] # 0
         /\ content[p] \in Contents /\ args[p].source \in SourceSystem
         /\ FileOf(batch_id[p]) = <<args[p].source, content[p]>>
         /\ ~batches[batch_id[p]].completed_at
         /\ FileOf(batch_id[p]) \in FilesClaimed
         /\ TheLedger[FileOf(batch_id[p])] = EntryOf(batch_id[p])
<1> DEFINE b == batch_id[p]
<1>1. b \in 1..Len(batches) /\ b # 0 /\ content[p] \in Contents /\ args[p].source \in SourceSystem
  BY DEF IInv, Accounted, OneOwner, TypeOK, HasBatch
<1>2. DOMAIN batches = 1..Len(batches) /\ batches[b] \in Batch
  BY <1>1, ElementOfSeq, LenProperties DEF IInv, Accounted, TypeOK
<1>3. batches[b].file_hash = file_hash[p] /\ batches[b].source_system = args[p].source
  BY <1>1 DEF IInv, Claims
<1>4. content[p] = file_hash[p]
  <2>1. file_hash[p] \in Contents
    BY <1>2, <1>3 DEF Batch
  <2> QED BY <1>1, <2>1, ConstantsAssumption DEF IInv, SameFile
<1>5. ~batches[b].completed_at
  <2> SUFFICES ASSUME batches[b].completed_at PROVE FALSE
    OBVIOUS
  <2>1. PICK q \in Invocations : pc[q] = "done" /\ batch_id[q] = b
    BY <1>1, <1>2 DEF IInv, CompletedByOwner
  <2>2. q # p
    BY <2>1
  <2> QED BY <1>1, <2>1, <2>2 DEF IInv, Accounted, OneOwner
<1>6. FileOf(b) = <<args[p].source, content[p]>>
  BY <1>3, <1>4 DEF FileOf
<1>7. FileOf(b) \in FilesClaimed /\ TheLedger[FileOf(b)] = EntryOf(b)
  BY <1>1, <1>2, LedgerAt DEF IInv
<1> QED BY <1>1, <1>2, <1>5, <1>6, <1>7

\* A step that writes into an existing batch, and says which entry it leaves.
LEMMA LedgerWrite ==
  ASSUME IInv, IInv', NEW b \in DOMAIN batches, Len(batches') = Len(batches),
         \A a \in DOMAIN batches :
           /\ batches'[a].source_system = batches[a].source_system
           /\ batches'[a].file_hash = batches[a].file_hash
           /\ a # b => UNCHANGED <<transactions[a], ingestion_errors[a], batches[a].completed_at>>,
         NEW f, f = FileOf(b), NEW entry, entry = EntryOf(b)'
  PROVE  Puts(f, entry)
<1>1. DOMAIN batches' = DOMAIN batches
  BY LenProperties DEF IInv, Accounted, TypeOK
<1>2. \A a \in DOMAIN batches : FileOf(a)' = FileOf(a) /\ (a # b => EntryOf(a)' = EntryOf(a))
  BY DEF FileOf, EntryOf
<1>3. OneBatchPerFile /\ OneBatchPerFile'
  BY DEF IInv
<1>4. b \in DOMAIN batches' /\ DOMAIN batches' = DOMAIN batches \union {b} /\ f = FileOf(b)'
  BY <1>1, <1>2
<1> HIDE DEF IInv
<1> QED BY <1>2, <1>3, <1>4, LedgerPut

LEMMA CreateBatchClaims ==
  ASSUME IInv, IInv', NEW p \in Invocations, CreateBatch(p), ~UniqueViolation(p)
  PROVE  \E f \in SourceSystem \X Contents :
           /\ f \notin FilesClaimed
           /\ Puts(f, [rows |-> <<>>, errors |-> <<>>, ingested |-> FALSE])
<1>0. PICK b \in Nat : b = Len(batches) + 1
  BY LenProperties DEF IInv, Accounted, TypeOK
<1> DEFINE f == <<args[p].source, file_hash[p]>>
           entry == [rows |-> <<>>, errors |-> <<>>, ingested |-> FALSE]
<1>1. /\ transactions' = Append(transactions, <<>>)
      /\ ingestion_errors' = Append(ingestion_errors, <<>>)
      /\ pc[p] = "create"
  BY DEF CreateBatch, Goto
<1>2. /\ Len(batches') = Len(batches) + 1
      /\ \A a \in 1..Len(batches) : batches'[a] = batches[a]
      /\ batches'[b].source_system = args[p].source
      /\ batches'[b].file_hash = file_hash[p]
      /\ ~batches'[b].completed_at
  BY <1>0, CreateBatchProperties DEF IInv
<1>3. /\ batches \in Seq(Batch) /\ batches' \in Seq(Batch)
      /\ transactions \in Seq(Seq(Nat)) /\ ingestion_errors \in Seq(Seq(Nat))
      /\ Len(transactions) = Len(batches) /\ Len(ingestion_errors) = Len(batches)
  BY DEF IInv, Accounted, TypeOK, OneOwner
<1>4. DOMAIN batches = 1..Len(batches) /\ DOMAIN batches' = 1..b /\ Len(batches) \in Nat
  BY <1>0, <1>2, <1>3, LenProperties
<1>5. /\ transactions'[b] = <<>> /\ ingestion_errors'[b] = <<>>
      /\ \A a \in 1..Len(batches) : /\ transactions'[a] = transactions[a]
                                    /\ ingestion_errors'[a] = ingestion_errors[a]
  BY <1>0, <1>1, <1>3
<1>6. f \in SourceSystem \X Contents
  <2>1. args[p].source \in SourceSystem /\ file_hash[p] \in Contents
    BY <1>1 DEF IInv, Accounted, TypeOK, Hashed
  <2> QED BY <2>1
<1>7. f \notin FilesClaimed
  BY DEF UniqueViolation, BatchesOf, FilesClaimed
<1>8. entry = EntryOf(b)'
  <2>1. batches'[b].completed_at = FALSE
    <3>1. batches'[b] \in Batch
      <4>1. b \in 1..Len(batches') /\ batches' \in Seq(Batch)
        BY <1>0, <1>2, <1>3
      <4> QED BY <4>1, ElementOfSeq
    <3> QED BY <1>2, <3>1 DEF Batch
  <2> QED BY <1>5, <2>1 DEF EntryOf
<1>9. f = FileOf(b)'
  BY <1>2 DEF FileOf
<1>10. \A a \in DOMAIN batches : FileOf(a)' = FileOf(a) /\ EntryOf(a)' = EntryOf(a)
  BY <1>2, <1>4, <1>5 DEF FileOf, EntryOf
<1>11. OneBatchPerFile /\ OneBatchPerFile'
  BY DEF IInv
<1>12. b \in DOMAIN batches' /\ DOMAIN batches' = DOMAIN batches \union {b}
  BY <1>0, <1>4
<1> HIDE DEF f, entry
<1>13. Puts(f, entry)
  BY <1>8, <1>9, <1>10, <1>11, <1>12, LedgerPut
<1> QED BY <1>6, <1>7, <1>13 DEF entry

\* insert_batch extends the rows of the file.
LEMMA InsertBatchExtends ==
  ASSUME IInv, IInv', ~FilesChange, NEW p \in Invocations, InsertBatch(p), pc'[p] # "failed"
  PROVE  \E f \in FilesClaimed :
           LET n == Len(TheLedger[f].rows)
               all == Len(AcceptedInOrder(f))
           IN /\ ~TheLedger[f].ingested /\ n < all /\ TheLedger[f].errors = <<>>
              /\ Puts(f, [TheLedger[f] EXCEPT !.rows = AfterInsert(f, n)])
<1>1. PICK b \in DOMAIN batches : b = batch_id[p]
  BY OwnFile DEF InsertBatch, Goto
<1>2. PICK stored \in Seq(Nat), held \in Seq(Nat) :
        stored = transactions[b] /\ held = current_batch[p]
  BY <1>1, Ownership DEF InsertBatch, Goto, HasBatch, IInv, Accounted
<1> DEFINE f == <<args[p].source, content[p]>>
           sorted == AcceptedInOrder(f)
           entry == [TheLedger[f] EXCEPT !.rows = AfterInsert(f, Len(stored))]
<1>3. /\ pc[p] = "flush" /\ UNCHANGED <<batches, ingestion_errors>>
      /\ transactions' = AddRows(transactions, b, held)
  BY <1>1, <1>2 DEF InsertBatch, Goto, IInv, Accounted, TypeOK
<1>4. /\ content[p] \in Contents /\ f = FileOf(b) /\ f \in FilesClaimed
      /\ ~batches[b].completed_at /\ TheLedger[f] = EntryOf(b) /\ b # 0
  BY <1>1, <1>3, OwnFile
<1>5. /\ b \in 1..Len(transactions) /\ transactions \in Seq(Seq(Nat))
      /\ Len(transactions) = Len(batches) /\ DOMAIN batches = 1..Len(batches)
  BY LenProperties DEF IInv, Accounted, TypeOK, OneOwner
<1>6. /\ transactions'[b] = stored \o held
      /\ \A a \in DOMAIN batches : a # b => transactions'[a] = transactions[a]
  <2>1. /\ AddRows(transactions, b, held)[b] = transactions[b] \o held
        /\ \A a \in 1..Len(transactions) :
             a # b => AddRows(transactions, b, held)[a] = transactions[a]
    BY <1>5, AddRowsProperties
  <2> QED BY <1>2, <1>3, <1>5, <2>1
<1>7. ReadSoFar(p)
  BY <1>3 DEF IInv, Accounted, Progress
<1>8. ingestion_errors[b] = <<>> /\ row_number[p] \in Nat
      /\ Lists(stored \o held, {r \in AcceptedRows(content[p]) : r <= row_number[p]})
  BY <1>1, <1>2, <1>7 DEF ReadSoFar, IInv, Accounted, TypeOK
<1>9. /\ Len(held) \in 1..BatchSize /\ BatchSize \in Nat \ {0}
      /\ Len(held) = BatchSize \/ row_number[p] = Len(Lines[content[p]])
  <2>1. BatchSize > 0 /\ BatchSize \in Int
    BY <1>1, <1>3, <1>4, ConstantsAssumption DEF IInv, Batching
  <2>2. Batching(p)
    BY DEF IInv
  <2>3. /\ Len(held) \in 1..BatchSize
        /\ Len(held) = BatchSize \/ row_number[p] = Len(Lines[content[p]])
    BY <1>2, <1>3, <2>2 DEF Batching
  <2> QED BY <2>1, <2>3
<1>10. Len(stored) < Len(sorted) /\ stored \o held = AfterInsert(f, Len(stored))
  <2> DEFINE T == {r \in AcceptedRows(content[p]) : r <= row_number[p]}
  <2>1. \A r : r \in T <=> r \in AcceptedRows(content[p]) /\ r <= row_number[p]
    OBVIOUS
  <2>2. Lists(stored \o held, T)
    BY <1>8
  <2> HIDE DEF T
  <2>3. PICK c, m, source :
          /\ c \in Contents /\ m \in Nat
          /\ c = content[p] /\ m = row_number[p] /\ source = args[p].source
    BY <1>4, <1>8
  <2>4. /\ \A r : r \in T <=> r \in AcceptedRows(c) /\ r <= m
        /\ BatchSize \in Nat \ {0} /\ Len(held) \in 1..BatchSize
        /\ (Len(held) = BatchSize \/ m = Len(Lines[c]))
    BY <1>9, <2>1, <2>3
  <2>5. c \in Contents /\ m \in Nat
    BY <2>3
  <2>6. /\ Len(stored) < Len(AcceptedInOrder(<<source, c>>))
        /\ stored \o held = AfterInsert(<<source, c>>, Len(stored))
    BY <2>2, <2>4, <2>5, InsertExtends
  <2> QED BY <2>3, <2>6
<1>11. entry = EntryOf(b)'
  <2>1. entry = [EntryOf(b) EXCEPT !.rows = stored \o held]
    BY <1>4, <1>10
  <2> HIDE DEF entry
  <2> QED BY <1>3, <1>6, <2>1 DEF EntryOf
<1>12. /\ Len(batches') = Len(batches)
       /\ \A a \in DOMAIN batches :
            /\ batches'[a].source_system = batches[a].source_system
            /\ batches'[a].file_hash = batches[a].file_hash
            /\ a # b => UNCHANGED <<transactions[a], ingestion_errors[a], batches[a].completed_at>>
  BY <1>3, <1>6
<1>13. Puts(f, entry)
  <2>1. f = FileOf(b)
    BY <1>4
  <2> HIDE DEF f, entry
  <2> QED BY <1>11, <1>12, <2>1, LedgerWrite
<1>14. TheLedger[f].rows = stored /\ TheLedger[f].errors = <<>> /\ ~TheLedger[f].ingested
  BY <1>2, <1>4, <1>8 DEF EntryOf
<1>15. f \in FilesClaimed
  BY <1>4
<1> HIDE DEF f
<1> QED BY <1>10, <1>13, <1>14, <1>15

\* insert_errors records the rejected rows of the file.
LEMMA InsertErrorsRecords ==
  ASSUME IInv, IInv', ~FilesChange, NEW p \in Invocations, InsertErrors(p), pc'[p] # "failed"
  PROVE  \E f \in FilesClaimed :
           /\ ~TheLedger[f].ingested
           /\ TheLedger[f].rows = AcceptedInOrder(f) /\ TheLedger[f].errors = <<>>
           /\ Puts(f, [TheLedger[f] EXCEPT !.errors = RejectedInOrder(f)])
<1>1. PICK b \in DOMAIN batches : b = batch_id[p]
  BY OwnFile DEF InsertErrors, Goto
<1>2. PICK stored \in Seq(Nat), errors \in Seq(Nat) :
        stored = transactions[b] /\ errors = summary[p].errors
  BY <1>1, Ownership DEF InsertErrors, Goto, HasBatch, IInv, Accounted
<1> DEFINE f == <<args[p].source, content[p]>>
           entry == [TheLedger[f] EXCEPT !.errors = RejectedInOrder(f)]
<1>3. /\ pc[p] = "errors" /\ UNCHANGED <<batches, transactions>>
      /\ ingestion_errors' = AddRows(ingestion_errors, b, errors)
  BY <1>1, <1>2 DEF InsertErrors, Goto, IInv, Accounted, TypeOK
<1>4. /\ content[p] \in Contents /\ f = FileOf(b) /\ f \in FilesClaimed
      /\ ~batches[b].completed_at /\ TheLedger[f] = EntryOf(b)
  BY <1>1, <1>3, OwnFile
<1>5. /\ b \in 1..Len(ingestion_errors) /\ ingestion_errors \in Seq(Seq(Nat))
      /\ Len(ingestion_errors) = Len(batches) /\ DOMAIN batches = 1..Len(batches)
  BY LenProperties DEF IInv, Accounted, TypeOK, OneOwner
<1>6. ReadAll(p) /\ ingestion_errors[b] = <<>>
  BY <1>1, <1>3 DEF IInv, Accounted, Progress
<1>7. stored = AcceptedInOrder(f) /\ errors = RejectedInOrder(f)
  BY <1>1, <1>2, <1>4, <1>6, SortedUnique DEF ReadAll
<1>8. /\ ingestion_errors'[b] = errors
      /\ \A a \in DOMAIN batches : a # b => ingestion_errors'[a] = ingestion_errors[a]
  <2>1. /\ AddRows(ingestion_errors, b, errors)[b] = ingestion_errors[b] \o errors
        /\ \A a \in 1..Len(ingestion_errors) :
             a # b => AddRows(ingestion_errors, b, errors)[a] = ingestion_errors[a]
    BY <1>5, AddRowsProperties
  <2>2. <<>> \o errors = errors
    BY ConcatEmptySeq
  <2> QED BY <1>3, <1>5, <1>6, <2>1, <2>2
<1>9. entry = EntryOf(b)'
  <2>1. entry = [EntryOf(b) EXCEPT !.errors = errors]
    BY <1>4, <1>7
  <2> HIDE DEF entry
  <2> QED BY <1>3, <1>8, <2>1 DEF EntryOf
<1>10. /\ Len(batches') = Len(batches)
       /\ \A a \in DOMAIN batches :
            /\ batches'[a].source_system = batches[a].source_system
            /\ batches'[a].file_hash = batches[a].file_hash
            /\ a # b => UNCHANGED <<transactions[a], ingestion_errors[a], batches[a].completed_at>>
  BY <1>3, <1>8
<1>11. f = FileOf(b) /\ f \in FilesClaimed
  BY <1>4
<1>12. TheLedger[f].rows = AcceptedInOrder(f) /\ TheLedger[f].errors = <<>> /\ ~TheLedger[f].ingested
  BY <1>2, <1>4, <1>6, <1>7 DEF EntryOf
<1> HIDE DEF f, entry
<1>13. Puts(f, entry)
  BY <1>9, <1>10, <1>11, LedgerWrite
<1> QED BY <1>11, <1>12, <1>13 DEF entry

\* complete_batch finishes the file.
LEMMA CompleteBatchFinishes ==
  ASSUME IInv, IInv', ~FilesChange, NEW p \in Invocations, CompleteBatch(p)
  PROVE  \E f \in FilesClaimed :
           /\ ~TheLedger[f].ingested
           /\ TheLedger[f].rows = AcceptedInOrder(f) /\ TheLedger[f].errors = RejectedInOrder(f)
           /\ Puts(f, [TheLedger[f] EXCEPT !.ingested = TRUE])
<1>1. PICK b \in DOMAIN batches : b = batch_id[p]
  BY OwnFile DEF CompleteBatch, Goto
<1>2. PICK stored \in Seq(Nat), errors \in Seq(Nat) :
        stored = transactions[b] /\ errors = summary[p].errors
  BY <1>1, Ownership DEF CompleteBatch, Goto, HasBatch, IInv, Accounted
<1> DEFINE f == <<args[p].source, content[p]>>
           entry == [TheLedger[f] EXCEPT !.ingested = TRUE]
<1>3. pc[p] = "complete" /\ UNCHANGED <<transactions, ingestion_errors>>
  BY DEF CompleteBatch, Goto
<1>4. /\ content[p] \in Contents /\ f = FileOf(b) /\ f \in FilesClaimed
      /\ ~batches[b].completed_at /\ TheLedger[f] = EntryOf(b)
  BY <1>1, <1>3, OwnFile
<1>5. ReadAll(p) /\ ingestion_errors[b] = errors
  BY <1>1, <1>2, <1>3 DEF IInv, Accounted, Progress
<1>6. stored = AcceptedInOrder(f) /\ errors = RejectedInOrder(f)
  BY <1>1, <1>2, <1>4, <1>5, SortedUnique DEF ReadAll
<1>7. /\ Len(batches') = Len(batches) /\ DOMAIN batches = 1..Len(batches)
      /\ \A a \in 1..Len(batches) :
           /\ batches'[a].source_system = batches[a].source_system
           /\ batches'[a].file_hash = batches[a].file_hash
           /\ a # b => batches'[a] = batches[a]
  BY <1>1, CompleteKeepsDigests, CompleteBatchProperties, LenProperties DEF IInv, Accounted, TypeOK
<1>8. batches'[b].completed_at = TRUE
  <2>1. batches' = [batches EXCEPT ![b] = Completed(batches[b], summary[p])]
    BY <1>1 DEF CompleteBatch
  <2>2. batches[b] \in Batch
    BY <1>7, ElementOfSeq DEF IInv, Accounted, TypeOK
  <2>3. Completed(batches[b], summary[p]).completed_at = TRUE
    BY <2>2 DEF Completed, Batch
  <2> QED BY <2>1, <2>3
<1>9. entry = EntryOf(b)'
  <2>1. entry = [EntryOf(b) EXCEPT !.ingested = TRUE]
    BY <1>4
  <2> HIDE DEF entry
  <2> QED BY <1>3, <1>8, <2>1 DEF EntryOf
<1>10. /\ Len(batches') = Len(batches)
       /\ \A a \in DOMAIN batches :
            /\ batches'[a].source_system = batches[a].source_system
            /\ batches'[a].file_hash = batches[a].file_hash
            /\ a # b => UNCHANGED <<transactions[a], ingestion_errors[a], batches[a].completed_at>>
  BY <1>3, <1>7
<1>11. f = FileOf(b) /\ f \in FilesClaimed
  BY <1>4
<1>12. /\ TheLedger[f].rows = AcceptedInOrder(f) /\ TheLedger[f].errors = RejectedInOrder(f)
       /\ ~TheLedger[f].ingested
  BY <1>2, <1>4, <1>5, <1>6 DEF EntryOf
<1> HIDE DEF f, entry
<1>13. Puts(f, entry)
  BY <1>9, <1>10, <1>11, LedgerWrite
<1> QED BY <1>11, <1>12, <1>13 DEF entry

\* A step that leaves the tables alone leaves the ledger alone.
LEMMA LedgerUnchanged ==
  ASSUME UNCHANGED tables
  PROVE  TheLedger' = TheLedger
<1>1. batches' = batches /\ transactions' = transactions /\ ingestion_errors' = ingestion_errors
  BY DEF tables
<1> QED BY <1>1 DEF TheLedger, FilesClaimed, LedgerEntry, BatchesOf

\* Any other step of a command does.
LEMMA OtherSteps ==
  ASSUME TypeOK, NEW p \in Invocations, Step(p),
         ~CompleteBatch(p), ~CreateBatch(p) \/ UniqueViolation(p),
         ~InsertBatch(p) \/ pc'[p] = "failed", ~InsertErrors(p) \/ pc'[p] = "failed"
  PROVE  UNCHANGED tables
<1>1. CASE HashFile(p) \/ FindExistingBatch(p) \/ CreateBatch(p) \/ OpenFile(p)
  BY <1>1 DEF HashFile, FindExistingBatch, CreateBatch, OpenFile
<1>2. CASE SkipBlankLine(p) \/ AcceptRow(p) \/ RejectRow(p) \/ RaiseOnRow(p) \/ FinishFile(p)
  BY <1>2 DEF SkipBlankLine, AcceptRow, RejectRow, RaiseOnRow, FinishFile
<1>3. CASE InsertBatch(p) \/ InsertErrors(p)
  <2>1. pc \in [Invocations -> {"hash", "find", "create", "open", "stream", "flush",
                                "errors", "complete"} \union Ended]
    BY DEF TypeOK
  <2> QED BY <1>3, <2>1 DEF InsertBatch, InsertErrors, Goto
<1> QED BY <1>1, <1>2, <1>3 DEF Step

LEMMA LedgerInit == Init => Ledger!Init
<1> SUFFICES ASSUME Init PROVE Ledger!Init
  OBVIOUS
<1>1. FilesClaimed = {}
  BY EmptySeq DEF Init, FilesClaimed
<1> QED BY <1>1 DEF Ledger!Init

LEMMA LedgerStep ==
  ASSUME IInv, IInv', ~FilesChange, [Next]_vars
  PROVE  Ledger!Next \/ TheLedger' = TheLedger
<1>1. Ledger!Claimed = FilesClaimed
  BY DEF Ledger!Claimed
<1>2. \A f, entry : Puts(f, entry) => Ledger!Put(f, entry)
  BY DEF Puts, Ledger!Put, Ledger!Claimed, TheLedger
<1>3. ASSUME NEW p \in Invocations, CreateBatch(p), ~UniqueViolation(p)
      PROVE  \E f \in SourceSystem \X Contents : Ledger!Claim(f)
  BY <1>1, <1>2, <1>3, CreateBatchClaims DEF Ledger!Claim
<1>4. ASSUME NEW p \in Invocations, InsertBatch(p), pc'[p] # "failed"
      PROVE  \E f \in FilesClaimed : Ledger!InsertRows(f)
  BY <1>2, <1>4, InsertBatchExtends DEF Ledger!InsertRows, Ledger!Open, AfterInsert, TheLedger
<1>5. ASSUME NEW p \in Invocations, InsertErrors(p), pc'[p] # "failed"
      PROVE  \E f \in FilesClaimed : Ledger!RecordErrors(f)
  BY <1>2, <1>5, InsertErrorsRecords DEF Ledger!RecordErrors, Ledger!Open, TheLedger
<1>6. ASSUME NEW p \in Invocations, CompleteBatch(p)
      PROVE  \E f \in FilesClaimed : Ledger!Finish(f)
  BY <1>2, <1>6, CompleteBatchFinishes DEF Ledger!Finish, Ledger!Open, TheLedger
<1>7. CASE \E p \in Invocations : Step(p)
  <2>1. PICK p \in Invocations : Step(p)
    BY <1>7
  <2>2. CASE \/ CompleteBatch(p)
             \/ CreateBatch(p) /\ ~UniqueViolation(p)
             \/ InsertBatch(p) /\ pc'[p] # "failed"
             \/ InsertErrors(p) /\ pc'[p] # "failed"
    BY <1>1, <1>3, <1>4, <1>5, <1>6, <2>2 DEF Ledger!Next
  <2>3. CASE /\ ~CompleteBatch(p)
             /\ ~(CreateBatch(p) /\ ~UniqueViolation(p))
             /\ ~(InsertBatch(p) /\ pc'[p] # "failed")
             /\ ~(InsertErrors(p) /\ pc'[p] # "failed")
    <3>1. TypeOK
      BY DEF IInv, Accounted
    <3>2. UNCHANGED tables
      BY <2>1, <2>3, <3>1, OtherSteps
    <3> QED BY <3>2, LedgerUnchanged
  <2> QED BY <2>2, <2>3
<1>8. CASE (\E p \in Invocations : Abort(p)) \/ ReplaceFile \/ Terminated \/ UNCHANGED vars
  <2>1. UNCHANGED tables
    BY <1>8 DEF Abort, ReplaceFile, Terminated, vars
  <2> QED BY <2>1, LedgerUnchanged
<1> QED BY <1>7, <1>8 DEF Next

\* As long as files stay as they are, the commands implement the ledger,
\* however many race, crash and are tried again: the ledger's entry of a file
\* is what the tables hold of its one batch.
THEOREM LedgerImplemented == ~FilesChange => (Spec => ImplementsLedger)
<1> SUFFICES ASSUME ~FilesChange PROVE Spec => ImplementsLedger
  OBVIOUS
<1>1. Init => Ledger!Init
  BY LedgerInit
<1>2. IInv /\ IInv' /\ [Next]_vars => [Ledger!Next]_TheLedger
  BY LedgerStep
<1>3. TheLedger = [f \in FilesClaimed |-> LedgerEntry(f)]
  BY DEF TheLedger
<1> QED BY <1>1, <1>2, Invariance, PTL DEF Spec, ImplementsLedger, Ledger!Spec, TheLedger
=============================================================================
