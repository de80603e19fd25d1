------------------------------ MODULE RunProofs ------------------------------
(***************************************************************************)
(* Proofs about ReconciliationRun, for any number of runs, any command     *)
(* lines and any batches that ingests commit meanwhile: what a completed   *)
(* run has stored and counted is complete, adds up and can be repeated.    *)
(***************************************************************************)
EXTENDS ReconciliationRun, FiniteSetTheorems, SequenceTheorems, TLAPS

-----------------------------------------------------------------------------
(* The results of one strategy and tolerance (see HashProofs, whose
   theorems are about one configuration; a run brings its own). *)

\* I and E hold records of the two sources.
BothSides(I, E) ==
  /\ I \subseteq C!Transaction /\ E \subseteq C!Transaction
  /\ \A t \in I : t.source = "INTERNAL"
  /\ \A t \in E : t.source = "EXTERNAL"

PairStatus == C!Status \ {"MISSING_INTERNAL", "MISSING_EXTERNAL", "DUPLICATE"}

LEMMA SidesAreDisjoint ==
  ASSUME NEW I, NEW E, BothSides(I, E)
  PROVE  I \intersect E = {} /\ None \notin I /\ None \notin E
BY RunAssumption DEF BothSides

LEMMA ClassifyMatchProperties ==
  ASSUME NEW s, NEW tol, NEW i \in C!Transaction, NEW e \in C!Transaction, NEW r,
         r = Classifier(s, tol)!ClassifyMatch(i, e)
  PROVE  /\ r \in C!ReconciliationResult
         /\ r.internal_transaction = i /\ r.external_transaction = e
         /\ r.status \in PairStatus
<1>1. /\ i.amount \in Nat /\ e.amount \in Nat /\ i.tax_amount \in Nat /\ e.tax_amount \in Nat
      /\ i.transaction_id \in C!Text
  BY DEF C!Transaction
<1>2. /\ Classifier(s, tol)!AbsDifference(i.amount, e.amount) \in Nat
      /\ Classifier(s, tol)!AbsDifference(i.tax_amount, e.tax_amount) \in Nat
  BY <1>1 DEF Classifier!AbsDifference
<1>3. Classifier(s, tol)!Mismatches(i, e) \in SUBSET C!Detail
  BY DEF Classifier!Mismatches, C!Detail
<1>4. Classifier(s, tol)!StatusOf(Classifier(s, tol)!Mismatches(i, e)) \in PairStatus
  BY DEF Classifier!StatusOf, C!Status, PairStatus
<1> QED BY <1>1, <1>2, <1>3, <1>4 DEF Classifier!ClassifyMatch, C!ReconciliationResult, PairStatus

LEMMA LoneProperties ==
  ASSUME NEW s, NEW tol, NEW t \in C!Transaction
  PROVE  /\ Classifier(s, tol)!MissingExternal(t) \in C!ReconciliationResult
         /\ Classifier(s, tol)!MissingInternal(t) \in C!ReconciliationResult
         /\ Classifier(s, tol)!Duplicate(t) \in C!ReconciliationResult
<1>1. t.amount \in Nat /\ t.transaction_id \in C!Text
  BY DEF C!Transaction
<1>2. Classifier(s, tol)!MissingExternal(t) \in C!ReconciliationResult
  BY <1>1 DEF Classifier!MissingExternal, C!ReconciliationResult, C!Status, C!Detail
<1>3. Classifier(s, tol)!MissingInternal(t) \in C!ReconciliationResult
  BY <1>1 DEF Classifier!MissingInternal, C!ReconciliationResult, C!Status, C!Detail
<1>4. Classifier(s, tol)!Duplicate(t) \in C!ReconciliationResult
  BY <1>1 DEF Classifier!Duplicate, C!ReconciliationResult, C!Status, C!Detail
<1> QED BY <1>2, <1>3, <1>4

LEMMA LoneFields ==
  ASSUME NEW s, NEW tol, NEW t
  PROVE  /\ Classifier(s, tol)!MissingExternal(t).internal_transaction = t
         /\ Classifier(s, tol)!MissingExternal(t).external_transaction = None
         /\ Classifier(s, tol)!MissingExternal(t).status = "MISSING_EXTERNAL"
         /\ Classifier(s, tol)!MissingInternal(t).internal_transaction = None
         /\ Classifier(s, tol)!MissingInternal(t).external_transaction = t
         /\ Classifier(s, tol)!MissingInternal(t).status = "MISSING_INTERNAL"
         /\ Classifier(s, tol)!Duplicate(t).internal_transaction =
              IF t.source = "INTERNAL" THEN t ELSE None
         /\ Classifier(s, tol)!Duplicate(t).external_transaction =
              IF t.source = "INTERNAL" THEN None ELSE t
         /\ Classifier(s, tol)!Duplicate(t).status = "DUPLICATE"
BY DEF Classifier!MissingExternal, Classifier!MissingInternal, Classifier!Duplicate

\* The verdict on a record tells about it, on its own side, and about no
\* record of another key; its status says how many records it tells about.
TellsAbout(s, tol, I, E, t, r) ==
  /\ r \in C!ReconciliationResult
  /\ t \in I => r.internal_transaction = t
  /\ t \in E => r.external_transaction = t
  /\ r.internal_transaction # None =>
       r.internal_transaction \in Classifier(s, tol)!Peers(t, I)
  /\ r.external_transaction # None =>
       r.external_transaction \in Classifier(s, tol)!Peers(t, E)
  /\ r.status \in PairStatus <=>
       r.internal_transaction # None /\ r.external_transaction # None
  /\ r.status = "MISSING_EXTERNAL" => t \in I /\ Classifier(s, tol)!Peers(t, E) = {}

LEMMA VerdictTells ==
  ASSUME NEW s, NEW tol, NEW I, NEW E, BothSides(I, E), NEW t \in I \union E,
         NEW r, r = Classifier(s, tol)!Verdict(t, I, E)
  PROVE  TellsAbout(s, tol, I, E, t, r)
<1> USE DEF TellsAbout
<1> DEFINE P(S) == Classifier(s, tol)!Peers(t, S)
<1>1. /\ t \in C!Transaction /\ t # None
      /\ (t \in I => t.source = "INTERNAL") /\ (t \in E => t.source = "EXTERNAL")
  BY SidesAreDisjoint DEF BothSides
<1>2. /\ t \in I => t \in P(I)
      /\ t \in E => t \in P(E)
      /\ P(I) \subseteq I /\ P(E) \subseteq E
      /\ P(I) \subseteq C!Transaction /\ P(E) \subseteq C!Transaction
  BY DEF Classifier!Peers, BothSides
<1>3. None \notin P(I) /\ None \notin P(E)
  BY <1>2, SidesAreDisjoint
<1>4. CASE Classifier(s, tol)!Ambiguous(t, I, E)
  <2>1. r = Classifier(s, tol)!Duplicate(t)
    BY <1>4 DEF Classifier!Verdict
  <2>2. r \in C!ReconciliationResult
    BY <1>1, <2>1, LoneProperties
  <2>3. /\ t \in I => r.internal_transaction = t
        /\ t \in I => r.external_transaction = None
        /\ t \in E => r.external_transaction = t
        /\ t \in E => r.internal_transaction = None
        /\ r.status = "DUPLICATE"
    BY <1>1, <2>1, LoneFields
  <2> QED BY <2>2, <2>3, <1>2 DEF PairStatus
<1>5. CASE ~Classifier(s, tol)!Ambiguous(t, I, E)
  <2>1. /\ \A u, v \in P(I) : u = v
        /\ \A u, v \in P(E) : u = v
    BY <1>5 DEF Classifier!Ambiguous
  <2>2. CASE P(E) = {}
    <3>1. r = Classifier(s, tol)!MissingExternal(t) /\ t \in I /\ t \notin E
      BY <1>2, <1>5, <2>2 DEF Classifier!Verdict
    <3>2. r \in C!ReconciliationResult
      BY <1>1, <3>1, LoneProperties
    <3>3. /\ r.internal_transaction = t
          /\ r.external_transaction = None
          /\ r.status = "MISSING_EXTERNAL"
      BY <3>1, LoneFields
    <3> QED BY <2>2, <3>1, <3>2, <3>3, <1>2 DEF PairStatus
  <2>3. CASE P(E) # {} /\ P(I) = {}
    <3>1. r = Classifier(s, tol)!MissingInternal(t) /\ t \in E /\ t \notin I
      BY <1>2, <1>5, <2>3 DEF Classifier!Verdict
    <3>2. r \in C!ReconciliationResult
      BY <1>1, <3>1, LoneProperties
    <3>3. /\ r.external_transaction = t
          /\ r.internal_transaction = None
          /\ r.status = "MISSING_INTERNAL"
      BY <3>1, LoneFields
    <3> QED BY <3>1, <3>2, <3>3, <1>2 DEF PairStatus
  <2>4. CASE P(E) # {} /\ P(I) # {}
    <3>1. /\ Classifier(s, tol)!OneOf(P(I)) \in P(I)
          /\ Classifier(s, tol)!OneOf(P(E)) \in P(E)
      BY <2>4 DEF Classifier!OneOf
    <3>2. PICK i \in P(I), e \in P(E) : r = Classifier(s, tol)!ClassifyMatch(i, e)
      BY <1>5, <2>4, <3>1 DEF Classifier!Verdict
    <3>3. /\ r \in C!ReconciliationResult
          /\ r.internal_transaction = i /\ r.external_transaction = e
          /\ r.status \in PairStatus
      BY <1>2, <3>2, ClassifyMatchProperties
    <3>4. (t \in I => i = t) /\ (t \in E => e = t)
      BY <2>1, <1>2
    <3>5. i # None /\ e # None
      BY <1>3
    <3>6. r.status # "MISSING_EXTERNAL"
      BY <3>3 DEF PairStatus
    <3> QED BY <3>3, <3>4, <3>5, <3>6
  <2> QED BY <2>2, <2>3, <2>4
<1> QED BY <1>4, <1>5

\* A record has one verdict: any verdict that tells about it is its own.
LEMMA VerdictIsOwn ==
  ASSUME NEW s, NEW tol, NEW I, NEW E, BothSides(I, E), NEW t \in I \union E,
         NEW u \in I \union E, NEW r, r = Classifier(s, tol)!Verdict(u, I, E),
         t \in {r.internal_transaction, r.external_transaction}
  PROVE  r = Classifier(s, tol)!Verdict(t, I, E)
<1> DEFINE P(x, S) == Classifier(s, tol)!Peers(x, S)
<1>1. t # None /\ ~(t \in I /\ t \in E)
  BY SidesAreDisjoint
<1>2. \/ r.internal_transaction = t /\ t \in P(u, I) /\ t \in I
      \/ r.external_transaction = t /\ t \in P(u, E) /\ t \in E
  <2>1. /\ r.internal_transaction # None => r.internal_transaction \in P(u, I)
        /\ r.external_transaction # None => r.external_transaction \in P(u, E)
    BY VerdictTells DEF TellsAbout
  <2>2. P(u, I) \subseteq I /\ P(u, E) \subseteq E
    BY DEF Classifier!Peers
  <2> QED BY <2>1, <2>2, <1>1
<1>3. Classifier(s, tol)!BuildKey(t) = Classifier(s, tol)!BuildKey(u)
  BY <1>2 DEF Classifier!Peers
<1>4. P(t, I) = P(u, I) /\ P(t, E) = P(u, E)
  BY <1>3 DEF Classifier!Peers
<1>5. Classifier(s, tol)!Ambiguous(t, I, E) <=> Classifier(s, tol)!Ambiguous(u, I, E)
  BY <1>4 DEF Classifier!Ambiguous
<1>6. (u \in I => u \in P(u, I)) /\ (u \in E => u \in P(u, E))
  BY DEF Classifier!Peers
<1>7. CASE Classifier(s, tol)!Ambiguous(u, I, E)
  <2>1. r = Classifier(s, tol)!Duplicate(u)
    BY <1>7 DEF Classifier!Verdict
  <2>2. r.internal_transaction \in {u, None} /\ r.external_transaction \in {u, None}
    BY <2>1, LoneFields
  <2>3. t = u
    BY <2>2, <1>1, <1>2
  <2> QED BY <2>3
<1>8. CASE ~Classifier(s, tol)!Ambiguous(u, I, E)
  <2>1. \A x, y : x \in P(u, I) /\ y \in P(u, I) => x = y
    BY <1>8 DEF Classifier!Ambiguous
  <2>2. \A x, y : x \in P(u, E) /\ y \in P(u, E) => x = y
    BY <1>8 DEF Classifier!Ambiguous
  <2>3. CASE P(u, E) = {}
    <3>1. u = t
      BY <2>1, <2>3, <1>2, <1>6
    <3> QED BY <3>1
  <2>4. CASE P(u, E) # {} /\ P(u, I) = {}
    <3>1. u = t
      BY <2>2, <2>4, <1>2, <1>6
    <3> QED BY <3>1
  <2>5. CASE P(u, E) # {} /\ P(u, I) # {}
    BY <2>5, <1>4, <1>5, <1>8 DEF Classifier!Verdict
  <2> QED BY <2>3, <2>4, <2>5
<1> QED BY <1>7, <1>8

\* What a result list says, as a set: who is in it, and under which result.
LEMMA ExpectedProperties ==
  ASSUME NEW s, NEW tol, NEW I, NEW E, BothSides(I, E),
         NEW R, R = Classifier(s, tol)!Expected(I, E)
  PROVE  /\ R \subseteq C!ReconciliationResult
         /\ \A t \in I : \E r \in R : r.internal_transaction = t
         /\ \A t \in E : \E r \in R : r.external_transaction = t
         /\ \A r \in R :
              /\ r.internal_transaction \in I \union {None}
              /\ r.external_transaction \in E \union {None}
              /\ r.internal_transaction # None \/ r.external_transaction # None
              /\ r.status \in PairStatus <=>
                   r.internal_transaction # None /\ r.external_transaction # None
              /\ r.status = "MISSING_EXTERNAL" =>
                   Classifier(s, tol)!Peers(r.internal_transaction, E) = {}
         /\ \A q, r \in R :
              \/ q.internal_transaction = r.internal_transaction /\ r.internal_transaction # None
              \/ q.external_transaction = r.external_transaction /\ r.external_transaction # None
              => q = r
<1> DEFINE V(t) == Classifier(s, tol)!Verdict(t, I, E)
<1>1. R = {V(t) : t \in I \union E}
  BY DEF Classifier!Expected
<1>2. \A t \in I \union E : TellsAbout(s, tol, I, E, t, V(t))
  BY VerdictTells
<1>3. \A t, u \in I \union E :
        t \in {V(u).internal_transaction, V(u).external_transaction} => V(u) = V(t)
  BY VerdictIsOwn
<1>4. \A t : Classifier(s, tol)!Peers(t, I) \subseteq I /\ Classifier(s, tol)!Peers(t, E) \subseteq E
  BY DEF Classifier!Peers
<1>5. None \notin I /\ None \notin E
  BY SidesAreDisjoint
<1> HIDE DEF V
<1>6. ASSUME NEW r \in R
      PROVE  /\ r \in C!ReconciliationResult
             /\ r.internal_transaction \in I \union {None}
             /\ r.external_transaction \in E \union {None}
             /\ r.internal_transaction # None \/ r.external_transaction # None
             /\ r.status \in PairStatus <=>
                  r.internal_transaction # None /\ r.external_transaction # None
             /\ r.status = "MISSING_EXTERNAL" =>
                  Classifier(s, tol)!Peers(r.internal_transaction, E) = {}
             /\ r.internal_transaction # None => r = V(r.internal_transaction)
             /\ r.external_transaction # None => r = V(r.external_transaction)
  <2>1. PICK t \in I \union E : r = V(t)
    BY <1>1
  <2>2. /\ r \in C!ReconciliationResult
        /\ r.internal_transaction \in I \union {None}
        /\ r.external_transaction \in E \union {None}
        /\ r.internal_transaction # None \/ r.external_transaction # None
        /\ r.status \in PairStatus <=>
             r.internal_transaction # None /\ r.external_transaction # None
    BY <2>1, <1>2, <1>4, <1>5 DEF TellsAbout
  <2>3. r.status = "MISSING_EXTERNAL" =>
          Classifier(s, tol)!Peers(r.internal_transaction, E) = {}
    BY <2>1, <1>2 DEF TellsAbout
  <2>4. /\ r.internal_transaction # None => r = V(r.internal_transaction)
        /\ r.external_transaction # None => r = V(r.external_transaction)
    BY <2>1, <2>2, <1>3
  <2> QED BY <2>2, <2>3, <2>4
<1>7. \A t \in I : \E r \in R : r.internal_transaction = t
  BY <1>1, <1>2 DEF TellsAbout
<1>8. \A t \in E : \E r \in R : r.external_transaction = t
  BY <1>1, <1>2 DEF TellsAbout
<1>9. \A q, r \in R :
        \/ q.internal_transaction = r.internal_transaction /\ r.internal_transaction # None
        \/ q.external_transaction = r.external_transaction /\ r.external_transaction # None
        => q = r
  BY <1>6
<1> QED BY <1>6, <1>7, <1>8, <1>9

-----------------------------------------------------------------------------
(* Counting. *)

\* The results of R with one of these statuses.
WithIn(R, statuses) == {r \in R : r.status \in statuses}

\* A result about a pair stands for two records, any other for one.
AddUp(R, I, E) ==
  Cardinality(R) + Cardinality(WithIn(R, PairStatus)) = Cardinality(I) + Cardinality(E)

LEMMA ResultsAddUp ==
  ASSUME NEW s, NEW tol, NEW I, NEW E, BothSides(I, E), IsFiniteSet(I), IsFiniteSet(E),
         NEW R, R = Classifier(s, tol)!Expected(I, E)
  PROVE  /\ IsFiniteSet(R)
         /\ AddUp(R, I, E)
<1> DEFINE A == {r \in R : r.internal_transaction # None}
           B == {r \in R : r.external_transaction # None}
           f == [r \in A |-> r.internal_transaction]
           g == [r \in B |-> r.external_transaction]
<1>1. None \notin I /\ None \notin E
  BY SidesAreDisjoint
<1>2. f \in Injection(A, I) /\ f \in Surjection(A, I)
  <2>1. f \in [A -> I]
    BY ExpectedProperties
  <2>2. \A q, r \in A : f[q] = f[r] => q = r
    BY ExpectedProperties
  <2>3. \A t \in I : \E r \in A : f[r] = t
    BY ExpectedProperties, <1>1
  <2> HIDE DEF f, A
  <2> QED BY <2>1, <2>2, <2>3 DEF Injection, Surjection, IsInjective
<1>3. g \in Injection(B, E) /\ g \in Surjection(B, E)
  <2>1. g \in [B -> E]
    BY ExpectedProperties
  <2>2. \A q, r \in B : g[q] = g[r] => q = r
    BY ExpectedProperties
  <2>3. \A t \in E : \E r \in B : g[r] = t
    BY ExpectedProperties, <1>1
  <2> HIDE DEF g, B
  <2> QED BY <2>1, <2>2, <2>3 DEF Injection, Surjection, IsInjective
<1>4. A \union B = R
  BY ExpectedProperties
<1>5. A \intersect B = WithIn(R, PairStatus)
  BY ExpectedProperties DEF WithIn
<1> HIDE DEF A, B, f, g
<1>6. /\ IsFiniteSet(A) /\ Cardinality(A) = Cardinality(I)
      /\ IsFiniteSet(B) /\ Cardinality(B) = Cardinality(E)
  BY <1>2, <1>3, FS_Injection
<1>7. /\ IsFiniteSet(R)
      /\ Cardinality(R) = Cardinality(A) + Cardinality(B) - Cardinality(WithIn(R, PairStatus))
  BY <1>4, <1>5, <1>6, FS_Union
<1>8. Cardinality(A) \in Nat /\ Cardinality(B) \in Nat /\ Cardinality(WithIn(R, PairStatus)) \in Nat
  <2>1. WithIn(R, PairStatus) \subseteq R
    BY DEF WithIn
  <2> QED BY <1>6, <1>7, <2>1, FS_Subset, FS_CardinalityType
<1> QED BY <1>6, <1>7, <1>8 DEF AddUp

LEMMA CountSplits ==
  ASSUME NEW R, IsFiniteSet(R), NEW S, NEW T, S \intersect T = {}
  PROVE  /\ Cardinality(WithIn(R, S)) \in Nat /\ Cardinality(WithIn(R, T)) \in Nat
         /\ Cardinality(WithIn(R, S \union T)) =
              Cardinality(WithIn(R, S)) + Cardinality(WithIn(R, T))
<1>1. /\ WithIn(R, S) \subseteq R /\ WithIn(R, T) \subseteq R
      /\ WithIn(R, S \union T) = WithIn(R, S) \union WithIn(R, T)
      /\ WithIn(R, S) \intersect WithIn(R, T) = {}
  BY DEF WithIn
<1>2. /\ IsFiniteSet(WithIn(R, S)) /\ IsFiniteSet(WithIn(R, T))
      /\ Cardinality(WithIn(R, S)) \in Nat /\ Cardinality(WithIn(R, T)) \in Nat
  BY <1>1, FS_Subset, FS_CardinalityType
<1>3. Cardinality(WithIn(R, S) \union WithIn(R, T)) =
        Cardinality(WithIn(R, S)) + Cardinality(WithIn(R, T))
          - Cardinality(WithIn(R, S) \intersect WithIn(R, T))
  BY <1>2, FS_Union
<1>4. Cardinality(WithIn(R, S) \intersect WithIn(R, T)) = 0
  BY <1>1, FS_EmptySet
<1> QED BY <1>1, <1>2, <1>3, <1>4

\* As many rows are stored as there are results: the ids in a row say which
\* result it is of.
LEMMA RowsCount ==
  ASSUME NEW s, NEW tol, NEW I, NEW E, BothSides(I, E), IsFiniteSet(I), IsFiniteSet(E),
         \A t, u \in I : t.db_id = u.db_id => t = u,
         \A t, u \in E : t.db_id = u.db_id => t = u,
         NEW R, R = Classifier(s, tol)!Expected(I, E), NEW run
  PROVE  Cardinality(RowsFor(run, R)) = Cardinality(R)
<1> DEFINE f == [r \in R |-> Row(run, r)]
           T == RowsFor(run, R)
<1>1. IsFiniteSet(R)
  BY ResultsAddUp
<1>2. f \in [R -> T] /\ \A row \in T : \E r \in R : f[r] = row
  BY DEF RowsFor
<1>3. \A q, r \in R : f[q] = f[r] => q = r
  <2> SUFFICES ASSUME NEW q \in R, NEW r \in R, Row(run, q) = Row(run, r)
               PROVE  q = r
    OBVIOUS
  <2>1. /\ IdOf(q.internal_transaction) = IdOf(r.internal_transaction)
        /\ IdOf(q.external_transaction) = IdOf(r.external_transaction)
    <3>1. \A x : /\ Row(run, x).internal_transaction_id = IdOf(x.internal_transaction)
                 /\ Row(run, x).external_transaction_id = IdOf(x.external_transaction)
      BY DEF Row
    <3> QED BY <3>1
  <2>2. /\ q.internal_transaction \in I \union {None} /\ r.internal_transaction \in I \union {None}
        /\ q.external_transaction \in E \union {None} /\ r.external_transaction \in E \union {None}
        /\ r.internal_transaction # None \/ r.external_transaction # None
        /\ \/ q.internal_transaction = r.internal_transaction /\ r.internal_transaction # None
           \/ q.external_transaction = r.external_transaction /\ r.external_transaction # None
           => q = r
    BY ExpectedProperties
  <2>3. \A t \in I \union E : t.db_id \in Nat /\ t.db_id # None /\ t # None
    BY RunAssumption, SidesAreDisjoint DEF BothSides, C!Transaction
  <2>4. q.internal_transaction = r.internal_transaction
    BY <2>1, <2>2, <2>3 DEF IdOf
  <2>5. q.external_transaction = r.external_transaction
    BY <2>1, <2>2, <2>3 DEF IdOf
  <2> QED BY <2>2, <2>4, <2>5
<1> HIDE DEF f, T
<1>4. f \in Surjection(R, T) /\ f \in Injection(R, T)
  BY <1>2, <1>3 DEF Surjection, Injection, IsInjective
<1>5. Cardinality(T) = Cardinality(R)
  BY <1>1, <1>4, FS_Surjection
<1> QED BY <1>5 DEF T

-----------------------------------------------------------------------------
(* What a run has loaded, and what it makes of it. *)

\* A set of rows with distinct ids, all of them within a bound, is finite.
LEMMA FewIds ==
  ASSUME NEW S, \A t \in S : t.db_id \in 1..MaxId,
         \A t, u \in S : t.db_id = u.db_id => t = u
  PROVE  IsFiniteSet(S)
<1> DEFINE f == [t \in S |-> t.db_id]
<1>1. f \in Injection(S, 1..MaxId)
  BY DEF Injection, IsInjective
<1>2. IsFiniteSet(1..MaxId)
  BY RunAssumption, FS_Interval
<1> HIDE DEF f
<1> QED BY <1>1, <1>2, FS_Injection

\* At any time what a run has loaded is of its source and in its table, without
\* repetitions.
LEMMA LoadedProperties ==
  ASSUME TypeOK, IdsAreKeys, NEW p \in Runners, SeenIsKept(p),
         NEW source \in C!SourceSystem
  PROVE  LET S == loaded[p][source] IN
         /\ S \subseteq C!Transaction /\ S \subseteq tables[source]
         /\ \A t \in S : t.source = source
         /\ IsFiniteSet(S) /\ Cardinality(S) \in Nat
         /\ \A t \in S, u \in tables[source] : t.db_id = u.db_id => t = u
         /\ \A t, u \in S : t.db_id = u.db_id => t = u
<1>1. PICK S : S = loaded[p][source]
  OBVIOUS
<1>2. S \subseteq C!Transaction
  BY <1>1 DEF TypeOK
<1>3. S \subseteq tables[source]
  BY <1>1 DEF SeenIsKept
<1>4. \A t \in S : t.source = source /\ t.db_id \in 1..MaxId
  BY <1>3 DEF IdsAreKeys
<1>5. \A t \in S, u \in tables[source] : t.db_id = u.db_id => t = u
  BY <1>3 DEF IdsAreKeys
<1>6. \A t, u \in S : t.db_id = u.db_id => t = u
  BY <1>3, <1>5
<1>7. IsFiniteSet(S) /\ Cardinality(S) \in Nat
  BY <1>4, <1>6, FewIds, FS_CardinalityType
<1> QED BY <1>1, <1>2, <1>3, <1>4, <1>5, <1>6, <1>7

LEMMA SourceNames ==
  C!SourceSystem = {"INTERNAL", "EXTERNAL"}
BY DEF C!SourceSystem

LEMMA ReconciledProperties ==
  ASSUME TypeOK, IdsAreKeys, NEW p \in Runners, SeenIsKept(p)
  PROVE  LET I == loaded[p]["INTERNAL"]
             E == loaded[p]["EXTERNAL"] IN
         /\ BothSides(I, E) /\ IsFiniteSet(I) /\ IsFiniteSet(E)
         /\ \A t, u \in I : t.db_id = u.db_id => t = u
         /\ \A t, u \in E : t.db_id = u.db_id => t = u
         /\ Cardinality(I) = Cardinality(loaded[p]["INTERNAL"])
         /\ Cardinality(E) = Cardinality(loaded[p]["EXTERNAL"])
         /\ Reconciled(p) \subseteq C!ReconciliationResult
         /\ IsFiniteSet(Reconciled(p))
<1> DEFINE I == loaded[p]["INTERNAL"]
           E == loaded[p]["EXTERNAL"]
<1>1. /\ BothSides(I, E) /\ IsFiniteSet(I) /\ IsFiniteSet(E)
      /\ \A t, u \in I : t.db_id = u.db_id => t = u
      /\ \A t, u \in E : t.db_id = u.db_id => t = u
      /\ Cardinality(I) = Cardinality(loaded[p]["INTERNAL"])
      /\ Cardinality(E) = Cardinality(loaded[p]["EXTERNAL"])
  BY LoadedProperties, SourceNames DEF BothSides
<1> HIDE DEF I, E
<1>2. PICK s, tol : Reconciled(p) = Classifier(s, tol)!Expected(I, E)
  BY DEF Reconciled, I, E
<1>3. Reconciled(p) \subseteq C!ReconciliationResult /\ IsFiniteSet(Reconciled(p))
  BY <1>1, <1>2, ExpectedProperties, ResultsAddUp
<1> QED BY <1>1, <1>3 DEF I, E

LEMMA ResultsFinite ==
  ASSUME TypeOK, IdsAreKeys, NEW p \in Runners, InOrder(p)
  PROVE  IsFiniteSet(results[p]) /\ Cardinality(results[p]) \in Nat
<1>1. results[p] = {} \/ results[p] = Reconciled(p)
  BY DEF InOrder, ReconciledInOrder, HasReconciled
<1>2. IsFiniteSet(results[p])
  BY <1>1, ReconciledProperties, FS_EmptySet DEF InOrder
<1> QED BY <1>2, FS_CardinalityType

Singles == {"MISSING_INTERNAL", "MISSING_EXTERNAL", "DUPLICATE"}

\* The counts of a run: each result under one of them.
LEMMA StatsProperties ==
  ASSUME NEW p \in Runners, IsFiniteSet(results[p]),
         Cardinality(loaded[p]["INTERNAL"]) \in Nat, Cardinality(loaded[p]["EXTERNAL"]) \in Nat
  PROVE  LET c == Stats(p) IN
         /\ c \in Counts
         /\ c.records_internal = Cardinality(loaded[p]["INTERNAL"])
         /\ c.records_external = Cardinality(loaded[p]["EXTERNAL"])
         /\ c.matched_count + c.mismatched_count = Cardinality(WithIn(results[p], PairStatus))
         /\ c.missing_internal_count + c.missing_external_count + c.duplicate_count
              = Cardinality(WithIn(results[p], Singles))
<1> DEFINE n(S) == Cardinality(WithIn(results[p], S))
           Others == C!Status \ {"MATCHED", "MISSING_INTERNAL", "MISSING_EXTERNAL", "DUPLICATE"}
<1>1. \A S : WithStatus(p, S) = n(S)
  BY DEF WithStatus, WithIn
<1>2. \A S : n(S) \in Nat
  <2> TAKE S
  <2>1. S \intersect {} = {}
    OBVIOUS
  <2> QED BY <2>1, CountSplits
<1>3. n(PairStatus) = n({"MATCHED"}) + n(Others)
  <2>1. PairStatus = {"MATCHED"} \union Others /\ {"MATCHED"} \intersect Others = {}
    BY DEF PairStatus, C!Status
  <2> HIDE DEF Others
  <2> QED BY <2>1, CountSplits
<1>4. n(Singles) = n({"MISSING_INTERNAL"}) + n({"MISSING_EXTERNAL"}) + n({"DUPLICATE"})
  <2> DEFINE M == {"MISSING_INTERNAL", "MISSING_EXTERNAL"}
  <2>1. /\ Singles = M \union {"DUPLICATE"} /\ M \intersect {"DUPLICATE"} = {}
        /\ M = {"MISSING_INTERNAL"} \union {"MISSING_EXTERNAL"}
        /\ {"MISSING_INTERNAL"} \intersect {"MISSING_EXTERNAL"} = {}
    BY DEF Singles
  <2> HIDE DEF M
  <2>2. n(Singles) = n(M) + n({"DUPLICATE"})
    BY <2>1, CountSplits
  <2>3. n(M) = n({"MISSING_INTERNAL"}) + n({"MISSING_EXTERNAL"})
    BY <2>1, CountSplits
  <2> QED BY <2>2, <2>3
<1>5. Stats(p) =
        [records_internal |-> Cardinality(loaded[p]["INTERNAL"]),
         records_external |-> Cardinality(loaded[p]["EXTERNAL"]),
         matched_count |-> n({"MATCHED"}),
         missing_internal_count |-> n({"MISSING_INTERNAL"}),
         missing_external_count |-> n({"MISSING_EXTERNAL"}),
         duplicate_count |-> n({"DUPLICATE"}),
         mismatched_count |-> n(Others)]
  BY <1>1 DEF Stats
<1> HIDE DEF n, Others
<1>6. Stats(p) \in Counts
  BY <1>2, <1>5 DEF Counts
<1>7. /\ Stats(p).records_internal = Cardinality(loaded[p]["INTERNAL"])
      /\ Stats(p).records_external = Cardinality(loaded[p]["EXTERNAL"])
      /\ Stats(p).matched_count = n({"MATCHED"})
      /\ Stats(p).missing_internal_count = n({"MISSING_INTERNAL"})
      /\ Stats(p).missing_external_count = n({"MISSING_EXTERNAL"})
      /\ Stats(p).duplicate_count = n({"DUPLICATE"})
      /\ Stats(p).mismatched_count = n(Others)
  BY <1>5
<1> QED BY <1>2, <1>3, <1>4, <1>6, <1>7 DEF n

\* What a finished run has counted accounts for its results and for the
\* records it has loaded.
LEMMA StatsAddUp ==
  ASSUME TypeOK, IdsAreKeys, NEW p \in Runners, SeenIsKept(p), results[p] = Reconciled(p),
         NEW k
  PROVE  LET c == Stats(p)
             singles == c.missing_internal_count + c.missing_external_count + c.duplicate_count
             pairs == c.matched_count + c.mismatched_count
         IN  /\ pairs + singles = Cardinality(RowsFor(k, results[p]))
             /\ 2 * pairs + singles = c.records_internal + c.records_external
<1> DEFINE I == loaded[p]["INTERNAL"]
           E == loaded[p]["EXTERNAL"]
           R == results[p]
           c == Stats(p)
           m == Cardinality(WithIn(R, PairStatus))
           n == Cardinality(WithIn(R, Singles))
<1>1. /\ BothSides(I, E) /\ IsFiniteSet(I) /\ IsFiniteSet(E)
      /\ \A t, u \in I : t.db_id = u.db_id => t = u
      /\ \A t, u \in E : t.db_id = u.db_id => t = u
      /\ Cardinality(I) = Cardinality(loaded[p]["INTERNAL"])
      /\ Cardinality(E) = Cardinality(loaded[p]["EXTERNAL"])
      /\ R \subseteq C!ReconciliationResult
  BY ReconciledProperties
<1>2. PICK s, tol : R = Classifier(s, tol)!Expected(I, E)
  BY DEF Reconciled
<1>3. IsFiniteSet(R) /\ Cardinality(R) + m = Cardinality(I) + Cardinality(E)
  <2> HIDE DEF I, E, R
  <2>1. IsFiniteSet(R) /\ AddUp(R, I, E)
    BY <1>1, <1>2, ResultsAddUp
  <2> QED BY <2>1 DEF AddUp
<1>4. Cardinality(RowsFor(k, R)) = Cardinality(R)
  <2> HIDE DEF I, E, R
  <2> QED BY <1>1, <1>2, RowsCount
<1>5. Cardinality(I) \in Nat /\ Cardinality(E) \in Nat
  BY <1>1, FS_CardinalityType
<1>6. /\ c.records_internal = Cardinality(I) /\ c.records_external = Cardinality(E)
      /\ c.matched_count + c.mismatched_count = m
      /\ c.missing_internal_count + c.missing_external_count + c.duplicate_count = n
  BY <1>1, <1>3, <1>5, StatsProperties
<1>7. m \in Nat /\ n \in Nat /\ Cardinality(R) = m + n
  <2>1. WithIn(R, PairStatus \union Singles) = R
    BY <1>1 DEF WithIn, PairStatus, Singles, C!ReconciliationResult
  <2>2. PairStatus \intersect Singles = {}
    BY DEF PairStatus, Singles
  <2> HIDE DEF R
  <2>3. /\ m \in Nat /\ n \in Nat
        /\ Cardinality(WithIn(R, PairStatus \union Singles)) = m + n
    BY <1>3, <2>2, CountSplits
  <2> QED BY <2>1, <2>3
<1> HIDE DEF I, E, R, c, m, n
<1>8. /\ m + n = Cardinality(RowsFor(k, R))
      /\ 2 * m + n = Cardinality(I) + Cardinality(E)
  BY <1>3, <1>4, <1>5, <1>7
<1> QED BY <1>6, <1>8 DEF c, R
-----------------------------------------------------------------------------
(* The inductive invariant: what a step leaves alone. *)

\* The step does nothing to the locals of q.
SameLocals(q) ==
  /\ pc'[q] = pc[q] /\ args'[q] = args[q] /\ loaded'[q] = loaded[q] /\ run_id'[q] = run_id[q]
  /\ results'[q] = results[q] /\ written'[q] = written[q] /\ other_rows'[q] = other_rows[q]

\* ... nor to what q has computed, if it has.
SameResults(q) ==
  /\ args'[q] = args[q] /\ loaded'[q] = loaded[q] /\ run_id'[q] = run_id[q]
  /\ results'[q] = results[q] /\ other_rows'[q] = other_rows[q]

LEMMA ReconciledSame ==
  ASSUME NEW q \in Runners, SameResults(q)
  PROVE  /\ HasReconciled(q)' <=> HasReconciled(q)
         /\ ExternalLast(q)' <=> ExternalLast(q)
         /\ Stats(q)' = Stats(q)
<1>1. Reconciled(q)' = Reconciled(q)
  BY DEF Reconciled, SameResults
<1>2. ExternalLast(q)' <=> ExternalLast(q)
  BY DEF ExternalLast, SameResults
<1>3. HasReconciled(q)' <=> HasReconciled(q)
  BY <1>1, <1>2 DEF HasReconciled, SameResults
<1>4. Stats(q)' = Stats(q)
  BY DEF Stats, WithStatus, SameResults
<1> QED BY <1>2, <1>3, <1>4

LEMMA RunIds ==
  ASSUME TypeOK
  PROVE  /\ Len(reconciliation_runs) \in Nat
         /\ DOMAIN reconciliation_runs = 1..Len(reconciliation_runs)
         /\ \A k \in DOMAIN reconciliation_runs : reconciliation_runs[k] \in Run
         /\ \A q \in Runners : run_id[q] \in Nat /\ run_id[q] <= Len(reconciliation_runs)
         /\ \A q \in Runners : run_id[q] # 0 => run_id[q] \in DOMAIN reconciliation_runs
         /\ Completed \subseteq DOMAIN reconciliation_runs /\ 0 \notin Completed
<1>1. reconciliation_runs \in Seq(Run)
  BY DEF TypeOK
<1>2. /\ Len(reconciliation_runs) \in Nat
      /\ DOMAIN reconciliation_runs = 1..Len(reconciliation_runs)
      /\ \A k \in 1..Len(reconciliation_runs) : reconciliation_runs[k] \in Run
  BY <1>1, LenProperties, ElementOfSeq
<1>3. \A q \in Runners : run_id[q] \in 0..Len(reconciliation_runs)
  BY DEF TypeOK
<1> QED BY <1>2, <1>3 DEF Completed

\* A runner whose locals, run and result rows are left alone stays in order.
LEMMA OtherRunner ==
  ASSUME TypeOK, NEW q \in Runners, InOrder(q), SameLocals(q), SeenIsKept(q)',
         run_id[q] # 0 => /\ run_id[q] \in DOMAIN reconciliation_runs'
                          /\ reconciliation_runs'[run_id[q]] = reconciliation_runs[run_id[q]]
                          /\ StoredFor(run_id[q])' = StoredFor(run_id[q])
  PROVE  InOrder(q)'
<1>1. SameResults(q) /\ pc'[q] = pc[q] /\ written'[q] = written[q]
      /\ run_id'[q] = run_id[q] /\ args'[q] = args[q] /\ results'[q] = results[q]
  BY DEF SameLocals, SameResults
<1>2. /\ HasReconciled(q)' <=> HasReconciled(q)
      /\ ExternalLast(q)' <=> ExternalLast(q)
  BY <1>1, ReconciledSame
<1>3. ReconciledInOrder(q)'
  BY <1>1, <1>2 DEF InOrder, ReconciledInOrder
<1>4. run_id[q] # 0 => (run_id[q] \in Completed' <=> run_id[q] \in Completed)
  BY RunIds DEF Completed
<1>5. pc[q] \in AfterComplete \union BeforeComplete => run_id[q] # 0
  BY RunIds DEF InOrder, RunOf
<1>6. RunOf(q)'
  BY <1>1, <1>4, <1>5 DEF InOrder, RunOf
<1>7. StoredInOrder(q)'
  BY <1>1, <1>5 DEF InOrder, StoredInOrder, AfterInsert, BeforeComplete, RowsFor
<1>8. WrittenInOrder(q)'
  BY <1>1 DEF InOrder, WrittenInOrder
<1> QED BY <1>3, <1>6, <1>7, <1>8 DEF InOrder

\* A run that was completed stays counted.
LEMMA CompletedStaysCounted ==
  ASSUME TypeOK, CompletedIsCounted,
         \A k \in Completed : /\ reconciliation_runs'[k] = reconciliation_runs[k]
                              /\ StoredFor(k)' = StoredFor(k),
         \A q \in Runners : run_id[q] \in Completed => SameResults(q),
         \A k \in Completed' : k \in Completed \/ \E q \in Runners : CountedBy(q, k)'
  PROVE  CompletedIsCounted'
<1> SUFFICES ASSUME NEW k \in Completed', k \in Completed
             PROVE  \E q \in Runners : CountedBy(q, k)'
  BY DEF CompletedIsCounted
<1>1. PICK q \in Runners : CountedBy(q, k)
  BY DEF CompletedIsCounted
<1>2. SameResults(q) /\ run_id[q] = k
  BY <1>1 DEF CountedBy
<1>3. HasReconciled(q)' /\ Stats(q)' = Stats(q)
  BY <1>1, <1>2, ReconciledSame DEF CountedBy
<1>4. run_id'[q] = k /\ results'[q] = results[q]
  BY <1>2 DEF SameResults
<1>5. CountedBy(q, k)'
  BY <1>1, <1>3, <1>4 DEF CountedBy, RowsFor
<1> QED BY <1>5

\* A step of p that touches neither the database nor what p has completed.
LEMMA LocalStep ==
  ASSUME IInv, NEW p \in Runners, UNCHANGED database, UNCHANGED args, UNCHANGED run_id,
         \A q \in Runners : q # p => SameLocals(q),
         run_id[p] \in Completed => SameResults(p),
         TypeOK', InOrder(p)', ReportIsOfCompletedRuns'
  PROVE  IInv'
<1>1. /\ tables' = tables /\ reconciliation_runs' = reconciliation_runs
      /\ reconciliation_results' = reconciliation_results
      /\ run_id' = run_id /\ args' = args
  BY DEF database
<1>2. Completed' = Completed /\ \A k : StoredFor(k)' = StoredFor(k)
  BY <1>1 DEF Completed, StoredFor
<1>3. IdsAreKeys' /\ RunsAreOwn' /\ StoredOfRuns'
  BY <1>1 DEF IInv, IdsAreKeys, RunsAreOwn, StoredOfRuns
<1>4. ASSUME NEW q \in Runners, q # p
      PROVE  InOrder(q)'
  <2>1. TypeOK /\ InOrder(q) /\ SameLocals(q)
    BY <1>4 DEF IInv
  <2>2. SeenIsKept(q)'
    BY <1>1, <2>1 DEF InOrder, SeenIsKept, SameLocals
  <2>3. run_id[q] # 0 => /\ run_id[q] \in DOMAIN reconciliation_runs'
                         /\ reconciliation_runs'[run_id[q]] = reconciliation_runs[run_id[q]]
                         /\ StoredFor(run_id[q])' = StoredFor(run_id[q])
    BY <1>1, <2>1, RunIds DEF StoredFor
  <2> QED BY <2>1, <2>2, <2>3, OtherRunner
<1>5. \A q \in Runners : run_id[q] \in Completed => SameResults(q)
  BY DEF SameLocals, SameResults
<1>6. CompletedIsCounted'
  <2>1. TypeOK /\ CompletedIsCounted
    BY DEF IInv
  <2> QED BY <1>1, <1>2, <1>5, <2>1, CompletedStaysCounted
<1> QED BY <1>3, <1>4, <1>6 DEF IInv
-----------------------------------------------------------------------------
(* The inductive invariant: an ingest's step. *)

\* The rows an ingest commits, under the ids they have.
NewRows(source, batch, ids) ==
  {[batch[k] EXCEPT !.db_id = ids[k], !.source = source] : k \in DOMAIN batch}

LEMMA NewRowsProperties ==
  ASSUME NEW source \in C!SourceSystem, NEW batch \in Seq(C!Transaction),
         NEW ids \in [DOMAIN batch -> FreeIds(source)],
         \A k, l \in DOMAIN batch : k < l => ids[k] < ids[l]
  PROVE  /\ NewRows(source, batch, ids) \subseteq C!Transaction
         /\ \A t \in NewRows(source, batch, ids) :
              /\ t.source = source /\ t.db_id \in 1..MaxId
              /\ \A u \in tables[source] : u.db_id # t.db_id
         /\ \A t, u \in NewRows(source, batch, ids) : t.db_id = u.db_id => t = u
<1>1. /\ DOMAIN batch = 1..Len(batch) /\ Len(batch) \in Nat
      /\ \A k \in DOMAIN batch : batch[k] \in C!Transaction
  BY LenProperties, ElementOfSeq
<1>2. \A k \in DOMAIN batch : ids[k] \in 1..MaxId /\ \A u \in tables[source] : u.db_id # ids[k]
  BY DEF FreeIds
<1> DEFINE row(k) == [batch[k] EXCEPT !.db_id = ids[k], !.source = source]
<1>3. \A k \in DOMAIN batch :
        row(k) \in C!Transaction /\ row(k).db_id = ids[k] /\ row(k).source = source
  <2> TAKE k \in DOMAIN batch
  <2>1. ids[k] \in Nat /\ batch[k] \in C!Transaction
    BY <1>1, <1>2, RunAssumption
  <2> QED BY <2>1 DEF C!Transaction
<1>4. \A k, l \in DOMAIN batch : ids[k] = ids[l] => k = l
  <2> SUFFICES ASSUME NEW k \in DOMAIN batch, NEW l \in DOMAIN batch, k # l
               PROVE  ids[k] # ids[l]
    OBVIOUS
  <2>1. ids[k] \in Nat /\ ids[l] \in Nat
    BY <1>2, RunAssumption
  <2>2. k < l \/ l < k
    BY <1>1
  <2>3. ids[k] < ids[l] \/ ids[l] < ids[k]
    BY <2>2
  <2> QED BY <2>1, <2>3
<1>5. NewRows(source, batch, ids) = {row(k) : k \in DOMAIN batch}
  BY DEF NewRows
<1> HIDE DEF row
<1> QED BY <1>2, <1>3, <1>4, <1>5

LEMMA InsertBatchStep ==
  ASSUME IInv, NEW source \in C!SourceSystem, NEW batch \in Batches[source],
         InsertBatch(source, batch)
  PROVE  IInv'
<1>1. PICK ids \in [DOMAIN batch -> FreeIds(source)] :
        /\ \A k, l \in DOMAIN batch : k < l => ids[k] < ids[l]
        /\ tables' = [tables EXCEPT ![source] = @ \union NewRows(source, batch, ids)]
        /\ UNCHANGED <<reconciliation_runs, reconciliation_results, report, pc, locals>>
  BY DEF InsertBatch, NewRows
<1> DEFINE rows == NewRows(source, batch, ids)
<1>2. /\ reconciliation_runs' = reconciliation_runs
      /\ reconciliation_results' = reconciliation_results
      /\ report' = report /\ pc' = pc
      /\ args' = args /\ loaded' = loaded /\ run_id' = run_id /\ results' = results
      /\ written' = written /\ other_rows' = other_rows
  BY <1>1 DEF locals
<1>3. batch \in Seq(C!Transaction)
  BY RunAssumption
<1>4. TypeOK /\ IdsAreKeys
  BY DEF IInv
<1>5. /\ rows \subseteq C!Transaction
      /\ \A t \in rows : /\ t.source = source /\ t.db_id \in 1..MaxId
                         /\ \A u \in tables[source] : u.db_id # t.db_id
      /\ \A t, u \in rows : t.db_id = u.db_id => t = u
  BY <1>1, <1>3, NewRowsProperties
<1>6. tables \in [C!SourceSystem -> SUBSET C!Transaction]
  BY <1>4 DEF TypeOK
<1>7. /\ tables'[source] = tables[source] \union rows
      /\ \A s \in C!SourceSystem : s # source => tables'[s] = tables[s]
  BY <1>1, <1>6
<1> HIDE DEF rows
<1>8. tables' \in [C!SourceSystem -> SUBSET C!Transaction]
  BY <1>1, <1>5, <1>6 DEF rows
<1>9. TypeOK'
  BY <1>2, <1>4, <1>8 DEF TypeOK
<1>10. IdsAreKeys'
  <2> SUFFICES ASSUME NEW s \in C!SourceSystem, NEW t \in tables'[s]
               PROVE  /\ t.source = s /\ t.db_id \in 1..MaxId
                      /\ \A u \in tables'[s] : t.db_id = u.db_id => t = u
    BY DEF IdsAreKeys
  <2>1. CASE s # source
    BY <1>4, <1>7, <2>1 DEF IdsAreKeys
  <2>2. CASE s = source
    <3>1. \A u \in tables[source] :
            /\ u.source = source /\ u.db_id \in 1..MaxId
            /\ \A v \in tables[source] : u.db_id = v.db_id => u = v
      BY <1>4 DEF IdsAreKeys
    <3>2. t.source = s /\ t.db_id \in 1..MaxId
      BY <1>5, <1>7, <2>2, <3>1
    <3>3. \A u \in tables'[s] : t.db_id = u.db_id => t = u
      BY <1>5, <1>7, <2>2, <3>1
    <3> QED BY <3>2, <3>3
  <2> QED BY <2>1, <2>2
<1>11. \A s \in C!SourceSystem : tables[s] \subseteq tables'[s]
  BY <1>7
<1>12. ASSUME NEW q \in Runners
       PROVE  SeenIsKept(q)'
  <2> SUFFICES ASSUME NEW s \in C!SourceSystem
               PROVE  /\ loaded[q][s] \subseteq tables'[s]
                      /\ other_rows[q][s] \subseteq tables'[OtherSource(s)]
    BY <1>2 DEF SeenIsKept
  <2>1. /\ loaded[q][s] \subseteq tables[s]
        /\ other_rows[q][s] \subseteq tables[OtherSource(s)]
    BY DEF IInv, InOrder, SeenIsKept
  <2>2. OtherSource(s) \in C!SourceSystem
    BY SourceNames DEF OtherSource
  <2> QED BY <1>11, <2>1, <2>2
<1>13. Completed' = Completed /\ \A k : StoredFor(k)' = StoredFor(k)
  BY <1>2 DEF Completed, StoredFor
<1>14. \A q \in Runners : SameLocals(q) /\ SameResults(q)
  BY <1>2 DEF SameLocals, SameResults
<1>15. ASSUME NEW q \in Runners
       PROVE  InOrder(q)'
  <2>1. run_id[q] # 0 => /\ run_id[q] \in DOMAIN reconciliation_runs'
                         /\ reconciliation_runs'[run_id[q]] = reconciliation_runs[run_id[q]]
                         /\ StoredFor(run_id[q])' = StoredFor(run_id[q])
    BY <1>2, <1>4, RunIds DEF StoredFor
  <2>2. InOrder(q)
    BY DEF IInv
  <2> QED BY <1>4, <1>12, <1>14, <2>1, <2>2, OtherRunner
<1>16. CompletedIsCounted'
  <2>1. CompletedIsCounted
    BY DEF IInv
  <2> QED BY <1>2, <1>4, <1>13, <1>14, <2>1, CompletedStaysCounted
<1>17. RunsAreOwn' /\ StoredOfRuns' /\ ReportIsOfCompletedRuns'
  BY <1>2, <1>13 DEF IInv, RunsAreOwn, StoredOfRuns, ReportIsOfCompletedRuns
<1> QED BY <1>9, <1>10, <1>15, <1>16, <1>17 DEF IInv

-----------------------------------------------------------------------------
(* The inductive invariant: the steps of a run that leave the tables alone. *)

LEMMA GotoProperties ==
  ASSUME TypeOK, NEW p \in Runners, NEW from, NEW to \in Steps, Goto(p, from, to)
  PROVE  /\ pc[p] = from /\ pc'[p] = to
         /\ \A q \in Runners : q # p => pc'[q] = pc[q]
         /\ pc' \in [Runners -> Steps]
BY DEF TypeOK, Goto

\* A step of p that does nothing but go on.
LEMMA GoingOn ==
  ASSUME IInv, NEW p \in Runners, pc' \in [Runners -> Steps],
         \A q \in Runners : q # p => pc'[q] = pc[q],
         UNCHANGED database, UNCHANGED locals,
         report' \in Seq(0..Len(reconciliation_runs)), ReportIsOfCompletedRuns',
         \/ pc'[p] = "failed"
         \/ pc[p] = "start" /\ pc'[p] = "load" /\ args[p].algorithm \in KnownAlgorithms
         \/ pc[p] = "open_report" /\ pc'[p] = "write_report"
  PROVE  IInv'
<1>1. /\ tables' = tables /\ reconciliation_runs' = reconciliation_runs
      /\ reconciliation_results' = reconciliation_results
      /\ args' = args /\ loaded' = loaded /\ run_id' = run_id /\ results' = results
      /\ written' = written /\ other_rows' = other_rows
  BY DEF database, locals
<1>2. SameResults(p) /\ \A q \in Runners : q # p => SameLocals(q)
  BY <1>1 DEF SameResults, SameLocals
<1>3. TypeOK'
  BY <1>1 DEF IInv, TypeOK
<1>4. InOrder(p)'
  <2>1. TypeOK /\ IdsAreKeys /\ InOrder(p)
    BY DEF IInv
  <2>2. /\ HasReconciled(p)' <=> HasReconciled(p)
        /\ ExternalLast(p)' <=> ExternalLast(p)
        /\ Completed' = Completed
        /\ SeenIsKept(p)'
    BY <1>1, <1>2, <2>1, ReconciledSame DEF Completed, InOrder, SeenIsKept
  <2>3. ReconciledInOrder(p)'
    BY <1>1, <2>1, <2>2 DEF InOrder, ReconciledInOrder, BeforeReconcile, BeforeCreate, AfterInsert,
      AfterComplete
  <2>4. RunOf(p)'
    BY <1>1, <2>1, <2>2 DEF InOrder, RunOf, BeforeComplete, BeforeCreate, AfterComplete
  <2>5. StoredInOrder(p)'
    BY <1>1, <2>1, <2>2 DEF InOrder, StoredInOrder, AfterInsert, AfterComplete, StoredFor, RowsFor
  <2>6. WrittenInOrder(p)'
    <3>1. Cardinality(results[p]) \in Nat
      BY <2>1, ResultsFinite
    <3> QED BY <1>1, <2>1, <3>1 DEF InOrder, WrittenInOrder, BeforeReconcile, BeforeCreate
  <2> QED BY <2>2, <2>3, <2>4, <2>5, <2>6 DEF InOrder
<1> QED BY <1>1, <1>2, <1>3, <1>4, LocalStep

LEMMA ReportUnchanged ==
  ASSUME IInv, UNCHANGED report, UNCHANGED database
  PROVE  report' \in Seq(0..Len(reconciliation_runs)) /\ ReportIsOfCompletedRuns'
BY DEF IInv, TypeOK, database, ReportIsOfCompletedRuns, Completed

LEMMA BuildReconcilerStep ==
  ASSUME IInv, NEW p \in Runners, BuildReconciler(p)
  PROVE  IInv'
<1>1. TypeOK /\ pc[p] = "start"
  BY DEF IInv, BuildReconciler, Goto
<1>2. PICK to \in {"load", "failed"} :
        Goto(p, "start", to) /\ (to = "load" => args[p].algorithm \in KnownAlgorithms)
  BY DEF BuildReconciler
<1>3. to \in Steps
  BY DEF Steps
<1>4. /\ pc[p] = "start" /\ pc'[p] = to
      /\ \A q \in Runners : q # p => pc'[q] = pc[q]
      /\ pc' \in [Runners -> Steps]
  BY <1>1, <1>2, <1>3, GotoProperties
<1>5. UNCHANGED database /\ UNCHANGED report /\ UNCHANGED locals
  BY DEF BuildReconciler
<1> QED BY <1>2, <1>4, <1>5, ReportUnchanged, GoingOn

LEMMA AbortStep ==
  ASSUME IInv, NEW p \in Runners, Abort(p)
  PROVE  IInv'
<1>1. /\ pc'[p] = "failed"
      /\ \A q \in Runners : q # p => pc'[q] = pc[q]
      /\ pc' \in [Runners -> Steps]
  BY DEF IInv, TypeOK, Abort, Steps
<1>2. UNCHANGED database /\ UNCHANGED report /\ UNCHANGED locals
  BY DEF Abort
<1> QED BY <1>1, <1>2, ReportUnchanged, GoingOn

LEMMA OpenReportStep ==
  ASSUME IInv, NEW p \in Runners, OpenReport(p)
  PROVE  IInv'
<1>1. TypeOK /\ "write_report" \in Steps /\ Goto(p, "open_report", "write_report")
  BY DEF IInv, OpenReport, Steps
<1>2. /\ pc[p] = "open_report" /\ pc'[p] = "write_report"
      /\ \A q \in Runners : q # p => pc'[q] = pc[q]
      /\ pc' \in [Runners -> Steps]
  BY <1>1, GotoProperties
<1>3. UNCHANGED database /\ UNCHANGED locals /\ report' = <<>>
  BY DEF OpenReport
<1>4. report' \in Seq(0..Len(reconciliation_runs)) /\ ReportIsOfCompletedRuns'
  BY <1>3 DEF ReportIsOfCompletedRuns, Range
<1> QED BY <1>2, <1>3, <1>4, GoingOn
\* find_all(source), in its place.
LEMMA LoadStep ==
  ASSUME IInv, NEW p \in Runners, NEW source \in C!SourceSystem,
         NEW from, NEW to, Goto(p, from, to), Load(p, source),
         \/ from = "load" /\ to = "load_other" /\ source = "INTERNAL"
         \/ from = "load_other" /\ to = "create" /\ source = "EXTERNAL"
  PROVE  IInv'
<1>1. TypeOK /\ IdsAreKeys /\ InOrder(p)
  BY DEF IInv
<1>2. /\ pc[p] = from /\ pc'[p] = to
      /\ \A q \in Runners : q # p => pc'[q] = pc[q]
      /\ pc' \in [Runners -> Steps]
  BY <1>1, GotoProperties DEF Steps
<1>3. /\ loaded' = [loaded EXCEPT ![p] = [loaded[p] EXCEPT ![source] = tables[source]]]
      /\ other_rows' = [other_rows EXCEPT ![p] =
           [other_rows[p] EXCEPT ![source] = tables[OtherSource(source)]]]
      /\ UNCHANGED database /\ report' = report
      /\ args' = args /\ run_id' = run_id /\ results' = results /\ written' = written
  BY DEF Load
<1>4. /\ tables' = tables /\ reconciliation_runs' = reconciliation_runs
      /\ reconciliation_results' = reconciliation_results
  BY <1>3 DEF database
<1>5. /\ loaded \in [Runners -> [C!SourceSystem -> SUBSET C!Transaction]]
      /\ other_rows \in [Runners -> [C!SourceSystem -> SUBSET C!Transaction]]
      /\ OtherSource(source) \in C!SourceSystem
      /\ tables[source] \subseteq C!Transaction
      /\ tables[OtherSource(source)] \subseteq C!Transaction
  BY <1>1, SourceNames DEF TypeOK, OtherSource
<1>8. /\ loaded' \in [Runners -> [C!SourceSystem -> SUBSET C!Transaction]]
      /\ other_rows' \in [Runners -> [C!SourceSystem -> SUBSET C!Transaction]]
      /\ loaded'[p][source] = tables[source]
      /\ other_rows'[p][source] = tables[OtherSource(source)]
      /\ \A s \in C!SourceSystem : s # source =>
           loaded'[p][s] = loaded[p][s] /\ other_rows'[p][s] = other_rows[p][s]
      /\ \A q \in Runners : q # p => loaded'[q] = loaded[q] /\ other_rows'[q] = other_rows[q]
  BY <1>3, <1>5
<1>9. TypeOK'
  BY <1>1, <1>2, <1>3, <1>4, <1>8 DEF TypeOK
<1>10. SeenIsKept(p)'
  <2> SUFFICES ASSUME NEW s \in C!SourceSystem
               PROVE  /\ loaded'[p][s] \subseteq tables[s]
                      /\ other_rows'[p][s] \subseteq tables[OtherSource(s)]
    BY <1>4 DEF SeenIsKept
  <2>1. CASE s # source
    BY <1>1, <1>8, <2>1 DEF InOrder, SeenIsKept
  <2>2. CASE s = source
    BY <1>8, <2>2
  <2> QED BY <2>1, <2>2
<1>11. results'[p] = {} /\ run_id'[p] = 0
  BY <1>1, <1>2, <1>3 DEF InOrder, ReconciledInOrder, RunOf, BeforeReconcile, BeforeCreate
<1>12. ReconciledInOrder(p)'
  <2>1. pc'[p] \notin AfterInsert \union {"insert", "reconcile"}
    BY <1>2 DEF AfterInsert, AfterComplete
  <2>2. pc'[p] = "create" => ExternalLast(p)'
    <3> SUFFICES ASSUME source = "EXTERNAL"
                 PROVE  ExternalLast(p)'
      BY <1>2
    <3>1. "INTERNAL" \in C!SourceSystem /\ OtherSource("INTERNAL") = "EXTERNAL"
      BY SourceNames DEF OtherSource
    <3>2. /\ loaded'[p]["EXTERNAL"] = tables["EXTERNAL"]
          /\ other_rows'[p]["INTERNAL"] = other_rows[p]["INTERNAL"]
      BY <1>8, <3>1
    <3>3. other_rows[p]["INTERNAL"] \subseteq tables["EXTERNAL"]
      BY <1>1, <3>1 DEF InOrder, SeenIsKept
    <3> QED BY <3>2, <3>3 DEF ExternalLast
  <2> QED BY <1>11, <2>1, <2>2 DEF ReconciledInOrder
<1>13. RunOf(p)' /\ StoredInOrder(p)' /\ WrittenInOrder(p)'
  <2>1. pc'[p] \in BeforeCreate
    BY <1>2 DEF BeforeCreate
  <2>2. RunOf(p)'
    BY <1>1, <1>2, <1>3, <1>11, <2>1
      DEF InOrder, RunOf, BeforeCreate, BeforeComplete, AfterComplete
  <2>3. StoredInOrder(p)'
    BY <2>1 DEF StoredInOrder, BeforeCreate, AfterInsert, AfterComplete
  <2>4. WrittenInOrder(p)'
    BY <1>1, <1>2, <1>3, <2>1 DEF InOrder, WrittenInOrder, BeforeReconcile, BeforeCreate
  <2> QED BY <2>2, <2>3, <2>4
<1>14. InOrder(p)'
  BY <1>10, <1>12, <1>13 DEF InOrder
<1>15. \A q \in Runners : q # p => SameLocals(q)
  BY <1>2, <1>3, <1>8 DEF SameLocals
<1>16. run_id[p] \notin Completed
  BY <1>1, <1>3, <1>11, RunIds
<1>17. ReportIsOfCompletedRuns'
  BY <1>3, ReportUnchanged
<1> QED BY <1>3, <1>9, <1>14, <1>15, <1>16, <1>17, LocalStep

LEMMA FindAllStep ==
  ASSUME IInv, NEW p \in Runners, FindAll(p)
  PROVE  IInv'
<1>1. CASE Goto(p, "load", "load_other") /\ Load(p, "INTERNAL")
  BY <1>1, LoadStep, SourceNames
<1>2. CASE Goto(p, "load_other", "create") /\ Load(p, "EXTERNAL")
  BY <1>2, LoadStep, SourceNames
<1> QED BY <1>1, <1>2 DEF FindAll

LEMMA ReconcileStep ==
  ASSUME IInv, NEW p \in Runners, Reconcile(p)
  PROVE  IInv'
<1>1. TypeOK /\ IdsAreKeys /\ InOrder(p) /\ SeenIsKept(p)
  BY DEF IInv, InOrder
<1>2. /\ pc[p] = "reconcile" /\ pc'[p] = "insert"
      /\ \A q \in Runners : q # p => pc'[q] = pc[q]
      /\ pc' \in [Runners -> Steps]
  <2>1. Goto(p, "reconcile", "insert") /\ "insert" \in Steps
    BY DEF Reconcile, Steps
  <2> QED BY <1>1, <2>1, GotoProperties
<1>3. /\ results' = [results EXCEPT ![p] = Reconciled(p)]
      /\ UNCHANGED database /\ report' = report
      /\ args' = args /\ loaded' = loaded /\ run_id' = run_id /\ written' = written
      /\ other_rows' = other_rows
  BY DEF Reconcile
<1>4. /\ tables' = tables /\ reconciliation_runs' = reconciliation_runs
      /\ reconciliation_results' = reconciliation_results
  BY <1>3 DEF database
<1>5. Reconciled(p) \subseteq C!ReconciliationResult /\ IsFiniteSet(Reconciled(p))
  BY <1>1, ReconciledProperties
<1>6. /\ results' \in [Runners -> SUBSET C!ReconciliationResult]
      /\ results'[p] = Reconciled(p)
      /\ \A q \in Runners : q # p => results'[q] = results[q]
  BY <1>1, <1>3, <1>5 DEF TypeOK
<1>7. written[p] = 0 /\ Cardinality(results'[p]) \in Nat
  BY <1>1, <1>2, <1>5, <1>6, FS_CardinalityType DEF InOrder, WrittenInOrder, BeforeReconcile
<1>8. TypeOK'
  <2>1. \A q \in Runners : written'[q] <= 1 + Cardinality(results'[q])
    BY <1>1, <1>3, <1>6, <1>7 DEF TypeOK
  <2> QED BY <1>1, <1>2, <1>3, <1>4, <1>6, <2>1 DEF TypeOK
<1>9. SeenIsKept(p)' /\ Reconciled(p)' = Reconciled(p) /\ (ExternalLast(p)' <=> ExternalLast(p))
  BY <1>1, <1>3, <1>4 DEF SeenIsKept, Reconciled, ExternalLast
<1>10. ReconciledInOrder(p)'
  <2>1. ExternalLast(p)
    BY <1>1, <1>2 DEF InOrder, ReconciledInOrder
  <2>2. HasReconciled(p)'
    BY <1>6, <1>9, <2>1 DEF HasReconciled
  <2> QED BY <1>2, <2>2 DEF ReconciledInOrder, BeforeReconcile, BeforeCreate
<1>11. run_id[p] # 0 /\ run_id[p] \notin Completed
  BY <1>1, <1>2 DEF InOrder, RunOf, BeforeComplete
<1>12. RunOf(p)'
  BY <1>1, <1>2, <1>3, <1>4, <1>11
    DEF InOrder, RunOf, BeforeCreate, BeforeComplete, AfterComplete, Completed
<1>13. StoredInOrder(p)'
  BY <1>1, <1>2, <1>3, <1>4 DEF InOrder, StoredInOrder, StoredFor, AfterInsert, AfterComplete
<1>14. WrittenInOrder(p)'
  BY <1>2, <1>3, <1>7 DEF WrittenInOrder
<1>15. InOrder(p)'
  BY <1>9, <1>10, <1>12, <1>13, <1>14 DEF InOrder
<1>16. \A q \in Runners : q # p => SameLocals(q)
  BY <1>2, <1>3, <1>6 DEF SameLocals
<1>17. ReportIsOfCompletedRuns'
  BY <1>3, ReportUnchanged
<1> QED BY <1>3, <1>8, <1>11, <1>15, <1>16, <1>17, LocalStep
LEMMA WriteReportStep ==
  ASSUME IInv, NEW p \in Runners, WriteReport(p)
  PROVE  IInv'
<1> DEFINE at == written[p] + 1
           n == IF at > Len(report) THEN at ELSE Len(report)
<1>1. TypeOK /\ IdsAreKeys /\ InOrder(p) /\ ReportIsOfCompletedRuns
  BY DEF IInv
<1>2. PICK to \in {"write_report", "done"} :
        /\ Goto(p, "write_report", to)
        /\ to = "write_report" => at # 1 + Cardinality(results[p])
  BY DEF WriteReport
<1>3. /\ pc[p] = "write_report" /\ pc'[p] = to
      /\ \A q \in Runners : q # p => pc'[q] = pc[q]
      /\ pc' \in [Runners -> Steps]
  <2>1. to \in Steps
    BY DEF Steps
  <2> QED BY <1>1, <1>2, <2>1, GotoProperties
<1>4. /\ report' = [k \in 1..n |-> IF k = at THEN run_id[p]
                                  ELSE IF k <= Len(report) THEN report[k] ELSE 0]
      /\ written' = [written EXCEPT ![p] = at]
      /\ UNCHANGED database /\ args' = args /\ loaded' = loaded /\ run_id' = run_id
      /\ results' = results /\ other_rows' = other_rows
  BY DEF WriteReport
<1>5. /\ tables' = tables /\ reconciliation_runs' = reconciliation_runs
      /\ reconciliation_results' = reconciliation_results
  BY <1>4 DEF database
<1>6. /\ written \in [Runners -> Nat] /\ written[p] \in Nat
      /\ written[p] <= Cardinality(results[p]) /\ Cardinality(results[p]) \in Nat
  BY <1>1, <1>3, ResultsFinite DEF TypeOK, InOrder, WrittenInOrder
<1>7. at \in Nat /\ at <= 1 + Cardinality(results[p]) /\ at # 0
  BY <1>6
<1>8. /\ report \in Seq(0..Len(reconciliation_runs)) /\ Len(report) \in Nat
      /\ \A k \in 1..Len(report) : report[k] \in 0..Len(reconciliation_runs)
      /\ DOMAIN report = 1..Len(report)
  <2>1. report \in Seq(0..Len(reconciliation_runs))
    BY <1>1 DEF TypeOK
  <2> QED BY <2>1, LenProperties, ElementOfSeq
<1>9. n \in Nat
  BY <1>7, <1>8
<1>10. run_id[p] \in Completed
  BY <1>1, <1>3 DEF InOrder, RunOf, AfterComplete
<1>11. /\ run_id[p] \in 0..Len(reconciliation_runs) /\ 0 \in 0..Len(reconciliation_runs)
       /\ run_id[p] \in Nat
  BY <1>1, RunIds DEF TypeOK
<1> HIDE DEF n, at
<1>12. report' \in [1..n -> 0..Len(reconciliation_runs)]
  BY <1>4, <1>8, <1>9, <1>11
<1>13. report' \in Seq(0..Len(reconciliation_runs))
  BY <1>9, <1>12, SeqDef
<1>14. ReportIsOfCompletedRuns'
  <2>1. \A k \in 1..n : report'[k] \in Completed \union {0}
    <3> TAKE k \in 1..n
    <3>1. k <= Len(report) => report[k] \in Completed \union {0}
      BY <1>1, <1>8, <1>9 DEF ReportIsOfCompletedRuns, Range
    <3> QED BY <1>4, <1>10, <3>1
  <2>2. DOMAIN report' = 1..n
    BY <1>12
  <2>3. Completed' = Completed
    BY <1>5 DEF Completed
  <2> QED BY <2>1, <2>2, <2>3 DEF ReportIsOfCompletedRuns, Range
<1>15. /\ written' \in [Runners -> Nat] /\ written'[p] = at
       /\ \A q \in Runners : q # p => written'[q] = written[q]
  BY <1>4, <1>6, <1>7
<1>16. TypeOK'
  <2>1. \A q \in Runners : written'[q] <= 1 + Cardinality(results[q])
    BY <1>1, <1>7, <1>15 DEF TypeOK
  <2> QED BY <1>1, <1>3, <1>4, <1>5, <1>13, <1>15, <2>1 DEF TypeOK
<1>17. SameResults(p) /\ \A q \in Runners : q # p => SameLocals(q)
  BY <1>3, <1>4, <1>15 DEF SameResults, SameLocals
<1>18. InOrder(p)'
  <2>1. /\ HasReconciled(p)' <=> HasReconciled(p)
        /\ Completed' = Completed
        /\ SeenIsKept(p)'
    BY <1>1, <1>4, <1>5, <1>17, ReconciledSame DEF Completed, InOrder, SeenIsKept
  <2>2. ReconciledInOrder(p)'
    BY <1>1, <1>3, <1>4, <2>1
      DEF InOrder, ReconciledInOrder, BeforeReconcile, BeforeCreate, AfterInsert, AfterComplete
  <2>3. RunOf(p)'
    BY <1>1, <1>3, <1>4, <1>5, <1>10, <2>1
      DEF InOrder, RunOf, BeforeComplete, BeforeCreate, AfterComplete
  <2>4. StoredInOrder(p)'
    BY <1>1, <1>3, <1>4, <1>5
      DEF InOrder, StoredInOrder, AfterInsert, AfterComplete, StoredFor, RowsFor
  <2>5. WrittenInOrder(p)'
    <3>1. to = "write_report" => at <= Cardinality(results[p])
      BY <1>2, <1>6, <1>7
    <3> QED BY <1>3, <1>4, <1>15, <3>1 DEF WrittenInOrder, BeforeReconcile, BeforeCreate
  <2> QED BY <2>1, <2>2, <2>3, <2>4, <2>5 DEF InOrder
<1> QED BY <1>4, <1>14, <1>16, <1>17, <1>18, LocalStep
-----------------------------------------------------------------------------
(* The inductive invariant: the steps of a run that write to the tables. *)

NewRun(p) ==
  [algorithm |-> args[p].algorithm, matching_strategy |-> args[p].strategy,
   amount_tolerance_cents |-> args[p].tolerance_cents, counts |-> NoCounts,
   completed_at |-> FALSE]

LEMMA NewRunProperties ==
  ASSUME TypeOK, NEW p \in Runners, InOrder(p), pc[p] = "create", ~ToleranceViolation(p)
  PROVE  /\ NewRun(p) \in Run /\ ~NewRun(p).completed_at
         /\ NewRun(p).matching_strategy = args[p].strategy
         /\ NewRun(p).amount_tolerance_cents = args[p].tolerance_cents
<1>1. args[p] \in CommandLine
  BY RunAssumption DEF TypeOK
<1>2. /\ args[p].tolerance_cents \in Nat /\ args[p].strategy \in {"exact_id", "composite_key", "unknown"}
  BY <1>1 DEF ToleranceViolation, CommandLine
<1>3. args[p].algorithm \in KnownAlgorithms
  BY DEF InOrder, RunOf
<1>4. NoCounts \in Counts
  BY DEF NoCounts, Counts
<1> QED BY <1>2, <1>3, <1>4 DEF NewRun, Run

LEMMA CreateRunStep ==
  ASSUME IInv, NEW p \in Runners, CreateRun(p)
  PROVE  IInv'
<1>1. TypeOK /\ IdsAreKeys /\ InOrder(p)
  BY DEF IInv
<1>2. CASE ToleranceViolation(p)
  <2>1. Goto(p, "create", "failed") /\ UNCHANGED <<database, report, locals>>
    BY <1>2 DEF CreateRun
  <2>2. /\ pc[p] = "create" /\ pc'[p] = "failed"
        /\ \A q \in Runners : q # p => pc'[q] = pc[q]
        /\ pc' \in [Runners -> Steps]
    BY <1>1, <2>1, GotoProperties DEF Steps
  <2>3. UNCHANGED database /\ UNCHANGED report /\ UNCHANGED locals
    BY <2>1
  <2> QED BY <2>2, <2>3, ReportUnchanged, GoingOn
<1>3. CASE ~ToleranceViolation(p)
  <2> DEFINE n == Len(reconciliation_runs)
  <2>1. Goto(p, "create", "reconcile")
    BY <1>3 DEF CreateRun
  <2>2. /\ pc[p] = "create" /\ pc'[p] = "reconcile"
        /\ \A q \in Runners : q # p => pc'[q] = pc[q]
        /\ pc' \in [Runners -> Steps]
    BY <1>1, <2>1, GotoProperties DEF Steps
  <2>3. /\ reconciliation_runs' = Append(reconciliation_runs, NewRun(p))
        /\ run_id' = [run_id EXCEPT ![p] = n + 1]
        /\ tables' = tables /\ reconciliation_results' = reconciliation_results
        /\ report' = report /\ args' = args /\ loaded' = loaded /\ results' = results
        /\ written' = written /\ other_rows' = other_rows
    BY <1>3 DEF CreateRun, NewRun
  <2>4. /\ NewRun(p) \in Run /\ ~NewRun(p).completed_at
        /\ NewRun(p).matching_strategy = args[p].strategy
        /\ NewRun(p).amount_tolerance_cents = args[p].tolerance_cents
    BY <1>1, <1>3, <2>2, NewRunProperties
  <2>5. /\ n \in Nat /\ DOMAIN reconciliation_runs = 1..n
        /\ \A q \in Runners : run_id[q] \in Nat /\ run_id[q] <= n
        /\ \A q \in Runners : run_id[q] # 0 => run_id[q] \in DOMAIN reconciliation_runs
        /\ Completed \subseteq DOMAIN reconciliation_runs
        /\ reconciliation_runs \in Seq(Run)
    BY <1>1, RunIds DEF TypeOK
  <2>6. /\ reconciliation_runs' \in Seq(Run) /\ Len(reconciliation_runs') = n + 1
        /\ DOMAIN reconciliation_runs' = 1..(n + 1)
        /\ reconciliation_runs'[n + 1] = NewRun(p)
        /\ \A k \in 1..n : reconciliation_runs'[k] = reconciliation_runs[k]
    <3>1. PICK s \in Seq(Run) : s = reconciliation_runs
      BY <2>5
    <3>2. PICK e \in Run : e = NewRun(p)
      BY <2>4
    <3>3. /\ Append(s, e) \in Seq(Run) /\ Len(Append(s, e)) = Len(s) + 1
          /\ \A k \in 1..Len(s) : Append(s, e)[k] = s[k]
          /\ Append(s, e)[Len(s) + 1] = e
      BY AppendProperties
    <3>4. DOMAIN Append(s, e) = 1..(Len(s) + 1)
      BY <3>3, LenProperties
    <3> QED BY <2>3, <3>1, <3>2, <3>3, <3>4
  <2> HIDE DEF n
  <2>7. /\ run_id'[p] = n + 1 /\ \A q \in Runners : q # p => run_id'[q] = run_id[q]
        /\ run_id' \in [Runners -> 0..(n + 1)]
    <3>1. run_id \in [Runners -> 0..n]
      BY <1>1 DEF TypeOK, n
    <3>2. \A x \in 0..n : x \in 0..(n + 1)
      BY <2>5
    <3>3. n + 1 \in 0..(n + 1)
      BY <2>5
    <3> QED BY <2>3, <3>1, <3>2, <3>3
  <2>8. Completed' = Completed
    <3>1. n + 1 \notin Completed'
      BY <2>4, <2>6 DEF Completed
    <3>2. \A k \in 1..n : k \in Completed' <=> k \in Completed
      BY <2>5, <2>6 DEF Completed
    <3>3. Completed' \subseteq 1..(n + 1) /\ Completed \subseteq 1..n
      BY <2>5, <2>6 DEF Completed
    <3>4. \A k \in 1..(n + 1) : k \in 1..n \/ k = n + 1
      BY <2>5
    <3>5. \A k : k \in Completed' <=> k \in Completed
      BY <2>5, <3>1, <3>2, <3>3, <3>4
    <3> QED BY <3>5
  <2>9. \A k : StoredFor(k)' = StoredFor(k)
    BY <2>3 DEF StoredFor
  <2>10. StoredFor(n + 1) = {}
    <3>1. \A row \in reconciliation_results : row.run_id \in Nat /\ row.run_id <= n
      BY <1>1 DEF IInv, TypeOK, StoredOfRuns, ResultRow, n
    <3> QED BY <2>5, <3>1 DEF StoredFor
  <2>11. TypeOK'
    <3>1. report' \in Seq(0..(n + 1))
      <4>1. report \in Seq(0..n)
        BY <1>1 DEF TypeOK, n
      <4>2. Len(report) \in Nat /\ \A k \in 1..Len(report) : report[k] \in 0..n
        BY <4>1, LenProperties, ElementOfSeq
      <4>3. report = [k \in 1..Len(report) |-> report[k]]
        BY <4>1
      <4>4. \A k \in 1..Len(report) : report[k] \in 0..(n + 1)
        BY <2>5, <4>2
      <4>5. report \in [1..Len(report) -> 0..(n + 1)]
        BY <4>3, <4>4
      <4> QED BY <2>3, <4>2, <4>5, SeqDef
    <3> QED BY <1>1, <2>2, <2>3, <2>6, <2>7, <3>1 DEF TypeOK
  <2>12. RunsAreOwn'
    <3> SUFFICES ASSUME NEW x \in Runners, NEW y \in Runners, x # y, run_id'[x] # 0
                 PROVE  run_id'[x] # run_id'[y]
      BY DEF RunsAreOwn
    <3>1. CASE x = p
      BY <2>5, <2>7, <3>1
    <3>2. CASE y = p
      BY <2>5, <2>7, <3>2
    <3>3. CASE x # p /\ y # p
      BY <2>7, <3>3 DEF IInv, RunsAreOwn
    <3> QED BY <3>1, <3>2, <3>3
  <2>13. StoredOfRuns'
    <3>1. \A row \in reconciliation_results : row.run_id \in Nat /\ row.run_id <= n
      BY <1>1 DEF IInv, TypeOK, StoredOfRuns, ResultRow, n
    <3> QED BY <2>3, <2>5, <2>6, <3>1 DEF StoredOfRuns
  <2>14. run_id[p] = 0 /\ results[p] = {} /\ written[p] = 0 /\ ExternalLast(p)
         /\ args[p].algorithm \in KnownAlgorithms
    BY <1>1, <2>2 DEF InOrder, RunOf, ReconciledInOrder, WrittenInOrder, BeforeCreate,
      BeforeReconcile
  <2>15. \A q \in Runners : run_id[q] \in Completed => SameResults(q)
    <3> SUFFICES ASSUME NEW q \in Runners, run_id[q] \in Completed
                 PROVE  SameResults(q)
      OBVIOUS
    <3>1. q # p
      BY <1>1, <2>14, RunIds
    <3> QED BY <2>3, <2>7, <3>1 DEF SameResults
  <2>16. CompletedIsCounted'
    <3>1. CompletedIsCounted /\ \A k \in Completed : reconciliation_runs'[k] = reconciliation_runs[k]
      BY <2>5, <2>6 DEF IInv
    <3> QED BY <1>1, <2>8, <2>9, <2>15, <3>1, CompletedStaysCounted
  <2>17. ReportIsOfCompletedRuns'
    BY <2>3, <2>8 DEF IInv, ReportIsOfCompletedRuns
  <2>18. IdsAreKeys'
    BY <1>1, <2>3 DEF IdsAreKeys
  <2>19. ASSUME NEW q \in Runners, q # p
         PROVE  InOrder(q)'
    <3>1. InOrder(q) /\ SameLocals(q)
      BY <2>2, <2>3, <2>7, <2>19 DEF IInv, SameLocals
    <3>2. SeenIsKept(q)'
      BY <2>3, <3>1 DEF InOrder, SeenIsKept
    <3>3. run_id[q] # 0 => /\ run_id[q] \in DOMAIN reconciliation_runs'
                           /\ reconciliation_runs'[run_id[q]] = reconciliation_runs[run_id[q]]
                           /\ StoredFor(run_id[q])' = StoredFor(run_id[q])
      <4>1. run_id[q] # 0 => run_id[q] \in 1..n /\ run_id[q] \in 1..(n + 1)
        BY <2>5
      <4>2. StoredFor(run_id[q])' = StoredFor(run_id[q])
        BY <2>3, <2>7, <2>19 DEF StoredFor
      <4> QED BY <2>6, <4>1, <4>2
    <3> QED BY <1>1, <3>1, <3>2, <3>3, OtherRunner
  <2>20. InOrder(p)'
    <3>1. SeenIsKept(p)' /\ (ExternalLast(p)' <=> ExternalLast(p))
      BY <1>1, <2>3 DEF InOrder, SeenIsKept, ExternalLast
    <3>2. ReconciledInOrder(p)'
      BY <2>2, <2>3, <2>14, <3>1 DEF ReconciledInOrder, AfterInsert, AfterComplete
    <3>3. RunOf(p)'
      <4>1. n + 1 # 0 /\ n + 1 \notin Completed'
        BY <2>5, <2>8
      <4> QED BY <2>2, <2>3, <2>4, <2>6, <2>7, <2>14, <4>1
            DEF RunOf, BeforeCreate, BeforeComplete, AfterComplete
    <3>4. StoredInOrder(p)'
      <4>1. StoredFor(run_id[p])' = StoredFor(n + 1)
        BY <2>3, <2>7 DEF StoredFor
      <4> QED BY <2>2, <2>10, <4>1 DEF StoredInOrder, AfterInsert, AfterComplete
    <3>5. WrittenInOrder(p)'
      BY <2>2, <2>3, <2>14 DEF WrittenInOrder
    <3> QED BY <3>1, <3>2, <3>3, <3>4, <3>5 DEF InOrder
  <2> QED BY <2>11, <2>12, <2>13, <2>16, <2>17, <2>18, <2>19, <2>20 DEF IInv
<1> QED BY <1>2, <1>3
LEMMA RowType ==
  ASSUME NEW r \in C!ReconciliationResult, NEW k \in Nat \ {0}
  PROVE  Row(k, r) \in ResultRow /\ Row(k, r).run_id = k
<1>1. \A t \in C!Transaction \union {None} : IdOf(t) \in Nat \union {None}
  BY DEF IdOf, C!Transaction
<1>2. /\ r.internal_transaction \in C!Transaction \union {None}
      /\ r.external_transaction \in C!Transaction \union {None}
      /\ r.transaction_id \in C!Text /\ r.status \in C!Status
      /\ r.amount_difference_cents \in Nat /\ r.tax_difference_cents \in Nat
      /\ r.mismatch_details \in SUBSET C!Detail
  BY DEF C!ReconciliationResult
<1>3. IdOf(r.internal_transaction) \in Nat \union {None}
      /\ IdOf(r.external_transaction) \in Nat \union {None}
  BY <1>1, <1>2
<1> QED BY <1>2, <1>3 DEF Row, ResultRow

LEMMA InsertResultsStep ==
  ASSUME IInv, NEW p \in Runners, InsertResults(p)
  PROVE  IInv'
<1> DEFINE id == run_id[p]
           rows == RowsFor(id, results[p])
<1>1. TypeOK /\ IdsAreKeys /\ InOrder(p)
  BY DEF IInv
<1>2. /\ pc[p] = "insert" /\ pc'[p] = "complete"
      /\ \A q \in Runners : q # p => pc'[q] = pc[q]
      /\ pc' \in [Runners -> Steps]
  <2>1. Goto(p, "insert", "complete") /\ "complete" \in Steps
    BY DEF InsertResults, Steps
  <2> QED BY <1>1, <2>1, GotoProperties
<1>3. /\ reconciliation_results' = reconciliation_results \union rows
      /\ tables' = tables /\ reconciliation_runs' = reconciliation_runs /\ report' = report
      /\ args' = args /\ loaded' = loaded /\ run_id' = run_id /\ results' = results
      /\ written' = written /\ other_rows' = other_rows
  BY DEF InsertResults, locals
<1>4. id \in Nat \ {0} /\ id <= Len(reconciliation_runs) /\ id \notin Completed
  BY <1>1, <1>2, RunIds DEF InOrder, RunOf, BeforeComplete
<1>5. \A row \in rows : row \in ResultRow /\ row.run_id = id
  <2>1. results[p] \subseteq C!ReconciliationResult
    BY <1>1 DEF TypeOK
  <2> QED BY <1>4, <2>1, RowType DEF RowsFor
<1> HIDE DEF rows
<1>6. \A k : k # id => StoredFor(k)' = StoredFor(k)
  BY <1>3, <1>5 DEF StoredFor
<1>7. StoredFor(id)' = rows
  <2>1. StoredFor(id) = {}
    BY <1>1, <1>2 DEF InOrder, StoredInOrder
  <2>2. \A row \in reconciliation_results : row.run_id # id
    BY <2>1 DEF StoredFor
  <2>3. {row \in reconciliation_results \union rows : row.run_id = id} = rows
    BY <1>5, <2>2
  <2> QED BY <1>3, <2>3 DEF StoredFor
<1>8. Completed' = Completed
  BY <1>3 DEF Completed
<1>9. TypeOK'
  BY <1>1, <1>2, <1>3, <1>5 DEF TypeOK
<1>10. IdsAreKeys' /\ RunsAreOwn' /\ StoredOfRuns' /\ ReportIsOfCompletedRuns'
  BY <1>3, <1>4, <1>5, <1>8
    DEF IInv, IdsAreKeys, RunsAreOwn, StoredOfRuns, ReportIsOfCompletedRuns
<1>11. \A q \in Runners : SameResults(q) /\ (q # p => SameLocals(q))
  BY <1>2, <1>3 DEF SameResults, SameLocals
<1>12. CompletedIsCounted'
  <2>1. CompletedIsCounted /\ \A k \in Completed : StoredFor(k)' = StoredFor(k)
    BY <1>4, <1>6 DEF IInv
  <2> QED BY <1>1, <1>3, <1>8, <1>11, <2>1, CompletedStaysCounted
<1>13. ASSUME NEW q \in Runners, q # p
       PROVE  InOrder(q)'
  <2>1. InOrder(q) /\ SameLocals(q)
    BY <1>11, <1>13 DEF IInv
  <2>2. SeenIsKept(q)'
    BY <1>3, <2>1 DEF InOrder, SeenIsKept
  <2>3. run_id[q] # 0 => /\ run_id[q] \in DOMAIN reconciliation_runs'
                         /\ reconciliation_runs'[run_id[q]] = reconciliation_runs[run_id[q]]
                         /\ StoredFor(run_id[q])' = StoredFor(run_id[q])
    <3>1. run_id[q] # id
      BY <1>4, <1>13 DEF IInv, RunsAreOwn
    <3>2. StoredFor(run_id[q])' = StoredFor(run_id[q])
      BY <1>3, <1>5, <3>1 DEF StoredFor
    <3> QED BY <1>1, <1>3, <3>2, RunIds
  <2> QED BY <1>1, <2>1, <2>2, <2>3, OtherRunner
<1>14. InOrder(p)'
  <2>1. /\ SeenIsKept(p)'
        /\ HasReconciled(p)' <=> HasReconciled(p)
    BY <1>1, <1>3, <1>11, ReconciledSame DEF InOrder, SeenIsKept
  <2>2. ReconciledInOrder(p)'
    BY <1>1, <1>2, <2>1 DEF InOrder, ReconciledInOrder, BeforeReconcile, BeforeCreate
  <2>3. RunOf(p)'
    BY <1>1, <1>2, <1>3, <1>8 DEF InOrder, RunOf, BeforeCreate, BeforeComplete, AfterComplete
  <2>4. StoredInOrder(p)'
    <3>1. StoredFor(run_id[p])' = rows /\ RowsFor(run_id[p], results[p])' = rows
      BY <1>3, <1>7 DEF StoredFor, RowsFor, rows
    <3> QED BY <1>2, <3>1 DEF StoredInOrder
  <2>5. WrittenInOrder(p)'
    BY <1>1, <1>2, <1>3 DEF InOrder, WrittenInOrder
  <2> QED BY <2>1, <2>2, <2>3, <2>4, <2>5 DEF InOrder
<1> QED BY <1>9, <1>10, <1>12, <1>13, <1>14 DEF IInv

LEMMA CompleteRunStep ==
  ASSUME IInv, NEW p \in Runners, CompleteRun(p)
  PROVE  IInv'
<1> DEFINE id == run_id[p]
           runs == reconciliation_runs
<1>1. TypeOK /\ IdsAreKeys /\ InOrder(p)
  BY DEF IInv
<1>2. /\ pc[p] = "complete" /\ pc'[p] = "open_report"
      /\ \A q \in Runners : q # p => pc'[q] = pc[q]
      /\ pc' \in [Runners -> Steps]
  <2>1. Goto(p, "complete", "open_report") /\ "open_report" \in Steps
    BY DEF CompleteRun, Steps
  <2> QED BY <1>1, <2>1, GotoProperties
<1>3. /\ reconciliation_runs' =
           [runs EXCEPT ![id] = [runs[id] EXCEPT !.counts = Stats(p), !.completed_at = TRUE]]
      /\ tables' = tables /\ reconciliation_results' = reconciliation_results
      /\ report' = report
      /\ args' = args /\ loaded' = loaded /\ run_id' = run_id /\ results' = results
      /\ written' = written /\ other_rows' = other_rows
  BY DEF CompleteRun, locals
<1>4. /\ id \in DOMAIN runs /\ id # 0 /\ id \notin Completed
      /\ runs \in Seq(Run) /\ runs[id] \in Run /\ Len(runs) \in Nat
      /\ DOMAIN runs = 1..Len(runs) /\ Completed \subseteq DOMAIN runs
  BY <1>1, <1>2, RunIds DEF InOrder, RunOf, BeforeComplete, TypeOK
<1>5. Stats(p) \in Counts
  <2>1. IsFiniteSet(results[p])
    BY <1>1, ResultsFinite
  <2>2. Cardinality(loaded[p]["INTERNAL"]) \in Nat /\ Cardinality(loaded[p]["EXTERNAL"]) \in Nat
    BY <1>1, SourceNames, LoadedProperties DEF InOrder
  <2> QED BY <2>1, <2>2, StatsProperties
<1>6. PICK new : new = [runs[id] EXCEPT !.counts = Stats(p), !.completed_at = TRUE]
  OBVIOUS
<1>7. /\ new \in Run /\ new.completed_at /\ new.counts = Stats(p)
      /\ new.matching_strategy = runs[id].matching_strategy
      /\ new.amount_tolerance_cents = runs[id].amount_tolerance_cents
  BY <1>4, <1>5, <1>6 DEF Run
<1>8. /\ reconciliation_runs' \in Seq(Run) /\ Len(reconciliation_runs') = Len(runs)
      /\ DOMAIN reconciliation_runs' = DOMAIN runs
      /\ reconciliation_runs'[id] = new
      /\ \A k \in DOMAIN runs : k # id => reconciliation_runs'[k] = runs[k]
  <2>1. reconciliation_runs' = [runs EXCEPT ![id] = new]
    BY <1>3, <1>6
  <2>2. id \in 1..Len(runs)
    BY <1>4
  <2> HIDE DEF id, runs
  <2>3. [runs EXCEPT ![id] = new] \in Seq(Run) /\ Len([runs EXCEPT ![id] = new]) = Len(runs)
    BY <1>4, <1>7, <2>2, ExceptSeq
  <2> QED BY <1>4, <2>1, <2>3
<1>9. Completed' = Completed \union {id}
  BY <1>4, <1>7, <1>8 DEF Completed
<1>10. \A k : StoredFor(k)' = StoredFor(k)
  BY <1>3 DEF StoredFor
<1>11. TypeOK'
  BY <1>1, <1>2, <1>3, <1>8 DEF TypeOK
<1>12. IdsAreKeys' /\ RunsAreOwn' /\ StoredOfRuns' /\ ReportIsOfCompletedRuns'
  BY <1>3, <1>8, <1>9
    DEF IInv, IdsAreKeys, RunsAreOwn, StoredOfRuns, ReportIsOfCompletedRuns
<1>13. \A q \in Runners : SameResults(q) /\ (q # p => SameLocals(q))
  BY <1>2, <1>3 DEF SameResults, SameLocals
<1>14. HasReconciled(p) /\ HasReconciled(p)' /\ Stats(p)' = Stats(p)
  BY <1>1, <1>2, <1>13, ReconciledSame DEF InOrder, ReconciledInOrder, AfterInsert
<1>15. CompletedIsCounted'
  <2>1. CountedBy(p, id)'
    <3> DEFINE k == id
    <3>1. StoredFor(k) = RowsFor(k, results[p])
      BY <1>1, <1>2 DEF InOrder, StoredInOrder, AfterInsert
    <3> QED BY <1>3, <1>7, <1>8, <1>10, <1>14, <3>1 DEF CountedBy, StoredFor, RowsFor
  <2>2. CompletedIsCounted /\ \A k \in Completed : reconciliation_runs'[k] = runs[k]
    BY <1>4, <1>8 DEF IInv
  <2>3. \A k \in Completed' : k \in Completed \/ \E q \in Runners : CountedBy(q, k)'
    <3> SUFFICES ASSUME NEW k \in Completed', k \notin Completed
                 PROVE  CountedBy(p, k)'
      OBVIOUS
    <3>1. k = id
      BY <1>9
    <3> QED BY <1>3, <2>1, <3>1 DEF CountedBy, StoredFor, RowsFor
  <2> QED BY <1>1, <1>10, <1>13, <2>2, <2>3, CompletedStaysCounted
<1>16. ASSUME NEW q \in Runners, q # p
       PROVE  InOrder(q)'
  <2>1. InOrder(q) /\ SameLocals(q)
    BY <1>13, <1>16 DEF IInv
  <2>2. SeenIsKept(q)'
    BY <1>3, <2>1 DEF InOrder, SeenIsKept
  <2>3. run_id[q] # 0 => /\ run_id[q] \in DOMAIN reconciliation_runs'
                         /\ reconciliation_runs'[run_id[q]] = reconciliation_runs[run_id[q]]
                         /\ StoredFor(run_id[q])' = StoredFor(run_id[q])
    <3>1. run_id[q] # id
      BY <1>4, <1>16 DEF IInv, RunsAreOwn
    <3>2. StoredFor(run_id[q])' = StoredFor(run_id[q])
      BY <1>3 DEF StoredFor
    <3> QED BY <1>1, <1>8, <3>1, <3>2, RunIds
  <2> QED BY <1>1, <2>1, <2>2, <2>3, OtherRunner
<1>17. InOrder(p)'
  <2>1. SeenIsKept(p)'
    BY <1>1, <1>3 DEF InOrder, SeenIsKept
  <2>2. ReconciledInOrder(p)'
    BY <1>2, <1>14 DEF ReconciledInOrder, BeforeReconcile, BeforeCreate
  <2>3. RunOf(p)'
    BY <1>1, <1>2, <1>3, <1>7, <1>8, <1>9
      DEF InOrder, RunOf, BeforeCreate, BeforeComplete
  <2>4. StoredInOrder(p)'
    BY <1>1, <1>2, <1>3 DEF InOrder, StoredInOrder, AfterInsert, StoredFor, RowsFor
  <2>5. WrittenInOrder(p)'
    BY <1>1, <1>2, <1>3 DEF InOrder, WrittenInOrder
  <2> QED BY <2>1, <2>2, <2>3, <2>4, <2>5 DEF InOrder
<1> QED BY <1>11, <1>12, <1>15, <1>16, <1>17 DEF IInv
-----------------------------------------------------------------------------
(* The invariant, and what follows from it. *)

LEMMA InitInOrder ==
  ASSUME Init
  PROVE  IInv
<1>1. /\ tables = [s \in C!SourceSystem |-> {}]
      /\ reconciliation_runs = <<>> /\ reconciliation_results = {} /\ report = <<>>
      /\ pc = [p \in Runners |-> "start"] /\ args \in [Runners -> CommandLines]
      /\ loaded = [p \in Runners |-> [s \in C!SourceSystem |-> {}]]
      /\ run_id = [p \in Runners |-> 0] /\ results = [p \in Runners |-> {}]
      /\ written = [p \in Runners |-> 0]
      /\ other_rows = [p \in Runners |-> [s \in C!SourceSystem |-> {}]]
  BY DEF Init
<1>2. Len(reconciliation_runs) = 0 /\ DOMAIN reconciliation_runs = {} /\ Completed = {}
  BY <1>1 DEF Completed
<1>3. TypeOK
  <2>1. reconciliation_runs \in Seq(Run) /\ report \in Seq(0..Len(reconciliation_runs))
    BY <1>1
  <2>2. tables \in [C!SourceSystem -> SUBSET C!Transaction]
    BY <1>1
  <2>3. loaded \in [Runners -> [C!SourceSystem -> SUBSET C!Transaction]]
    BY <1>1
  <2>4. \A p \in Runners : written[p] <= 1 + Cardinality(results[p])
    BY <1>1, FS_EmptySet
  <2> QED BY <1>1, <1>2, <2>1, <2>2, <2>3, <2>4 DEF TypeOK, Steps
<1>4. IdsAreKeys /\ RunsAreOwn /\ StoredOfRuns /\ CompletedIsCounted /\ ReportIsOfCompletedRuns
  BY <1>1, <1>2
    DEF IdsAreKeys, RunsAreOwn, StoredOfRuns, CompletedIsCounted, ReportIsOfCompletedRuns, Range
<1>5. ASSUME NEW p \in Runners
      PROVE  InOrder(p)
  <2>1. SeenIsKept(p)
    BY <1>1 DEF SeenIsKept
  <2>2. ReconciledInOrder(p) /\ RunOf(p) /\ StoredInOrder(p) /\ WrittenInOrder(p)
    BY <1>1
      DEF ReconciledInOrder, RunOf, StoredInOrder, WrittenInOrder, BeforeComplete, AfterComplete,
          AfterInsert
  <2> QED BY <2>1, <2>2 DEF InOrder
<1> QED BY <1>3, <1>4, <1>5 DEF IInv

LEMMA UnchangedInOrder ==
  ASSUME IInv, UNCHANGED vars
  PROVE  IInv'
<1>1. /\ tables' = tables /\ reconciliation_runs' = reconciliation_runs
      /\ reconciliation_results' = reconciliation_results /\ report' = report /\ pc' = pc
      /\ args' = args /\ loaded' = loaded /\ run_id' = run_id /\ results' = results
      /\ written' = written /\ other_rows' = other_rows
  BY DEF vars, database, locals
<1>2. UNCHANGED database /\ UNCHANGED args /\ UNCHANGED run_id /\ UNCHANGED report
  BY <1>1 DEF database
<1>3. \A q \in Runners : SameLocals(q) /\ SameResults(q)
  BY <1>1 DEF SameLocals, SameResults
<1>4. TypeOK' /\ ReportIsOfCompletedRuns'
  BY <1>1 DEF IInv, TypeOK, ReportIsOfCompletedRuns, Completed
<1>5. CASE Runners = {}
  BY <1>1, <1>4, <1>5 DEF IInv, IdsAreKeys, RunsAreOwn, StoredOfRuns, CompletedIsCounted,
    Completed, CountedBy
<1>6. CASE Runners # {}
  <2>1. PICK p \in Runners : TRUE
    BY <1>6
  <2>2. TypeOK /\ InOrder(p) /\ SeenIsKept(p)'
    BY <1>1 DEF IInv, InOrder, SeenIsKept
  <2>3. run_id[p] # 0 => /\ run_id[p] \in DOMAIN reconciliation_runs'
                         /\ reconciliation_runs'[run_id[p]] = reconciliation_runs[run_id[p]]
                         /\ StoredFor(run_id[p])' = StoredFor(run_id[p])
    BY <1>1, <2>2, RunIds DEF StoredFor
  <2>4. InOrder(p)'
    BY <1>3, <2>2, <2>3, OtherRunner
  <2> QED BY <1>2, <1>3, <1>4, <2>4, LocalStep
<1> QED BY <1>5, <1>6

\* The inductive invariant holds, whatever runs and ingests do to each other.
THEOREM Invariance == Spec => []IInv
<1>1. Init => IInv
  BY InitInOrder
<1>2. IInv /\ [Next]_vars => IInv'
  <2> SUFFICES ASSUME IInv, [Next]_vars
               PROVE  IInv'
    OBVIOUS
  <2>1. ASSUME NEW p \in Runners, RunStep(p)
        PROVE  IInv'
    BY <2>1, BuildReconcilerStep, FindAllStep, CreateRunStep, ReconcileStep, InsertResultsStep,
       CompleteRunStep, OpenReportStep, WriteReportStep DEF RunStep
  <2>2. ASSUME NEW p \in Runners, Abort(p)
        PROVE  IInv'
    BY <2>2, AbortStep
  <2>3. ASSUME NEW source \in C!SourceSystem, NEW batch \in Batches[source],
               InsertBatch(source, batch)
        PROVE  IInv'
    BY <2>3, InsertBatchStep
  <2>4. CASE UNCHANGED vars
    BY <2>4, UnchangedInOrder
  <2> QED BY <2>1, <2>2, <2>3, <2>4 DEF Next, Terminated
<1> QED BY <1>1, <1>2, PTL DEF Spec

\* Type correctness of the runs, their results and the report, for any
\* number of runs and any rows.
THEOREM TypeCorrect == Spec => []TypeOK
<1>1. IInv => TypeOK
  BY DEF IInv
<1> QED BY <1>1, Invariance, PTL

\* The report file holds nothing of a run that is not completed
\* (CsvReportWriter.write runs last in cmd_run).
THEOREM ReportHolds == Spec => []ReportIsOfCompletedRuns
<1>1. IInv => ReportIsOfCompletedRuns
  BY DEF IInv
<1> QED BY <1>1, Invariance, PTL

LEMMA CountedAddsUp ==
  IInv => CompletedRunAddsUp
<1> SUFFICES ASSUME IInv, NEW k \in Completed
             PROVE  LET c == reconciliation_runs[k].counts
                        singles == c.missing_internal_count + c.missing_external_count
                                     + c.duplicate_count
                        pairs == c.matched_count + c.mismatched_count
                    IN  /\ pairs + singles = Cardinality(StoredFor(k))
                        /\ 2 * pairs + singles = c.records_internal + c.records_external
  BY DEF CompletedRunAddsUp
<1>1. PICK p \in Runners : CountedBy(p, k)
  BY DEF IInv, CompletedIsCounted
<1>2. TypeOK /\ IdsAreKeys /\ SeenIsKept(p) /\ results[p] = Reconciled(p)
  BY <1>1 DEF IInv, InOrder, CountedBy, HasReconciled
<1>3. /\ reconciliation_runs[k].counts = Stats(p)
      /\ StoredFor(k) = RowsFor(k, results[p])
  BY <1>1 DEF CountedBy
<1> QED BY <1>2, <1>3, StatsAddUp

\* The counts of a completed run are those of its stored rows, and account for
\* every record it loaded, however many there are and whatever was ingested or
\* aborted meanwhile (cmd_run's counting loop, insert_results, complete_run).
THEOREM AddsUp == Spec => []CompletedRunAddsUp
BY CountedAddsUp, Invariance, PTL

\* The results of a run refer to every record it has loaded, and to no other
\* record of its tables.
LEMMA LoadedIsNamed ==
  ASSUME TypeOK, IdsAreKeys, NEW p \in Runners, SeenIsKept(p), results[p] = Reconciled(p),
         NEW k, StoredFor(k) = RowsFor(k, results[p])
  PROVE  /\ Named(k, "INTERNAL") = loaded[p]["INTERNAL"]
         /\ Named(k, "EXTERNAL") = loaded[p]["EXTERNAL"]
<1> DEFINE I == loaded[p]["INTERNAL"]
           E == loaded[p]["EXTERNAL"]
           R == results[p]
<1>1. /\ I \subseteq tables["INTERNAL"] /\ E \subseteq tables["EXTERNAL"]
      /\ \A t \in I, u \in tables["INTERNAL"] : t.db_id = u.db_id => t = u
      /\ \A t \in E, u \in tables["EXTERNAL"] : t.db_id = u.db_id => t = u
  BY LoadedProperties, SourceNames
<1>2. BothSides(I, E)
  BY ReconciledProperties
<1>3. PICK s, tol : R = Classifier(s, tol)!Expected(I, E)
  BY DEF Reconciled
<1>4. /\ tables["INTERNAL"] \subseteq C!Transaction /\ tables["EXTERNAL"] \subseteq C!Transaction
  BY SourceNames DEF TypeOK
<1>5. StoredFor(k) = {Row(k, r) : r \in R}
  BY DEF RowsFor
<1> HIDE DEF I, E, R
<1>6. /\ \A t \in I : \E r \in R : r.internal_transaction = t
      /\ \A t \in E : \E r \in R : r.external_transaction = t
      /\ \A r \in R : /\ r.internal_transaction \in I \union {None}
                      /\ r.external_transaction \in E \union {None}
  BY <1>2, <1>3, ExpectedProperties
<1>7. \A t \in C!Transaction : t.db_id # None /\ t # None /\ IdOf(t) = t.db_id
  BY RunAssumption DEF IdOf, C!Transaction
<1>8. IdOf(None) = None
  BY DEF IdOf
<1>9. \A r : /\ Row(k, r)["internal_transaction_id"] = IdOf(r.internal_transaction)
             /\ Row(k, r)["external_transaction_id"] = IdOf(r.external_transaction)
  BY DEF Row
<1>10. \A t \in tables["INTERNAL"] :
         t \in I <=> \E r \in R : IdOf(r.internal_transaction) = t.db_id
  BY <1>1, <1>4, <1>6, <1>7, <1>8
<1>11. \A t \in tables["EXTERNAL"] :
         t \in E <=> \E r \in R : IdOf(r.external_transaction) = t.db_id
  BY <1>1, <1>4, <1>6, <1>7, <1>8
<1>12. Named(k, "INTERNAL") =
         {t \in tables["INTERNAL"] : \E r \in R : IdOf(r.internal_transaction) = t.db_id}
  BY <1>5, <1>9 DEF Named, ColumnOf
<1>13. Named(k, "EXTERNAL") =
         {t \in tables["EXTERNAL"] : \E r \in R : IdOf(r.external_transaction) = t.db_id}
  BY <1>5, <1>9 DEF Named, ColumnOf
<1>14. Named(k, "INTERNAL") = I
  BY <1>1, <1>10, <1>12
<1>15. Named(k, "EXTERNAL") = E
  BY <1>1, <1>11, <1>13
<1> QED BY <1>14, <1>15 DEF I, E

LEMMA CountedIsReproducible ==
  IInv => CompletedRunIsReproducible
<1> SUFFICES ASSUME IInv, NEW k \in Completed
             PROVE  LET run == reconciliation_runs[k]
                        I == Named(k, "INTERNAL")
                        E == Named(k, "EXTERNAL")
                    IN  /\ Cardinality(I) = run.counts.records_internal
                        /\ Cardinality(E) = run.counts.records_external
                        /\ StoredFor(k) = RowsFor(k,
                             Classifier(StrategyOf(run.matching_strategy),
                                        run.amount_tolerance_cents)!Expected(I, E))
  BY DEF CompletedRunIsReproducible
<1>1. PICK p \in Runners : CountedBy(p, k)
  BY DEF IInv, CompletedIsCounted
<1>2. /\ run_id[p] = k /\ results[p] = Reconciled(p)
      /\ reconciliation_runs[k].counts = Stats(p)
      /\ StoredFor(k) = RowsFor(k, results[p])
  BY <1>1 DEF CountedBy, HasReconciled
<1>3. TypeOK /\ IdsAreKeys /\ InOrder(p) /\ SeenIsKept(p)
  BY DEF IInv, InOrder
<1>4. /\ reconciliation_runs[k].matching_strategy = args[p].strategy
      /\ reconciliation_runs[k].amount_tolerance_cents = args[p].tolerance_cents
  BY <1>2, <1>3, RunIds DEF InOrder, RunOf
<1>5. /\ reconciliation_runs[k].counts.records_internal = Cardinality(loaded[p]["INTERNAL"])
      /\ reconciliation_runs[k].counts.records_external = Cardinality(loaded[p]["EXTERNAL"])
  BY <1>2 DEF Stats
<1>6. /\ Named(k, "INTERNAL") = loaded[p]["INTERNAL"]
      /\ Named(k, "EXTERNAL") = loaded[p]["EXTERNAL"]
  BY <1>2, <1>3, LoadedIsNamed
<1> QED BY <1>2, <1>4, <1>5, <1>6 DEF Reconciled

\* A completed run can be repeated from what it has stored: its result rows
\* refer to exactly the records it loaded, in snapshots that ingests committing
\* in any order of their ids may have left incomplete, and its strategy and
\* tolerance give its results on them (find_all, insert_results, complete_run).
THEOREM Reproducible == Spec => []CompletedRunIsReproducible
BY CountedIsReproducible, Invariance, PTL

LEMMA MissingWasMissing ==
  IInv => MissingExternalWasMissing
<1> SUFFICES ASSUME IInv, NEW p \in Runners, NEW r \in results[p], r.status = "MISSING_EXTERNAL"
             PROVE  Classifier(StrategyOf(args[p].strategy), args[p].tolerance_cents)!Peers(
                      r.internal_transaction, other_rows[p]["INTERNAL"]) = {}
  BY DEF MissingExternalWasMissing
<1> DEFINE I == loaded[p]["INTERNAL"]
           E == loaded[p]["EXTERNAL"]
<1>1. TypeOK /\ IdsAreKeys /\ InOrder(p) /\ SeenIsKept(p)
  BY DEF IInv, InOrder
<1>2. results[p] = Reconciled(p) /\ other_rows[p]["INTERNAL"] \subseteq E
  BY <1>1 DEF InOrder, ReconciledInOrder, HasReconciled, ExternalLast
<1>3. BothSides(I, E)
  BY <1>1, ReconciledProperties
<1>4. PICK s, tol : s = StrategyOf(args[p].strategy) /\ tol = args[p].tolerance_cents
  OBVIOUS
<1>5. r \in Classifier(s, tol)!Expected(I, E)
  BY <1>2, <1>4 DEF Reconciled
<1> HIDE DEF I, E
<1>6. Classifier(s, tol)!Peers(r.internal_transaction, E) = {}
  BY <1>3, <1>5, ExpectedProperties
<1>7. Classifier(s, tol)!Peers(r.internal_transaction, other_rows[p]["INTERNAL"]) = {}
  BY <1>2, <1>6 DEF Classifier!Peers
<1> QED BY <1>4, <1>7

\* "Present in internal source only" was true when the run started to load:
\* the external list is the later one, and rows never disappear.
THEOREM MissingExternalHolds == Spec => []MissingExternalWasMissing
BY MissingWasMissing, Invariance, PTL

\* Steps other than complete_run leave the rows of runs alone; complete_run
\* updates one that is not completed.
LEMMA FreezeStep ==
  ASSUME IInv, [Next]_vars, NEW k \in Completed
  PROVE  reconciliation_runs'[k] = reconciliation_runs[k]
<1>1. TypeOK /\ CompletedIsCounted /\ \A p \in Runners : InOrder(p)
  BY DEF IInv
<1>2. k \in DOMAIN reconciliation_runs
  BY DEF Completed
<1>3. ASSUME NEW p \in Runners, CreateRun(p)
      PROVE  reconciliation_runs'[k] = reconciliation_runs[k]
  <2>1. CASE ToleranceViolation(p)
    BY <1>3, <2>1 DEF CreateRun, database
  <2>2. CASE ~ToleranceViolation(p)
    <3>1. reconciliation_runs' = Append(reconciliation_runs, NewRun(p))
      BY <1>3, <2>2 DEF CreateRun, NewRun
    <3>2. reconciliation_runs \in Seq(Run) /\ k \in 1..Len(reconciliation_runs)
      BY <1>1, <1>2, RunIds DEF TypeOK
    <3> QED BY <3>1, <3>2
  <2> QED BY <2>1, <2>2
<1>4. ASSUME NEW p \in Runners, CompleteRun(p)
      PROVE  reconciliation_runs'[k] = reconciliation_runs[k]
  <2>1. pc[p] = "complete" /\ run_id[p] # k
    BY <1>1, <1>4 DEF CompleteRun, Goto, InOrder, RunOf, BeforeComplete
  <2> QED BY <1>2, <1>4, <2>1 DEF CompleteRun
<1>5. ASSUME NEW p \in Runners, RunStep(p) \/ Abort(p), ~CreateRun(p), ~CompleteRun(p)
      PROVE  reconciliation_runs'[k] = reconciliation_runs[k]
  BY <1>5 DEF RunStep, Abort, BuildReconciler, FindAll, Load, Reconcile, InsertResults,
    OpenReport, WriteReport, database
<1>6. ASSUME NEW source \in C!SourceSystem, NEW batch \in Batches[source],
             InsertBatch(source, batch)
      PROVE  reconciliation_runs'[k] = reconciliation_runs[k]
  BY <1>6 DEF InsertBatch
<1>7. CASE UNCHANGED vars
  BY <1>7 DEF vars, database
<1> QED BY <1>3, <1>4, <1>5, <1>6, <1>7 DEF Next, Terminated

\* A completed run's row never changes (complete_run's WHERE clause, and runs
\* that own their ids).
THEOREM RunFrozen == Spec => CompletedRunFrozen
<1>1. IInv /\ [Next]_vars =>
        [\A k \in Completed : reconciliation_runs'[k] = reconciliation_runs[k]]_vars
  BY FreezeStep
<1> QED BY <1>1, Invariance, PTL DEF Spec, CompletedRunFrozen

LEMMA WholeStep ==
  ASSUME IInv, [Next]_vars, NEW run \in DOMAIN reconciliation_runs, StoredFor(run) # {}
  PROVE  StoredFor(run)' = StoredFor(run)
<1>1. ASSUME NEW p \in Runners, InsertResults(p)
      PROVE  StoredFor(run)' = StoredFor(run)
  <2>1. StoredFor(run_id[p]) = {}
    BY <1>1 DEF IInv, InOrder, StoredInOrder, InsertResults, Goto
  <2>2. run_id[p] # run
    BY <2>1
  <2>3. \A row \in RowsFor(run_id[p], results[p]) : row.run_id = run_id[p]
    BY DEF RowsFor, Row
  <2> QED BY <1>1, <2>2, <2>3 DEF InsertResults, StoredFor
<1>2. ASSUME NEW p \in Runners, RunStep(p) \/ Abort(p), ~InsertResults(p)
      PROVE  reconciliation_results' = reconciliation_results
  BY <1>2 DEF RunStep, Abort, BuildReconciler, FindAll, Load, CreateRun, Reconcile, CompleteRun,
    OpenReport, WriteReport, database
<1>3. ASSUME NEW source \in C!SourceSystem, NEW batch \in Batches[source],
             InsertBatch(source, batch)
      PROVE  reconciliation_results' = reconciliation_results
  BY <1>3 DEF InsertBatch
<1>4. CASE UNCHANGED vars
  BY <1>4 DEF vars, database, StoredFor
<1>5. reconciliation_results' = reconciliation_results => StoredFor(run)' = StoredFor(run)
  BY DEF StoredFor
<1> QED BY <1>1, <1>2, <1>3, <1>4, <1>5 DEF Next, Terminated

\* What `report` lists of a run is nothing or everything it will ever list
\* (insert_results is one transaction, and a run stores its results once).
THEOREM Whole == Spec => ResultsAreWhole
<1>1. IInv /\ [Next]_vars =>
        [\A run \in DOMAIN reconciliation_runs :
           StoredFor(run) # {} => StoredFor(run)' = StoredFor(run)]_vars
  BY WholeStep
<1> QED BY <1>1, Invariance, PTL DEF Spec, ResultsAreWhole

=============================================================================
