--------------------------- MODULE AlgorithmProofs ---------------------------
(***************************************************************************)
(* The two-pointer and the brute-force reconciler implement Reconciliation *)
(* as well, so the three algorithms return the same results, for any two   *)
(* lists of records, any strategy and tolerance.                           *)
(***************************************************************************)
EXTENDS Algorithms, HashProofs, FiniteSetTheorems, WellFoundedInduction

-----------------------------------------------------------------------------
(* Each algorithm takes its own steps. *)

LEMMA RunsStep ==
  ASSUME [Run \/ AllReturned]_all_vars
  PROVE  [Next]_vars /\ [TP!Next]_(TP!vars) /\ [BF!Next]_(BF!vars)
<1>1. CASE RunTwoPointer
  <2>1. UNCHANGED vars /\ UNCHANGED BF!vars /\ TP!Step
    BY <1>1 DEF RunTwoPointer, vars, lists, bf_vars, BF!vars, BF!lists, BF!counts
  <2> QED BY <2>1 DEF TP!Next
<1>2. CASE RunBruteForce
  <2>1. UNCHANGED vars /\ UNCHANGED TP!vars /\ BF!Step
    BY <1>2 DEF RunBruteForce, vars, lists, tp_vars, TP!vars, TP!lists, TP!keyed
  <2> QED BY <2>1 DEF BF!Next
<1>3. CASE RunHash
  <2>1. UNCHANGED TP!vars /\ UNCHANGED BF!vars /\ Step
    <3>1. UNCHANGED lists
      BY <1>3 DEF RunHash, Step, IndexInternal, IndexExternal, UniteKeys, VisitKey, Return
    <3> QED BY <1>3, <3>1 DEF RunHash, lists, tp_vars, TP!vars, TP!lists, TP!keyed, bf_vars, BF!vars, BF!lists, BF!counts
  <2> QED BY <2>1 DEF Next
<1>4. CASE AllReturned \/ UNCHANGED all_vars
  BY <1>4 DEF AllReturned, all_vars, vars, lists, tp_vars, TP!vars, TP!lists, TP!keyed,
     bf_vars, BF!vars, BF!lists, BF!counts
<1> QED BY <1>1, <1>2, <1>3, <1>4 DEF Run

LEMMA OwnSteps == RunsSpec => Spec /\ TP!Spec /\ BF!Spec
<1>1. Start => Init /\ TP!Init /\ BF!Init
  BY DEF Start
<1> QED BY <1>1, RunsStep, PTL DEF RunsSpec, Spec, TP!Spec, BF!Spec

-----------------------------------------------------------------------------
(* Brute force: what the counts say. *)

\* The classifier of BruteForceReconciler is the one of HashReconciler.
LEMMA BruteForceClassifier ==
  /\ BF!Transaction = Transaction /\ BF!ReconciliationResult = ReconciliationResult
  /\ \A source : BF!ListsOf(source) = ListsOf(source)
  /\ \A t : BF!BuildKey(t) = BuildKey(t)
  /\ \A t, I, E : BF!Verdict(t, I, E) = Verdict(t, I, E)
  /\ \A I, E : BF!Expected(I, E) = Expected(I, E)
  /\ \A t : BF!Duplicate(t) = Duplicate(t)
  /\ \A t : BF!MissingInternal(t) = MissingInternal(t)
  /\ \A t : BF!MissingExternal(t) = MissingExternal(t)
  /\ \A t, u : BF!ClassifyMatch(t, u) = ClassifyMatch(t, u)
  /\ \A f : BF!Range(f) = Range(f) /\ (BF!IsInjective(f) <=> IsInjective(f))
  /\ \A S : BF!Cardinality(S) = Cardinality(S)
<1>1. BF!Transaction = Transaction /\ BF!ReconciliationResult = ReconciliationResult
  BY DEF BF!Transaction, Transaction, BF!ReconciliationResult, ReconciliationResult,
         BF!Text, Text, BF!Status, Status, BF!Detail, Detail, BF!SourceSystem, SourceSystem
<1>2. \A source : BF!ListsOf(source) = ListsOf(source)
  BY <1>1 DEF BF!ListsOf, ListsOf
<1>3. \A t : BF!BuildKey(t) = BuildKey(t)
  BY DEF BF!BuildKey, BuildKey, BF!Pipe, Pipe
<1>4. /\ \A t : BF!Duplicate(t) = Duplicate(t)
      /\ \A t : BF!MissingInternal(t) = MissingInternal(t)
      /\ \A t : BF!MissingExternal(t) = MissingExternal(t)
  BY DEF BF!Duplicate, Duplicate, BF!MissingInternal, MissingInternal,
         BF!MissingExternal, MissingExternal
<1>5. \A t, u : BF!ClassifyMatch(t, u) = ClassifyMatch(t, u)
  BY DEF BF!ClassifyMatch, ClassifyMatch, BF!Mismatches, Mismatches, BF!StatusOf, StatusOf,
         BF!AbsDifference, AbsDifference
<1>6. \A t, S : BF!Peers(t, S) = Peers(t, S)
  BY <1>3 DEF BF!Peers, Peers
<1>7. \A t, I, E : BF!Ambiguous(t, I, E) <=> Ambiguous(t, I, E)
  BY <1>6 DEF BF!Ambiguous, Ambiguous
<1>8. \A t, I, E : BF!Verdict(t, I, E) = Verdict(t, I, E)
  <2>1. \A S : BF!OneOf(S) = OneOf(S)
    BY DEF BF!OneOf, OneOf
  <2> SUFFICES ASSUME NEW t, NEW I, NEW E
               PROVE  BF!Verdict(t, I, E) = Verdict(t, I, E)
    OBVIOUS
  <2>2. /\ BF!Peers(t, I) = Peers(t, I) /\ BF!Peers(t, E) = Peers(t, E)
        /\ BF!Ambiguous(t, I, E) <=> Ambiguous(t, I, E)
    BY <1>6, <1>7
  <2>3. BF!ClassifyMatch(OneOf(Peers(t, I)), OneOf(Peers(t, E))) =
          ClassifyMatch(OneOf(Peers(t, I)), OneOf(Peers(t, E)))
    BY <1>5
  <2>4. BF!Duplicate(t) = Duplicate(t) /\ BF!MissingExternal(t) = MissingExternal(t)
        /\ BF!MissingInternal(t) = MissingInternal(t)
    BY <1>4
  <2> QED BY <2>1, <2>2, <2>3, <2>4 DEF BF!Verdict, Verdict
<1>9. \A I, E : BF!Expected(I, E) = Expected(I, E)
  BY <1>8 DEF BF!Expected, Expected
<1>10. \A f : BF!Range(f) = Range(f) /\ (BF!IsInjective(f) <=> IsInjective(f))
  BY DEF BF!Range, Range, BF!IsInjective, IsInjective
<1>11. \A S : BF!Cardinality(S) = Cardinality(S)
  BY DEF BF!Cardinality, Cardinality
<1> QED BY <1>1, <1>2, <1>3, <1>4, <1>5, <1>8, <1>9, <1>10, <1>11

\* The number of places with t's key tells how many records have it, and a
\* single one is where the scan breaks.
LEMMA SharingCounts ==
  ASSUME NEW s \in Seq(Transaction), IsInjective(s), NEW t
  PROVE  /\ Cardinality(BF!Sharing(s, t)) \in Nat
         /\ Cardinality(BF!Sharing(s, t)) > 1 <=> \E u, v \in Peers(t, Range(s)) : u # v
         /\ Cardinality(BF!Sharing(s, t)) = 0 <=> Peers(t, Range(s)) = {}
         /\ Cardinality(BF!Sharing(s, t)) = 1 => Peers(t, Range(s)) = {BF!FirstSharing(s, t)}
<1> DEFINE D == BF!Sharing(s, t)
<1>1. DOMAIN s = 1..Len(s) /\ Len(s) \in Nat
  BY LenProperties
<1>2. D = {k \in 1..Len(s) : BuildKey(s[k]) = BuildKey(t)}
  BY <1>1, BruteForceClassifier DEF BF!Sharing
<1>3. Peers(t, Range(s)) = {s[k] : k \in D}
  BY <1>1, <1>2 DEF Peers, Range
<1>4. BF!FirstSharing(s, t) = s[CHOOSE k \in D : \A l \in D : k <= l]
  BY DEF BF!FirstSharing
<1>5. \A k, l \in D : s[k] = s[l] => k = l
  BY <1>1, <1>2 DEF IsInjective
<1>6. D \subseteq 1..Len(s) /\ D \subseteq Nat
  BY <1>1, <1>2
<1> HIDE DEF D
<1>7. IsFiniteSet(D) /\ Cardinality(D) \in Nat
  <2>1. 1 \in Int /\ Len(s) \in Int
    BY <1>1
  <2>2. IsFiniteSet(1..Len(s))
    BY <2>1, FS_Interval
  <2>3. IsFiniteSet(D)
    BY <1>6, <2>2, FS_Subset
  <2> QED BY <2>3, FS_CardinalityType
<1>8. Cardinality(D) = 0 <=> D = {}
  BY <1>7, FS_EmptySet
<1>9. Cardinality(D) = 1 <=> \E x : D = {x}
  BY <1>7, FS_Singleton
<1>10. Cardinality(D) > 1 <=> \E k, l \in D : k # l
  <2>1. Cardinality(D) > 1 <=> Cardinality(D) # 0 /\ Cardinality(D) # 1
    BY <1>7
  <2>2. (\E k, l \in D : k # l) <=> D # {} /\ ~(\E x : D = {x})
    OBVIOUS
  <2> QED BY <2>1, <2>2, <1>8, <1>9
<1>11. (\E k, l \in D : k # l) <=> \E u, v \in {s[k] : k \in D} : u # v
  <2>1. ASSUME NEW k \in D, NEW l \in D, k # l
        PROVE  \E u, v \in {s[n] : n \in D} : u # v
    <3>1. s[k] # s[l] /\ s[k] \in {s[n] : n \in D} /\ s[l] \in {s[n] : n \in D}
      BY <1>5, <2>1
    <3> QED BY <3>1
  <2>2. ASSUME NEW u \in {s[n] : n \in D}, NEW v \in {s[n] : n \in D}, u # v
        PROVE  \E k, l \in D : k # l
    BY <2>2
  <2> QED BY <2>1, <2>2
<1>12. ASSUME Cardinality(D) = 1
       PROVE  {s[k] : k \in D} = {BF!FirstSharing(s, t)}
  <2>1. PICK x : D = {x}
    BY <1>9, <1>12
  <2>2. x <= x
    BY <1>6, <2>1
  <2>3. (CHOOSE k \in D : \A l \in D : k <= l) = x
    BY <2>1, <2>2
  <2> QED BY <1>4, <2>1, <2>3
<1> QED BY <1>3, <1>7, <1>8, <1>10, <1>11, <1>12 DEF D

\* The counts of an internal and an external record of one key are the same.
LEMMA SharingByKey ==
  ASSUME NEW s, NEW t, NEW u, BuildKey(t) = BuildKey(u)
  PROVE  BF!Sharing(s, t) = BF!Sharing(s, u)
BY BruteForceClassifier DEF BF!Sharing

-----------------------------------------------------------------------------
(* Brute force: the invariant. *)

\* The verdicts on the records of D.
Verdicts(D, I, E) == {Verdict(t, I, E) : t \in D}

LEMMA ListsAreSides ==
  ASSUME internal \in ListsOf("INTERNAL"), external \in ListsOf("EXTERNAL")
  PROVE  /\ internal \in Seq(Transaction) /\ IsInjective(internal)
         /\ external \in Seq(Transaction) /\ IsInjective(external)
         /\ BothSides(Range(internal), Range(external))
<1>1. /\ internal \in Seq(Transaction) /\ IsInjective(internal)
      /\ Range(internal) \subseteq Transaction
      /\ \A t \in Range(internal) : t.source = "INTERNAL"
  BY ListsOfProperties
<1>2. /\ external \in Seq(Transaction) /\ IsInjective(external)
      /\ Range(external) \subseteq Transaction
      /\ \A t \in Range(external) : t.source = "EXTERNAL"
  BY ListsOfProperties
<1> QED BY <1>1, <1>2 DEF BothSides

\* What the invariant says, in the terms of this module.
LEMMA BruteForceHeld ==
  ASSUME BF!IInv
  PROVE  /\ internal \in ListsOf("INTERNAL") /\ external \in ListsOf("EXTERNAL")
         /\ internal \in Seq(Transaction) /\ IsInjective(internal)
         /\ external \in Seq(Transaction) /\ IsInjective(external)
         /\ BothSides(Range(internal), Range(external))
         /\ Len(internal) \in Nat /\ DOMAIN internal = 1..Len(internal)
         /\ Len(external) \in Nat /\ DOMAIN external = 1..Len(external)
         /\ bf_i \in 0..Len(internal) /\ bf_j \in 0..Len(external)
         /\ bf_results \in Seq(ReconciliationResult) /\ IsInjective(bf_results)
         /\ Range(bf_results) = Verdicts(BF!Decided, Range(internal), Range(external))
<1>1. internal \in ListsOf("INTERNAL") /\ external \in ListsOf("EXTERNAL")
  BY BruteForceClassifier DEF BF!IInv, BF!TypeOK
<1>2. /\ internal \in Seq(Transaction) /\ IsInjective(internal)
      /\ external \in Seq(Transaction) /\ IsInjective(external)
      /\ BothSides(Range(internal), Range(external))
  BY <1>1, ListsAreSides
<1>3. /\ Len(internal) \in Nat /\ DOMAIN internal = 1..Len(internal)
      /\ Len(external) \in Nat /\ DOMAIN external = 1..Len(external)
  BY <1>2, LenProperties
<1>4. bf_i \in 0..Len(internal) /\ bf_j \in 0..Len(external)
  BY DEF BF!IInv, BF!TypeOK
<1>5. bf_results \in Seq(ReconciliationResult) /\ IsInjective(bf_results)
  BY BruteForceClassifier DEF BF!IInv, BF!TypeOK, BF!DecidedSoFar
<1>6. Range(bf_results) =
        {BF!Verdict(t, BF!Range(internal), BF!Range(external)) : t \in BF!Decided}
  BY BruteForceClassifier DEF BF!IInv, BF!DecidedSoFar
<1>7. Range(bf_results) = Verdicts(BF!Decided, Range(internal), Range(external))
  BY <1>6, BruteForceClassifier DEF Verdicts
<1> QED BY <1>1, <1>2, <1>3, <1>4, <1>5, <1>7

LEMMA BruteForceInit == BF!Init => BF!IInv
<1> SUFFICES ASSUME BF!Init PROVE BF!IInv
  OBVIOUS
<1>1. internal \in ListsOf("INTERNAL") /\ external \in ListsOf("EXTERNAL")
  BY ListsAssumption DEF BF!Init
<1>2. Len(internal) \in Nat /\ Len(external) \in Nat
  BY <1>1, ListsAreSides, LenProperties
<1>3. <<>> \in Seq(Nat) /\ <<>> \in Seq(ReconciliationResult)
  BY EmptySeq
<1>4. BF!TypeOK
  BY <1>1, <1>2, <1>3, BruteForceClassifier DEF BF!TypeOK, BF!Init
<1>5. BF!CountedSoFar
  BY <1>2 DEF BF!CountedSoFar, BF!Init
<1>6. BF!Decided = {}
  BY DEF BF!Decided, BF!Init
<1>7. BF!Range(bf_results) = {} /\ BF!IsInjective(bf_results)
  BY DEF BF!Init, BF!Range, BF!IsInjective
<1>8. BF!DecidedSoFar
  BY <1>6, <1>7 DEF BF!DecidedSoFar, BF!Init
<1> QED BY <1>4, <1>5, <1>8 DEF BF!IInv

LEMMA CountOneMore ==
  ASSUME NEW counts \in Seq(Nat), NEW c \in Nat
  PROVE  /\ Append(counts, c) \in Seq(Nat)
         /\ Len(counts) \in Nat /\ Len(Append(counts, c)) = Len(counts) + 1
         /\ DOMAIN counts = 1..Len(counts)
         /\ DOMAIN Append(counts, c) = 1..(Len(counts) + 1)
         /\ \A k \in 1..Len(counts) : Append(counts, c)[k] = counts[k]
         /\ Append(counts, c)[Len(counts) + 1] = c
BY AppendProperties, LenProperties

LEMMA CountInternalKeeps ==
  ASSUME BF!IInv, BF!CountInternal
  PROVE  BF!IInv'
<1> DEFINE n == Len(internal_own_count) + 1
           t == internal[n]
           own == Cardinality(BF!Sharing(internal, t))
           cross == Cardinality(BF!Sharing(external, t))
<1>1. /\ bf_pc = "count" /\ bf_pc' = "count" /\ n <= Len(internal)
      /\ internal_own_count' = Append(internal_own_count, own)
      /\ internal_cross_count' = Append(internal_cross_count, cross)
      /\ UNCHANGED <<internal, external, external_own_count, external_cross_count,
                     bf_i, bf_j, bf_results>>
  BY BruteForceClassifier DEF BF!CountInternal, BF!lists
<1>2. own \in Nat /\ cross \in Nat
  BY BruteForceHeld, SharingCounts
<1>3. /\ internal_own_count \in Seq(Nat) /\ internal_cross_count \in Seq(Nat)
      /\ Len(internal_cross_count) = Len(internal_own_count)
      /\ Len(internal) \in Nat
  BY BruteForceHeld DEF BF!IInv, BF!TypeOK, BF!CountedSoFar
<1> HIDE DEF n, t, own, cross
<1>4. /\ internal_own_count' \in Seq(Nat)
      /\ Len(internal_own_count) \in Nat
      /\ Len(internal_own_count') = Len(internal_own_count) + 1
      /\ DOMAIN internal_own_count = 1..Len(internal_own_count)
      /\ DOMAIN internal_own_count' = 1..(Len(internal_own_count) + 1)
      /\ \A k \in 1..Len(internal_own_count) : internal_own_count'[k] = internal_own_count[k]
      /\ internal_own_count'[n] = own
  BY <1>1, <1>2, <1>3, CountOneMore DEF n
<1>5. /\ internal_cross_count' \in Seq(Nat)
      /\ Len(internal_cross_count') = Len(internal_own_count) + 1
      /\ \A k \in 1..Len(internal_own_count) : internal_cross_count'[k] = internal_cross_count[k]
      /\ internal_cross_count'[n] = cross
  BY <1>1, <1>2, <1>3, CountOneMore DEF n
<1>6. BF!TypeOK'
  BY <1>1, <1>4, <1>5 DEF BF!IInv, BF!TypeOK
<1>7. Len(internal_own_count') \in 0..Len(internal)
  BY <1>1, <1>3, <1>4 DEF n
<1>8. ASSUME NEW k \in DOMAIN internal_own_count'
      PROVE  /\ internal_own_count'[k] = Cardinality(BF!Sharing(internal, internal[k]))
             /\ internal_cross_count'[k] = Cardinality(BF!Sharing(external, internal[k]))
  <2>1. k \in DOMAIN internal_own_count \/ k = n
    BY <1>4 DEF n
  <2>2. CASE k \in DOMAIN internal_own_count
    BY <1>4, <1>5, <2>2, BruteForceClassifier DEF BF!IInv, BF!CountedSoFar
  <2>3. CASE k = n
    BY <1>4, <1>5, <2>3 DEF own, cross, t
  <2> QED BY <2>1, <2>2, <2>3
<1>9. BF!CountedSoFar'
  BY <1>1, <1>4, <1>5, <1>7, <1>8, BruteForceClassifier DEF BF!IInv, BF!CountedSoFar
<1>10. BF!DecidedSoFar'
  BY <1>1 DEF BF!IInv, BF!DecidedSoFar, BF!Decided
<1> QED BY <1>6, <1>9, <1>10 DEF BF!IInv

LEMMA CountExternalKeeps ==
  ASSUME BF!IInv, BF!CountExternal
  PROVE  BF!IInv'
<1> DEFINE n == Len(external_own_count) + 1
           t == external[n]
           own == Cardinality(BF!Sharing(external, t))
           cross == Cardinality(BF!Sharing(internal, t))
<1>1. /\ bf_pc = "count" /\ bf_pc' = "count" /\ n <= Len(external)
      /\ external_own_count' = Append(external_own_count, own)
      /\ external_cross_count' = Append(external_cross_count, cross)
      /\ UNCHANGED <<internal, external, internal_own_count, internal_cross_count,
                     bf_i, bf_j, bf_results>>
  BY BruteForceClassifier DEF BF!CountExternal, BF!lists
<1>2. own \in Nat /\ cross \in Nat
  BY BruteForceHeld, SharingCounts
<1>3. /\ external_own_count \in Seq(Nat) /\ external_cross_count \in Seq(Nat)
      /\ Len(external_cross_count) = Len(external_own_count)
      /\ Len(external) \in Nat
  BY BruteForceHeld DEF BF!IInv, BF!TypeOK, BF!CountedSoFar
<1> HIDE DEF n, t, own, cross
<1>4. /\ external_own_count' \in Seq(Nat)
      /\ Len(external_own_count) \in Nat
      /\ Len(external_own_count') = Len(external_own_count) + 1
      /\ DOMAIN external_own_count = 1..Len(external_own_count)
      /\ DOMAIN external_own_count' = 1..(Len(external_own_count) + 1)
      /\ \A k \in 1..Len(external_own_count) : external_own_count'[k] = external_own_count[k]
      /\ external_own_count'[n] = own
  BY <1>1, <1>2, <1>3, CountOneMore DEF n
<1>5. /\ external_cross_count' \in Seq(Nat)
      /\ Len(external_cross_count') = Len(external_own_count) + 1
      /\ \A k \in 1..Len(external_own_count) : external_cross_count'[k] = external_cross_count[k]
      /\ external_cross_count'[n] = cross
  BY <1>1, <1>2, <1>3, CountOneMore DEF n
<1>6. BF!TypeOK'
  BY <1>1, <1>4, <1>5 DEF BF!IInv, BF!TypeOK
<1>7. Len(external_own_count') \in 0..Len(external)
  BY <1>1, <1>3, <1>4 DEF n
<1>8. ASSUME NEW k \in DOMAIN external_own_count'
      PROVE  /\ external_own_count'[k] = Cardinality(BF!Sharing(external, external[k]))
             /\ external_cross_count'[k] = Cardinality(BF!Sharing(internal, external[k]))
  <2>1. k \in DOMAIN external_own_count \/ k = n
    BY <1>4 DEF n
  <2>2. CASE k \in DOMAIN external_own_count
    BY <1>4, <1>5, <2>2, BruteForceClassifier DEF BF!IInv, BF!CountedSoFar
  <2>3. CASE k = n
    BY <1>4, <1>5, <2>3 DEF own, cross, t
  <2> QED BY <2>1, <2>2, <2>3
<1>9. BF!CountedSoFar'
  BY <1>1, <1>4, <1>5, <1>7, <1>8, BruteForceClassifier DEF BF!IInv, BF!CountedSoFar
<1>10. BF!DecidedSoFar'
  BY <1>1 DEF BF!IInv, BF!DecidedSoFar, BF!Decided
<1> QED BY <1>6, <1>9, <1>10 DEF BF!IInv

LEMMA EndCountingKeeps ==
  ASSUME BF!IInv, BF!EndCounting
  PROVE  BF!IInv'
<1>1. /\ bf_pc = "count" /\ bf_pc' = "decide"
      /\ Len(internal_own_count) = Len(internal) /\ Len(external_own_count) = Len(external)
      /\ UNCHANGED <<internal, external, internal_own_count, internal_cross_count,
                     external_own_count, external_cross_count, bf_i, bf_j, bf_results>>
  BY DEF BF!EndCounting, BF!lists, BF!counts
<1>2. BF!TypeOK'
  BY <1>1 DEF BF!IInv, BF!TypeOK
<1>3. BF!CountedSoFar'
  BY <1>1 DEF BF!IInv, BF!CountedSoFar
<1>4. BF!DecidedSoFar'
  BY <1>1 DEF BF!IInv, BF!DecidedSoFar, BF!Decided
<1> QED BY <1>2, <1>3, <1>4 DEF BF!IInv

\* One more verdict that has not been given.
LEMMA OneMoreVerdict ==
  ASSUME NEW I, NEW E, NEW D, NEW u, NEW r \in ReconciliationResult, r = Verdict(u, I, E),
         NEW out \in Seq(ReconciliationResult), IsInjective(out), Range(out) = Verdicts(D, I, E),
         r \notin Range(out)
  PROVE  /\ Append(out, r) \in Seq(ReconciliationResult) /\ IsInjective(Append(out, r))
         /\ Range(Append(out, r)) = Verdicts(D \union {u}, I, E)
<1> DEFINE one == <<r>>
<1>1. one \in Seq(ReconciliationResult) /\ IsInjective(one) /\ Range(one) = {r}
  BY Singleton
<1>2. out \o <<r>> = Append(out, r)
  BY AppendIsConcat
<1>3. Verdicts(D \union {u}, I, E) = Range(out) \union {r}
  BY DEF Verdicts
<1>4. Range(out) \intersect Range(one) = {}
  BY <1>1
<1> HIDE DEF one
<1>5. /\ out \o one \in Seq(ReconciliationResult) /\ IsInjective(out \o one)
      /\ Range(out \o one) = Range(out) \union Range(one)
  BY <1>1, <1>4, InjectiveConcat
<1> QED BY <1>1, <1>2, <1>3, <1>5 DEF one

\* What the counts of a record say about its verdict.
LEMMA CountsTell ==
  ASSUME BF!IInv, bf_pc # "count"
  PROVE  /\ \A k \in DOMAIN internal :
              /\ internal_own_count[k] = Cardinality(BF!Sharing(internal, internal[k]))
              /\ internal_cross_count[k] = Cardinality(BF!Sharing(external, internal[k]))
         /\ \A k \in DOMAIN external :
              /\ external_own_count[k] = Cardinality(BF!Sharing(external, external[k]))
              /\ external_cross_count[k] = Cardinality(BF!Sharing(internal, external[k]))
<1>1. /\ internal_own_count \in Seq(Nat) /\ external_own_count \in Seq(Nat)
      /\ Len(internal_own_count) = Len(internal) /\ Len(external_own_count) = Len(external)
  BY DEF BF!IInv, BF!TypeOK, BF!CountedSoFar
<1>2. DOMAIN internal_own_count = DOMAIN internal /\ DOMAIN external_own_count = DOMAIN external
  BY <1>1, BruteForceHeld, LenProperties
<1> QED BY <1>2, BruteForceClassifier DEF BF!IInv, BF!CountedSoFar

LEMMA VerdictFromCounts ==
  ASSUME BF!IInv, NEW t,
         NEW m, m = Cardinality(BF!Sharing(internal, t)),
         NEW n, n = Cardinality(BF!Sharing(external, t))
  PROVE  LET I == Range(internal)
             E == Range(external)
         IN /\ m \in Nat /\ n \in Nat
            /\ m > 1 \/ n > 1 => Verdict(t, I, E) = Duplicate(t)
            /\ ~(m > 1 \/ n > 1) /\ n = 0 => Verdict(t, I, E) = MissingExternal(t)
            /\ ~(m > 1 \/ n > 1) /\ n # 0 /\ m = 0 => Verdict(t, I, E) = MissingInternal(t)
            /\ ~(m > 1 \/ n > 1) /\ n # 0 /\ m # 0 =>
                 Verdict(t, I, E) = ClassifyMatch(BF!FirstSharing(internal, t), BF!FirstSharing(external, t))
<1> DEFINE I == Range(internal)
           E == Range(external)
           f == BF!FirstSharing(internal, t)
           g == BF!FirstSharing(external, t)
<1>1. /\ m \in Nat
      /\ m > 1 <=> \E u, v \in Peers(t, I) : u # v
      /\ m = 0 <=> Peers(t, I) = {}
      /\ m = 1 => Peers(t, I) = {f}
  BY BruteForceHeld, SharingCounts
<1>2. /\ n \in Nat
      /\ n > 1 <=> \E u, v \in Peers(t, E) : u # v
      /\ n = 0 <=> Peers(t, E) = {}
      /\ n = 1 => Peers(t, E) = {g}
  BY BruteForceHeld, SharingCounts
<1> HIDE DEF f, g, I, E
<1>3. Ambiguous(t, I, E) <=> m > 1 \/ n > 1
  BY <1>1, <1>2 DEF Ambiguous
<1>4. ~(m > 1) /\ m # 0 => m = 1
  BY <1>1
<1>5. ~(n > 1) /\ n # 0 => n = 1
  BY <1>2
<1>6. m = 1 => OneOf(Peers(t, I)) = f
  BY <1>1 DEF OneOf
<1>7. n = 1 => OneOf(Peers(t, E)) = g
  BY <1>2 DEF OneOf
<1>8. m > 1 \/ n > 1 => Verdict(t, I, E) = Duplicate(t)
  BY <1>3 DEF Verdict
<1>9. ~(m > 1 \/ n > 1) /\ n = 0 => Verdict(t, I, E) = MissingExternal(t)
  BY <1>2, <1>3 DEF Verdict
<1>10. ~(m > 1 \/ n > 1) /\ n # 0 /\ m = 0 => Verdict(t, I, E) = MissingInternal(t)
  BY <1>1, <1>2, <1>3 DEF Verdict
<1>11. ~(m > 1 \/ n > 1) /\ n # 0 /\ m # 0 => Verdict(t, I, E) = ClassifyMatch(f, g)
  BY <1>1, <1>2, <1>3, <1>4, <1>5, <1>6, <1>7 DEF Verdict
<1> QED BY <1>1, <1>2, <1>8, <1>9, <1>10, <1>11 DEF f, g, I, E

LEMMA DecideInternalKeeps ==
  ASSUME BF!IInv, BF!DecideInternal
  PROVE  BF!IInv'
<1> DEFINE n == bf_i + 1
           t == internal[n]
           I == Range(internal)
           E == Range(external)
           own == internal_own_count[n]
           cross == internal_cross_count[n]
           x == IF own > 1 \/ cross > 1 THEN Duplicate(t)
                ELSE IF cross = 1 THEN ClassifyMatch(t, BF!FirstSharing(external, t))
                ELSE MissingExternal(t)
<1>1. /\ bf_pc = "decide" /\ bf_pc' = "decide" /\ bf_i < Len(internal) /\ bf_i' = n
      /\ UNCHANGED <<internal, external, internal_own_count, internal_cross_count,
                     external_own_count, external_cross_count, bf_j>>
  BY DEF BF!DecideInternal, BF!lists, BF!counts
<1>2. bf_results' = Append(bf_results, x)
  BY BruteForceClassifier DEF BF!DecideInternal
<1>3. /\ n \in 1..Len(internal) /\ n \in DOMAIN internal /\ bf_i \in Nat /\ bf_j \in Nat
      /\ ~(bf_j > 0)
  BY <1>1, BruteForceHeld DEF BF!IInv, BF!DecidedSoFar
<1>4. bf_j = 0
  BY <1>3
<1>5. t \in I /\ BothSides(I, E)
  BY <1>3, BruteForceHeld DEF Range
<1>6. /\ own = Cardinality(BF!Sharing(internal, t))
      /\ cross = Cardinality(BF!Sharing(external, t))
  BY <1>1, <1>3, CountsTell
<1> HIDE DEF n, own, cross
<1>7. x = Verdict(t, I, E)
  <2> DEFINE f == BF!FirstSharing(internal, t)
             g == BF!FirstSharing(external, t)
  <2>1. /\ own \in Nat /\ cross \in Nat
        /\ own > 1 \/ cross > 1 => Verdict(t, I, E) = Duplicate(t)
        /\ ~(own > 1 \/ cross > 1) /\ cross = 0 => Verdict(t, I, E) = MissingExternal(t)
        /\ ~(own > 1 \/ cross > 1) /\ cross # 0 /\ own # 0 =>
             Verdict(t, I, E) = ClassifyMatch(f, g)
    BY <1>6, VerdictFromCounts
  <2>2. (own = 0 <=> Peers(t, I) = {}) /\ (own = 1 => Peers(t, I) = {f})
    BY <1>6, BruteForceHeld, SharingCounts
  <2>3. t \in Peers(t, I)
    BY <1>5 DEF Peers
  <2> HIDE DEF t, I, E, f, g
  <2>4. own # 0 /\ (own = 1 => f = t)
    BY <2>2, <2>3
  <2>5. ~(own > 1) => own = 1
    BY <2>1, <2>4
  <2>6. ~(cross > 1) => cross = 0 \/ cross = 1
    BY <2>1
  <2>7. CASE own > 1 \/ cross > 1
    BY <2>1, <2>7
  <2>8. CASE ~(own > 1 \/ cross > 1) /\ cross = 0
    BY <2>1, <2>8
  <2>9. CASE ~(own > 1 \/ cross > 1) /\ cross = 1
    <3>1. Verdict(t, I, E) = ClassifyMatch(t, g)
      BY <2>1, <2>4, <2>5, <2>9
    <3> QED BY <3>1, <2>9 DEF g
  <2> QED BY <2>6, <2>7, <2>8, <2>9
<1> HIDE DEF x
<1>8. BF!Decided' = BF!Decided \union {t}
  <2>1. 1..n = 1..bf_i \union {n}
    BY <1>3 DEF n
  <2>2. BF!Decided = {internal[k] : k \in 1..bf_i} \union {external[k] : k \in 1..bf_j}
    BY DEF BF!Decided
  <2>3. BF!Decided' = {internal[k] : k \in 1..n} \union {external[k] : k \in 1..bf_j}
    BY <1>1 DEF BF!Decided
  <2> QED BY <2>1, <2>2, <2>3
<1>9. Verdict(t, I, E) \notin Range(bf_results)
  <2> SUFFICES ASSUME NEW u \in BF!Decided, Verdict(u, I, E) = Verdict(t, I, E)
               PROVE  FALSE
    BY BruteForceHeld DEF Verdicts
  <2>1. PICK k \in 1..bf_i : u = internal[k]
    BY <1>4 DEF BF!Decided
  <2>2. k \in DOMAIN internal /\ k # n
    BY <1>3, <2>1, BruteForceHeld DEF n
  <2>3. u \in I
    BY <2>1, <2>2 DEF Range
  <2>4. u = t
    BY <1>5, <2>3, VerdictTells
  <2> QED BY <1>3, <2>1, <2>2, <2>4, BruteForceHeld DEF IsInjective
<1>10. /\ bf_results' \in Seq(ReconciliationResult) /\ IsInjective(bf_results')
       /\ Range(bf_results') = Verdicts(BF!Decided', I, E)
  <2>1. Verdict(t, I, E) \in ReconciliationResult
    BY <1>5, VerdictTells
  <2> HIDE DEF t, I, E
  <2>2. bf_results \in Seq(ReconciliationResult) /\ IsInjective(bf_results)
        /\ Range(bf_results) = Verdicts(BF!Decided, I, E)
    BY BruteForceHeld DEF I, E
  <2>3. x \in ReconciliationResult /\ x = Verdict(t, I, E) /\ x \notin Range(bf_results)
    BY <1>7, <1>9, <2>1
  <2>4. /\ Append(bf_results, x) \in Seq(ReconciliationResult)
        /\ IsInjective(Append(bf_results, x))
        /\ Range(Append(bf_results, x)) = Verdicts(BF!Decided \union {t}, I, E)
    BY <2>2, <2>3, OneMoreVerdict
  <2> QED BY <1>2, <1>8, <2>4
<1>11. BF!TypeOK'
  <2>1. BF!TypeOK
    BY DEF BF!IInv
  <2>2. bf_results' \in Seq(BF!ReconciliationResult)
    BY <1>10, BruteForceClassifier
  <2>3. bf_i' \in 0..Len(internal)
    BY <1>1, <1>3
  <2> QED BY <1>1, <2>1, <2>2, <2>3 DEF BF!TypeOK
<1>12. BF!CountedSoFar'
  BY <1>1 DEF BF!IInv, BF!CountedSoFar
<1>13. BF!DecidedSoFar'
  <2>1. /\ BF!IsInjective(bf_results')
        /\ BF!Range(bf_results') =
             {BF!Verdict(u, BF!Range(internal), BF!Range(external)) : u \in BF!Decided'}
    BY <1>10, BruteForceClassifier DEF Verdicts
  <2> QED BY <1>1, <1>4, <2>1 DEF BF!DecidedSoFar
<1> QED BY <1>11, <1>12, <1>13 DEF BF!IInv

LEMMA DecideExternalKeeps ==
  ASSUME BF!IInv, BF!DecideExternal
  PROVE  BF!IInv'
<1> DEFINE n == bf_j + 1
           t == external[n]
           I == Range(internal)
           E == Range(external)
           own == external_own_count[n]
           cross == external_cross_count[n]
           said == Range(bf_results)
<1>1. /\ bf_pc = "decide" /\ bf_pc' = "decide" /\ bf_i = Len(internal)
      /\ bf_j < Len(external) /\ bf_j' = n
      /\ UNCHANGED <<internal, external, internal_own_count, internal_cross_count,
                     external_own_count, external_cross_count, bf_i>>
  BY DEF BF!DecideExternal, BF!lists, BF!counts
<1>2. bf_results' = bf_results \o (IF own > 1 \/ cross > 1 THEN <<Duplicate(t)>>
                                   ELSE IF cross = 0 THEN <<MissingInternal(t)>>
                                   ELSE <<>>)
  BY BruteForceClassifier DEF BF!DecideExternal
<1>3. n \in 1..Len(external) /\ n \in DOMAIN external /\ bf_j \in Nat
  BY <1>1, BruteForceHeld
<1>4. t \in E /\ BothSides(I, E)
  BY <1>3, BruteForceHeld DEF Range
<1>5. /\ own = Cardinality(BF!Sharing(external, t))
      /\ cross = Cardinality(BF!Sharing(internal, t))
  BY <1>1, <1>3, CountsTell
<1> DEFINE f == BF!FirstSharing(internal, t)
           g == BF!FirstSharing(external, t)
<1> HIDE DEF n, own, cross
<1>6. /\ own \in Nat /\ cross \in Nat
      /\ own > 1 \/ cross > 1 => Verdict(t, I, E) = Duplicate(t)
      /\ ~(own > 1 \/ cross > 1) /\ own # 0 /\ cross = 0 => Verdict(t, I, E) = MissingInternal(t)
      /\ ~(own > 1 \/ cross > 1) /\ own # 0 /\ cross # 0 => Verdict(t, I, E) = ClassifyMatch(f, g)
  BY <1>5, VerdictFromCounts
<1>7. own # 0
  <2>1. own = 0 <=> Peers(t, E) = {}
    BY <1>5, BruteForceHeld, SharingCounts
  <2>2. t \in Peers(t, E)
    BY <1>4 DEF Peers
  <2> QED BY <2>1, <2>2
<1>8. /\ bf_results \in Seq(ReconciliationResult) /\ IsInjective(bf_results)
      /\ said = Verdicts(BF!Decided, I, E)
  BY BruteForceHeld
<1>9. BF!Decided' = BF!Decided \union {t} /\ I \subseteq BF!Decided
  <2>1. 1..n = 1..bf_j \union {n}
    BY <1>3 DEF n
  <2>2. BF!Decided = {internal[k] : k \in 1..bf_i} \union {external[k] : k \in 1..bf_j}
    BY DEF BF!Decided
  <2>3. BF!Decided' = {internal[k] : k \in 1..bf_i} \union {external[k] : k \in 1..n}
    BY <1>1 DEF BF!Decided
  <2>4. I = {internal[k] : k \in 1..bf_i}
    BY <1>1, BruteForceHeld DEF Range
  <2> QED BY <2>1, <2>2, <2>3, <2>4
<1>10. ASSUME NEW r \in ReconciliationResult, r = Verdict(t, I, E),
              r.internal_transaction = None, bf_results' = Append(bf_results, r)
       PROVE  /\ bf_results' \in Seq(ReconciliationResult) /\ IsInjective(bf_results')
              /\ Range(bf_results') = Verdicts(BF!Decided', I, E)
  <2>1. ASSUME NEW u \in BF!Decided, Verdict(u, I, E) = r
        PROVE  FALSE
    <3>1. CASE u \in I
      <4>1. r.internal_transaction = u
        BY <1>4, <2>1, <3>1, VerdictTells
      <4>2. u # None
        BY <1>4, <3>1, SidesAreDisjoint
      <4> QED BY <1>10, <4>1, <4>2
    <3>2. CASE u \in {external[k] : k \in 1..bf_j}
      <4>1. PICK k \in 1..bf_j : u = external[k]
        BY <3>2
      <4>2. k \in DOMAIN external /\ k # n
        BY <1>3, <4>1, BruteForceHeld DEF n
      <4>3. u \in E
        BY <4>1, <4>2 DEF Range
      <4>4. u = t
        BY <1>4, <1>10, <2>1, <4>3, VerdictTells
      <4> QED BY <1>3, <4>1, <4>2, <4>4, BruteForceHeld DEF IsInjective
    <3>3. u \in I \/ u \in {external[k] : k \in 1..bf_j}
      BY <1>1, <2>1, BruteForceHeld DEF BF!Decided, Range
    <3> QED BY <3>1, <3>2, <3>3
  <2>2. r \notin said
    BY <1>8, <2>1 DEF Verdicts
  <2> HIDE DEF I, E, t
  <2>3. r \in ReconciliationResult /\ r = Verdict(t, I, E)
    BY <1>10
  <2>4. bf_results \in Seq(ReconciliationResult) /\ IsInjective(bf_results)
    BY <1>8
  <2>5. Range(bf_results) = Verdicts(BF!Decided, I, E) /\ r \notin Range(bf_results)
    BY <1>8, <2>2
  <2>6. /\ Append(bf_results, r) \in Seq(ReconciliationResult)
        /\ IsInjective(Append(bf_results, r))
        /\ Range(Append(bf_results, r)) = Verdicts(BF!Decided \union {t}, I, E)
    BY <2>3, <2>4, <2>5, OneMoreVerdict
  <2> QED BY <1>9, <1>10, <2>6
<1>11. /\ bf_results' \in Seq(ReconciliationResult) /\ IsInjective(bf_results')
       /\ Range(bf_results') = Verdicts(BF!Decided', I, E)
  <2>1. CASE own > 1 \/ cross > 1
    <3>1. Verdict(t, I, E) = Duplicate(t) /\ t # None
      BY <1>4, <1>6, <2>1, SidesAreDisjoint
    <3>2. Duplicate(t) \in ReconciliationResult
      BY <1>4, <3>1, VerdictTells
    <3>3. Duplicate(t).internal_transaction = None
      BY <1>4 DEF Duplicate, BothSides
    <3>4. bf_results' = Append(bf_results, Duplicate(t))
      BY <1>2, <1>8, <2>1, <3>2, AppendIsConcat
    <3> QED BY <1>10, <3>1, <3>2, <3>3, <3>4
  <2>2. CASE ~(own > 1 \/ cross > 1) /\ cross = 0
    <3>1. Verdict(t, I, E) = MissingInternal(t)
      BY <1>6, <1>7, <2>2
    <3>2. MissingInternal(t) \in ReconciliationResult
      BY <1>4, <3>1, VerdictTells
    <3>3. MissingInternal(t).internal_transaction = None
      BY DEF MissingInternal
    <3>4. bf_results' = Append(bf_results, MissingInternal(t))
      BY <1>2, <1>8, <2>2, <3>2, AppendIsConcat
    <3> QED BY <1>10, <3>1, <3>2, <3>3, <3>4
  <2>3. CASE ~(own > 1 \/ cross > 1) /\ cross # 0
    <3>1. bf_results' = bf_results
      BY <1>2, <1>8, <2>3, ConcatEmptySeq
    <3>2. Verdict(t, I, E) = ClassifyMatch(f, g)
      BY <1>6, <1>7, <2>3
    <3>3. cross = 1
      BY <1>6, <2>3
    <3>4. f \in I
      <4>1. Peers(t, I) = {f}
        BY <1>5, <3>3, BruteForceHeld, SharingCounts
      <4> QED BY <4>1 DEF Peers
    <3>5. Tells(Verdict(t, I, E), f)
      <4> HIDE DEF f, g, t, I, E
      <4> QED BY <3>2 DEF Tells, ClassifyMatch
    <3>6. Verdict(t, I, E) = Verdict(f, I, E)
      <4> HIDE DEF f, g, t, I, E
      <4> QED BY <1>4, <3>4, <3>5, VerdictIsOwn
    <3>7. Verdicts(BF!Decided', I, E) = said
      <4> HIDE DEF f, g, t, I, E
      <4> QED BY <1>8, <1>9, <3>4, <3>6 DEF Verdicts
    <3> QED BY <1>8, <3>1, <3>7
  <2> QED BY <2>1, <2>2, <2>3
<1>12. BF!TypeOK'
  <2>1. BF!TypeOK
    BY DEF BF!IInv
  <2>2. bf_results' \in Seq(BF!ReconciliationResult)
    BY <1>11, BruteForceClassifier
  <2>3. bf_j' \in 0..Len(external)
    BY <1>1, <1>3
  <2> QED BY <1>1, <2>1, <2>2, <2>3 DEF BF!TypeOK
<1>13. BF!CountedSoFar'
  BY <1>1 DEF BF!IInv, BF!CountedSoFar
<1>14. BF!DecidedSoFar'
  <2>1. /\ BF!IsInjective(bf_results')
        /\ BF!Range(bf_results') =
             {BF!Verdict(u, BF!Range(internal), BF!Range(external)) : u \in BF!Decided'}
    BY <1>11, BruteForceClassifier DEF Verdicts
  <2> QED BY <1>1, <2>1 DEF BF!DecidedSoFar
<1> QED BY <1>12, <1>13, <1>14 DEF BF!IInv

LEMMA BruteForceReturnKeeps ==
  ASSUME BF!IInv, BF!Return
  PROVE  BF!IInv'
<1>1. /\ bf_pc = "decide" /\ bf_pc' = "done" /\ bf_i = Len(internal) /\ bf_j = Len(external)
      /\ UNCHANGED <<internal, external, internal_own_count, internal_cross_count,
                     external_own_count, external_cross_count, bf_i, bf_j, bf_results>>
  BY DEF BF!Return, BF!lists, BF!counts
<1>2. BF!TypeOK'
  BY <1>1 DEF BF!IInv, BF!TypeOK
<1>3. BF!CountedSoFar'
  BY <1>1 DEF BF!IInv, BF!CountedSoFar
<1>4. BF!DecidedSoFar'
  BY <1>1 DEF BF!IInv, BF!DecidedSoFar, BF!Decided
<1> QED BY <1>2, <1>3, <1>4 DEF BF!IInv

LEMMA BruteForceStep == BF!IInv /\ [BF!Next]_(BF!vars) => BF!IInv'
<1> SUFFICES ASSUME BF!IInv, [BF!Next]_(BF!vars)
             PROVE  BF!IInv'
  OBVIOUS
<1>1. CASE UNCHANGED BF!vars
  <2>1. UNCHANGED <<internal, external, internal_own_count, internal_cross_count,
                    external_own_count, external_cross_count, bf_i, bf_j, bf_results, bf_pc>>
    BY <1>1 DEF BF!vars, BF!lists, BF!counts
  <2>2. BF!TypeOK'
    BY <2>1 DEF BF!IInv, BF!TypeOK
  <2>3. BF!CountedSoFar'
    BY <2>1 DEF BF!IInv, BF!CountedSoFar
  <2>4. BF!DecidedSoFar'
    BY <2>1 DEF BF!IInv, BF!DecidedSoFar, BF!Decided
  <2> QED BY <2>2, <2>3, <2>4 DEF BF!IInv
<1>2. CASE BF!CountInternal BY <1>2, CountInternalKeeps
<1>3. CASE BF!CountExternal BY <1>3, CountExternalKeeps
<1>4. CASE BF!EndCounting BY <1>4, EndCountingKeeps
<1>5. CASE BF!DecideInternal BY <1>5, DecideInternalKeeps
<1>6. CASE BF!DecideExternal BY <1>6, DecideExternalKeeps
<1>7. CASE BF!Return BY <1>7, BruteForceReturnKeeps
<1> QED BY <1>1, <1>2, <1>3, <1>4, <1>5, <1>6, <1>7 DEF BF!Next, BF!Step, BF!Terminated

\* The invariant of brute force holds at every step of the three algorithms.
LEMMA BruteForceInvariance == RunsSpec => []BF!IInv
BY BruteForceInit, BruteForceStep, OwnSteps, PTL DEF BF!Spec

\* What the two loops of brute force decide from agrees
\* (brute_force_reconciler.py:83-87): a pair is left out by the second loop
\* exactly when the first has reported it.
THEOREM CountsAgreeAlways == RunsSpec => []CountsAgree
<1>1. ASSUME BF!IInv
      PROVE  CountsAgree
  <2> SUFFICES ASSUME bf_pc # "count", NEW k \in DOMAIN internal, NEW l \in DOMAIN external,
                      BF!BuildKey(internal[k]) = BF!BuildKey(external[l])
               PROVE  /\ internal_own_count[k] = external_cross_count[l]
                      /\ internal_cross_count[k] = external_own_count[l]
    BY DEF CountsAgree, BF!CountsAgree
  <2>1. BuildKey(internal[k]) = BuildKey(external[l])
    BY BruteForceClassifier
  <2>2. /\ BF!Sharing(internal, internal[k]) = BF!Sharing(internal, external[l])
        /\ BF!Sharing(external, internal[k]) = BF!Sharing(external, external[l])
    BY <2>1, SharingByKey
  <2> QED BY <1>1, <2>2, CountsTell
<1> QED BY <1>1, BruteForceInvariance, PTL

\* When brute force returns, its results are the expected ones.
LEMMA BruteForceIsExpected ==
  ASSUME BF!IInv, bf_i = Len(internal), bf_j = Len(external)
  PROVE  /\ bf_results \in Seq(ReconciliationResult) /\ IsInjective(bf_results)
         /\ Range(bf_results) = Expected(Range(internal), Range(external))
<1>1. BF!Decided = Range(internal) \union Range(external)
  BY BruteForceHeld DEF BF!Decided, Range
<1> QED BY <1>1, BruteForceHeld DEF Verdicts, Expected

\* The nested loops of brute force implement Reconciliation.
LEMMA BruteForceImplements == RunsSpec => BF!ImplementsReconciliation
<1>1. BF!Init => BF!R!Init
  BY DEF BF!Init, BF!R!Init, BF!Outcome
<1>2. BF!IInv /\ [BF!Next]_(BF!vars) => [BF!R!Next]_(BF!R!vars)
  <2> SUFFICES ASSUME BF!IInv, [BF!Next]_(BF!vars)
               PROVE  [BF!R!Next]_(BF!R!vars)
    OBVIOUS
  <2>1. CASE UNCHANGED BF!vars
    BY <2>1 DEF BF!vars, BF!lists, BF!R!vars, BF!Outcome
  <2>2. CASE BF!CountInternal \/ BF!CountExternal \/ BF!EndCounting
             \/ BF!DecideInternal \/ BF!DecideExternal
    <3>1. UNCHANGED <<internal, external>> /\ bf_pc # "done" /\ bf_pc' # "done"
      BY <2>2 DEF BF!CountInternal, BF!CountExternal, BF!EndCounting, BF!DecideInternal,
                  BF!DecideExternal, BF!lists
    <3> QED BY <3>1 DEF BF!R!vars, BF!Outcome
  <2>3. CASE BF!Return
    <3>1. /\ BF!Outcome = None /\ BF!Outcome' = bf_results
          /\ UNCHANGED <<internal, external>>
      BY <2>3 DEF BF!Return, BF!Outcome, BF!lists
    <3>2. /\ bf_results \in Seq(ReconciliationResult) /\ IsInjective(bf_results)
          /\ Range(bf_results) = Expected(Range(internal), Range(external))
      BY <2>3, BruteForceIsExpected DEF BF!Return
    <3>3. bf_results \in Seq(Range(bf_results))
      BY <3>2, SeqOfRange
    <3>4. BF!R!Enumerates(bf_results, BF!Expected(BF!Range(internal), BF!Range(external)))
      BY <3>2, <3>3, BruteForceClassifier
      DEF BF!R!Enumerates, BF!R!Range, BF!R!IsInjective, Range, IsInjective
    <3>5. BF!R!Reconcile
      BY <3>1, <3>4 DEF BF!R!Reconcile, BF!R!Range, BF!Range
    <3> QED BY <3>5 DEF BF!R!Next
  <2> QED BY <2>1, <2>2, <2>3 DEF BF!Next, BF!Step, BF!Terminated
<1> QED BY <1>1, <1>2, BruteForceInvariance, OwnSteps, PTL
        DEF BF!Spec, BF!ImplementsReconciliation, BF!R!Spec

-----------------------------------------------------------------------------
(* Two pointers: the order of the keys. *)

\* Every set of natural numbers has a least element.
LEMMA LeastNumber ==
  ASSUME NEW T, T \subseteq Nat, T # {}
  PROVE  \E m \in T : \A n \in T : m <= n
<1> DEFINE less == OpToRel(<, Nat)
<1>1. IsWellFoundedOn(less, Nat)
  BY NatLessThanWellFounded
<1>2. \A m, n \in Nat : m < n => <<m, n>> \in less
  BY DEF OpToRel
<1> HIDE DEF less
<1>3. PICK m \in T : \A n \in T : ~(<<n, m>> \in less)
  BY <1>1, WFMin
<1>4. ASSUME NEW n \in T
      PROVE  m <= n
  <2>1. m \in Nat /\ n \in Nat /\ ~(n < m)
    BY <1>2, <1>3
  <2> QED BY <2>1
<1> QED BY <1>4

LEMMA TextLTIrreflexive ==
  ASSUME NEW a \in Seq(Nat)
  PROVE  ~TP!TextLT(a, a)
<1> SUFFICES ASSUME NEW n \in 0..Len(a), n < Len(a), a[n + 1] < a[n + 1]
             PROVE  FALSE
  BY DEF TP!TextLT
<1>1. Len(a) \in Nat
  BY LenProperties
<1>2. n + 1 \in 1..Len(a)
  BY <1>1
<1>3. a[n + 1] \in Nat
  BY <1>2, ElementOfSeq
<1> QED BY <1>3

LEMMA TextLTTransitive ==
  ASSUME NEW a \in Seq(Nat), NEW b \in Seq(Nat), NEW c \in Seq(Nat),
         TP!TextLT(a, b), TP!TextLT(b, c)
  PROVE  TP!TextLT(a, c)
<1>1. PICK m \in 0..Len(a) :
        m < Len(b) /\ (\A k \in 1..m : a[k] = b[k]) /\ (m < Len(a) => a[m + 1] < b[m + 1])
  BY DEF TP!TextLT
<1>2. PICK n \in 0..Len(b) :
        n < Len(c) /\ (\A k \in 1..n : b[k] = c[k]) /\ (n < Len(b) => b[n + 1] < c[n + 1])
  BY DEF TP!TextLT
<1>3. /\ Len(a) \in Nat /\ Len(b) \in Nat /\ Len(c) \in Nat
      /\ \A k \in 1..Len(a) : a[k] \in Nat
      /\ \A k \in 1..Len(b) : b[k] \in Nat
      /\ \A k \in 1..Len(c) : c[k] \in Nat
  BY LenProperties, ElementOfSeq
<1>4. m \in Nat /\ n \in Nat
  BY <1>1, <1>2, <1>3
<1>5. CASE m < n
  <2>1. m < Len(c) /\ m \in 0..Len(a)
    BY <1>1, <1>2, <1>3, <1>4, <1>5
  <2>2. \A k \in 1..m : a[k] = c[k]
    BY <1>1, <1>2, <1>4, <1>5
  <2>3. m + 1 \in 1..n
    BY <1>4, <1>5
  <2>4. m < Len(a) => a[m + 1] < c[m + 1]
    BY <1>1, <1>2, <2>3
  <2> QED BY <2>1, <2>2, <2>4 DEF TP!TextLT
<1>6. CASE m = n
  <2>1. m < Len(c) /\ m \in 0..Len(a)
    BY <1>1, <1>2, <1>6
  <2>2. \A k \in 1..m : a[k] = c[k]
    BY <1>1, <1>2, <1>6
  <2>3. m < Len(a) => a[m + 1] < c[m + 1]
    <3>1. SUFFICES ASSUME m < Len(a) PROVE a[m + 1] < c[m + 1]
      OBVIOUS
    <3>2. m + 1 \in 1..Len(a) /\ m + 1 \in 1..Len(b) /\ m + 1 \in 1..Len(c)
      BY <1>1, <1>3, <1>4, <2>1, <3>1
    <3>3. a[m + 1] \in Nat /\ b[m + 1] \in Nat /\ c[m + 1] \in Nat
      BY <1>3, <3>2
    <3>4. a[m + 1] < b[m + 1] /\ b[m + 1] < c[m + 1]
      BY <1>1, <1>2, <1>6, <3>1
    <3> QED BY <3>3, <3>4
  <2> QED BY <2>1, <2>2, <2>3 DEF TP!TextLT
<1>7. CASE n < m
  <2>1. n < Len(c) /\ n \in 0..Len(a) /\ n < Len(b)
    BY <1>1, <1>2, <1>3, <1>4, <1>7
  <2>2. \A k \in 1..n : a[k] = c[k]
    BY <1>1, <1>2, <1>4, <1>7
  <2>3. n + 1 \in 1..m
    BY <1>4, <1>7
  <2>4. a[n + 1] < c[n + 1]
    BY <1>1, <1>2, <2>1, <2>3
  <2> QED BY <2>1, <2>2, <2>4 DEF TP!TextLT
<1>8. m < n \/ m = n \/ n < m
  BY <1>4
<1> QED BY <1>5, <1>6, <1>7, <1>8

LEMMA TextLTTotal ==
  ASSUME NEW a \in Seq(Nat), NEW b \in Seq(Nat), ~TP!TextLT(a, b), ~TP!TextLT(b, a)
  PROVE  a = b
<1> DEFINE T == {k \in 1..Len(a) : k <= Len(b) /\ a[k] # b[k]}
<1>1. /\ Len(a) \in Nat /\ Len(b) \in Nat
      /\ \A k \in 1..Len(a) : a[k] \in Nat
      /\ \A k \in 1..Len(b) : b[k] \in Nat
  BY LenProperties, ElementOfSeq
<1>2. ASSUME T # {}
      PROVE  FALSE
  <2>1. T \subseteq Nat
    BY <1>1
  <2>2. PICK m \in T : \A n \in T : m <= n
    BY <1>2, <2>1, LeastNumber
  <2> DEFINE n == m - 1
  <2>3. /\ m \in 1..Len(a) /\ m \in 1..Len(b) /\ m \in Nat /\ a[m] # b[m]
    BY <1>1, <2>2
  <2>4. /\ n \in Nat /\ n + 1 = m /\ n \in 0..Len(a) /\ n \in 0..Len(b)
        /\ n < Len(a) /\ n < Len(b)
    BY <1>1, <2>3
  <2>5. \A k \in 1..n : a[k] = b[k]
    <3>1. SUFFICES ASSUME NEW k \in 1..n, a[k] # b[k] PROVE FALSE
      OBVIOUS
    <3>2. k \in 1..Len(a) /\ k <= Len(b) /\ k < m
      <4> HIDE DEF T
      <4> QED BY <1>1, <2>3, <2>4
    <3>3. k \in T
      BY <3>1, <3>2
    <3>4. m <= k
      BY <2>2, <3>3
    <3> HIDE DEF T
    <3> QED BY <2>3, <3>2, <3>4
  <2>6. a[m] < b[m] \/ b[m] < a[m]
    BY <1>1, <2>3
  <2> HIDE DEF n
  <2>7. TP!TextLT(a, b) \/ TP!TextLT(b, a)
    BY <2>4, <2>5, <2>6 DEF TP!TextLT
  <2> QED BY <2>7
<1>3. \A k \in 1..Len(a) : k <= Len(b) => a[k] = b[k]
  BY <1>2
<1>4. CASE Len(a) < Len(b)
  <2>1. \A k \in 1..Len(a) : a[k] = b[k]
    BY <1>1, <1>3, <1>4
  <2>2. TP!TextLT(a, b)
    BY <1>1, <1>4, <2>1 DEF TP!TextLT
  <2> QED BY <2>2
<1>5. CASE Len(b) < Len(a)
  <2>1. \A k \in 1..Len(b) : b[k] = a[k]
    BY <1>1, <1>3, <1>5
  <2>2. TP!TextLT(b, a)
    BY <1>1, <1>5, <2>1 DEF TP!TextLT
  <2> QED BY <2>2
<1>6. CASE Len(a) = Len(b)
  <2>1. \A k \in 1..Len(a) : a[k] = b[k]
    BY <1>1, <1>3, <1>6
  <2> QED BY <1>6, <2>1, SeqEqual
<1>7. Len(a) < Len(b) \/ Len(b) < Len(a) \/ Len(a) = Len(b)
  BY <1>1
<1> QED BY <1>4, <1>5, <1>6, <1>7

\* The classifier of TwoPointerReconciler is the one of HashReconciler.
LEMMA TwoPointerClassifier ==
  /\ TP!Transaction = Transaction /\ TP!ReconciliationResult = ReconciliationResult
  /\ \A source : TP!ListsOf(source) = ListsOf(source)
  /\ \A t : TP!BuildKey(t) = BuildKey(t)
  /\ \A t, I, E : TP!Verdict(t, I, E) = Verdict(t, I, E)
  /\ \A I, E : TP!Expected(I, E) = Expected(I, E)
  /\ \A g : TP!Duplicates(g) = Duplicates(g)
  /\ \A t : TP!MissingInternal(t) = MissingInternal(t)
  /\ \A t : TP!MissingExternal(t) = MissingExternal(t)
  /\ \A t, u : TP!ClassifyMatch(t, u) = ClassifyMatch(t, u)
  /\ \A f : TP!Range(f) = Range(f) /\ (TP!IsInjective(f) <=> IsInjective(f))
<1>1. TP!Transaction = Transaction /\ TP!ReconciliationResult = ReconciliationResult
  BY DEF TP!Transaction, Transaction, TP!ReconciliationResult, ReconciliationResult,
         TP!Text, Text, TP!Status, Status, TP!Detail, Detail, TP!SourceSystem, SourceSystem
<1>2. \A source : TP!ListsOf(source) = ListsOf(source)
  BY <1>1 DEF TP!ListsOf, ListsOf
<1>3. \A t : TP!BuildKey(t) = BuildKey(t)
  BY DEF TP!BuildKey, BuildKey, TP!Pipe, Pipe
<1>4. /\ \A t : TP!Duplicate(t) = Duplicate(t)
      /\ \A t : TP!MissingInternal(t) = MissingInternal(t)
      /\ \A t : TP!MissingExternal(t) = MissingExternal(t)
  BY DEF TP!Duplicate, Duplicate, TP!MissingInternal, MissingInternal,
         TP!MissingExternal, MissingExternal
<1>5. \A t, u : TP!ClassifyMatch(t, u) = ClassifyMatch(t, u)
  BY DEF TP!ClassifyMatch, ClassifyMatch, TP!Mismatches, Mismatches, TP!StatusOf, StatusOf,
         TP!AbsDifference, AbsDifference
<1>6. \A t, S : TP!Peers(t, S) = Peers(t, S)
  BY <1>3 DEF TP!Peers, Peers
<1>7. \A t, I, E : TP!Ambiguous(t, I, E) <=> Ambiguous(t, I, E)
  BY <1>6 DEF TP!Ambiguous, Ambiguous
<1>8. \A t, I, E : TP!Verdict(t, I, E) = Verdict(t, I, E)
  <2>1. \A S : TP!OneOf(S) = OneOf(S)
    BY DEF TP!OneOf, OneOf
  <2> SUFFICES ASSUME NEW t, NEW I, NEW E
               PROVE  TP!Verdict(t, I, E) = Verdict(t, I, E)
    OBVIOUS
  <2>2. /\ TP!Peers(t, I) = Peers(t, I) /\ TP!Peers(t, E) = Peers(t, E)
        /\ TP!Ambiguous(t, I, E) <=> Ambiguous(t, I, E)
    BY <1>6, <1>7
  <2>3. TP!ClassifyMatch(OneOf(Peers(t, I)), OneOf(Peers(t, E))) =
          ClassifyMatch(OneOf(Peers(t, I)), OneOf(Peers(t, E)))
    BY <1>5
  <2>4. TP!Duplicate(t) = Duplicate(t) /\ TP!MissingExternal(t) = MissingExternal(t)
        /\ TP!MissingInternal(t) = MissingInternal(t)
    BY <1>4
  <2> QED BY <2>1, <2>2, <2>3, <2>4 DEF TP!Verdict, Verdict
<1>9. \A I, E : TP!Expected(I, E) = Expected(I, E)
  BY <1>8 DEF TP!Expected, Expected
<1>10. \A f : TP!Range(f) = Range(f) /\ (TP!IsInjective(f) <=> IsInjective(f))
  BY DEF TP!Range, Range, TP!IsInjective, IsInjective
<1>11. \A g : TP!Duplicates(g) = Duplicates(g)
  BY <1>4 DEF TP!Duplicates, Duplicates
<1> QED BY <1>1, <1>2, <1>3, <1>4, <1>5, <1>8, <1>9, <1>10, <1>11

\* t comes before u: its key is smaller.
Before(t, u) == TP!TextLT(BuildKey(t), BuildKey(u))

LEMMA BeforeIsKeyLT ==
  /\ \A t, u : TP!KeyLT(t, u) <=> Before(t, u)
  /\ \A t, u : TP!SameKey(t, u) <=> BuildKey(t) = BuildKey(u)
BY TwoPointerClassifier DEF TP!KeyLT, TP!SameKey, Before

LEMMA BeforeIsAnOrder ==
  ASSUME NEW t \in Transaction, NEW u \in Transaction
  PROVE  /\ Before(t, u) => BuildKey(t) # BuildKey(u)
         /\ ~Before(t, u) /\ ~Before(u, t) => BuildKey(t) = BuildKey(u)
         /\ \A v \in Transaction : Before(t, u) /\ Before(u, v) => Before(t, v)
         /\ \A v : BuildKey(t) = BuildKey(u) => /\ Before(t, v) <=> Before(u, v)
                                                /\ Before(v, t) <=> Before(v, u)
<1>1. BuildKey(t) \in Seq(Nat) /\ BuildKey(u) \in Seq(Nat)
  BY BuildKeyType DEF Text
<1>2. Before(t, u) => BuildKey(t) # BuildKey(u)
  BY <1>1, TextLTIrreflexive DEF Before
<1>3. ~Before(t, u) /\ ~Before(u, t) => BuildKey(t) = BuildKey(u)
  BY <1>1, TextLTTotal DEF Before
<1>4. ASSUME NEW v \in Transaction, Before(t, u), Before(u, v)
      PROVE  Before(t, v)
  <2>1. BuildKey(v) \in Seq(Nat)
    BY BuildKeyType DEF Text
  <2> QED BY <1>1, <1>4, <2>1, TextLTTransitive DEF Before
<1>5. ASSUME NEW v, BuildKey(t) = BuildKey(u)
      PROVE  /\ Before(t, v) <=> Before(u, v)
             /\ Before(v, t) <=> Before(v, u)
  BY <1>5 DEF Before
<1> QED BY <1>2, <1>3, <1>4, <1>5

-----------------------------------------------------------------------------
(* Two pointers: groups of equal keys in a sorted list. *)

Ascending(s) ==
  \A k, l \in DOMAIN s : k < l => Before(s[k], s[l]) \/ BuildKey(s[k]) = BuildKey(s[l])

\* What comes before a record comes before all that follow it.
LEMMA BeforeTheRest ==
  ASSUME NEW s \in Seq(Transaction), Ascending(s), NEW t \in Transaction,
         NEW n \in 1..Len(s), Before(t, s[n])
  PROVE  \A k \in n..Len(s) : Before(t, s[k])
<1>1. Len(s) \in Nat /\ DOMAIN s = 1..Len(s)
  BY LenProperties
<1> SUFFICES ASSUME NEW k \in n..Len(s) PROVE Before(t, s[k])
  OBVIOUS
<1>2. k \in 1..Len(s) /\ (k = n \/ n < k)
  BY <1>1
<1>3. s[n] \in Transaction /\ s[k] \in Transaction
  BY <1>2, ElementOfSeq
<1>4. CASE n < k
  <2>1. Before(s[n], s[k]) \/ BuildKey(s[n]) = BuildKey(s[k])
    BY <1>1, <1>2, <1>4 DEF Ascending
  <2> QED BY <1>3, <2>1, BeforeIsAnOrder
<1> QED BY <1>2, <1>4

\* Where a run of equal keys ends, smaller keys end.
LEMMA GroupEndsProperties ==
  ASSUME NEW s \in Seq(Transaction), Ascending(s), NEW start \in 1..Len(s),
         NEW end \in TP!GroupEnds(s, start)
  PROVE  /\ end \in (start + 1)..(Len(s) + 1)
         /\ \A k \in start..(end - 1) : BuildKey(s[k]) = BuildKey(s[start])
         /\ \A k \in end..Len(s) : Before(s[start], s[k])
<1>1. Len(s) \in Nat /\ DOMAIN s = 1..Len(s)
  BY LenProperties
<1>2. /\ end \in (start + 1)..(Len(s) + 1)
      /\ \A k \in start..(end - 1) : BuildKey(s[k]) = BuildKey(s[start])
      /\ end <= Len(s) => BuildKey(s[end]) # BuildKey(s[start])
  BY BeforeIsKeyLT DEF TP!GroupEnds
<1>3. ASSUME NEW k \in end..Len(s) PROVE Before(s[start], s[k])
  <2>1. end \in 1..Len(s) /\ start < end
    BY <1>1, <1>2
  <2>2. Before(s[start], s[end]) \/ BuildKey(s[start]) = BuildKey(s[end])
    BY <1>1, <2>1 DEF Ascending
  <2>3. Before(s[start], s[end])
    BY <1>2, <2>1, <2>2
  <2>4. s[start] \in Transaction
    BY ElementOfSeq
  <2> QED BY <2>1, <2>3, <2>4, BeforeTheRest
<1> QED BY <1>2, <1>3

\* The records from m to n.
LEMMA SliceProperties ==
  ASSUME NEW s \in Seq(Transaction), IsInjective(s), NEW m \in 1..(Len(s) + 1),
         NEW n \in m..(Len(s) + 1)
  PROVE  /\ SubSeq(s, m, n - 1) \in Seq(Transaction)
         /\ Len(SubSeq(s, m, n - 1)) = n - m
         /\ IsInjective(SubSeq(s, m, n - 1))
         /\ Range(SubSeq(s, m, n - 1)) = {s[k] : k \in m..(n - 1)}
         /\ n > m => SubSeq(s, m, n - 1)[1] = s[m]
<1> DEFINE g == SubSeq(s, m, n - 1)
<1>1. Len(s) \in Nat /\ DOMAIN s = 1..Len(s) /\ m \in Nat /\ n \in Nat /\ m >= 1
  BY LenProperties
<1>2. \A k \in m..(n - 1) : k \in 1..Len(s)
  BY <1>1
<1>3. \A k \in m..(n - 1) : s[k] \in Transaction
  BY <1>2, ElementOfSeq
<1>4. m \in Int /\ n - 1 \in Int
  BY <1>1
<1>5. /\ g \in Seq(Transaction)
      /\ Len(g) = IF m <= n - 1 THEN (n - 1) - m + 1 ELSE 0
      /\ \A k \in 1..((n - 1) - m + 1) : g[k] = s[m + k - 1]
  BY <1>3, <1>4, SubSeqProperties
<1>6. Len(g) = n - m /\ (n - 1) - m + 1 = n - m
  BY <1>1, <1>5
<1>7. DOMAIN g = 1..(n - m) /\ \A k \in 1..(n - m) : g[k] = s[m + k - 1]
  BY <1>5, <1>6, LenProperties
<1> HIDE DEF g
<1>8. \A k \in 1..(n - m) : m + k - 1 \in m..(n - 1) /\ m + k - 1 \in 1..Len(s)
  BY <1>1
<1>9. IsInjective(g)
  <2> SUFFICES ASSUME NEW k \in 1..(n - m), NEW l \in 1..(n - m), g[k] = g[l]
               PROVE  k = l
    BY <1>7 DEF IsInjective
  <2>1. s[m + k - 1] = s[m + l - 1]
    BY <1>7
  <2>2. m + k - 1 = m + l - 1
    BY <1>1, <1>8, <2>1 DEF IsInjective
  <2> QED BY <1>1, <2>2
<1>10. Range(g) = {s[k] : k \in m..(n - 1)}
  <2>1. ASSUME NEW x \in Range(g) PROVE x \in {s[k] : k \in m..(n - 1)}
    BY <1>7, <1>8 DEF Range
  <2>2. ASSUME NEW k \in m..(n - 1) PROVE s[k] \in Range(g)
    <3>1. k - m + 1 \in 1..(n - m) /\ m + (k - m + 1) - 1 = k
      BY <1>1
    <3>2. g[k - m + 1] = s[k]
      BY <1>7, <3>1
    <3> QED BY <1>7, <3>1, <3>2 DEF Range
  <2> QED BY <2>1, <2>2
<1>11. n > m => g[1] = s[m]
  <2>1. n > m => 1 \in 1..(n - m) /\ m + 1 - 1 = m
    BY <1>1
  <2> QED BY <1>7, <2>1
<1> QED BY <1>5, <1>6, <1>9, <1>10, <1>11 DEF g

-----------------------------------------------------------------------------
(* Two pointers: one group of equal keys. *)

\* The records of s before position n, and from it on.
Front(s, n) == {s[k] : k \in 1..(n - 1)}
Rest(s, n) == {s[k] : k \in n..Len(s)}

\* The records from position m to before position n.
Slice(s, m, n) == SubSeq(s, m, n - 1)

\* Every record of S comes before every record of T; all those of S have the
\* key; those of S that have it.
AllBefore(S, T) == \A t \in S, u \in T : Before(t, u)
AllHave(S, key) == \A t \in S : BuildKey(t) = key
WithKey(S, key) == {t \in S : BuildKey(t) = key}

\* S is what A and B hold.
Joins(S, A, B) == S = A \union B

\* s reports the verdicts on the records of D, each once.
Reports(s, D, I, E) ==
  s \in Seq(ReconciliationResult) /\ IsInjective(s) /\ Range(s) = Verdicts(D, I, E)

\* The loop invariant, with the pointers at m and n.
Walked(ik, ek, m, n, res, I, E) ==
  /\ AllBefore(Front(ik, m) \union Front(ek, n), Rest(ik, m) \union Rest(ek, n))
  /\ Reports(res, Front(ik, m) \union Front(ek, n), I, E)

LEMMA FrontAndRest ==
  ASSUME NEW s \in Seq(Transaction), IsInjective(s), NEW m \in 1..(Len(s) + 1),
         NEW n \in m..(Len(s) + 1)
  PROVE  /\ Slice(s, m, n) \in Seq(Transaction) /\ IsInjective(Slice(s, m, n))
         /\ Len(Slice(s, m, n)) = n - m
         /\ n > m => Slice(s, m, n)[1] = s[m] /\ s[m] \in Range(Slice(s, m, n))
         /\ \A t \in Range(Slice(s, m, n)) : \E k \in m..(n - 1) : t = s[k]
         /\ Joins(Front(s, n), Front(s, m), Range(Slice(s, m, n)))
         /\ Joins(Rest(s, m), Range(Slice(s, m, n)), Rest(s, n))
         /\ Joins(Range(s), Front(s, m), Rest(s, m))
<1> DEFINE g == Slice(s, m, n)
<1>1. /\ g \in Seq(Transaction) /\ IsInjective(g)
      /\ Len(g) = n - m
      /\ Range(g) = {s[k] : k \in m..(n - 1)}
      /\ n > m => g[1] = s[m]
  BY SliceProperties DEF Slice
<1> HIDE DEF g
<1>2. Len(s) \in Nat /\ DOMAIN s = 1..Len(s) /\ m \in Nat /\ n \in Nat /\ m >= 1 /\ n >= m
  BY LenProperties
<1>3. 1..(n - 1) = (1..(m - 1)) \union (m..(n - 1))
  BY <1>2
<1>4. m..Len(s) = (m..(n - 1)) \union (n..Len(s))
  BY <1>2
<1>5. 1..Len(s) = (1..(m - 1)) \union (m..Len(s))
  BY <1>2
<1>6. Joins(Front(s, n), Front(s, m), Range(g))
  BY <1>1, <1>3 DEF Front, Joins
<1>7. Joins(Rest(s, m), Range(g), Rest(s, n))
  BY <1>1, <1>4 DEF Rest, Joins
<1>8. Joins(Range(s), Front(s, m), Rest(s, m))
  BY <1>2, <1>5 DEF Range, Front, Rest, Joins
<1>9. n > m => s[m] \in Range(g)
  <2>1. n > m => m \in m..(n - 1)
    BY <1>2
  <2> QED BY <1>1, <2>1
<1>10. \A t \in Range(g) : \E k \in m..(n - 1) : t = s[k]
  BY <1>1
<1> QED BY <1>1, <1>6, <1>7, <1>8, <1>9, <1>10 DEF g

\* What is reported for a key are the verdicts on its records, each once.
LEMMA GroupVerdicts ==
  ASSUME NEW I, NEW E, BothSides(I, E), NEW key,
         NEW g \in Seq(Transaction), IsInjective(g), Range(g) = {t \in I : BuildKey(t) = key},
         NEW h \in Seq(Transaction), IsInjective(h), Range(h) = {t \in E : BuildKey(t) = key},
         Range(g) # {} \/ Range(h) # {}
  PROVE  Reports(GroupResults(g, h), Range(g) \union Range(h), I, E)
BY GroupResultsProperties DEF Verdicts, Reports

\* Reports on different records are different reports.
LEMMA ReportsConcat ==
  ASSUME NEW I, NEW E, NEW D, NEW G, NEW a, NEW b, Reports(a, D, I, E), Reports(b, G, I, E),
         \A t \in D, u \in G : Verdict(t, I, E) # Verdict(u, I, E)
  PROVE  Reports(a \o b, D \union G, I, E)
<1>1. /\ a \in Seq(ReconciliationResult) /\ IsInjective(a)
      /\ b \in Seq(ReconciliationResult) /\ IsInjective(b)
  BY DEF Reports
<1>2. Range(a) \intersect Range(b) = {}
  BY DEF Reports, Verdicts
<1>3. /\ a \o b \in Seq(ReconciliationResult) /\ IsInjective(a \o b)
      /\ Range(a \o b) = Range(a) \union Range(b)
  BY <1>1, <1>2, InjectiveConcat
<1>4. Range(a \o b) = Verdicts(D \union G, I, E)
  BY <1>3 DEF Reports, Verdicts
<1> QED BY <1>3, <1>4 DEF Reports

\* Records behind the pointers or still to come have another key.
LEMMA OrderedKeysDiffer ==
  ASSUME NEW S, S \subseteq Transaction, NEW G, G \subseteq Transaction,
         NEW key, AllHave(G, key), NEW v \in G, AllBefore(S, G) \/ AllBefore(G, S)
  PROVE  \A t \in S : BuildKey(t) # key
<1> SUFFICES ASSUME NEW t \in S PROVE BuildKey(t) # key
  OBVIOUS
<1>1. BuildKey(v) = key /\ t \in Transaction /\ v \in Transaction
  BY DEF AllHave
<1>2. Before(t, v) \/ Before(v, t)
  BY DEF AllBefore
<1> QED BY <1>1, <1>2, BeforeIsAnOrder

\* The records of D are behind the pointers, those of g and h share a key,
\* those of A remain: what is reported for the key adds their verdicts.
LEMMA GroupAdds ==
  ASSUME NEW I, NEW E, BothSides(I, E), NEW D, NEW A,
         NEW g \in Seq(Transaction), IsInjective(g), Range(g) \subseteq I,
         NEW h \in Seq(Transaction), IsInjective(h), Range(h) \subseteq E,
         D \subseteq I \union E, A \subseteq I \union E,
         I \union E \subseteq D \union A \union Range(g) \union Range(h),
         NEW key, AllHave(Range(g) \union Range(h), key), NEW v \in Range(g) \union Range(h),
         AllBefore(D, Range(g) \union Range(h)), AllBefore(Range(g) \union Range(h), A),
         NEW res, Reports(res, D, I, E)
  PROVE  Reports(res \o GroupResults(g, h), D \union (Range(g) \union Range(h)), I, E)
<1> DEFINE G == Range(g) \union Range(h)
           new == GroupResults(g, h)
<1>1. D \subseteq Transaction /\ G \subseteq Transaction /\ A \subseteq Transaction
  BY DEF BothSides
<1>2. D \union G \subseteq I \union E
  OBVIOUS
<1>3. (\A t \in D : BuildKey(t) # key) /\ (\A t \in A : BuildKey(t) # key)
  <2> HIDE DEF G
  <2> QED BY <1>1, OrderedKeysDiffer DEF G
<1>4. \A t \in G : BuildKey(t) = key
  BY DEF AllHave
<1>5. Range(g) = WithKey(I, key)
  <2>1. \A t \in Range(h) : t \notin I
    BY SidesAreDisjoint
  <2>2. I \subseteq D \union A \union Range(g)
    BY <2>1
  <2> QED BY <2>2, <1>3, <1>4 DEF WithKey
<1>6. Range(h) = WithKey(E, key)
  <2>1. \A t \in Range(g) : t \notin E
    BY SidesAreDisjoint
  <2>2. E \subseteq D \union A \union Range(h)
    BY <2>1
  <2> QED BY <2>2, <1>3, <1>4 DEF WithKey
<1>7. Reports(new, G, I, E)
  <2>1. /\ Range(g) = {t \in I : BuildKey(t) = key} /\ Range(h) = {t \in E : BuildKey(t) = key}
        /\ Range(g) # {} \/ Range(h) # {}
    BY <1>5, <1>6 DEF WithKey
  <2> QED BY <2>1, GroupVerdicts
<1>8. ASSUME NEW t \in D, NEW u \in G PROVE Verdict(t, I, E) # Verdict(u, I, E)
  <2>1. t \in I \union E /\ u \in I \union E /\ BuildKey(t) # BuildKey(u)
    BY <1>2, <1>3, <1>4
  <2> HIDE DEF G, new
  <2> QED BY <2>1, VerdictsSeparate
<1> HIDE DEF G, new
<1>9. Reports(res \o new, D \union G, I, E)
  BY <1>7, <1>8, ReportsConcat
<1> QED BY <1>9 DEF G, new

\* One step of the walk: the pointers pass the records of one key.
LEMMA GroupStep ==
  ASSUME NEW I, NEW E, BothSides(I, E),
         NEW ik \in Seq(Transaction), IsInjective(ik), Range(ik) = I,
         NEW ek \in Seq(Transaction), IsInjective(ek), Range(ek) = E,
         NEW m \in 1..(Len(ik) + 1), NEW m2 \in m..(Len(ik) + 1),
         NEW n \in 1..(Len(ek) + 1), NEW n2 \in n..(Len(ek) + 1),
         NEW res, Walked(ik, ek, m, n, res, I, E),
         NEW key, NEW v \in Range(Slice(ik, m, m2)) \union Range(Slice(ek, n, n2)),
         AllHave(Range(Slice(ik, m, m2)) \union Range(Slice(ek, n, n2)), key),
         AllBefore(Range(Slice(ik, m, m2)) \union Range(Slice(ek, n, n2)),
                   Rest(ik, m2) \union Rest(ek, n2))
  PROVE  Walked(ik, ek, m2, n2, res \o GroupResults(Slice(ik, m, m2), Slice(ek, n, n2)), I, E)
<1> DEFINE g == Slice(ik, m, m2)
           h == Slice(ek, n, n2)
           new == GroupResults(g, h)
           D == Front(ik, m) \union Front(ek, n)
           A == Rest(ik, m2) \union Rest(ek, n2)
<1>1. /\ g \in Seq(Transaction) /\ IsInjective(g)
      /\ Joins(Front(ik, m2), Front(ik, m), Range(g))
      /\ Joins(Rest(ik, m), Range(g), Rest(ik, m2))
      /\ Joins(Range(ik), Front(ik, m), Rest(ik, m))
  BY FrontAndRest
<1>2. /\ h \in Seq(Transaction) /\ IsInjective(h)
      /\ Joins(Front(ek, n2), Front(ek, n), Range(h))
      /\ Joins(Rest(ek, n), Range(h), Rest(ek, n2))
      /\ Joins(Range(ek), Front(ek, n), Rest(ek, n))
  BY FrontAndRest
<1>3. /\ AllHave(Range(g) \union Range(h), key)
      /\ v \in Range(g) \union Range(h)
      /\ AllBefore(Range(g) \union Range(h), A)
  OBVIOUS
<1> HIDE DEF g, h
<1>4. Reports(res, D, I, E) /\ AllBefore(D, Rest(ik, m) \union Rest(ek, n))
  BY DEF Walked
<1>5. AllBefore(D, Range(g) \union Range(h)) /\ AllBefore(D, A)
  BY <1>1, <1>2, <1>4 DEF Joins, AllBefore
<1>6. /\ Range(g) \subseteq I /\ Range(h) \subseteq E
      /\ D \subseteq I \union E /\ A \subseteq I \union E
      /\ I \union E \subseteq D \union A \union Range(g) \union Range(h)
  BY <1>1, <1>2 DEF Joins
<1>7. Front(ik, m2) \union Front(ek, n2) = D \union (Range(g) \union Range(h))
  BY <1>1, <1>2 DEF Joins
<1> HIDE DEF D, A
<1>8. Reports(res \o GroupResults(g, h), D \union (Range(g) \union Range(h)), I, E)
  BY <1>1, <1>2, <1>3, <1>4, <1>5, <1>6, GroupAdds
<1> HIDE DEF new
<1>9. AllBefore(D \union (Range(g) \union Range(h)), A)
  BY <1>3, <1>5 DEF AllBefore
<1>10. Reports(res \o new, Front(ik, m2) \union Front(ek, n2), I, E)
  BY <1>7, <1>8 DEF new
<1>11. AllBefore(Front(ik, m2) \union Front(ek, n2), Rest(ik, m2) \union Rest(ek, n2))
  BY <1>7, <1>9 DEF A
<1> QED BY <1>10, <1>11 DEF Walked, new, g, h

-----------------------------------------------------------------------------
(* Two pointers: the invariant. *)

LEMMA TwoPointerTypes ==
  ASSUME TP!TypeOK
  PROVE  /\ internal \in ListsOf("INTERNAL") /\ external \in ListsOf("EXTERNAL")
         /\ BothSides(Range(internal), Range(external))
         /\ internal_keyed \in Seq(Transaction) /\ external_keyed \in Seq(Transaction)
         /\ Len(internal_keyed) \in Nat /\ DOMAIN internal_keyed = 1..Len(internal_keyed)
         /\ Len(external_keyed) \in Nat /\ DOMAIN external_keyed = 1..Len(external_keyed)
         /\ tp_i \in 1..(Len(internal_keyed) + 1) /\ tp_j \in 1..(Len(external_keyed) + 1)
         /\ tp_results \in Seq(ReconciliationResult)
<1>1. internal \in ListsOf("INTERNAL") /\ external \in ListsOf("EXTERNAL")
  BY TwoPointerClassifier DEF TP!TypeOK
<1>2. BothSides(Range(internal), Range(external))
  BY <1>1, ListsAreSides
<1>3. /\ internal_keyed \in Seq(Transaction) /\ external_keyed \in Seq(Transaction)
      /\ tp_i \in 1..(Len(internal_keyed) + 1) /\ tp_j \in 1..(Len(external_keyed) + 1)
      /\ tp_results \in Seq(ReconciliationResult)
  BY TwoPointerClassifier DEF TP!TypeOK
<1>4. /\ Len(internal_keyed) \in Nat /\ DOMAIN internal_keyed = 1..Len(internal_keyed)
      /\ Len(external_keyed) \in Nat /\ DOMAIN external_keyed = 1..Len(external_keyed)
  BY <1>3, LenProperties
<1> QED BY <1>1, <1>2, <1>3, <1>4

\* The two invariants of the walk, in the terms of this module.
LEMMA MergedIsWalked ==
  tp_results \in Seq(ReconciliationResult) =>
  (TP!MergedSoFar <=>
    (tp_pc # "sort" => Walked(internal_keyed, external_keyed, tp_i, tp_j, tp_results,
                              Range(internal), Range(external))))
<1>1. TP!Merged = Front(internal_keyed, tp_i) \union Front(external_keyed, tp_j)
  BY DEF TP!Merged, Front
<1>2. TP!Ahead = Rest(internal_keyed, tp_i) \union Rest(external_keyed, tp_j)
  BY DEF TP!Ahead, Rest
<1>3. {TP!Verdict(t, TP!Range(internal), TP!Range(external)) : t \in TP!Merged} =
        Verdicts(TP!Merged, Range(internal), Range(external))
  BY TwoPointerClassifier DEF Verdicts
<1>4. (\A t \in TP!Merged, u \in TP!Ahead : TP!KeyLT(t, u)) <=>
        (\A t \in TP!Merged, u \in TP!Ahead : Before(t, u))
  BY BeforeIsKeyLT
<1>5. TP!Range(tp_results) = Range(tp_results) /\ (TP!IsInjective(tp_results) <=> IsInjective(tp_results))
  BY TwoPointerClassifier
<1>6. TP!MergedSoFar <=>
        (tp_pc # "sort" =>
           /\ \A t \in TP!Merged, u \in TP!Ahead : Before(t, u)
           /\ Range(tp_results) = Verdicts(TP!Merged, Range(internal), Range(external))
           /\ IsInjective(tp_results))
  BY <1>3, <1>4, <1>5 DEF TP!MergedSoFar
<1> HIDE DEF TP!Merged, TP!Ahead
<1> QED BY <1>1, <1>2, <1>6 DEF Walked, AllBefore, Reports

LEMMA SortedIsAscending ==
  ASSUME NEW keyed_list, NEW s
  PROVE  TP!SortedFrom(keyed_list, s) <=>
           Range(keyed_list) = Range(s) /\ IsInjective(keyed_list) /\ Ascending(keyed_list)
BY TwoPointerClassifier, BeforeIsKeyLT DEF TP!SortedFrom, Ascending

\* The groups a step finds.
LEMMA OneGroup ==
  ASSUME NEW s \in Seq(Transaction), IsInjective(s), Ascending(s), NEW start \in 1..Len(s),
         NEW end \in TP!GroupEnds(s, start)
  PROVE  /\ end \in start..(Len(s) + 1) /\ s[start] \in Transaction
         /\ s[start] \in Range(Slice(s, start, end)) /\ Slice(s, start, end)[1] = s[start]
         /\ Slice(s, start, end) \in Seq(Transaction)
         /\ Len(Slice(s, start, end)) = end - start /\ end - start \in Nat /\ end - start >= 1
         /\ AllHave(Range(Slice(s, start, end)), BuildKey(s[start]))
         /\ AllBefore({s[start]}, Rest(s, end))
<1>1. /\ end \in (start + 1)..(Len(s) + 1)
      /\ \A k \in start..(end - 1) : BuildKey(s[k]) = BuildKey(s[start])
      /\ \A k \in end..Len(s) : Before(s[start], s[k])
  BY GroupEndsProperties
<1>2. Len(s) \in Nat
  BY LenProperties
<1>3. /\ end \in start..(Len(s) + 1) /\ end > start /\ start \in 1..(Len(s) + 1)
      /\ end - start \in Nat /\ end - start >= 1
  BY <1>1, <1>2
<1>4. /\ s[start] \in Range(Slice(s, start, end)) /\ Slice(s, start, end)[1] = s[start]
      /\ Slice(s, start, end) \in Seq(Transaction)
      /\ Len(Slice(s, start, end)) = end - start
      /\ \A t \in Range(Slice(s, start, end)) : \E k \in start..(end - 1) : t = s[k]
  BY <1>3, FrontAndRest
<1>5. AllHave(Range(Slice(s, start, end)), BuildKey(s[start]))
  BY <1>1, <1>4 DEF AllHave
<1>6. AllBefore({s[start]}, Rest(s, end))
  BY <1>1 DEF AllBefore, Rest
<1>7. s[start] \in Transaction
  BY ElementOfSeq
<1> QED BY <1>3, <1>4, <1>5, <1>6, <1>7

LEMMA BeforeAllOfThem ==
  ASSUME NEW s \in Seq(Transaction), Ascending(s), NEW n \in 1..(Len(s) + 1),
         NEW t \in Transaction, n <= Len(s) => Before(t, s[n])
  PROVE  AllBefore({t}, Rest(s, n))
<1>1. Len(s) \in Nat
  BY LenProperties
<1>2. CASE n <= Len(s)
  <2>1. n \in 1..Len(s) /\ Before(t, s[n])
    BY <1>1, <1>2
  <2>2. \A k \in n..Len(s) : Before(t, s[k])
    BY <2>1, BeforeTheRest
  <2> QED BY <2>2 DEF AllBefore, Rest
<1>3. CASE ~(n <= Len(s))
  <2>1. n..Len(s) = {}
    BY <1>1, <1>3
  <2> QED BY <2>1 DEF AllBefore, Rest
<1> QED BY <1>2, <1>3

\* One record of a group stands for it.
LEMMA GroupBefore ==
  ASSUME NEW S, S \subseteq Transaction, NEW v \in Transaction, AllHave(S, BuildKey(v)),
         NEW T, AllBefore({v}, T)
  PROVE  AllBefore(S, T)
<1> SUFFICES ASSUME NEW t \in S, NEW u \in T PROVE Before(t, u)
  BY DEF AllBefore
<1>1. Before(v, u) /\ BuildKey(t) = BuildKey(v) /\ t \in Transaction
  BY DEF AllBefore, AllHave
<1> QED BY <1>1, BeforeIsAnOrder

LEMMA EmptySlice ==
  ASSUME NEW s, NEW n \in Nat
  PROVE  Slice(s, n, n) = <<>> /\ Range(Slice(s, n, n)) = {}
<1>1. SubSeq(s, n, n - 1) = <<>>
  BY SubSeqEmpty
<1> QED BY <1>1 DEF Slice, Range

\* What the branches of the walk append is what the hash algorithm reports.
LEMMA BranchResults ==
  ASSUME NEW g \in Seq(Transaction)
  PROVE  /\ Len(g) > 1 => GroupResults(g, <<>>) = Duplicates(g)
         /\ Len(g) = 1 => GroupResults(g, <<>>) = <<MissingExternal(g[1])>>
         /\ Len(g) > 1 => GroupResults(<<>>, g) = Duplicates(g)
         /\ Len(g) = 1 => GroupResults(<<>>, g) = <<MissingInternal(g[1])>>
<1>1. Len(<<>>) = 0 /\ Duplicates(<<>>) = <<>>
  BY DEF Duplicates
<1>2. Duplicates(g) \in Seq(ReconciliationResult)
  <2>1. \A k \in 1..Len(g) : Duplicate(g[k]) \in ReconciliationResult
    BY LoneResultTypes, ElementOfSeq
  <2>2. DOMAIN g = 1..Len(g) /\ Len(g) \in Nat
    BY LenProperties
  <2> QED BY <2>1, <2>2 DEF Duplicates
<1>3. Duplicates(g) \o <<>> = Duplicates(g) /\ <<>> \o Duplicates(g) = Duplicates(g)
  BY <1>2, ConcatEmptySeq
<1>4. Len(g) > 1 => GroupResults(g, <<>>) = Duplicates(g) /\ GroupResults(<<>>, g) = Duplicates(g)
  BY <1>1, <1>3 DEF GroupResults
<1>5. Len(g) = 1 => /\ GroupResults(g, <<>>) = <<MissingExternal(g[1])>>
                    /\ GroupResults(<<>>, g) = <<MissingInternal(g[1])>>
  BY <1>1 DEF GroupResults
<1> QED BY <1>4, <1>5

\* What the invariant says of the walk.
LEMMA TwoPointerHeld ==
  ASSUME TP!IInv, tp_pc # "sort"
  PROVE  /\ IsInjective(internal_keyed) /\ Range(internal_keyed) = Range(internal)
         /\ Ascending(internal_keyed)
         /\ IsInjective(external_keyed) /\ Range(external_keyed) = Range(external)
         /\ Ascending(external_keyed)
         /\ Walked(internal_keyed, external_keyed, tp_i, tp_j, tp_results,
                   Range(internal), Range(external))
<1>1. TP!SortedFrom(internal_keyed, internal) /\ TP!SortedFrom(external_keyed, external)
  BY DEF TP!IInv
<1>2. TP!MergedSoFar /\ tp_results \in Seq(ReconciliationResult)
  BY TwoPointerTypes DEF TP!IInv
<1> QED BY <1>1, <1>2, SortedIsAscending, MergedIsWalked

\* A step of the walk that passes one key keeps the invariant.
LEMMA WalkKeeps ==
  ASSUME TP!IInv, tp_pc = "walk", UNCHANGED <<internal, external, internal_keyed, external_keyed, tp_pc>>,
         tp_i' \in 1..(Len(internal_keyed) + 1), tp_j' \in 1..(Len(external_keyed) + 1),
         Walked(internal_keyed, external_keyed, tp_i', tp_j', tp_results',
                Range(internal), Range(external))
  PROVE  TP!IInv'
<1>1. tp_results' \in Seq(ReconciliationResult)
  BY DEF Walked, Reports
<1>2. TP!TypeOK'
  BY <1>1, TwoPointerClassifier DEF TP!IInv, TP!TypeOK
<1>3. TP!MergedSoFar'
  <2>1. (tp_pc # "sort" => Walked(internal_keyed, external_keyed, tp_i, tp_j, tp_results,
                                  Range(internal), Range(external)))'
    OBVIOUS
  <2>2. (tp_results \in Seq(ReconciliationResult))'
    BY <1>1
  <2>3. (tp_results \in Seq(ReconciliationResult) =>
         (TP!MergedSoFar <=>
            (tp_pc # "sort" => Walked(internal_keyed, external_keyed, tp_i, tp_j, tp_results,
                                      Range(internal), Range(external)))))'
    BY MergedIsWalked, PTL
  <2> QED BY <2>1, <2>2, <2>3
<1>4. (TP!SortedFrom(internal_keyed, internal) /\ TP!SortedFrom(external_keyed, external))'
  BY DEF TP!IInv, TP!SortedFrom
<1> QED BY <1>2, <1>3, <1>4 DEF TP!IInv

LEMMA InternalOnlyKeeps ==
  ASSUME TP!IInv, TP!InternalOnly
  PROVE  TP!IInv'
<1> DEFINE ik == internal_keyed
           ek == external_keyed
           v == ik[tp_i]
<1>1. PICK end \in TP!GroupEnds(ik, tp_i) :
        /\ tp_i' = end
        /\ tp_results' = tp_results \o (IF end - tp_i > 1 THEN Duplicates(SubSeq(ik, tp_i, end - 1))
                                        ELSE <<MissingExternal(ik[tp_i])>>)
  BY TwoPointerClassifier DEF TP!InternalOnly
<1>2. /\ tp_pc = "walk" /\ tp_i <= Len(ik)
      /\ tp_j <= Len(ek) => Before(v, ek[tp_j])
      /\ UNCHANGED <<internal, external, internal_keyed, external_keyed, tp_j, tp_pc>>
  BY BeforeIsKeyLT DEF TP!InternalOnly, TP!InternalFirst, TP!have_internal, TP!have_external,
                       TP!lists, TP!keyed
<1>3. /\ ik \in Seq(Transaction) /\ ek \in Seq(Transaction) /\ Len(ik) \in Nat /\ Len(ek) \in Nat
      /\ tp_i \in 1..(Len(ik) + 1) /\ tp_j \in 1..(Len(ek) + 1)
      /\ BothSides(Range(internal), Range(external))
  BY TwoPointerTypes DEF TP!IInv
<1>4. /\ IsInjective(ik) /\ Range(ik) = Range(internal) /\ Ascending(ik)
      /\ IsInjective(ek) /\ Range(ek) = Range(external) /\ Ascending(ek)
      /\ Walked(ik, ek, tp_i, tp_j, tp_results, Range(internal), Range(external))
  BY <1>2, TwoPointerHeld
<1>5. tp_i \in 1..Len(ik)
  BY <1>2, <1>3
<1> DEFINE g == Slice(ik, tp_i, end)
           h == Slice(ek, tp_j, tp_j)
<1> HIDE DEF ik, ek
<1>6. /\ end \in tp_i..(Len(ik) + 1) /\ v \in Transaction /\ v \in Range(g) /\ g[1] = v
      /\ g \in Seq(Transaction) /\ Len(g) = end - tp_i /\ end - tp_i \in Nat /\ end - tp_i >= 1
      /\ AllHave(Range(g), BuildKey(v)) /\ AllBefore({v}, Rest(ik, end))
  BY <1>3, <1>4, <1>5, OneGroup
<1>7. h = <<>> /\ Range(h) = {}
  <2>1. tp_j \in Nat
    BY <1>3
  <2> QED BY <2>1, EmptySlice
<1>8. AllBefore({v}, Rest(ek, tp_j))
  BY <1>2, <1>3, <1>4, <1>6, BeforeAllOfThem
<1> HIDE DEF v
<1>9. tp_results' = tp_results \o GroupResults(g, h)
  <2>1. CASE end - tp_i > 1
    <3>1. Duplicates(SubSeq(ik, tp_i, end - 1)) = GroupResults(g, <<>>)
      BY <1>6, <2>1, BranchResults DEF Slice
    <3>2. tp_results' = tp_results \o Duplicates(SubSeq(ik, tp_i, end - 1))
      BY <1>1, <2>1
    <3> QED BY <1>7, <3>1, <3>2
  <2>2. CASE ~(end - tp_i > 1)
    <3>1. Len(g) = 1
      BY <1>6, <2>2
    <3>2. <<MissingExternal(ik[tp_i])>> = GroupResults(g, <<>>)
      <4> HIDE DEF g
      <4> QED BY <1>6, <3>1, BranchResults DEF v
    <3>3. tp_results' = tp_results \o <<MissingExternal(ik[tp_i])>>
      BY <1>1, <2>2
    <3> QED BY <1>7, <3>2, <3>3
  <2> QED BY <2>1, <2>2
<1> HIDE DEF g, h
<1>10. Range(g) \subseteq Transaction
  BY <1>6, RangeOfSeq
<1>11. AllBefore(Range(g), Rest(ik, end)) /\ AllBefore(Range(g), Rest(ek, tp_j))
  BY <1>6, <1>8, <1>10, GroupBefore
<1>12. /\ AllHave(Range(g) \union Range(h), BuildKey(v)) /\ v \in Range(g) \union Range(h)
       /\ AllBefore(Range(g) \union Range(h), Rest(ik, end) \union Rest(ek, tp_j))
  BY <1>6, <1>7, <1>11 DEF AllBefore
<1>13. tp_j \in tp_j..(Len(ek) + 1)
  BY <1>3
<1>14. Walked(ik, ek, end, tp_j, tp_results \o GroupResults(g, h), Range(internal), Range(external))
  BY <1>3, <1>4, <1>6, <1>12, <1>13, GroupStep DEF g, h
<1>15. end \in 1..(Len(ik) + 1)
  BY <1>3, <1>6
<1> QED BY <1>1, <1>2, <1>3, <1>9, <1>14, <1>15, WalkKeeps DEF ik, ek

LEMMA ExternalOnlyKeeps ==
  ASSUME TP!IInv, TP!ExternalOnly
  PROVE  TP!IInv'
<1> DEFINE ik == internal_keyed
           ek == external_keyed
           v == ek[tp_j]
<1>1. PICK end \in TP!GroupEnds(ek, tp_j) :
        /\ tp_j' = end
        /\ tp_results' = tp_results \o (IF end - tp_j > 1 THEN Duplicates(SubSeq(ek, tp_j, end - 1))
                                        ELSE <<MissingInternal(ek[tp_j])>>)
  BY TwoPointerClassifier DEF TP!ExternalOnly
<1>2. /\ tp_pc = "walk" /\ tp_j <= Len(ek)
      /\ tp_i <= Len(ik) => Before(v, ik[tp_i])
      /\ UNCHANGED <<internal, external, internal_keyed, external_keyed, tp_i, tp_pc>>
  BY BeforeIsKeyLT DEF TP!ExternalOnly, TP!ExternalFirst, TP!have_internal, TP!have_external,
                       TP!lists, TP!keyed
<1>3. /\ ik \in Seq(Transaction) /\ ek \in Seq(Transaction) /\ Len(ik) \in Nat /\ Len(ek) \in Nat
      /\ tp_i \in 1..(Len(ik) + 1) /\ tp_j \in 1..(Len(ek) + 1)
      /\ BothSides(Range(internal), Range(external))
  BY TwoPointerTypes DEF TP!IInv
<1>4. /\ IsInjective(ik) /\ Range(ik) = Range(internal) /\ Ascending(ik)
      /\ IsInjective(ek) /\ Range(ek) = Range(external) /\ Ascending(ek)
      /\ Walked(ik, ek, tp_i, tp_j, tp_results, Range(internal), Range(external))
  BY <1>2, TwoPointerHeld
<1>5. tp_j \in 1..Len(ek)
  BY <1>2, <1>3
<1> DEFINE g == Slice(ik, tp_i, tp_i)
           h == Slice(ek, tp_j, end)
<1> HIDE DEF ik, ek
<1>6. /\ end \in tp_j..(Len(ek) + 1) /\ v \in Transaction /\ v \in Range(h) /\ h[1] = v
      /\ h \in Seq(Transaction) /\ Len(h) = end - tp_j /\ end - tp_j \in Nat /\ end - tp_j >= 1
      /\ AllHave(Range(h), BuildKey(v)) /\ AllBefore({v}, Rest(ek, end))
  BY <1>3, <1>4, <1>5, OneGroup
<1>7. g = <<>> /\ Range(g) = {}
  <2>1. tp_i \in Nat
    BY <1>3
  <2> QED BY <2>1, EmptySlice
<1>8. AllBefore({v}, Rest(ik, tp_i))
  BY <1>2, <1>3, <1>4, <1>6, BeforeAllOfThem
<1> HIDE DEF v
<1>9. tp_results' = tp_results \o GroupResults(g, h)
  <2>1. CASE end - tp_j > 1
    <3>1. Duplicates(SubSeq(ek, tp_j, end - 1)) = GroupResults(<<>>, h)
      BY <1>6, <2>1, BranchResults DEF Slice
    <3>2. tp_results' = tp_results \o Duplicates(SubSeq(ek, tp_j, end - 1))
      BY <1>1, <2>1
    <3> QED BY <1>7, <3>1, <3>2
  <2>2. CASE ~(end - tp_j > 1)
    <3>1. Len(h) = 1
      BY <1>6, <2>2
    <3>2. <<MissingInternal(ek[tp_j])>> = GroupResults(<<>>, h)
      <4> HIDE DEF h
      <4> QED BY <1>6, <3>1, BranchResults DEF v
    <3>3. tp_results' = tp_results \o <<MissingInternal(ek[tp_j])>>
      BY <1>1, <2>2
    <3> QED BY <1>7, <3>2, <3>3
  <2> QED BY <2>1, <2>2
<1> HIDE DEF g, h
<1>10. Range(h) \subseteq Transaction
  BY <1>6, RangeOfSeq
<1>11. AllBefore(Range(h), Rest(ek, end)) /\ AllBefore(Range(h), Rest(ik, tp_i))
  BY <1>6, <1>8, <1>10, GroupBefore
<1>12. /\ AllHave(Range(g) \union Range(h), BuildKey(v)) /\ v \in Range(g) \union Range(h)
       /\ AllBefore(Range(g) \union Range(h), Rest(ik, tp_i) \union Rest(ek, end))
  BY <1>6, <1>7, <1>11 DEF AllBefore
<1>13. tp_i \in tp_i..(Len(ik) + 1)
  BY <1>3
<1>14. Walked(ik, ek, tp_i, end, tp_results \o GroupResults(g, h), Range(internal), Range(external))
  BY <1>3, <1>4, <1>6, <1>12, <1>13, GroupStep DEF g, h
<1>15. end \in 1..(Len(ek) + 1)
  BY <1>3, <1>6
<1> QED BY <1>1, <1>2, <1>3, <1>9, <1>14, <1>15, WalkKeeps DEF ik, ek

LEMMA EqualKeysKeeps ==
  ASSUME TP!IInv, TP!EqualKeys
  PROVE  TP!IInv'
<1> DEFINE ik == internal_keyed
           ek == external_keyed
           v == ik[tp_i]
           w == ek[tp_j]
<1>1. PICK i_end, j_end :
        /\ i_end \in TP!GroupEnds(ik, tp_i) /\ j_end \in TP!GroupEnds(ek, tp_j)
        /\ tp_i' = i_end /\ tp_j' = j_end
        /\ tp_results' = tp_results \o
             (IF i_end - tp_i > 1 \/ j_end - tp_j > 1
              THEN Duplicates(SubSeq(ik, tp_i, i_end - 1)) \o Duplicates(SubSeq(ek, tp_j, j_end - 1))
              ELSE <<ClassifyMatch(ik[tp_i], ek[tp_j])>>)
  BY TwoPointerClassifier DEF TP!EqualKeys
<1>2. /\ tp_pc = "walk" /\ tp_i <= Len(ik) /\ tp_j <= Len(ek)
      /\ ~Before(v, w) /\ ~Before(w, v)
      /\ UNCHANGED <<internal, external, internal_keyed, external_keyed, tp_pc>>
  BY BeforeIsKeyLT DEF TP!EqualKeys, TP!InternalFirst, TP!ExternalFirst, TP!have_internal,
                       TP!have_external, TP!lists, TP!keyed
<1>3. /\ ik \in Seq(Transaction) /\ ek \in Seq(Transaction) /\ Len(ik) \in Nat /\ Len(ek) \in Nat
      /\ tp_i \in 1..(Len(ik) + 1) /\ tp_j \in 1..(Len(ek) + 1)
      /\ BothSides(Range(internal), Range(external))
  BY TwoPointerTypes DEF TP!IInv
<1>4. /\ IsInjective(ik) /\ Range(ik) = Range(internal) /\ Ascending(ik)
      /\ IsInjective(ek) /\ Range(ek) = Range(external) /\ Ascending(ek)
      /\ Walked(ik, ek, tp_i, tp_j, tp_results, Range(internal), Range(external))
  BY <1>2, TwoPointerHeld
<1>5. tp_i \in 1..Len(ik) /\ tp_j \in 1..Len(ek)
  BY <1>2, <1>3
<1> DEFINE g == Slice(ik, tp_i, i_end)
           h == Slice(ek, tp_j, j_end)
<1> HIDE DEF ik, ek
<1>6. /\ i_end \in tp_i..(Len(ik) + 1) /\ v \in Transaction /\ v \in Range(g) /\ g[1] = v
      /\ g \in Seq(Transaction) /\ Len(g) = i_end - tp_i /\ i_end - tp_i \in Nat /\ i_end - tp_i >= 1
      /\ AllHave(Range(g), BuildKey(v)) /\ AllBefore({v}, Rest(ik, i_end))
  BY <1>1, <1>3, <1>4, <1>5, OneGroup
<1>7. /\ j_end \in tp_j..(Len(ek) + 1) /\ w \in Transaction /\ w \in Range(h) /\ h[1] = w
      /\ h \in Seq(Transaction) /\ Len(h) = j_end - tp_j /\ j_end - tp_j \in Nat /\ j_end - tp_j >= 1
      /\ AllHave(Range(h), BuildKey(w)) /\ AllBefore({w}, Rest(ek, j_end))
  BY <1>1, <1>3, <1>4, <1>5, OneGroup
<1>8. BuildKey(v) = BuildKey(w)
  BY <1>2, <1>6, <1>7, BeforeIsAnOrder
<1>9. tp_results' = tp_results \o GroupResults(g, h)
  <2>1. CASE i_end - tp_i > 1 \/ j_end - tp_j > 1
    <3>1. Len(g) > 1 \/ Len(h) > 1
      BY <1>6, <1>7, <2>1
    <3>2. GroupResults(g, h) = Duplicates(SubSeq(ik, tp_i, i_end - 1))
                                 \o Duplicates(SubSeq(ek, tp_j, j_end - 1))
      BY <3>1 DEF GroupResults, Slice
    <3>3. tp_results' = tp_results \o (Duplicates(SubSeq(ik, tp_i, i_end - 1))
                                         \o Duplicates(SubSeq(ek, tp_j, j_end - 1)))
      BY <1>1, <2>1
    <3> QED BY <3>2, <3>3
  <2>2. CASE ~(i_end - tp_i > 1 \/ j_end - tp_j > 1)
    <3>1. Len(g) = 1 /\ Len(h) = 1
      BY <1>6, <1>7, <2>2
    <3>2. GroupResults(g, h) = <<ClassifyMatch(v, w)>>
      <4> HIDE DEF g, h, v, w
      <4>1. GroupResults(g, h) = <<ClassifyMatch(g[1], h[1])>>
        BY <3>1 DEF GroupResults
      <4> QED BY <1>6, <1>7, <4>1
    <3>3. tp_results' = tp_results \o <<ClassifyMatch(v, w)>>
      BY <1>1, <2>2
    <3> QED BY <3>2, <3>3
  <2> QED BY <2>1, <2>2
<1> HIDE DEF g, h, v, w
<1>10. Range(g) \subseteq Transaction /\ Range(h) \subseteq Transaction
  BY <1>6, <1>7, RangeOfSeq
<1>11. AllBefore({v}, Rest(ek, j_end)) /\ AllHave(Range(h), BuildKey(v))
  <2>1. {v} \subseteq Transaction /\ AllHave({v}, BuildKey(w))
    BY <1>6, <1>8 DEF AllHave
  <2>2. AllBefore({v}, Rest(ek, j_end))
    BY <1>7, <2>1, GroupBefore
  <2> QED BY <1>7, <1>8, <2>2
<1>12. AllBefore(Range(g), Rest(ik, i_end)) /\ AllBefore(Range(g), Rest(ek, j_end))
  BY <1>6, <1>10, <1>11, GroupBefore
<1>13. AllBefore(Range(h), Rest(ik, i_end)) /\ AllBefore(Range(h), Rest(ek, j_end))
  BY <1>6, <1>10, <1>11, GroupBefore
<1>14. /\ AllHave(Range(g) \union Range(h), BuildKey(v)) /\ v \in Range(g) \union Range(h)
       /\ AllBefore(Range(g) \union Range(h), Rest(ik, i_end) \union Rest(ek, j_end))
  BY <1>6, <1>11, <1>12, <1>13 DEF AllBefore, AllHave
<1>15. Walked(ik, ek, i_end, j_end, tp_results \o GroupResults(g, h), Range(internal), Range(external))
  BY <1>3, <1>4, <1>6, <1>7, <1>14, GroupStep DEF g, h
<1>16. i_end \in 1..(Len(ik) + 1) /\ j_end \in 1..(Len(ek) + 1)
  BY <1>3, <1>6, <1>7
<1> QED BY <1>1, <1>2, <1>3, <1>9, <1>15, <1>16, WalkKeeps DEF ik, ek

LEMMA TwoPointerInit == TP!Init => TP!IInv
<1> SUFFICES ASSUME TP!Init PROVE TP!IInv
  OBVIOUS
<1>1. internal \in ListsOf("INTERNAL") /\ external \in ListsOf("EXTERNAL")
  BY ListsAssumption DEF TP!Init
<1>2. <<>> \in Seq(Transaction) /\ <<>> \in Seq(ReconciliationResult) /\ Len(<<>>) = 0
  BY EmptySeq
<1>3. TP!TypeOK
  BY <1>1, <1>2, TwoPointerClassifier DEF TP!TypeOK, TP!Init
<1> QED BY <1>3 DEF TP!IInv, TP!MergedSoFar, TP!Init

\* A stable order of a list lists its records, each once, by ascending key.
LEMMA ReorderedIsSorted ==
  ASSUME NEW s \in Seq(Transaction), IsInjective(s), NEW p \in TP!StableOrder(s)
  PROVE  /\ TP!Reordered(s, p) \in Seq(Transaction)
         /\ IsInjective(TP!Reordered(s, p)) /\ Range(TP!Reordered(s, p)) = Range(s)
         /\ Ascending(TP!Reordered(s, p))
<1> DEFINE r == TP!Reordered(s, p)
<1>1. DOMAIN s = 1..Len(s) /\ Len(s) \in Nat
  BY LenProperties
<1>2. /\ p \in [DOMAIN s -> DOMAIN s]
      /\ \A k, l \in DOMAIN s : p[k] = p[l] => k = l
      /\ \A l \in DOMAIN s : \E k \in DOMAIN s : p[k] = l
      /\ \A k, l \in DOMAIN s :
           k < l => Before(s[p[k]], s[p[l]]) \/ BuildKey(s[p[k]]) = BuildKey(s[p[l]])
  BY BeforeIsKeyLT DEF TP!StableOrder, TP!Bijection, TP!Injection, TP!Surjection, TP!IsInjective
<1>3. DOMAIN r = DOMAIN s /\ \A k \in DOMAIN s : r[k] = s[p[k]]
  BY DEF TP!Reordered
<1>4. \A k \in DOMAIN s : s[k] \in Transaction
  BY <1>1, ElementOfSeq
<1>5. r \in Seq(Transaction)
  <2>1. \A k \in 1..Len(s) : s[p[k]] \in Transaction
    BY <1>1, <1>2, <1>4
  <2> QED BY <1>1, <2>1 DEF TP!Reordered
<1> HIDE DEF r
<1>6. IsInjective(r)
  BY <1>2, <1>3 DEF IsInjective
<1>7. Range(r) = Range(s)
  BY <1>2, <1>3 DEF Range
<1>8. Ascending(r)
  <2> SUFFICES ASSUME NEW k \in DOMAIN s, NEW l \in DOMAIN s, k < l
               PROVE  Before(r[k], r[l]) \/ BuildKey(r[k]) = BuildKey(r[l])
    BY <1>3 DEF Ascending
  <2>1. Before(s[p[k]], s[p[l]]) \/ BuildKey(s[p[k]]) = BuildKey(s[p[l]])
    BY <1>2
  <2> QED BY <1>3, <2>1
<1> QED BY <1>5, <1>6, <1>7, <1>8 DEF r

LEMMA SortKeeps ==
  ASSUME TP!IInv, TP!Sort
  PROVE  TP!IInv'
<1>1. /\ tp_pc = "sort" /\ tp_pc' = "walk" /\ tp_i' = 1 /\ tp_j' = 1 /\ tp_results' = <<>>
      /\ UNCHANGED <<internal, external>>
  BY DEF TP!IInv, TP!Sort, TP!lists
<1>2. PICK p \in TP!StableOrder(internal) : internal_keyed' = TP!Reordered(internal, p)
  BY DEF TP!Sort
<1>3. PICK q \in TP!StableOrder(external) : external_keyed' = TP!Reordered(external, q)
  BY DEF TP!Sort
<1>4. /\ internal \in Seq(Transaction) /\ IsInjective(internal)
      /\ external \in Seq(Transaction) /\ IsInjective(external)
  BY TwoPointerTypes, ListsAreSides DEF TP!IInv
<1> DEFINE ik == TP!Reordered(internal, p)
           ek == TP!Reordered(external, q)
<1>5. /\ ik \in Seq(Transaction) /\ IsInjective(ik) /\ Range(ik) = Range(internal) /\ Ascending(ik)
  BY <1>4, ReorderedIsSorted
<1>6. /\ ek \in Seq(Transaction) /\ IsInjective(ek) /\ Range(ek) = Range(external) /\ Ascending(ek)
  BY <1>4, ReorderedIsSorted
<1>7. ik = internal_keyed' /\ ek = external_keyed'
  BY <1>2, <1>3
<1> HIDE DEF ik, ek
<1>8. Len(ik) \in Nat /\ Len(ek) \in Nat
  BY <1>5, <1>6, LenProperties
<1>9. TP!TypeOK'
  <2>1. 1 \in 1..(Len(ik) + 1) /\ 1 \in 1..(Len(ek) + 1)
    BY <1>8
  <2>2. <<>> \in Seq(ReconciliationResult)
    BY EmptySeq
  <2> QED BY <1>1, <1>5, <1>6, <1>7, <2>1, <2>2, TwoPointerClassifier DEF TP!IInv, TP!TypeOK
<1>10. TP!SortedFrom(ik, internal) /\ TP!SortedFrom(ek, external)
  BY <1>5, <1>6, SortedIsAscending
<1>11. (TP!SortedFrom(internal_keyed, internal) /\ TP!SortedFrom(external_keyed, external))'
  BY <1>1, <1>7, <1>10 DEF TP!SortedFrom
<1>12. TP!MergedSoFar'
  <2>1. TP!Merged' = {}
    BY <1>1 DEF TP!Merged
  <2>2. TP!Range(<<>>) = {} /\ TP!IsInjective(<<>>)
    BY DEF TP!Range, TP!IsInjective
  <2>3. {TP!Verdict(t, TP!Range(internal), TP!Range(external)) : t \in TP!Merged'} = {}
    BY <2>1
  <2> QED BY <1>1, <2>1, <2>2, <2>3 DEF TP!MergedSoFar
<1> QED BY <1>1, <1>9, <1>11, <1>12 DEF TP!IInv

LEMMA TwoPointerReturnKeeps ==
  ASSUME TP!IInv, TP!Return
  PROVE  TP!IInv'
<1>1. /\ tp_pc = "walk" /\ tp_pc' = "done" /\ ~(tp_i <= Len(internal_keyed))
      /\ ~(tp_j <= Len(external_keyed))
      /\ UNCHANGED <<internal, external, internal_keyed, external_keyed, tp_i, tp_j, tp_results>>
  BY DEF TP!Return, TP!lists, TP!keyed, TP!have_internal, TP!have_external
<1>2. tp_i = Len(internal_keyed) + 1 /\ tp_j = Len(external_keyed) + 1
  BY <1>1, TwoPointerTypes DEF TP!IInv
<1>3. TP!TypeOK'
  BY <1>1 DEF TP!IInv, TP!TypeOK
<1>4. (TP!SortedFrom(internal_keyed, internal) /\ TP!SortedFrom(external_keyed, external))'
  BY <1>1 DEF TP!IInv, TP!SortedFrom
<1>5. TP!MergedSoFar'
  BY <1>1 DEF TP!IInv, TP!MergedSoFar, TP!Merged, TP!Ahead
<1> QED BY <1>1, <1>2, <1>3, <1>4, <1>5 DEF TP!IInv

LEMMA TwoPointerStep ==
  ASSUME TP!IInv, [TP!Next]_(TP!vars)
  PROVE  TP!IInv'
<1>1. CASE UNCHANGED TP!vars
  <2>1. UNCHANGED <<internal, external, internal_keyed, external_keyed, tp_i, tp_j, tp_results, tp_pc>>
    BY <1>1 DEF TP!vars, TP!lists, TP!keyed
  <2> QED BY <2>1 DEF TP!IInv, TP!TypeOK, TP!SortedFrom, TP!MergedSoFar, TP!Merged, TP!Ahead
<1>2. CASE TP!Sort BY <1>2, SortKeeps
<1>3. CASE TP!InternalOnly BY <1>3, InternalOnlyKeeps
<1>4. CASE TP!ExternalOnly BY <1>4, ExternalOnlyKeeps
<1>5. CASE TP!EqualKeys BY <1>5, EqualKeysKeeps
<1>6. CASE TP!Return BY <1>6, TwoPointerReturnKeeps
<1> QED BY <1>1, <1>2, <1>3, <1>4, <1>5, <1>6 DEF TP!Next, TP!Step, TP!Terminated

\* The inductive invariant holds at every step of two_pointer_reconciler.reconcile.
THEOREM TwoPointerInvariance == RunsSpec => []TP!IInv
  BY TwoPointerInit, TwoPointerStep, OwnSteps, PTL DEF TP!Spec

\* When the walk is over, the results are the expected ones.
LEMMA TwoPointerIsExpected ==
  ASSUME TP!IInv, tp_pc # "sort",
         tp_i = Len(internal_keyed) + 1, tp_j = Len(external_keyed) + 1
  PROVE  /\ tp_results \in Seq(ReconciliationResult) /\ IsInjective(tp_results)
         /\ Range(tp_results) = Expected(Range(internal), Range(external))
<1>1. /\ Range(internal_keyed) = Range(internal) /\ Range(external_keyed) = Range(external)
      /\ Walked(internal_keyed, external_keyed, tp_i, tp_j, tp_results,
                Range(internal), Range(external))
  BY TwoPointerHeld
<1>2. Front(internal_keyed, tp_i) = Range(internal) /\ Front(external_keyed, tp_j) = Range(external)
  <2>1. /\ DOMAIN internal_keyed = 1..(tp_i - 1) /\ DOMAIN external_keyed = 1..(tp_j - 1)
    BY TwoPointerTypes DEF TP!IInv
  <2> QED BY <1>1, <2>1 DEF Front, Range
<1>3. /\ tp_results \in Seq(ReconciliationResult) /\ IsInjective(tp_results)
      /\ Range(tp_results) = Verdicts(Range(internal) \union Range(external),
                                      Range(internal), Range(external))
  BY <1>1, <1>2 DEF Walked, Reports
<1> QED BY <1>3 DEF Verdicts, Expected

\* The two-pointer walk implements Reconciliation.
LEMMA TwoPointerImplements == RunsSpec => TP!ImplementsReconciliation
<1>1. TP!Init => TP!R!Init
  BY DEF TP!Init, TP!R!Init, TP!Outcome
<1>2. TP!IInv /\ [TP!Next]_(TP!vars) => [TP!R!Next]_(TP!R!vars)
  <2> SUFFICES ASSUME TP!IInv, [TP!Next]_(TP!vars)
               PROVE  [TP!R!Next]_(TP!R!vars)
    OBVIOUS
  <2>1. CASE UNCHANGED TP!vars
    BY <2>1 DEF TP!vars, TP!lists, TP!R!vars, TP!Outcome
  <2>2. CASE TP!Sort \/ TP!InternalOnly \/ TP!ExternalOnly \/ TP!EqualKeys
    <3>1. UNCHANGED <<internal, external>> /\ tp_pc # "done" /\ tp_pc' # "done"
      BY <2>2 DEF TP!Sort, TP!InternalOnly, TP!ExternalOnly, TP!EqualKeys, TP!lists
    <3> QED BY <3>1 DEF TP!R!vars, TP!Outcome
  <2>3. CASE TP!Return
    <3>1. /\ TP!Outcome = None /\ TP!Outcome' = tp_results
          /\ UNCHANGED <<internal, external>>
      BY <2>3 DEF TP!Return, TP!Outcome, TP!lists
    <3>2. tp_i = Len(internal_keyed) + 1 /\ tp_j = Len(external_keyed) + 1 /\ tp_pc # "sort"
      BY <2>3, TwoPointerTypes DEF TP!IInv, TP!Return, TP!have_internal, TP!have_external
    <3>3. /\ tp_results \in Seq(ReconciliationResult) /\ IsInjective(tp_results)
          /\ Range(tp_results) = Expected(Range(internal), Range(external))
      BY <3>2, TwoPointerIsExpected
    <3>4. tp_results \in Seq(Range(tp_results))
      BY <3>3, SeqOfRange
    <3>5. TP!R!Enumerates(tp_results, TP!Expected(TP!Range(internal), TP!Range(external)))
      BY <3>3, <3>4, TwoPointerClassifier
      DEF TP!R!Enumerates, TP!R!Range, TP!R!IsInjective, Range, IsInjective
    <3>6. TP!R!Reconcile
      BY <3>1, <3>5 DEF TP!R!Reconcile, TP!R!Range, TP!Range
    <3> QED BY <3>6 DEF TP!R!Next
  <2> QED BY <2>1, <2>2, <2>3 DEF TP!Next, TP!Step, TP!Terminated
<1> QED BY <1>1, <1>2, TwoPointerInvariance, OwnSteps, PTL
        DEF TP!Spec, TP!ImplementsReconciliation, TP!R!Spec

\* The loop invariant of the two-pointer walk: no group of equal keys is cut
\* in two, and the records behind the pointers are reported, each once.
THEOREM WalkIsMerged == RunsSpec => []MergedSoFar
<1>1. TP!IInv => MergedSoFar
  BY DEF TP!IInv, MergedSoFar
<1> QED BY <1>1, TwoPointerInvariance, PTL

-----------------------------------------------------------------------------
(* The three algorithms together. *)

\* Every variable of the three algorithms stays within its type.
THEOREM AllTypesCorrect == RunsSpec => []AllTypesOK
<1>1. IInv /\ TP!IInv /\ BF!IInv => AllTypesOK
  BY DEF IInv, TP!IInv, BF!IInv, AllTypesOK
<1> QED BY <1>1, Invariance, TwoPointerInvariance, BruteForceInvariance, OwnSteps, PTL

\* What --algorithm two-pointer and --algorithm brute-force return is what the
\* policy calls for as well: both implement Reconciliation.
THEOREM AllImplement == RunsSpec => OthersImplement
BY TwoPointerImplements, BruteForceImplements DEF OthersImplement

\* One after the other: when the last has returned, all have.
Turns ==
  /\ bf_pc # "count" => tp_pc = "done"
  /\ pc # "index" => bf_pc = "done"

LEMMA TurnsKept == RunsSpec => []Turns
<1>1. Start => Turns
  BY DEF Start, Init, BF!Init, Turns
<1>2. Turns /\ BF!TypeOK /\ [Run \/ AllReturned]_all_vars => Turns'
  <2> SUFFICES ASSUME Turns, [Run \/ AllReturned]_all_vars PROVE Turns'
    OBVIOUS
  <2>1. CASE RunTwoPointer
    <3>1. UNCHANGED <<pc, bf_pc>> /\ tp_pc # "done"
      BY <2>1 DEF RunTwoPointer, vars, bf_vars, TP!Step, TP!Sort, TP!InternalOnly, TP!ExternalOnly,
                  TP!EqualKeys, TP!Return
    <3> QED BY <3>1 DEF Turns
  <2>2. CASE RunBruteForce
    <3>1. UNCHANGED <<pc, tp_pc>> /\ tp_pc = "done"
      BY <2>2 DEF RunBruteForce, vars, tp_vars
    <3>2. bf_pc # "done"
      BY <2>2 DEF RunBruteForce, BF!Step, BF!CountInternal, BF!CountExternal, BF!EndCounting,
                  BF!DecideInternal, BF!DecideExternal, BF!Return
    <3> QED BY <3>1, <3>2 DEF Turns
  <2>3. CASE RunHash
    BY <2>3 DEF RunHash, Turns, bf_vars, tp_vars
  <2>4. CASE AllReturned \/ UNCHANGED all_vars
    BY <2>4 DEF AllReturned, all_vars, vars, tp_vars, bf_vars, Turns
  <2> QED BY <2>1, <2>2, <2>3, <2>4 DEF Run
<1>3. RunsSpec => []BF!TypeOK
  <2>1. BF!IInv => BF!TypeOK
    BY DEF BF!IInv
  <2> QED BY <2>1, BruteForceInvariance, PTL
<1> QED BY <1>1, <1>2, <1>3, PTL DEF RunsSpec

\* A list of distinct results is as long as the set of them is large.
LEMMA DistinctLength ==
  ASSUME NEW s \in Seq(ReconciliationResult), IsInjective(s)
  PROVE  Cardinality(Range(s)) = Len(s)
<1>1. Len(s) \in Nat /\ DOMAIN s = 1..Len(s)
  BY LenProperties
<1>2. s \in [1..Len(s) -> Range(s)]
  BY <1>1 DEF Range
<1>3. s \in Bijection(1..Len(s), Range(s))
  BY <1>1, <1>2 DEF Bijection, Injection, Surjection, IsInjective, Range
<1>4. ExistsBijection(1..Len(s), Range(s))
  BY <1>3 DEF ExistsBijection
<1> QED BY <1>1, <1>4, FS_CountingElements

\* README.md:22-24 and 127-131, "identical counts": when the three have
\* returned, they have returned the same results, and as many of them.
THEOREM AlgorithmsAgreeAlways == RunsSpec => []AlgorithmsAgree
<1>1. ASSUME IInv, TP!IInv, BF!IInv, Turns
      PROVE  AlgorithmsAgree
  <2> SUFFICES ASSUME pc = "done"
               PROVE  /\ Range(tp_results) = Range(results) /\ Len(tp_results) = Len(results)
                      /\ Range(bf_results) = Range(results) /\ Len(bf_results) = Len(results)
    BY DEF AlgorithmsAgree
  <2>1. bf_pc = "done" /\ tp_pc = "done"
    BY <1>1 DEF Turns
  <2>2. /\ results \in Seq(ReconciliationResult) /\ IsInjective(results)
        /\ Range(results) = Expected(Range(internal), Range(external))
    <3>1. all_keys = {}
      BY <1>1 DEF IInv, VisitedSoFar
    <3> QED BY <1>1, <3>1, DoneIsExpected
  <2>3. /\ bf_results \in Seq(ReconciliationResult) /\ IsInjective(bf_results)
        /\ Range(bf_results) = Expected(Range(internal), Range(external))
    <3>1. bf_i = Len(internal) /\ bf_j = Len(external)
      BY <1>1, <2>1 DEF BF!IInv, BF!DecidedSoFar
    <3> QED BY <1>1, <3>1, BruteForceIsExpected
  <2>4. /\ tp_results \in Seq(ReconciliationResult) /\ IsInjective(tp_results)
        /\ Range(tp_results) = Expected(Range(internal), Range(external))
    <3>1. tp_i = Len(internal_keyed) + 1 /\ tp_j = Len(external_keyed) + 1 /\ tp_pc # "sort"
      BY <1>1, <2>1 DEF TP!IInv
    <3> QED BY <1>1, <3>1, TwoPointerIsExpected
  <2>5. /\ Cardinality(Range(results)) = Len(results)
        /\ Cardinality(Range(bf_results)) = Len(bf_results)
        /\ Cardinality(Range(tp_results)) = Len(tp_results)
    BY <2>2, <2>3, <2>4, DistinctLength
  <2> QED BY <2>2, <2>3, <2>4, <2>5
<1> QED BY <1>1, Invariance, TwoPointerInvariance, BruteForceInvariance, TurnsKept, OwnSteps, PTL

-----------------------------------------------------------------------------
(* The FULL OUTER JOIN. *)

\* A finite set has more than one element when two of them differ.
LEMMA MoreThanOne ==
  ASSUME NEW S, IsFiniteSet(S)
  PROVE  Cardinality(S) > 1 <=> \E u, v \in S : u # v
<1>1. Cardinality(S) \in Nat
  BY FS_CardinalityType
<1>2. Cardinality(S) = 0 <=> S = {}
  BY FS_EmptySet
<1>3. Cardinality(S) = 1 <=> \E x : S = {x}
  BY FS_Singleton
<1>4. Cardinality(S) > 1 <=> Cardinality(S) # 0 /\ Cardinality(S) # 1
  BY <1>1
<1>5. (\E u, v \in S : u # v) <=> S # {} /\ ~(\E x : S = {x})
  OBVIOUS
<1> QED BY <1>2, <1>3, <1>4, <1>5

\* The records of S with t's transaction id, which is the key of EXACT_ID.
SameId(t, S) == {u \in S : u.transaction_id = t.transaction_id}

LEMMA PeersById ==
  ASSUME NEW t, NEW S
  PROVE  X!Peers(t, S) = SameId(t, S)
BY DEF X!Peers, X!BuildKey, SameId

\* Query 3 finds the ids that the external source repeats.
LEMMA ListedIsRepeated ==
  ASSUME NEW t, NEW E, IsFiniteSet(E)
  PROVE  t.transaction_id \in SQL!RepeatedIds(E) <=> \E u, v \in SameId(t, E) : u # v
<1>1. IsFiniteSet(SameId(t, E))
  BY FS_Subset DEF SameId
<1>2. Cardinality(SameId(t, E)) > 1 <=> \E u, v \in SameId(t, E) : u # v
  BY <1>1, MoreThanOne
<1>3. t.transaction_id \in SQL!RepeatedIds(E) <=>
        /\ t.transaction_id \in {u.transaction_id : u \in E}
        /\ Cardinality(SameId(t, E)) > 1
  BY DEF SQL!RepeatedIds, SQL!Cardinality, Cardinality, SameId
<1>4. (\E u, v \in SameId(t, E) : u # v) => t.transaction_id \in {u.transaction_id : u \in E}
  BY DEF SameId
<1> QED BY <1>2, <1>3, <1>4

\* Without tolerance, the join's CASE gives the status of the pair, or one of
\* its mismatches.
LEMMA JoinStatus ==
  ASSUME NEW i \in Transaction, NEW e \in Transaction
  PROVE  IF X!StatusOf(X!Mismatches(i, e)) = "MULTIPLE_MISMATCHES"
         THEN \E d \in X!Mismatches(i, e) : SQL!StatusOf(<<i, e>>) = X!StatusOf({d})
         ELSE SQL!StatusOf(<<i, e>>) = X!StatusOf(X!Mismatches(i, e))
<1> DEFINE M == X!Mismatches(i, e)
<1>1. i # None /\ e # None
  BY MatchingAssumption
<1>2. /\ X!AbsDifference(i.amount, e.amount) > 0 <=> i.amount # e.amount
      /\ X!AbsDifference(i.tax_amount, e.tax_amount) > 0 <=> i.tax_amount # e.tax_amount
  BY DEF X!AbsDifference, Transaction
<1>3. /\ "amount differs" \in M <=> i.amount # e.amount
      /\ "tax differs" \in M <=> i.tax_amount # e.tax_amount
      /\ "date differs" \in M <=> i.transaction_date # e.transaction_date
      /\ "vendor differs" \in M <=> i.vendor_id # e.vendor_id
      /\ M \subseteq {"amount differs", "tax differs", "date differs", "vendor differs"}
  BY <1>2 DEF X!Mismatches
<1> HIDE DEF M
<1>4. SQL!StatusOf(<<i, e>>) =
        IF "amount differs" \in M THEN "AMOUNT_MISMATCH"
        ELSE IF "tax differs" \in M THEN "TAX_MISMATCH"
        ELSE IF "date differs" \in M THEN "DATE_MISMATCH"
        ELSE IF "vendor differs" \in M THEN "VENDOR_MISMATCH"
        ELSE "MATCHED"
  BY <1>1, <1>3 DEF SQL!StatusOf
<1>5. /\ X!StatusOf({}) = "MATCHED"
      /\ X!StatusOf({"amount differs"}) = "AMOUNT_MISMATCH"
      /\ X!StatusOf({"tax differs"}) = "TAX_MISMATCH"
      /\ X!StatusOf({"date differs"}) = "DATE_MISMATCH"
      /\ X!StatusOf({"vendor differs"}) = "VENDOR_MISMATCH"
  BY DEF X!StatusOf
<1>6. CASE M \in {{}, {"amount differs"}, {"tax differs"}, {"date differs"}, {"vendor differs"}}
  <2>1. SQL!StatusOf(<<i, e>>) = X!StatusOf(M) /\ X!StatusOf(M) # "MULTIPLE_MISMATCHES"
    BY <1>4, <1>5, <1>6
  <2> QED BY <2>1 DEF M
<1>7. CASE M \notin {{}, {"amount differs"}, {"tax differs"}, {"date differs"}, {"vendor differs"}}
  <2>1. X!StatusOf(M) = "MULTIPLE_MISMATCHES"
    BY <1>7 DEF X!StatusOf
  <2>2. \E d \in M : SQL!StatusOf(<<i, e>>) = X!StatusOf({d})
    <3>1. M # {}
      BY <1>7
    <3>2. \/ "amount differs" \in M \/ "tax differs" \in M \/ "date differs" \in M
          \/ "vendor differs" \in M
      BY <1>3, <3>1
    <3> QED BY <1>4, <1>5, <3>2
  <2> QED BY <2>1, <2>2 DEF M
<1> QED BY <1>6, <1>7

LEMMA FiniteRange ==
  ASSUME NEW s \in Seq(Transaction)
  PROVE  IsFiniteSet(Range(s))
<1>1. DOMAIN s = 1..Len(s) /\ Len(s) \in Nat
  BY LenProperties
<1>2. s \in Surjection(1..Len(s), Range(s))
  BY <1>1 DEF Surjection, Range
<1>3. ExistsSurjection(1..Len(s), Range(s))
  BY <1>2 DEF ExistsSurjection
<1> QED BY <1>1, <1>3, FS_NatSurjection

\* The rows of the join about a record whose id the other source does not
\* repeat, whether its own source does or not.
LEMMA JoinRows ==
  ASSUME NEW t, BothSides(Range(internal), Range(external))
  PROVE  /\ t \in Range(internal) /\ SameId(t, Range(external)) = {} =>
              RowsAbout(t) = {<<t, None>>}
         /\ t \in Range(external) /\ SameId(t, Range(internal)) = {} =>
              RowsAbout(t) = {<<None, t>>}
         /\ \A e : t \in Range(internal) /\ SameId(t, Range(external)) = {e} =>
              RowsAbout(t) = {<<t, e>>}
         /\ \A i : t \in Range(external) /\ SameId(t, Range(internal)) = {i} =>
              RowsAbout(t) = {<<i, t>>}
<1> DEFINE I == Range(internal)
           E == Range(external)
           J == SQL!Joined(I, E)
<1>1. I \intersect E = {} /\ None \notin I /\ None \notin E
  BY SidesAreDisjoint
<1>2. \A p : p \in J <=>
        \/ \E i \in I, e \in E : p = <<i, e>> /\ i.transaction_id = e.transaction_id
        \/ \E i \in I : p = <<i, None>> /\ \A e \in E : i.transaction_id # e.transaction_id
        \/ \E e \in E : p = <<None, e>> /\ \A i \in I : i.transaction_id # e.transaction_id
  BY DEF SQL!Joined
<1>3. \A p : p \in RowsAbout(t) <=> p \in J /\ t \in {p[1], p[2]}
  BY DEF RowsAbout
<1> HIDE DEF J, I, E
<1>4. ASSUME t \in I \union E
      PROVE  \A p : p \in RowsAbout(t) <=>
        \/ \E i \in I, e \in E : p = <<i, e>> /\ i.transaction_id = e.transaction_id /\ t \in {i, e}
        \/ t \in I /\ p = <<t, None>> /\ \A e \in E : t.transaction_id # e.transaction_id
        \/ t \in E /\ p = <<None, t>> /\ \A i \in I : i.transaction_id # t.transaction_id
  BY <1>1, <1>2, <1>3, <1>4
<1>5. ASSUME t \in I, SameId(t, E) = {}
      PROVE  RowsAbout(t) = {<<t, None>>}
  <2>1. \A e \in E : e.transaction_id # t.transaction_id
    BY <1>5 DEF SameId
  <2> QED BY <1>1, <1>4, <1>5, <2>1
<1>6. ASSUME t \in E, SameId(t, I) = {}
      PROVE  RowsAbout(t) = {<<None, t>>}
  <2>1. \A i \in I : i.transaction_id # t.transaction_id
    BY <1>6 DEF SameId
  <2> QED BY <1>1, <1>4, <1>6, <2>1
<1>7. ASSUME NEW e, t \in I, SameId(t, E) = {e}
      PROVE  RowsAbout(t) = {<<t, e>>}
  <2>1. e \in E /\ \A x \in E : x.transaction_id = t.transaction_id <=> x = e
    BY <1>7 DEF SameId
  <2> QED BY <1>1, <1>4, <1>7, <2>1
<1>8. ASSUME NEW i, t \in E, SameId(t, I) = {i}
      PROVE  RowsAbout(t) = {<<i, t>>}
  <2>1. i \in I /\ \A x \in I : x.transaction_id = t.transaction_id <=> x = i
    BY <1>8 DEF SameId
  <2> QED BY <1>1, <1>4, <1>8, <2>1
<1> QED BY <1>5, <1>6, <1>7, <1>8 DEF I, E

\* The join says of an internal record what the policy says of it and the
\* external records, and of an external one what the policy says of all.
LEMMA JoinSaysVerdict ==
  ASSUME BothSides(Range(internal), Range(external)),
         NEW S \in SUBSET Range(internal), NEW t \in S \union Range(external),
         t \in S \/ S = Range(internal),
         ~X!Ambiguous(t, S, Range(external))
  PROVE  JoinSays(t, X!Verdict(t, S, Range(external)))
<1> DEFINE E == Range(external)
           V == X!Verdict(t, S, E)
<1>1. /\ t \in S => t \in Range(internal) /\ t \notin E
      /\ t \notin S => t \in E /\ S = Range(internal)
      /\ t # None
  BY SidesAreDisjoint
<1>2. /\ \A u, v \in SameId(t, S) : u = v
      /\ \A u, v \in SameId(t, E) : u = v
  BY PeersById DEF X!Ambiguous
<1>3. (t \in S => t \in SameId(t, S)) /\ (t \in E => t \in SameId(t, E))
  BY DEF SameId
<1> HIDE DEF E
<1>4. CASE SameId(t, E) = {}
  <2>1. V.status = "MISSING_EXTERNAL"
    BY <1>4, PeersById DEF X!Verdict, X!MissingExternal, E
  <2>2. SQL!StatusOf(<<t, None>>) = "MISSING_EXTERNAL"
    BY <1>1 DEF SQL!StatusOf
  <2>3. RowsAbout(t) = {<<t, None>>}
    BY <1>1, <1>3, <1>4, JoinRows DEF E
  <2> HIDE DEF V
  <2>4. JoinSays(t, V)
    BY <2>1, <2>2, <2>3 DEF JoinSays
  <2> QED BY <2>4 DEF V, E
<1>5. CASE SameId(t, E) # {} /\ SameId(t, S) = {}
  <2>1. V.status = "MISSING_INTERNAL"
    BY <1>5, PeersById DEF X!Verdict, X!MissingInternal, E
  <2>2. SQL!StatusOf(<<None, t>>) = "MISSING_INTERNAL"
    BY DEF SQL!StatusOf
  <2>3. RowsAbout(t) = {<<None, t>>}
    BY <1>1, <1>3, <1>5, JoinRows DEF E
  <2> HIDE DEF V
  <2>4. JoinSays(t, V)
    BY <2>1, <2>2, <2>3 DEF JoinSays
  <2> QED BY <2>4 DEF V, E
<1>6. CASE SameId(t, E) # {} /\ SameId(t, S) # {}
  <2>1. PICK i, e : i \in SameId(t, S) /\ e \in SameId(t, E)
    BY <1>6
  <2>2. SameId(t, S) = {i} /\ SameId(t, E) = {e}
    BY <1>2, <2>1
  <2>3. X!OneOf({i}) = i /\ X!OneOf({e}) = e
    BY DEF X!OneOf
  <2>4. V = X!ClassifyMatch(i, e)
    BY <2>2, <2>3, PeersById DEF X!Verdict, E
  <2>5. /\ X!ClassifyMatch(i, e).status = X!StatusOf(X!Mismatches(i, e))
        /\ X!ClassifyMatch(i, e).mismatch_details = X!Mismatches(i, e)
    BY DEF X!ClassifyMatch
  <2>6. i \in Transaction /\ e \in Transaction
    BY <2>1 DEF SameId, BothSides, E
  <2>7. RowsAbout(t) = {<<i, e>>}
    <3>1. CASE t \in S
      <4>1. t = i /\ t \in Range(internal)
        BY <1>1, <1>3, <2>2, <3>1
      <4> QED BY <2>2, <4>1, JoinRows DEF E
    <3>2. CASE t \notin S
      <4>1. t \in E /\ S = Range(internal)
        BY <1>1, <3>2
      <4>2. t = e
        BY <1>3, <2>2, <4>1
      <4> QED BY <2>2, <4>1, <4>2, JoinRows DEF E
    <3> QED BY <3>1, <3>2
  <2>8. IF V.status = "MULTIPLE_MISMATCHES"
        THEN \E d \in V.mismatch_details : SQL!StatusOf(<<i, e>>) = X!StatusOf({d})
        ELSE SQL!StatusOf(<<i, e>>) = V.status
    BY <2>4, <2>5, <2>6, JoinStatus
  <2> HIDE DEF V
  <2>9. JoinSays(t, V)
    BY <2>7, <2>8 DEF JoinSays
  <2> QED BY <2>9 DEF V, E
<1> QED BY <1>4, <1>5, <1>6

\* sample_queries.sql, "KNOWN, VERIFIED LIMITATION": for an id that neither
\* source repeats, the FULL OUTER JOIN has one row, with the status of the
\* policy by id or with one of its mismatches.  Query 3 lists the ids that the
\* external source repeats; where only the internal source repeats an id, the
\* join has one ordinary row for each of its records, as if it were alone.
THEOREM JoinIsExact == RunsSpec => []JoinIsExactOnUniqueKeys
<1>1. ASSUME TypeOK
      PROVE  JoinIsExactOnUniqueKeys
  <2> DEFINE I == Range(internal)
             E == Range(external)
  <2>1. BothSides(I, E) /\ IsFiniteSet(E)
    <3>1. /\ internal \in Seq(Transaction) /\ IsInjective(internal)
          /\ external \in Seq(Transaction) /\ IsInjective(external)
          /\ BothSides(I, E)
      BY <1>1, ListsHeld
    <3> QED BY <3>1, FiniteRange
  <2> SUFFICES ASSUME NEW t \in I \union E
               PROVE  LET verdict == X!Verdict(t, I, E)
                          listed == t.transaction_id \in SQL!RepeatedIds(E)
                          repeatedInternally ==
                            \E u, v \in I :
                              u # v /\ {u.transaction_id, v.transaction_id} = {t.transaction_id}
                      IN /\ verdict.status = "DUPLICATE" <=> listed \/ repeatedInternally
                         /\ verdict.status # "DUPLICATE" => JoinSays(t, verdict)
                         /\ t \in I /\ ~listed => JoinSays(t, X!Verdict(t, {t}, E))
    BY DEF JoinIsExactOnUniqueKeys
  <2>2. t.transaction_id \in SQL!RepeatedIds(E) <=> \E u, v \in SameId(t, E) : u # v
    BY <2>1, ListedIsRepeated
  <2>3. (\E u, v \in I : u # v /\ {u.transaction_id, v.transaction_id} = {t.transaction_id})
          <=> \E u, v \in SameId(t, I) : u # v
    BY DEF SameId
  <2>4. X!Ambiguous(t, I, E) <=> \/ \E u, v \in SameId(t, I) : u # v
                                 \/ \E u, v \in SameId(t, E) : u # v
    BY PeersById DEF X!Ambiguous
  <2>5. X!Verdict(t, I, E).status = "DUPLICATE" <=> X!Ambiguous(t, I, E)
    <3>1. CASE X!Ambiguous(t, I, E)
      BY <3>1 DEF X!Verdict, X!Duplicate
    <3>2. CASE ~X!Ambiguous(t, I, E)
      <4>1. \A i, e : X!ClassifyMatch(i, e).status # "DUPLICATE"
        BY DEF X!ClassifyMatch, X!StatusOf
      <4>2. /\ X!MissingExternal(t).status # "DUPLICATE"
            /\ X!MissingInternal(t).status # "DUPLICATE"
        BY DEF X!MissingExternal, X!MissingInternal
      <4> QED BY <3>2, <4>1, <4>2 DEF X!Verdict
    <3> QED BY <3>1, <3>2
  <2>6. X!Verdict(t, I, E).status # "DUPLICATE" => JoinSays(t, X!Verdict(t, I, E))
    BY <2>1, <2>5, JoinSaysVerdict
  <2>7. t \in I /\ t.transaction_id \notin SQL!RepeatedIds(E)
          => JoinSays(t, X!Verdict(t, {t}, E))
    <3> SUFFICES ASSUME t \in I, t.transaction_id \notin SQL!RepeatedIds(E)
                 PROVE  JoinSays(t, X!Verdict(t, {t}, E))
      OBVIOUS
    <3>1. ~X!Ambiguous(t, {t}, E)
      <4>1. X!Ambiguous(t, {t}, E) <=> \/ \E u, v \in SameId(t, {t}) : u # v
                                       \/ \E u, v \in SameId(t, E) : u # v
        BY PeersById DEF X!Ambiguous
      <4>2. \A u, v \in SameId(t, {t}) : u = v
        BY DEF SameId
      <4> QED BY <2>2, <4>1, <4>2
    <3>2. {t} \in SUBSET I /\ t \in {t} \union E /\ t \in {t}
      OBVIOUS
    <3> QED BY <2>1, <3>1, <3>2, JoinSaysVerdict
  <2> QED BY <2>2, <2>3, <2>4, <2>5, <2>6, <2>7
<1>2. IInv => TypeOK
  BY DEF IInv
<1> QED BY <1>1, <1>2, Invariance, OwnSteps, PTL
=============================================================================
